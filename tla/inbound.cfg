\* Two messages arrive interleaved, each fragment up to twice and in any
\* order; the process is killed at most twice, anywhere.
CONSTANTS
  a = a  b = b  NoMsg = NoMsg
  Msgs = {a, b}
  NumParts <- ThreeAndTwo
  ZeroFirst <- Never
  MaxCopies = 2
  MaxRestarts = 2
SPECIFICATION Spec
INVARIANTS
  TypeOK Whole Once FinishedIsShown CountExact Recombined NoAbort Locked
PROPERTY Reassembles
CHECK_DEADLOCK FALSE
