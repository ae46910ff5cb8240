\* Every message of 1300 to 13200 bytes, cut as it is when it is sent, and
\* everything that looks nearly like a fragment.
CONSTANTS
  MaxLength = 1372
  Texts <- AllTexts
  SizesEver <- Sending
  MsgId <- Thirteen
SPECIFICATION Spec
INVARIANTS
  TypeOK Recombinable MarkerFits FragmentFits MarkedIsRefused
CHECK_DEADLOCK FALSE
