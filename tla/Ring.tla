-------------------------------- MODULE Ring ---------------------------------
(***************************************************************************)
(* The circular list of messages in progress (c:282-318), as the sequence  *)
(* of messages read from msgsOutbound through next.                        *)
(***************************************************************************)
EXTENDS Sequences, SequencesExt

\* msgsOutboundLink: behind the head.
Link(s, m) == IF s = <<>> THEN <<m>> ELSE <<Head(s), m>> \o Tail(s)

\* Slip: the head is unlinked from its neighbours, but stays the head.
UnlinkNotHead(s, m) ==
  IF Contains(s, m) /\ m # Head(s) THEN RemoveAt(s, CHOOSE j \in DOMAIN s : s[j] = m) ELSE s

\* msgsOutboundUnlink: removing the head makes its prev the new head, but a
\* head whose next and prev are the same leaves an empty list: that is true
\* of a list of one, and of a list of two.
Unlink(s, m) ==
  IF ~Contains(s, m)    THEN s
  ELSE IF m # Head(s)   THEN RemoveAt(s, CHOOSE j \in DOMAIN s : s[j] = m)
  ELSE IF Len(s) > 2    THEN <<Last(s)>> \o SubSeq(s, 2, Len(s) - 1)
  ELSE <<>>

\* msgsOutboundDeleteAll unlinks and frees the head until msgsOutbound is NULL:
\* the list gets down to two, of which one is left behind.
Deleted(s) == IF Len(s) < 2 THEN ToSet(s) ELSE ToSet(s) \ {s[2]}
==============================================================================
