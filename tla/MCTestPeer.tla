----------------------------- MODULE MCTestPeer -------------------------------
(* Small conversations of two test peers.                                    *)
EXTENDS TestPeer

CONSTANTS c, l

\* A short message behind a long one, and a message larger than the window.
Mixed == [p \in {c, l} |-> IF p = c THEN <<2, 1, 2>> ELSE <<1, 3>>]
===============================================================================
