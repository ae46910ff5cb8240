------------------------------- MODULE MCSplit -------------------------------
(* Instances of Split for TLC, with the sizes of the real library.           *)
EXTENDS Split

Plain(n) == [head |-> <<>>, length |-> n]

\* Every length from 1300 to 13200, which takes the number of fragments past 9
\* and the length past 9999, and those around which it passes 99.
Plains == {Plain(n) : n \in (1300 .. 13200) \cup (128000 .. 128003)
                            \cup (129590 .. 129593) \cup (130600 .. 130603)}

Thirteen == [i \in 1 .. SzTm |-> Zero + 1]

\* A marker with fields of given sizes, and one byte of data.
Zeros(n) == [i \in 1 .. n |-> Zero]
Marked(a, b, c, d) ==
  MarkerChar \o Thirteen \o <<Bar>> \o Zeros(a) \o <<Bar>> \o Zeros(b) \o <<Bar>>
    \o Zeros(c) \o <<Bar>> \o Zeros(d) \o MarkerChar \o <<Other>>

Markers == {Marked(1, 1, 1, 1), Marked(1, 2, 3, 4), Marked(10, 10, 10, 10),
            Marked(11, 1, 1, 1), Marked(1, 1, 1, 11), Marked(0, 1, 2, 1), Marked(1, 1, 9, 0)}

\* Markers, markers cut off anywhere, and markers with one wrong byte.
Lookalikes ==
  LET Text(h)       == [head |-> h, length |-> Len(h)]
      Cuts(h)       == {SubSeq(h, 1, n) : n \in 0 .. Len(h)}
      Blots(h)      == {[h EXCEPT ![i] = x] : i \in DOMAIN h, x \in {Zero, Bar, Other} \cup ToSet(MarkerChar)}
  IN  {Text(h) : h \in UNION {Cuts(m) \cup Blots(m) : m \in Markers}}

AllTexts == Plains \cup Lookalikes

Sending  == {SizeEver}
==============================================================================
