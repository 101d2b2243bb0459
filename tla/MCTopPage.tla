----------------------------- MODULE MCTopPage -----------------------------
(* All lists of up to four entries in two channels, and one of twelve,     *)
(* where the fractions .1 and .10 tie.                                     *)
EXTENDS TopPage, TLC

CONSTANTS a, b, c, d

MCNicks == <<a, b, c, d>>
Aligned(ws) == [p \in DOMAIN ws |-> Count(ws[p], p - 1)]
Small(n) ==
    {[nl |-> [p \in 1 .. n |-> <<cs[p], MCNicks[p]>>], wc |-> Aligned(ws)] :
        cs \in [1 .. n -> {"#x", "#y"}], ws \in [1 .. n -> 1 .. 2]}
Long(w2) ==
    [nl |-> [p \in 1 .. 12 |-> <<IF p = 4 THEN "#y" ELSE "#x", MCNicks[1 + (p % 4)]>>],
     wc |-> Aligned([p \in 1 .. 12 |-> IF p = w2 THEN 2 ELSE 1])]
MCLists == UNION {Small(n) : n \in 0 .. 4} \cup {Long(2), Long(7), Long(11)}

\* What Sorted defines is what sorting by Before gives.
ASSUME SortedAssumption == \A l \in MCLists : Sorted(l.wc) = SortSeq(l.wc, Before)
=============================================================================
