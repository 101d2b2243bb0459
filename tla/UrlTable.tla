------------------------------ MODULE UrlTable ------------------------------
(***************************************************************************)
(* What urllog.tcl promises to a channel, without handlers, waits and a    *)
(* stack: each URL of a line is looked up and stored in one step, and has  *)
(* one outcome.  A page may name another URL, which then counts in its     *)
(* place.                                                                  *)
(***************************************************************************)
EXTENDS Naturals, Sequences

CONSTANT Lines  \* lines of a channel: sequences of words [url, page, ...]

VARIABLES
    said,       \* the lines said so far
    table,      \* the URLs stored
    outcomes    \* <<line, position, outcome>> of each URL

vars == <<said, table, outcomes>>

Init == said = <<>> /\ table = {} /\ outcomes = {}

Say(line) == said' = Append(said, line) /\ UNCHANGED <<table, outcomes>>

\* The URL at position k of line n has its first and only outcome.
Settle(n, k, outcome) ==
    /\ \A o \in outcomes : ~(o[1] = n /\ o[2] = k)
    /\ outcomes' = outcomes \cup {<<n, k, outcome>>}

Names(n, k) == {said[n][k].url, said[n][k].page}

Add(n, k) ==
    /\ Settle(n, k, "added")
    /\ \E url \in Names(n, k) : url \notin table /\ table' = table \cup {url}

Know(n, k) ==
    /\ Settle(n, k, "known")
    /\ Names(n, k) \cap table # {}
    /\ UNCHANGED table

Refuse(n, k) ==
    /\ Settle(n, k, "no page") \/ Settle(n, k, "not stored")
    /\ UNCHANGED table

Next ==
    \/ \E line \in Lines : Say(line)
    \/ \E n \in DOMAIN said : \E k \in DOMAIN said[n] :
         (Add(n, k) \/ Know(n, k) \/ Refuse(n, k)) /\ UNCHANGED said

Spec == Init /\ [][Next]_vars
=============================================================================
