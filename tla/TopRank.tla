------------------------------ MODULE TopRank ------------------------------
(***************************************************************************)
(* The ranking behind the "top of the day" page of toptod.tcl.             *)
(*                                                                         *)
(* The script keeps two parallel lists: todnicklist holds "chan:nick"      *)
(* keys, todwordcount holds strings "words.index" whose fraction repeats   *)
(* the position of the entry.  toptodpub sorts todwordcount as REAL        *)
(* numbers, so equal word counts are ordered by the decimal fraction the   *)
(* index happens to form ("5.9" before "5.10"), and finds the nick of a    *)
(* sorted entry through that index.                                        *)
(*                                                                         *)
(* Here a key is a pair <<channel, nick>> and a count is a record with the *)
(* words w and the index i (0-based as in Tcl; TLA+ positions are i + 1).  *)
(***************************************************************************)
EXTENDS Integers, Sequences, FiniteSets

CONSTANTS
    PageSize,   \* rows of one page: the 10 of "ecount - 10"
    ScanLimit   \* how many sorted entries one query looks at: the 200 of "pippeli < 200"

ASSUME PageAssumption ==
    /\ PageSize \in Nat \ {0}
    /\ ScanLimit \in Nat \ {0}

\* "words.index" of todwordcount.
Count(w, i) == [w |-> w, i |-> i]

\* The power of ten that turns index i into the fraction .i (up to 1000 entries).
Scale(i) == IF i < 10 THEN 10 ELSE IF i < 100 THEN 100 ELSE 1000

\* The order of "lsort -decreasing -real": by words, then by the fraction the
\* index forms; entries that are equal as reals (5.1 and 5.10) keep list order.
Before(a, b) ==
    LET fa == a.i * Scale(b.i)
        fb == b.i * Scale(a.i)
    IN  \/ a.w > b.w
        \/ a.w = b.w /\ fa > fb
        \/ a.w = b.w /\ fa = fb /\ a.i < b.i

ChannelOf(key) == key[1]
NickOf(key)    == key[2]

\* 1-based place of entry p among all entries, and among those of its channel.
GlobalRank(wc, p) ==
    1 + Cardinality({q \in DOMAIN wc : Before(wc[q], wc[p])})
ChannelRank(nl, wc, p) ==
    1 + Cardinality({q \in DOMAIN wc : /\ ChannelOf(nl[q]) = ChannelOf(nl[p])
                                       /\ Before(wc[q], wc[p])})

\* The list in that order: at place k the entry that k - 1 others come before.
Sorted(wc) == [k \in DOMAIN wc |-> wc[CHOOSE p \in DOMAIN wc : GlobalRank(wc, p) = k]]

\* What one toptodpub query prints for channel c when the last rank asked for
\* is ecount: the rows ranked ecount-PageSize+1 .. ecount of the channel that the
\* scan reaches.  An ecount below PageSize makes the loop counter start negative,
\* where the code never prints and never advances it: nothing is shown.
TopRows(nl, wc, c, ecount) ==
    LET shown == {p \in DOMAIN wc :
                    /\ ecount >= PageSize
                    /\ ChannelOf(nl[p]) = c
                    /\ GlobalRank(wc, p) <= ScanLimit
                    /\ ChannelRank(nl, wc, p) > ecount - PageSize
                    /\ ChannelRank(nl, wc, p) <= ecount}
    IN  {[rank  |-> ChannelRank(nl, wc, p),
          nick  |-> NickOf(nl[p]),
          count |-> wc[p]] : p \in shown}
=============================================================================
