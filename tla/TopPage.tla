------------------------------ MODULE TopPage ------------------------------
(***************************************************************************)
(* toptodpub of toptod.tcl: one query over the lists of module TopTod.     *)
(*                                                                         *)
(* The handler sorts the counts, then walks them with three counters: le,  *)
(* the rank printed next, skipcount, the entries of the channel still to   *)
(* be skipped, and pippeli, the place in the sorted list.  Each pass of    *)
(* the loop is a step here, so that the walk can be compared with the      *)
(* ranking of TopRank; the handler runs to its end without interruption.   *)
(***************************************************************************)
EXTENDS TopRank

CONSTANTS
    Lists,      \* inputs: records [nl, wc] of aligned lists
    Askers,     \* nicks that may ask
    Chans,      \* channels a query may be about
    Asked,      \* the text of a query, a number (0 when there is none)
    NoPage      \* no page written yet

\* The lists are as counting leaves them (ListsAligned of TopTod): the index in a
\* count is its place, and the nick is at the same place.
ASSUME ListsAssumption ==
    \A l \in Lists : /\ l.wc \in Seq([w : Nat, i : Nat])
                     /\ DOMAIN l.nl = DOMAIN l.wc
                     /\ \A p \in DOMAIN l.wc : l.wc[p].i = p - 1

ASSUME AskedAssumption == Asked \subseteq Int

VARIABLES
    input,      \* the lists and the query: [nl, wc, chan, nick, show, ecount]
    pc,         \* "scan", "write", "done", "failed"
    le, skipcount, pippeli,
    flood,      \* the rows printed so far
    pushed,     \* the targets given to pushmode +v
    page,       \* toptod.html
    notice      \* the NOTICE sent

vars == <<input, pc, le, skipcount, pippeli, flood, pushed, page, notice>>

\* An empty text or a number that is not positive asks for the first page.
ECount(text) == IF text > 0 THEN text ELSE PageSize

sortedlist == Sorted(input.wc)

\* The "show:" form of /msg toptod first asks for +v for the user.
Init ==
    /\ \E l \in Lists, c \in Chans, n \in Askers, s \in BOOLEAN, t \in Asked :
         /\ s => t = 0
         /\ input = [nl |-> l.nl, wc |-> l.wc, chan |-> c, nick |-> n,
                     show |-> s, ecount |-> ECount(t)]
    /\ pc = "scan"
    /\ le = input.ecount - PageSize
    /\ skipcount = le
    /\ pippeli = 0
    /\ flood = <<>>
    /\ pushed = IF input.show THEN {input.nick} ELSE {}
    /\ page = NoPage /\ notice = NoPage

Looping == le < input.ecount /\ pippeli < ScanLimit

\* The entry at hand, when there is one: the index behind the dot leads to its nick.
AtEntry == le >= 0 /\ le < Len(sortedlist) /\ pippeli < Len(sortedlist)
Entry   == sortedlist[pippeli + 1]
OfChan  == ChannelOf(input.nl[Entry.i + 1]) = input.chan

\* An entry of the channel past the skipped ones is printed; pushmode is given the
\* variable nick, which by now holds the "words.index" of the row.
PrintRow ==
    /\ pc = "scan" /\ Looping
    /\ AtEntry /\ OfChan /\ skipcount <= 0
    /\ flood' = Append(flood, [rank  |-> le + 1,
                               nick  |-> NickOf(input.nl[Entry.i + 1]),
                               count |-> Entry])
    /\ pushed' = pushed \cup {Entry}
    /\ le' = le + 1
    /\ skipcount' = skipcount - 1
    /\ pippeli' = pippeli + 1
    /\ UNCHANGED <<input, pc, page, notice>>

\* Mutant of SkipRow: a skipped entry advances the rank as well.
SkipRowRanked ==
    /\ pc = "scan" /\ Looping
    /\ AtEntry /\ OfChan /\ skipcount > 0
    /\ le' = le + 1
    /\ skipcount' = skipcount - 1
    /\ pippeli' = pippeli + 1
    /\ UNCHANGED <<input, pc, flood, pushed, page, notice>>

SkipRow ==
    /\ pc = "scan" /\ Looping
    /\ AtEntry /\ OfChan /\ skipcount > 0
    /\ skipcount' = skipcount - 1
    /\ pippeli' = pippeli + 1
    /\ UNCHANGED <<input, pc, le, flood, pushed, page, notice>>

\* Mutant of PassRow: the place in the list advances only past existing entries.
PassRowInList ==
    /\ pc = "scan" /\ Looping
    /\ ~(AtEntry /\ OfChan)
    /\ pippeli' = IF AtEntry THEN pippeli + 1 ELSE pippeli
    /\ UNCHANGED <<input, pc, le, skipcount, flood, pushed, page, notice>>

PassRow ==
    /\ pc = "scan" /\ Looping
    /\ ~(AtEntry /\ OfChan)
    /\ pippeli' = pippeli + 1
    /\ UNCHANGED <<input, pc, le, skipcount, flood, pushed, page, notice>>

EndScan ==
    /\ pc = "scan" /\ ~Looping
    /\ pc' = "write"
    /\ UNCHANGED <<input, le, skipcount, pippeli, flood, pushed, page, notice>>

\* The page is overwritten and the rows are sent to the asker.  An open that fails
\* raises an error, and nothing is sent.
WritePage ==
    /\ pc = "write"
    /\ \/ pc' = "done" /\ page' = flood
          /\ notice' = [to |-> input.nick, rows |-> flood]
       \/ pc' = "failed" /\ UNCHANGED <<page, notice>>
    /\ UNCHANGED <<input, le, skipcount, pippeli, flood, pushed>>

Next == PrintRow \/ SkipRow \/ PassRow \/ EndScan \/ WritePage

\* One handler runs without interruption.
Spec == Init /\ [][Next]_vars /\ WF_vars(Next)

-----------------------------------------------------------------------------
(* Correctness.                                                            *)

\* The walk with its three counters prints the rows the ranking defines, from the
\* highest rank down and each under its own nick: also with ties, several
\* channels in one list, later pages and lists longer than the scan.
RowsAreRanked ==
    pc = "done" =>
        /\ {page[k] : k \in DOMAIN page} =
             TopRows(input.nl, input.wc, input.chan, input.ecount)
        /\ \A k \in DOMAIN page : page[k].rank = page[1].rank + k - 1

\* Every query ends, however short the list is compared with the page asked for.
QueryEnds == <>(pc \in {"done", "failed"})
=============================================================================
