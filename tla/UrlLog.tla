------------------------------- MODULE UrlLog -------------------------------
(***************************************************************************)
(* urllog.tcl: every URL said in a channel is checked, fetched and stored  *)
(* in a database, and the channel is told what came of it.                 *)
(*                                                                         *)
(* The handler of a line goes over its words in a loop.  ::http::geturl    *)
(* waits for its answer in vwait, and there the bot's main loop goes on: a *)
(* new line can start another activation of the handler, which must finish *)
(* before the waiting one can.  The activations form a stack; the database *)
(* is shared by all of them.                                               *)
(*                                                                         *)
(* External: the web servers and the http package (an answer, an error or  *)
(* a timeout after three seconds), and the SQLite library, whose INSERT    *)
(* can fail while another process has the database locked.                 *)
(***************************************************************************)
EXTENDS Naturals, Sequences

CONSTANTS
    Urls,       \* URLs in the form they are stored in
    Lines,      \* lines of a channel: sequences of words
    FirstId,    \* id of the first row added
    MaxLines    \* bound for model checking

\* What the checks on the text of a word can find wrong with it.
Faults == {"none", "local address", "short url", "bad port", "protocol", "bad tld"}
\* A word that looks like a URL: what it is stored as, what the text checks find, whether
\* its protocol is one that is fetched, and the URL its page names instead of it.
Word == [url : Urls, fault : Faults, fetched : BOOLEAN, page : Urls]

ASSUME UrlLogAssumption ==
    /\ Lines \subseteq Seq(Word)
    /\ {FirstId, MaxLines} \subseteq Nat

VARIABLES
    db,         \* rows of table urls in the order of their ids: [url, by]
    stack,      \* activations of urllog_checkmsg, the last one innermost
    said,       \* the lines said so far
    outcomes    \* history variable: <<line, position, outcome>> of each URL

vars == <<db, stack, said, outcomes>>

Answers == {"ok", "http code", "timeout", "error"}
Outcomes == {"added", "known", "no page", "not stored"}
\* An activation: its line, the word it is at, and whether it runs, waits, or has the
\* answer it waits for.
Activation == [line : Nat, at : Nat \ {0}, mode : {"run", "wait"} \cup Answers]

Top == stack[Len(stack)]
Running == stack # <<>> /\ Top.mode = "run"
\* The word the innermost activation is at, and its place.
Here == <<Top.line, Top.at>>
This == said[Top.line][Top.at]
Settle(outcome) == outcomes' = outcomes \cup {<<Top.line, Top.at, outcome>>}
\* The innermost activation goes on with its next word.
GoOn ==
    stack' = [stack EXCEPT ![Len(stack)] =
                [line |-> Top.line, at |-> Top.at + 1, mode |-> "run"]]

-----------------------------------------------------------------------------
(* The database.                                                           *)

\* urllog_exists
Exists(url) == \E i \in DOMAIN db : db[i].url = url

\* Mutant of AddUrl: a failed INSERT is confirmed like the others.
AddUrlConfirmed(url) ==
    \/ /\ db' = Append(db, [url |-> url, by |-> Here])
       /\ Settle("added")
    \/ UNCHANGED db /\ Settle("added")

\* urllog_addurl: the INSERT can fail, and then only the bot's log tells.
AddUrl(url) ==
    \/ /\ db' = Append(db, [url |-> url, by |-> Here])
       /\ Settle("added")
    \/ UNCHANGED db /\ Settle("not stored")

RowId(i) == FirstId + i - 1

Base == 62
\* Past the last character "string index" gives the empty string.
Digit(d) == IF d < Base THEN d ELSE Base

\* Mutant of GetShort: the last digit is the middle one again.
GetShortDoubled(id) ==
    LET low == id % (Base * Base)
    IN  <<Digit(id \div (Base * Base)), Digit(low \div Base), Digit(low \div Base)>>

\* urllog_get_short: three digits, the code under which the web server finds the row.
GetShort(id) ==
    LET low == id % (Base * Base)
    IN  <<Digit(id \div (Base * Base)), Digit(low \div Base), Digit(low % Base)>>

-----------------------------------------------------------------------------
(* urllog_checkmsg and urllog_checkurl.                                    *)

\* A line with a dot in it is said while no handler runs.
Say(line) ==
    /\ ~Running /\ Len(said) < MaxLines
    /\ said' = Append(said, line)
    /\ stack' = Append(stack, [line |-> Len(said) + 1, at |-> 1, mode |-> "run"])
    /\ UNCHANGED <<db, outcomes>>

\* The loop over the words of the line is over.
EndOfLine ==
    /\ Running /\ Top.at > Len(said[Top.line])
    /\ stack' = SubSeq(stack, 1, Len(stack) - 1)
    /\ UNCHANGED <<db, said, outcomes>>

AtWord == Running /\ Top.at <= Len(said[Top.line])

IgnoreWord ==
    /\ AtWord /\ This.fault # "none"
    /\ GoOn
    /\ UNCHANGED <<db, said, outcomes>>

KnownWord ==
    /\ AtWord /\ This.fault = "none" /\ Exists(This.url)
    /\ Settle("known") /\ GoOn
    /\ UNCHANGED <<db, said>>

\* ftp, or https without its package: stored without a look.
AddUnchecked ==
    /\ AtWord /\ This.fault = "none" /\ ~Exists(This.url) /\ ~This.fetched
    /\ AddUrl(This.url) /\ GoOn
    /\ UNCHANGED said

\* geturl fails at once, or its vwait starts.
GetUrl ==
    /\ AtWord /\ This.fault = "none" /\ ~Exists(This.url) /\ This.fetched
    /\ \/ Settle("no page") /\ GoOn
       \/ /\ stack' = [stack EXCEPT ![Len(stack)].mode = "wait"]
          /\ UNCHANGED outcomes
    /\ UNCHANGED <<db, said>>

\* The http package has an answer for one of the waiting activations, or gave up.
Arrive(i, answer) ==
    /\ ~Running /\ i \in DOMAIN stack /\ stack[i].mode = "wait"
    /\ stack' = [stack EXCEPT ![i].mode = answer]
    /\ UNCHANGED <<db, said, outcomes>>

\* Mutants of GotPage: the second look into the database is left out; it looks for the
\* URL that was said instead of the one to be stored; a timeout is left without an
\* answer to the channel.
GotPageUnchecked ==
    /\ stack # <<>> /\ Top.mode \in Answers
    /\ IF Top.mode # "ok"
       THEN Settle("no page") /\ UNCHANGED db
       ELSE \E url \in {This.url, This.page} : AddUrl(url)
    /\ GoOn
    /\ UNCHANGED said
GotPageOtherUrl ==
    /\ stack # <<>> /\ Top.mode \in Answers
    /\ IF Top.mode # "ok"
       THEN Settle("no page") /\ UNCHANGED db
       ELSE \E url \in {This.url, This.page} :
              IF Exists(This.url) THEN Settle("known") /\ UNCHANGED db ELSE AddUrl(url)
    /\ GoOn
    /\ UNCHANGED said
GotPageSilent ==
    /\ stack # <<>> /\ Top.mode \in Answers
    /\ CASE Top.mode = "timeout" -> UNCHANGED <<outcomes, db>>
         [] Top.mode \in {"http code", "error"} -> Settle("no page") /\ UNCHANGED db
         [] Top.mode = "ok" -> \E url \in {This.url, This.page} :
              IF Exists(url) THEN Settle("known") /\ UNCHANGED db ELSE AddUrl(url)
    /\ GoOn
    /\ UNCHANGED said

\* The innermost vwait returns.  A page can name another URL (the "mangled" links), and
\* what is to be stored is looked up a second time.
GotPage ==
    /\ stack # <<>> /\ Top.mode \in Answers
    /\ IF Top.mode # "ok"
       THEN Settle("no page") /\ UNCHANGED db
       ELSE \E url \in {This.url, This.page} :
              IF Exists(url) THEN Settle("known") /\ UNCHANGED db ELSE AddUrl(url)
    /\ GoOn
    /\ UNCHANGED said

-----------------------------------------------------------------------------
Init ==
    /\ db = <<>> /\ stack = <<>> /\ said = <<>>
    /\ outcomes = {}

Checkurl ==
    EndOfLine \/ IgnoreWord \/ KnownWord \/ AddUnchecked \/ GetUrl \/ GotPage

Next ==
    \/ \E line \in Lines : Say(line)
    \/ Checkurl
    \/ \E i \in DOMAIN stack, answer \in Answers : Arrive(i, answer)

Spec == Init /\ [][Next]_vars

\* A handler runs on, a vwait whose answer is there returns, and each fetch has an
\* answer or its three seconds pass.
FairSpec ==
    /\ Spec
    /\ WF_vars(Checkurl)
    /\ \A i \in 1 .. MaxLines : WF_vars(\E answer \in Answers : Arrive(i, answer))

-----------------------------------------------------------------------------
(* Correctness.                                                            *)

\* However the fetches of one URL overlap, the table holds it once: what a waiting
\* activation saw missing may have been stored since (urllog.tcl:577).
UrlOnce == \A i, j \in DOMAIN db : db[i].url = db[j].url => i = j

\* The channel is told "added" for exactly the URLs that are in the table, with the one
\* who said it as the owner of the row, and no URL is answered twice.
ConfirmedIsStored ==
    /\ \A i \in DOMAIN db : <<db[i].by[1], db[i].by[2], "added">> \in outcomes
    /\ \A o \in outcomes : o[3] = "added" => \E i \in DOMAIN db : db[i].by = <<o[1], o[2]>>
    /\ \A o, p \in outcomes : o[1] = p[1] /\ o[2] = p[2] => o = p

\* No two rows share a short code, as long as the ids have no more than three digits.
ShortCodesDiffer ==
    \A i, j \in DOMAIN db :
        /\ RowId(i) < Base * Base * Base /\ RowId(j) < Base * Base * Base
        /\ GetShort(RowId(i)) = GetShort(RowId(j))
        => i = j

\* The overlapping activations behave as if each URL were looked up and stored in one
\* step, at the moment its outcome is told: "known" only of what the table holds then,
\* "added" only of what it lacked, nothing ever taken out.
Table == INSTANCE UrlTable WITH table <- {db[i].url : i \in DOMAIN db}
OneStepEach == Table!Spec

\* Each good URL that is said has an outcome in the end, when lines stop coming: the
\* activations below it in the stack wait for those above, none waits for ever.
EveryUrlSettled ==
    \A n \in 1 .. MaxLines : \A k \in 1 .. 2 :
        (n \in DOMAIN said /\ k \in DOMAIN said[n] /\ said[n][k].fault = "none")
            ~> \E outcome \in Outcomes : <<n, k, outcome>> \in outcomes
=============================================================================
