------------------------------ MODULE BotNetOp ------------------------------
(***************************************************************************)
(* netbots/botnetop.tcl: linked bots give each other op on a channel.      *)
(*                                                                         *)
(* A bot without op says "reqops" over the botnet to those that have it.   *)
(* Such a bot waits a little, asks "doyawantops", is answered              *)
(* "yesiwantops", and sets +o.  Each step looks at the channel again,      *)
(* because all of it may have changed since the last one.                  *)
(*                                                                         *)
(* One channel.  Messages between two bots arrive in order; those under    *)
(* way are lost with the link.  Timers fire at any time after they were    *)
(* set.  All bots see the channel as the server does, and their own MODEs  *)
(* take effect when the server comes to them.  A bot's nick is its own.    *)
(*                                                                         *)
(* External: the IRC server, the botnet, eggdrop's "need" events.          *)
(***************************************************************************)
EXTENDS Integers, Sequences

CONSTANTS
    Bots,
    Trusts,     \* bot |-> the bots with flags b and o in its user list
    FirstOps,   \* the bots on the channel, opped, when the script is loaded
    Shaky,      \* the bots that can lose op, channel, links or life
    MaxReq,     \* setting bop_maxreq; 0 is no limit
    LinkOp, ModeOp, OSync,   \* settings bop_linkop, bop_modeop, bop_osync
    Unset,      \* a Tcl variable that does not exist
    MaxMail, MaxUpsets       \* bounds for model checking

ASSUME BotNetOpAssumption ==
    /\ Trusts \in [Bots -> SUBSET Bots]
    /\ FirstOps \subseteq Bots /\ Shaky \subseteq Bots
    /\ {MaxReq, MaxMail, MaxUpsets} \subseteq Nat
    /\ {LinkOp, ModeOp, OSync} \subseteq BOOLEAN
    /\ Unset \notin Nat

VARIABLES
    on, opped,  \* bots on the channel, and those opped there
    linked,     \* bots on the botnet
    mail,       \* <<from, to>> |-> messages under way
    asktmr,     \* bot |-> bots it has bop_asktmr set for
    asks,       \* bot |-> bots it has a pending bop_askbot timer for
    opreqs,     \* bot |-> bop_opreqs
    resets,     \* bots with a pending bop_opreqsreset timer
    linkreqs,   \* bots with a pending bop_linkreq timer
    modes,      \* <<giver, bot>>: MODE +o the server has not come to
    upsets      \* number of rare events so far

chan   == <<on, opped, modes>>
timers == <<asktmr, asks, resets, linkreqs>>
vars == <<chan, linked, mail, timers, opreqs, upsets>>

Messages == {"reqops", "doyawantops", "yesiwantops"}
Pairs == {p \in Bots \X Bots : p[1] # p[2]}

TypeOK ==
    /\ on \subseteq Bots /\ opped \subseteq on /\ linked \subseteq Bots
    /\ mail \in [Pairs -> Seq(Messages)]
    /\ {asktmr, asks} \subseteq [Bots -> SUBSET Bots]
    /\ opreqs \in [Bots -> Nat \cup {Unset}]
    /\ resets \subseteq Bots /\ linkreqs \subseteq Bots
    /\ modes \subseteq Pairs
    /\ upsets \in Nat

-----------------------------------------------------------------------------
(* The botnet.                                                             *)

islinked(a, b) == {a, b} \subseteq linked

\* putbot from bot a to each bot of a set.
Putbot(a, to, msg) ==
    /\ \A b \in to : Len(mail[<<a, b>>]) < MaxMail
    /\ mail' = [p \in Pairs |-> IF p[1] = a /\ p[2] \in to THEN Append(mail[p], msg) ELSE mail[p]]

\* The oldest message from a is taken from b's mail, and b answers it.
Answer(a, b, reply) == mail' = [mail EXCEPT ![<<a, b>>] = Tail(@), ![<<b, a>>] = Append(@, reply)]
NoAnswer(a, b) == mail' = [mail EXCEPT ![<<a, b>>] = Tail(@)]
Arrived(a, b, msg) == mail[<<a, b>>] # <<>> /\ Head(mail[<<a, b>>]) = msg

-----------------------------------------------------------------------------
(* Asking for op.                                                          *)

\* Those bop_reqop asks: opped on the channel, with flag o, linked.
Givers(b) ==
    IF b \in on THEN {a \in (opped \cap Trusts[b]) \ {b} : islinked(a, b)} ELSE {}

\* Mutant of reqop: a bot that has not joined since the load does not set up its counter.
reqopUnset(b) ==
    /\ UNCHANGED opreqs
    /\ Putbot(b, Givers(b), "reqops")

\* bop_reqop; bop_setneed makes the counters exist.
reqop(b) ==
    /\ opreqs' = IF opreqs[b] = Unset THEN [opreqs EXCEPT ![b] = 0] ELSE opreqs
    /\ Putbot(b, Givers(b), "reqops")

\* eggdrop's need bind, again and again while the bot has no op.
need(b) ==
    /\ b \in on \ opped
    /\ reqop(b)
    /\ UNCHANGED <<chan, linked, timers, upsets>>

\* bop_linkreq: some time after a link.
linkreq(b) ==
    /\ b \in linkreqs /\ linkreqs' = linkreqs \ {b}
    /\ IF b \notin opped THEN reqop(b) ELSE UNCHANGED <<opreqs, mail>>
    /\ UNCHANGED <<chan, linked, asktmr, asks, resets, upsets>>

\* bop_opreqsreset
opreqsreset(b) ==
    /\ b \in resets /\ resets' = resets \ {b}
    /\ opreqs' = [opreqs EXCEPT ![b] = 0]
    /\ UNCHANGED <<chan, linked, mail, asktmr, asks, linkreqs, upsets>>

-----------------------------------------------------------------------------
(* Giving op.                                                              *)

\* bop_reqtmr: one pending question for each bot that asked.
reqtmr(a, b) ==
    /\ Arrived(a, b, "reqops") /\ NoAnswer(a, b)
    /\ IF a \in Trusts[b] /\ a \notin asktmr[b]
       THEN /\ asktmr' = [asktmr EXCEPT ![b] = @ \cup {a}]
            /\ asks' = [asks EXCEPT ![b] = @ \cup {a}]
       ELSE UNCHANGED <<asktmr, asks>>
    /\ UNCHANGED <<chan, linked, resets, linkreqs, opreqs, upsets>>

\* Mutant of askbot: the early returns come before the flag is taken back.
askbotFlagLeft(b, a) ==
    /\ a \in asks[b] /\ asks' = [asks EXCEPT ![b] = @ \ {a}]
    /\ IF b \in opped /\ islinked(a, b)
       THEN /\ asktmr' = [asktmr EXCEPT ![b] = @ \ {a}]
            /\ Putbot(b, {a}, "doyawantops")
       ELSE UNCHANGED <<asktmr, mail>>
    /\ UNCHANGED <<chan, linked, resets, linkreqs, opreqs, upsets>>

\* bop_askbot
askbot(b, a) ==
    /\ a \in asks[b] /\ asks' = [asks EXCEPT ![b] = @ \ {a}]
    /\ asktmr' = [asktmr EXCEPT ![b] = @ \ {a}]
    /\ IF b \in opped /\ islinked(a, b) THEN Putbot(b, {a}, "doyawantops") ELSE UNCHANGED mail
    /\ UNCHANGED <<chan, linked, resets, linkreqs, opreqs, upsets>>

\* What bot b requires of an offer of bot a, by the channel as it is now.
Wanted(a, b) ==
    /\ b \in on \ opped /\ a \in opped /\ a \in Trusts[b]
    /\ MaxReq > 0 => opreqs[b] # Unset /\ opreqs[b] < MaxReq
    /\ islinked(a, b)

\* Tcl's incr makes a variable that does not exist.
Incr(n) == IF n = Unset THEN 1 ELSE n + 1

\* Mutant of doiwantops: the old timer is killed after the new one is set.
doiwantopsKilled(a, b) ==
    /\ Arrived(a, b, "doyawantops")
    /\ IF Wanted(a, b)
       THEN /\ Answer(a, b, "yesiwantops")
            /\ opreqs' = [opreqs EXCEPT ![b] = Incr(@)]
            /\ resets' = IF MaxReq > 0 THEN resets \ {b} ELSE resets
       ELSE NoAnswer(a, b) /\ UNCHANGED <<opreqs, resets>>
    /\ UNCHANGED <<chan, linked, asktmr, asks, linkreqs, upsets>>

\* bop_doiwantops.  Before bop_setneed has run the counter does not exist, and comparing
\* it with the limit ends the handler with an error.
doiwantops(a, b) ==
    /\ Arrived(a, b, "doyawantops")
    /\ IF Wanted(a, b)
       THEN /\ Answer(a, b, "yesiwantops")
            /\ opreqs' = [opreqs EXCEPT ![b] = Incr(@)]
            /\ resets' = IF MaxReq > 0 THEN resets \cup {b} ELSE resets
       ELSE NoAnswer(a, b) /\ UNCHANGED <<opreqs, resets>>
    /\ UNCHANGED <<chan, linked, asktmr, asks, linkreqs, upsets>>

\* bop_botwantsops
botwantsops(a, b) ==
    /\ Arrived(a, b, "yesiwantops") /\ NoAnswer(a, b)
    /\ modes' = IF b \in opped /\ a \in on /\ a \in Trusts[b] /\ (OSync \/ a \notin opped)
                THEN modes \cup {<<b, a>>} ELSE modes
    /\ UNCHANGED <<on, opped, linked, timers, opreqs, upsets>>

-----------------------------------------------------------------------------
(* The IRC server and the botnet.                                          *)

\* bop_modeop, if it is set: a bot without op asks the one that got it.
SeenOpped(a) == {b \in on \ (opped \cup {a}) : ModeOp /\ a \in Trusts[b] /\ islinked(a, b)}

\* A MODE +o is refused if its giver has lost its op or the bot has left.
Mode(b, a) ==
    /\ <<b, a>> \in modes /\ modes' = modes \ {<<b, a>>}
    /\ IF b \in opped /\ a \in on \ opped
       THEN /\ opped' = opped \cup {a}
            /\ \A c \in SeenOpped(a) : Len(mail[<<c, a>>]) < MaxMail
            /\ mail' = [p \in Pairs |-> IF p[2] = a /\ p[1] \in SeenOpped(a)
                                        THEN Append(mail[p], "reqops") ELSE mail[p]]
       ELSE UNCHANGED <<opped, mail>>
    /\ UNCHANGED <<on, linked, timers, opreqs, upsets>>

Upset == upsets < MaxUpsets /\ upsets' = upsets + 1

\* bop_setneed, every five minutes by bop_settimer: the timers stay.
setneed(b) ==
    /\ opreqs' = [opreqs EXCEPT ![b] = 0] /\ Upset
    /\ UNCHANGED <<chan, linked, mail, timers>>

\* A bot joins: bop_jointmr runs in it and in all that see it.
Join(a) ==
    /\ a \notin on /\ on' = on \cup {a}
    /\ opreqs' = [opreqs EXCEPT ![a] = 0]
    /\ LET new(b) == IF b \in on /\ a \in Trusts[b] THEN {a} \ asktmr[b] ELSE {}
       IN  /\ asktmr' = [b \in Bots |-> asktmr[b] \cup new(b)]
           /\ asks' = [b \in Bots |-> asks[b] \cup new(b)]
    /\ UNCHANGED <<opped, modes, linked, mail, resets, linkreqs, upsets>>

Gone(a) == on' = on \ {a} /\ opped' = opped \ {a} /\ modes' = {m \in modes : m[1] # a}

\* A bot loses its connection to the server and keeps its links.
Quit(a) ==
    /\ a \in on /\ Gone(a) /\ Upset
    /\ UNCHANGED <<linked, mail, timers, opreqs>>

Deop(a) ==
    /\ a \in opped /\ opped' = opped \ {a} /\ Upset
    /\ UNCHANGED <<on, modes, linked, mail, timers, opreqs>>

\* bop_linkop: in the bot that links, and in the bot it links to.
Link(a) ==
    /\ a \notin linked /\ linked' = linked \cup {a}
    /\ IF LinkOp /\ linked # {}
       THEN \E hub \in linked : linkreqs' = linkreqs \cup {a, hub}
       ELSE UNCHANGED linkreqs
    /\ UNCHANGED <<chan, mail, asktmr, asks, resets, opreqs, upsets>>

MailLost(a) == [p \in Pairs |-> IF a \in {p[1], p[2]} THEN <<>> ELSE mail[p]]

Unlink(a) ==
    /\ a \in linked /\ linked' = linked \ {a} /\ mail' = MailLost(a) /\ Upset
    /\ UNCHANGED <<chan, timers, opreqs>>

\* A bot dies; the next process has no timers and no variables.
Crash(a) ==
    /\ a \in on \cup linked /\ Gone(a) /\ Upset
    /\ linked' = linked \ {a} /\ mail' = MailLost(a)
    /\ asktmr' = [asktmr EXCEPT ![a] = {}] /\ asks' = [asks EXCEPT ![a] = {}]
    /\ resets' = resets \ {a} /\ linkreqs' = linkreqs \ {a}
    /\ opreqs' = [opreqs EXCEPT ![a] = Unset]

-----------------------------------------------------------------------------
\* The script is loaded while some of the bots are on the channel.
Init ==
    /\ on = FirstOps /\ opped = FirstOps
    /\ linked = Bots /\ mail = [p \in Pairs |-> <<>>]
    /\ asktmr = [b \in Bots |-> {}] /\ asks = [b \in Bots |-> {}]
    /\ opreqs = [b \in Bots |-> Unset] /\ resets = {} /\ linkreqs = {}
    /\ modes = {} /\ upsets = 0

Deliver(a, b) == reqtmr(a, b) \/ doiwantops(a, b) \/ botwantsops(a, b)

Next ==
    \/ \E p \in Pairs : Deliver(p[1], p[2]) \/ askbot(p[1], p[2]) \/ Mode(p[1], p[2])
    \/ \E b \in Bots : need(b) \/ linkreq(b) \/ setneed(b) \/ opreqsreset(b)
    \/ \E a \in Bots : Join(a) \/ Link(a)
    \/ \E a \in Shaky : Quit(a) \/ Deop(a) \/ Unlink(a) \/ Crash(a)

Spec == Init /\ [][Next]_vars

\* Messages arrive, timers fire, the server answers, and eggdrop raises the need for op
\* again as long as there is one.
FairSpec ==
    /\ Spec
    /\ \A p \in Pairs : /\ WF_vars(Deliver(p[1], p[2])) /\ WF_vars(askbot(p[1], p[2]))
                        /\ WF_vars(Mode(p[1], p[2]))
    /\ \A b \in Bots : WF_vars(need(b)) /\ WF_vars(opreqsreset(b))

-----------------------------------------------------------------------------
(* Correctness.                                                            *)

\* A bop_asktmr flag, which keeps a second timer from being set, never outlives its
\* timer: a bot that lost its op or its link before the timer fired is asked again.
AskFlagsArePending == asktmr = asks

\* The counter of requests that reach the limit is reset: a bot whose requests came to
\* nothing is not left unable to answer an offer.
FullCounterIsReset ==
    \A b \in Bots : opreqs[b] # Unset /\ opreqs[b] > 0 /\ MaxReq > 0 => b \in resets

\* The bots that could op bot b now.
Helpers(b) == {a \in Givers(b) : b \in Trusts[a]}

\* A bot that needs op while a linked bot of the channel has it and trusts it gets it in
\* the end, unless it is left without such a bot (or leaves the channel or the botnet).
NeedyGetOps == \A b \in Bots : (b \notin opped /\ Helpers(b) # {}) ~> (b \in opped \/ Helpers(b) = {})
=============================================================================
