--------------------------- MODULE BotNetOpProofs ---------------------------
(***************************************************************************)
(* BotNetOp keeps its flags, counters and timers in step, for any number   *)
(* of bots, any user lists and any settings.                               *)
(*                                                                         *)
(* TypeOK, AskFlagsArePending and FullCounterIsReset are inductive         *)
(* together: the counters are reset only if they are numbers, and a reset  *)
(* that is overtaken by bop_setneed leaves a timer, never a counter,       *)
(* behind.                                                                 *)
(***************************************************************************)
EXTENDS BotNetOp, SequenceTheorems, TLAPS

IInv == TypeOK /\ AskFlagsArePending /\ FullCounterIsReset

-----------------------------------------------------------------------------
(* The mail.                                                               *)

MailOK == mail \in [Pairs -> Seq(Messages)]

LEMMA InitInv == Init => IInv
BY BotNetOpAssumption DEF Init, IInv, TypeOK, AskFlagsArePending, FullCounterIsReset

\* Sending keeps the mail well typed.
LEMMA PutbotMail ==
    ASSUME MailOK, NEW a, NEW to, NEW msg \in Messages, Putbot(a, to, msg)
    PROVE  MailOK'
BY AppendProperties DEF MailOK, Putbot

\* Taking a message out and answering it keeps the mail well typed.
LEMMA NoAnswerMail ==
    ASSUME MailOK, NEW a, NEW b, NEW msg, <<a, b>> \in Pairs, Arrived(a, b, msg), NoAnswer(a, b)
    PROVE  MailOK'
<1>1. mail[<<a, b>>] \in Seq(Messages) /\ mail[<<a, b>>] # <<>>
  BY DEF MailOK, Arrived
<1>2. Tail(mail[<<a, b>>]) \in Seq(Messages)
  BY <1>1, HeadTailProperties
<1> QED BY <1>2 DEF MailOK, NoAnswer

LEMMA AnswerMail ==
    ASSUME MailOK, NEW a \in Bots, NEW b \in Bots, NEW msg, <<a, b>> \in Pairs, Arrived(a, b, msg),
           NEW reply \in Messages, Answer(a, b, reply)
    PROVE  MailOK'
<1>1. mail[<<a, b>>] \in Seq(Messages) /\ mail[<<a, b>>] # <<>> /\ <<b, a>> \in Pairs
  BY DEF MailOK, Arrived, Pairs
<1>2. Tail(mail[<<a, b>>]) \in Seq(Messages) /\ a # b
  BY <1>1, HeadTailProperties DEF Pairs
<1>3. Append(mail[<<b, a>>], reply) \in Seq(Messages)
  BY <1>1, AppendProperties DEF MailOK
<1> QED BY <1>1, <1>2, <1>3 DEF MailOK, Answer

\* bop_reqop only makes a counter exist, and sends.
LEMMA ReqopKeeps ==
    ASSUME IInv, NEW b \in Bots, reqop(b)
    PROVE  /\ MailOK' /\ opreqs' \in [Bots -> Nat \cup {Unset}]
           /\ \A c \in Bots : opreqs'[c] # Unset /\ opreqs'[c] > 0 => opreqs'[c] = opreqs[c]
<1>1. MailOK'
  BY PutbotMail DEF reqop, IInv, TypeOK, MailOK, Messages
<1>2. opreqs' \in [Bots -> Nat \cup {Unset}]
  BY DEF reqop, IInv, TypeOK
<1>3. ASSUME NEW c \in Bots, opreqs'[c] # Unset, opreqs'[c] > 0
      PROVE  opreqs'[c] = opreqs[c]
  BY <1>3 DEF reqop, IInv, TypeOK
<1> QED BY <1>1, <1>2, <1>3

-----------------------------------------------------------------------------
(* The steps.                                                              *)

\* Messages that arrive.
LEMMA DeliverInv ==
    ASSUME IInv, NEW a \in Bots, NEW b \in Bots, <<a, b>> \in Pairs, Deliver(a, b)
    PROVE  IInv'
<1>1. MailOK
  BY DEF IInv, TypeOK, MailOK
<1>2. CASE reqtmr(a, b)
  <2>1. MailOK'
    BY <1>1, <1>2, NoAnswerMail DEF reqtmr
  <2>2. {asktmr', asks'} \subseteq [Bots -> SUBSET Bots] /\ asktmr' = asks'
    <3>1. asktmr \in [Bots -> SUBSET Bots] /\ asks = asktmr
      BY DEF IInv, TypeOK, AskFlagsArePending
    <3>2. \/ UNCHANGED <<asktmr, asks>>
          \/ /\ asktmr' = [asktmr EXCEPT ![b] = @ \cup {a}]
             /\ asks' = [asks EXCEPT ![b] = @ \cup {a}]
      BY <1>2 DEF reqtmr
    <3> QED BY <3>1, <3>2
  <2> QED BY <1>2, <2>1, <2>2
          DEF reqtmr, IInv, TypeOK, MailOK, AskFlagsArePending, FullCounterIsReset, chan
<1>3. CASE doiwantops(a, b)
  <2>1. CASE Wanted(a, b)
    <3>1. MailOK'
      BY <1>1, <1>3, <2>1, AnswerMail DEF doiwantops, Messages
    <3>2. /\ opreqs' = [opreqs EXCEPT ![b] = Incr(@)]
          /\ resets' = IF MaxReq > 0 THEN resets \cup {b} ELSE resets
          /\ UNCHANGED <<on, opped, modes, linked, asktmr, asks, linkreqs, upsets>>
      BY <1>3, <2>1 DEF doiwantops, chan
    <3>3. opreqs \in [Bots -> Nat \cup {Unset}] /\ Incr(opreqs[b]) \in Nat
      BY DEF IInv, TypeOK, Incr
    <3>4. opreqs' \in [Bots -> Nat \cup {Unset}] /\ resets' \subseteq Bots
      BY <3>2, <3>3 DEF IInv, TypeOK
    <3>5. FullCounterIsReset'
      BY <3>2, <3>3 DEF IInv, FullCounterIsReset
    <3> QED BY <3>1, <3>2, <3>4, <3>5 DEF IInv, TypeOK, MailOK, AskFlagsArePending
  <2>2. CASE ~Wanted(a, b)
    <3>1. MailOK'
      BY <1>1, <1>3, <2>2, NoAnswerMail DEF doiwantops
    <3> QED BY <1>3, <2>2, <3>1
            DEF doiwantops, IInv, TypeOK, MailOK, AskFlagsArePending, FullCounterIsReset, chan
  <2> QED BY <2>1, <2>2
<1>4. CASE botwantsops(a, b)
  <2>1. MailOK'
    BY <1>1, <1>4, NoAnswerMail DEF botwantsops
  <2>2. modes' \subseteq Pairs
    BY <1>4 DEF botwantsops, IInv, TypeOK, Pairs
  <2> QED BY <1>4, <2>1, <2>2
          DEF botwantsops, IInv, TypeOK, MailOK, AskFlagsArePending, FullCounterIsReset, timers
<1> QED BY <1>2, <1>3, <1>4 DEF Deliver

\* Timers, and the need for op.
LEMMA TimersInv ==
    ASSUME IInv, NEW b \in Bots,
           need(b) \/ linkreq(b) \/ setneed(b) \/ opreqsreset(b)
    PROVE  IInv'
<1>1. CASE need(b)
  BY <1>1, ReqopKeeps
     DEF need, IInv, TypeOK, MailOK, AskFlagsArePending, FullCounterIsReset, chan, timers
<1>2. CASE linkreq(b)
  <2>1. /\ MailOK' /\ opreqs' \in [Bots -> Nat \cup {Unset}]
        /\ \A c \in Bots : opreqs'[c] # Unset /\ opreqs'[c] > 0 => opreqs'[c] = opreqs[c]
    BY <1>2, ReqopKeeps DEF linkreq, IInv, TypeOK, MailOK
  <2> QED BY <1>2, <2>1
          DEF linkreq, IInv, TypeOK, MailOK, AskFlagsArePending, FullCounterIsReset, chan
<1>3. CASE setneed(b)
  BY <1>3 DEF setneed, IInv, TypeOK, AskFlagsArePending, FullCounterIsReset, chan, timers, Upset
<1>4. CASE opreqsreset(b)
  BY <1>4 DEF opreqsreset, IInv, TypeOK, AskFlagsArePending, FullCounterIsReset, chan
<1> QED BY <1>1, <1>2, <1>3, <1>4

\* The question to a bot that asked.
LEMMA AskbotInv ==
    ASSUME IInv, NEW a \in Bots, NEW b \in Bots, askbot(b, a)
    PROVE  IInv'
<1>1. MailOK'
  BY PutbotMail DEF askbot, IInv, TypeOK, MailOK, Messages
<1>2. {asktmr', asks'} \subseteq [Bots -> SUBSET Bots] /\ asktmr' = asks'
  BY DEF askbot, IInv, TypeOK, AskFlagsArePending
<1> QED BY <1>1, <1>2
        DEF askbot, IInv, TypeOK, MailOK, AskFlagsArePending, FullCounterIsReset, chan

\* A MODE takes effect.
LEMMA ModeInv ==
    ASSUME IInv, NEW a \in Bots, NEW b \in Bots, Mode(b, a)
    PROVE  IInv'
<1>1. MailOK'
  <2>1. MailOK /\ "reqops" \in Messages
    BY DEF IInv, TypeOK, MailOK, Messages
  <2>2. \A p \in Pairs : Append(mail[p], "reqops") \in Seq(Messages)
    BY <2>1, AppendProperties DEF MailOK
  <2>3. \/ mail' = mail
        \/ mail' = [p \in Pairs |-> IF p[2] = a /\ p[1] \in SeenOpped(a)
                                    THEN Append(mail[p], "reqops") ELSE mail[p]]
    BY DEF Mode
  <2> QED BY <2>1, <2>2, <2>3 DEF MailOK
<1> QED BY <1>1 DEF Mode, IInv, TypeOK, MailOK, AskFlagsArePending, FullCounterIsReset, timers

\* Bots that join and link.
LEMMA JoinInv ==
    ASSUME IInv, NEW a \in Bots, Join(a) \/ Link(a)
    PROVE  IInv'
<1>1. CASE Join(a)
  <2>1. {asktmr', asks'} \subseteq [Bots -> SUBSET Bots] /\ asktmr' = asks'
    BY <1>1 DEF Join, IInv, TypeOK, AskFlagsArePending
  <2> QED BY <1>1, <2>1 DEF Join, IInv, TypeOK, AskFlagsArePending, FullCounterIsReset
<1>2. CASE Link(a)
  BY <1>2 DEF Link, IInv, TypeOK, AskFlagsArePending, FullCounterIsReset, chan
<1> QED BY <1>1, <1>2

\* Bots that lose something.
LEMMA LossInv ==
    ASSUME IInv, NEW a \in Bots, Quit(a) \/ Deop(a) \/ Unlink(a) \/ Crash(a)
    PROVE  IInv'
<1>1. MailLost(a) \in [Pairs -> Seq(Messages)]
  BY EmptySeq DEF MailLost, IInv, TypeOK
<1>2. CASE Quit(a)
  BY <1>2 DEF Quit, Gone, Upset, IInv, TypeOK, AskFlagsArePending, FullCounterIsReset, timers
<1>3. CASE Deop(a)
  BY <1>3 DEF Deop, Upset, IInv, TypeOK, AskFlagsArePending, FullCounterIsReset, timers
<1>4. CASE Unlink(a)
  BY <1>1, <1>4 DEF Unlink, Upset, IInv, TypeOK, AskFlagsArePending, FullCounterIsReset, chan, timers
<1>5. CASE Crash(a)
  <2>1. {asktmr', asks'} \subseteq [Bots -> SUBSET Bots] /\ asktmr' = asks'
    BY <1>5 DEF Crash, IInv, TypeOK, AskFlagsArePending
  <2>2. opreqs' \in [Bots -> Nat \cup {Unset}] /\ FullCounterIsReset'
    BY <1>5 DEF Crash, IInv, TypeOK, FullCounterIsReset
  <2> QED BY <1>1, <1>5, <2>1, <2>2 DEF Crash, Gone, Upset, IInv, TypeOK, AskFlagsArePending
<1> QED BY <1>2, <1>3, <1>4, <1>5

\* Every step keeps the invariant.
LEMMA NextInv == IInv /\ [Next]_vars => IInv'
<1> SUFFICES ASSUME IInv, [Next]_vars PROVE IInv'
  OBVIOUS
<1>1. ASSUME NEW p \in Pairs, Deliver(p[1], p[2]) \/ askbot(p[1], p[2]) \/ Mode(p[1], p[2])
      PROVE  IInv'
  <2>1. p[1] \in Bots /\ p[2] \in Bots /\ <<p[1], p[2]>> \in Pairs
    BY DEF Pairs
  <2> QED BY <1>1, <2>1, DeliverInv, AskbotInv, ModeInv
<1>2. ASSUME NEW b \in Bots, need(b) \/ linkreq(b) \/ setneed(b) \/ opreqsreset(b)
      PROVE  IInv'
  BY <1>2, TimersInv
<1>3. ASSUME NEW a \in Bots, Join(a) \/ Link(a)
      PROVE  IInv'
  BY <1>3, JoinInv
<1>4. ASSUME NEW a \in Shaky, Quit(a) \/ Deop(a) \/ Unlink(a) \/ Crash(a)
      PROVE  IInv'
  BY <1>4, LossInv, BotNetOpAssumption DEF BotNetOpAssumption
<1>5. CASE UNCHANGED vars
  BY <1>5 DEF vars, chan, timers, IInv, TypeOK, AskFlagsArePending, FullCounterIsReset
<1> QED BY <1>1, <1>2, <1>3, <1>4, <1>5 DEF Next

\* The invariant holds throughout.
LEMMA Invariance == Spec => []IInv
BY InitInv, NextInv, PTL DEF Spec

\* The state is well typed: opped bots are on the channel, counters are numbers.
THEOREM TypeCorrect == Spec => []TypeOK
BY Invariance, PTL DEF IInv

\* Of any number of bots, none keeps another from being asked by a flag whose timer is
\* gone (bop_asktmr, botnetop.tcl:77-92).
THEOREM FlagsHaveTimers == Spec => []AskFlagsArePending
BY Invariance, PTL DEF IInv

\* A counter of requests that is not zero has a timer that resets it, whatever bop_setneed
\* and the joins do to the counter in between (botnetop.tcl:106-110).
THEOREM CountersAreReset == Spec => []FullCounterIsReset
BY Invariance, PTL DEF IInv
=============================================================================
