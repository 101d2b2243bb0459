--------------------------- MODULE SentinelProofs ---------------------------
(***************************************************************************)
(* Two invariants of Sentinel, for all kinds of events, nicks and times.   *)
(*                                                                         *)
(* QueueIsPending is inductive with the types of the counters and of their *)
(* timers.  FloodedEnds holds while the bot is opped: together with that   *)
(* it is inductive.                                                        *)
(***************************************************************************)
EXTENDS Sentinel, SequenceTheorems, TLAPS

QTypes == queue \in [Kinds -> Int] /\ resets \in [Kinds -> Seq(Int)]
QInv == QTypes /\ QueueIsPending

-----------------------------------------------------------------------------
(* The counters.                                                           *)

LEMMA QInit == Init => QInv
<1> SUFFICES ASSUME Init PROVE QInv
  OBVIOUS
<1>1. queue = [kind \in Kinds |-> 0] /\ resets = [kind \in Kinds |-> <<>>]
  BY DEF Init
<1>2. <<>> \in Seq(Int) /\ Len(<<>>) = 0
  BY EmptySeq
<1> QED BY <1>1, <1>2 DEF QInv, QTypes, QueueIsPending

\* An event puts each counter and its timers up together.
LEMMA CountQueue ==
    ASSUME QInv, NEW ks, NEW nick, Count(ks, nick)
    PROVE  QInv'
<1>1. /\ queue' = [kind \in Kinds |-> IF kind \in Counted(ks) THEN queue[kind] + 1 ELSE queue[kind]]
      /\ resets' = [kind \in Kinds |-> IF kind \in Counted(ks) \ {"tx"}
                                       THEN Append(resets[kind], Window) ELSE resets[kind]]
  BY DEF Count
<1>2. Window \in Int
  BY SentinelAssumption DEF SentinelAssumption
<1>3. ASSUME NEW kind \in Kinds
      PROVE  /\ Append(resets[kind], Window) \in Seq(Int)
             /\ Len(Append(resets[kind], Window)) = Len(resets[kind]) + 1
  BY <1>2, AppendProperties DEF QInv, QTypes
<1>4. QTypes'
  BY <1>1, <1>3 DEF QInv, QTypes
<1>5. QueueIsPending'
  <2> SUFFICES ASSUME NEW kind \in Kinds \ {"tx"} PROVE queue'[kind] = Len(resets'[kind])
    BY DEF QueueIsPending
  <2>1. queue[kind] = Len(resets[kind])
    BY DEF QInv, QueueIsPending
  <2> QED BY <1>1, <1>3, <2>1
<1> QED BY <1>4, <1>5 DEF QInv

LEMMA SameQueue ==
    ASSUME QInv, UNCHANGED <<queue, resets>>
    PROVE  QInv'
BY DEF QInv, QTypes, QueueIsPending

LEMMA EventQueue ==
    ASSUME QInv, NEW nick,
           nkflood(nick) \/ (\E ks \in Events : Event(ks, nick)) \/ pfloodk
    PROVE  QInv'
<1>1. CASE nkflood(nick)
  <2>1. Count(<<"nk">>, nick) \/ UNCHANGED <<queue, resets>>
    BY <1>1 DEF nkflood, lists
  <2> QED BY <2>1, CountQueue, SameQueue
<1>2. CASE \E ks \in Events : Event(ks, nick)
  <2>1. PICK ks : Count(ks, nick)
    BY <1>2 DEF Event
  <2> QED BY <2>1, CountQueue
<1>3. CASE pfloodk
  <2>1. /\ "p" \in Kinds
        /\ queue' = [queue EXCEPT !["p"] = @ + 1]
        /\ resets' = [resets EXCEPT !["p"] = Append(@, Window)]
    BY <1>3 DEF pfloodk
  <2>2. Window \in Int
    BY SentinelAssumption DEF SentinelAssumption
  <2>3. /\ Append(resets["p"], Window) \in Seq(Int)
        /\ Len(Append(resets["p"], Window)) = Len(resets["p"]) + 1
    BY <2>1, <2>2, AppendProperties DEF QInv, QTypes
  <2>4. QTypes'
    BY <2>1, <2>3 DEF QInv, QTypes
  <2>5. QueueIsPending'
    BY <2>1, <2>3 DEF QInv, QTypes, QueueIsPending
  <2> QED BY <2>4, <2>5 DEF QInv
<1> QED BY <1>1, <1>2, <1>3

LEMMA TimerQueue ==
    ASSUME QInv, Timers \/ txqueuereset
    PROVE  QInv'
<1>1. ASSUME NEW kind \in Kinds, queuereset(kind) PROVE QInv'
  <2>1. /\ resets[kind] # <<>>
        /\ resets' = [resets EXCEPT ![kind] = Tail(@)]
        /\ queue' = [queue EXCEPT ![kind] = @ - 1]
    BY <1>1 DEF queuereset
  <2>2. Tail(resets[kind]) \in Seq(Int) /\ Len(Tail(resets[kind])) = Len(resets[kind]) - 1
    BY <2>1, HeadTailProperties DEF QInv, QTypes
  <2>3. QTypes'
    BY <2>1, <2>2 DEF QInv, QTypes
  <2>4. QueueIsPending'
    BY <2>1, <2>2 DEF QInv, QTypes, QueueIsPending
  <2> QED BY <2>3, <2>4 DEF QInv
<1>2. ASSUME NEW kind \in Kinds, banqueue(kind) PROVE QInv'
  BY <1>2, SameQueue DEF banqueue
<1>3. ASSUME NEW u \in unlocks, unlock(u) PROVE QInv'
  BY <1>3, SameQueue DEF unlock, lists
<1>4. CASE dokicks
  BY <1>4, SameQueue DEF dokicks
<1>5. CASE setbans
  BY <1>5, SameQueue DEF setbans
<1>6. CASE txqueuereset
  <2>1. "tx" \in Kinds /\ queue' = [queue EXCEPT !["tx"] = 0] /\ resets' = resets
    BY <1>6 DEF txqueuereset
  <2> QED BY <2>1 DEF QInv, QTypes, QueueIsPending
<1> QED BY <1>1, <1>2, <1>3, <1>4, <1>5, <1>6 DEF Timers

\* A tick takes time from each timer and takes none away.
LEMMA TickQueue ==
    ASSUME QInv, Tick
    PROVE  QInv'
<1>1. /\ queue' = queue
      /\ resets' = [kind \in Kinds |-> [k \in DOMAIN resets[kind] |-> resets[kind][k] - 1]]
  BY DEF Tick
<1>2. ASSUME NEW kind \in Kinds
      PROVE  resets'[kind] \in Seq(Int) /\ Len(resets'[kind]) = Len(resets[kind])
  <2>1. resets[kind] \in Seq(Int)
    BY DEF QInv, QTypes
  <2>2. DOMAIN resets[kind] = 1 .. Len(resets[kind]) /\ Len(resets[kind]) \in Nat
    BY <2>1, LenProperties
  <2>3. \A k \in 1 .. Len(resets[kind]) : resets[kind][k] - 1 \in Int
    BY <2>1, <2>2, ElementOfSeq
  <2>4. resets'[kind] = [k \in 1 .. Len(resets[kind]) |-> resets[kind][k] - 1]
    BY <1>1, <2>2
  <2> QED BY <2>2, <2>3, <2>4, IsASeq, LenProperties
<1> QED BY <1>1, <1>2 DEF QInv, QTypes, QueueIsPending

LEMMA QNext == QInv /\ [Next]_vars => QInv'
<1> SUFFICES ASSUME QInv, [Next]_vars PROVE QInv'
  OBVIOUS
<1>1. ASSUME NEW nick \in Nicks, nkflood(nick) \/ \E ks \in Events : Event(ks, nick)
      PROVE  QInv'
  BY <1>1, EventQueue
<1>2. CASE pfloodk
  BY <1>2, EventQueue
<1>3. CASE txqueuereset \/ Timers
  BY <1>3, TimerQueue
<1>4. CASE Echo
  BY <1>4, SameQueue DEF Echo
<1>5. CASE Tick
  BY <1>5, TickQueue
<1>6. ASSUME NEW sign \in OthersMode, NEW flags \in Flags, OtherMode(sign, flags)
      PROVE  QInv'
  BY <1>6, SameQueue DEF OtherMode
<1>7. CASE Ban \/ Unban \/ lc \/ uc \/ Opped \/ Deopped \/ Leave
  BY <1>7, SameQueue DEF Ban, Unban, lc, uc, Opped, Deopped, Leave, lists
<1>8. CASE setarray
  <2>1. queue' = [kind \in Kinds |-> 0] /\ resets' = [kind \in Kinds |-> <<>>]
    BY <1>8 DEF setarray
  <2>2. <<>> \in Seq(Int) /\ Len(<<>>) = 0
    BY EmptySeq
  <2> QED BY <2>1, <2>2 DEF QInv, QTypes, QueueIsPending
<1>9. CASE UNCHANGED vars
  BY <1>9, SameQueue DEF vars, lists
<1> QED BY <1>1, <1>2, <1>3, <1>4, <1>5, <1>6, <1>7, <1>8, <1>9 DEF Next

\* A counter is the number of its pending timers, so it is never negative and is zero
\* again when the channel has been quiet (sl_*queue, sentinel.tcl:903-960).
THEOREM CountersMatchTimers == Spec => []QueueIsPending
<1>1. QInv => QueueIsPending
  BY DEF QInv
<1> QED BY <1>1, QInit, QNext, PTL DEF Spec
-----------------------------------------------------------------------------
(* The end of a flood, for a bot that keeps its op.                        *)

FInv == opped /\ present /\ FloodedEnds

LEMMA FInit == Init => FInv
BY DEF Init, FInv, FloodedEnds

LEMMA FloodKept ==
    ASSUME FInv, UNCHANGED <<opped, present, flooded, unlocks>>
    PROVE  FInv'
BY DEF FInv, FloodedEnds

LEMMA SameFlood ==
    ASSUME FInv, UNCHANGED <<chan, flooded, unlocks>>
    PROVE  FInv'
BY FloodKept DEF chan

\* A flood that is detected sets both timers.
LEMMA CountFlood ==
    ASSUME FInv, NEW ks, NEW nick, Count(ks, nick), UNCHANGED chan
    PROVE  FInv'
<1>1. UnlockTimers # {}
  BY DEF UnlockTimers
<1>2. CASE Flood(ks)
  BY <1>1, <1>2 DEF Count, lock, FInv, FloodedEnds, chan
<1>3. CASE ~Flood(ks)
  BY <1>3 DEF Count, FInv, FloodedEnds, chan
<1> QED BY <1>2, <1>3

\* A mode that is taken off ends the flood together with the timer.
LEMMA ModeFlood ==
    ASSUME FInv, NEW sign, NEW flags, UNCHANGED <<opped, present>>,
           ModeChange(sign, flags) \/ NoMode
    PROVE  FInv'
<1>1. CASE NoMode
  BY <1>1 DEF NoMode, FInv, FloodedEnds
<1>2. CASE ModeChange(sign, flags)
  <2>1. (flooded' = flooded /\ unlocks' = unlocks) \/ flooded' = FALSE
    BY <1>2 DEF ModeChange, ModeMinus
  <2> QED BY <2>1 DEF FInv, FloodedEnds
<1> QED BY <1>1, <1>2

LEMMA TimerFlood ==
    ASSUME FInv, Timers
    PROVE  FInv'
<1>1. ASSUME NEW kind \in Kinds, queuereset(kind) \/ banqueue(kind) PROVE FInv'
  BY <1>1, SameFlood DEF queuereset, banqueue, script, timers
<1>2. ASSUME NEW u \in unlocks, unlock(u) PROVE FInv'
  <2>1. UnlockTimers # {}
    BY DEF UnlockTimers
  <2>2. opped' = opped /\ present' = present /\ (flooded' = FALSE \/ unlocks' = UnlockTimers)
    BY <1>2 DEF unlock, chan
  <2> QED BY <2>1, <2>2 DEF FInv, FloodedEnds
<1>3. CASE dokicks
  BY <1>3, SameFlood DEF dokicks
<1>4. CASE setbans
  <2>1. UNCHANGED <<chan, flooded>> /\ (unlocks' = unlocks \/ unlocks' # {})
    BY <1>4 DEF setbans, script
  <2> QED BY <2>1 DEF FInv, FloodedEnds, chan
<1> QED BY <1>1, <1>2, <1>3, <1>4 DEF Timers

\* A tick takes time from each timer and takes none away.
LEMMA TickFlood ==
    ASSUME FInv, Tick
    PROVE  FInv'
<1>1. UNCHANGED <<chan, flooded>>
  BY DEF Tick
<1>2. unlocks' = {[u EXCEPT !.left = @ - 1] : u \in unlocks}
  BY DEF Tick
<1>3. unlocks # {} => unlocks' # {}
  BY <1>2
<1> QED BY <1>1, <1>3 DEF FInv, FloodedEnds, chan

LEMMA FNext ==
    ASSUME ~OpLost, ~BotLeaves
    PROVE  FInv /\ [Next]_vars => FInv'
<1> SUFFICES ASSUME FInv, [Next]_vars PROVE FInv'
  OBVIOUS
<1>1. ASSUME NEW nick \in Nicks, nkflood(nick) PROVE FInv'
  <2>1. UNCHANGED chan /\ (Count(<<"nk">>, nick) \/ UNCHANGED <<flooded, unlocks>>)
    BY <1>1 DEF nkflood
  <2> QED BY <2>1, CountFlood, SameFlood
<1>2. ASSUME NEW nick \in Nicks, NEW ks \in Events, Event(ks, nick) PROVE FInv'
  BY <1>2, CountFlood DEF Event
<1>3. CASE pfloodk \/ txqueuereset
  BY <1>3, SameFlood DEF pfloodk, txqueuereset, script, timers
<1>4. CASE Timers
  BY <1>4, TimerFlood
<1>5. CASE Echo
  BY <1>5, ModeFlood DEF Echo
<1>6. CASE Tick
  BY <1>6, TickFlood
<1>7. ASSUME NEW sign \in OthersMode, NEW flags \in Flags, OtherMode(sign, flags)
      PROVE  FInv'
  BY <1>7, ModeFlood DEF OtherMode
<1>8. CASE Ban \/ Unban
  <2>1. UNCHANGED <<opped, present, flooded, unlocks>>
    BY <1>8 DEF Ban, Unban, script, timers
  <2> QED BY <2>1, FloodKept
<1>9. CASE lc \/ uc
  BY <1>9, SameFlood DEF lc, uc, script, timers
<1>10. CASE Opped \/ Deopped \/ Leave \/ setarray
  BY <1>10 DEF Opped, Deopped, Leave, setarray, FInv
<1>11. CASE UNCHANGED vars
  BY <1>11, SameFlood DEF vars, script, timers
<1> QED BY <1>1, <1>2, <1>3, <1>4, <1>5, <1>6, <1>7, <1>8, <1>9, <1>10, <1>11 DEF Next

\* On a channel where the bot keeps its op, a flood that was detected has a timer that
\* ends it, whatever others do to the modes (sl_lock, sl_unlock, sl_mode,
\* sentinel.tcl:593-705).
THEOREM FloodsHaveTimers ==
    ASSUME ~OpLost, ~BotLeaves
    PROVE  Spec => []FloodedEnds
<1>1. FInv => FloodedEnds
  BY DEF FInv
<1> QED BY <1>1, FInit, FNext, PTL DEF Spec
=============================================================================
