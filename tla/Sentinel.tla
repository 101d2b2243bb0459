------------------------------ MODULE Sentinel ------------------------------
(***************************************************************************)
(* sentinel.tcl: the channel lock.  When too many events of one kind come  *)
(* within a window of time, the bot sets the channel +mi, kicks and bans   *)
(* the ones it has listed, and takes the modes off again by timers.        *)
(*                                                                         *)
(* One channel.  Timers hold the ticks they have left, so that the states  *)
(* are finitely many without a bound on the clock.  A mode the bot asks    *)
(* for takes effect, and is reported to the bot, when the server comes to  *)
(* it; other users change modes in between.  A nick stands for its host.   *)
(* Hosts that are exempt (+f, ops) are not among Nicks.                    *)
(*                                                                         *)
(* External: the IRC server, the other users, eggdrop's ban list.          *)
(***************************************************************************)
EXTENDS Naturals, FiniteSets, Sequences, SequencesExt, Functions

CONSTANTS
    Nicks,      \* other users of the channel
    Kinds,      \* kinds of events in use, of AllKinds
    Limit, Window,          \* settings: so many events in so many ticks
    IlockTime, MlockTime,   \* settings: ticks until +i and +m are taken off
    ShortLock,  \* setting: take both off early after a small flood
    KickDelay, BanDelay, ShortDelay, NickHold, RecentUnlock, BfullTime,
                \* the constants of the code, in ticks
    Lag,        \* most ticks the server takes for a mode
    OthersMode, \* mode changes of other users and by command: "+", "-"
    OpLost,     \* whether the bot can lose its op
    BotLeaves,  \* whether the bot can be kicked and come back
    BansFill,   \* whether the ban list of the channel can fill up
    MaxFloods, MaxParts, MaxWire   \* bounds for model checking

\* CTCPs, control characters, lines, nick changes, bogus idents, joins and parts.
AllKinds == {"cc", "av", "tx", "nk", "bo", "j", "p"}

ASSUME SentinelAssumption ==
    /\ Kinds \subseteq AllKinds
    /\ {Limit, Window, IlockTime, MlockTime, KickDelay, BanDelay, ShortDelay} \subseteq Nat \ {0}
    /\ {NickHold, RecentUnlock, BfullTime, Lag, MaxFloods, MaxParts, MaxWire} \subseteq Nat
    /\ {ShortLock, OpLost, BotLeaves, BansFill} \subseteq BOOLEAN
    /\ OthersMode \subseteq {"+", "-"}

VARIABLES
    opped, present, \* the bot is on the channel, and opped there
    modes,      \* the modes m and i of the channel
    full,       \* the channel has as many bans as it may
    wire,       \* modes the bot asked for: [sign, flags, left]
    flooded, locked,   \* sl_flooded, sl_locked
    bfull,      \* ticks until sl_bfull is reset, 0 if it is not set
    unlocked, nkflooding,  \* ticks since sl_unlocked and sl_nkflooding were set, capped
    nickkick,   \* ticks until sl_nickkick is reset, 0 if it is not set
    queue,      \* kind |-> events counted
    nicks, hosts,      \* kind |-> flooders listed, to kick and to ban
    resets,     \* kind |-> pending sl_*queuereset timers
    lapses,     \* kind |-> pending sl_*banqueue timers
    unlocks,    \* pending sl_unlock timers: [modes, left]
    kicks, bans,       \* pending sl_dokicks and sl_setbans timers
    kflooders,  \* sl_kflooders
    floods,     \* history variable: how often a flood was detected
    seen,       \* history variable: nick |-> ticks since its last event, capped
    flooders,   \* history variable: those with an event in the window of the last flood
    kicked      \* history variable: those kicked by the last sl_dokicks

script == <<flooded, locked, bfull, unlocked, nkflooding, nickkick, kflooders>>
lists  == <<queue, nicks, hosts, resets, lapses>>
timers == <<unlocks, kicks, bans>>
chan   == <<opped, present, modes, full>>
history == <<floods, seen, flooders, kicked>>
vars == <<chan, wire, script, lists, timers, history>>

ModeFlags == {"m", "i"}

-----------------------------------------------------------------------------
(* Asking the server for modes.                                            *)

Ask(sign, flags) == [sign |-> sign, flags |-> flags, left |-> Lag]

\* pushmode and putserv: at the end of the queue.
Push(change) == wire' = Append(wire, change)

\* sl_quicklock, "putquick -next": ahead of all that the server has not been sent yet.
quicklock ==
    \E k \in 1 .. Len(wire) + 1 : wire' = InsertAt(wire, k, Ask("+", <<"m", "i">>))

UnlockTimers ==
    {[modes |-> {"m"}, left |-> MlockTime], [modes |-> {"i"}, left |-> IlockTime]}

\* Mutant of lock: no timer takes +i off.
lockNoITimer ==
    /\ flooded' = TRUE /\ floods' = floods + 1
    /\ IF opped
       THEN quicklock /\ unlocks' = {[modes |-> {"m"}, left |-> MlockTime]}
       ELSE UNCHANGED <<wire, unlocks>>

\* sl_lock, called by this bot's own detection.
lock ==
    /\ flooded' = TRUE /\ floods' = floods + 1
    /\ IF opped
       THEN quicklock /\ unlocks' = UnlockTimers
       ELSE UNCHANGED <<wire, unlocks>>

-----------------------------------------------------------------------------
(* Counting events.                                                        *)

\* The kinds one handler counts, in its order: a join with a bogus ident is counted as
\* both, unless the first already is a flood.
Reaches(kind) ==
    /\ kind # "p"
    /\ queue[kind] + 1 >= Limit
    /\ kind = "j" => "p" \in Kinds /\ queue["p"] >= Limit
Counted(ks) ==
    IF flooded THEN {}
    ELSE IF Len(ks) = 2 /\ Reaches(ks[1]) THEN {ks[1]} ELSE ToSet(ks)
Flood(ks) == \E kind \in Counted(ks) : Reaches(kind)

\* sl_ban is set: the flooder is listed until the window is over, unless the channel is
\* locked.  Nick changes list the host only, lines of text nobody.
Listed(ks) == IF locked THEN {} ELSE ToSet(ks) \ {"tx"}

Count(ks, nick) ==
    /\ queue' = [kind \in Kinds |-> IF kind \in Counted(ks) THEN queue[kind] + 1 ELSE queue[kind]]
    /\ resets' = [kind \in Kinds |-> IF kind \in Counted(ks) \ {"tx"}
                                     THEN Append(resets[kind], Window) ELSE resets[kind]]
    /\ hosts' = [kind \in Kinds |-> IF kind \in Listed(ks) THEN hosts[kind] \cup {nick} ELSE hosts[kind]]
    /\ nicks' = [kind \in Kinds |-> IF kind \in Listed(ks) \ {"nk"} THEN nicks[kind] \cup {nick}
                                    ELSE nicks[kind]]
    /\ lapses' = [kind \in Kinds |-> IF kind \in Listed(ks) THEN lapses[kind] \cup {Window}
                                     ELSE lapses[kind]]
    /\ IF Flood(ks) THEN lock ELSE UNCHANGED <<flooded, floods, wire, unlocks>>

Witness(ks, nick) ==
    /\ seen' = [seen EXCEPT ![nick] = 0]
    /\ flooders' = CASE Flood(ks) -> {n \in Nicks : seen[n] <= Window} \cup {nick}
                     [] ~Flood(ks) /\ flooded -> flooders \cup {nick}
                     [] OTHER -> flooders

Bounded(ks) ==
    /\ present /\ ToSet(ks) \subseteq Kinds
    /\ Flood(ks) => floods < MaxFloods /\ Len(wire) < MaxWire
    /\ "p" \in ToSet(ks) => queue["p"] < MaxParts
    /\ "j" \in ToSet(ks) => queue["j"] < MaxParts

\* sl_ctcp, sl_avflood, sl_jflood and sl_pflood.
Event(ks, nick) ==
    /\ Bounded(ks) /\ ks # <<"nk">>
    /\ Count(ks, nick) /\ Witness(ks, nick)
    /\ UNCHANGED <<chan, locked, bfull, unlocked, nkflooding, nickkick, kflooders, kicks, bans, kicked>>

\* sl_nkflood: while the channel is locked a nick change is answered by a kick and a
\* ban at once, no more often than every few seconds.
nkflood(nick) ==
    /\ Bounded(<<"nk">>)
    /\ IF nickkick = 0 /\ flooded /\ locked
       THEN /\ nkflooding' = 0 /\ nickkick' = 1
            /\ UNCHANGED <<lists, flooded, floods, wire, unlocks>>
       ELSE /\ Count(<<"nk">>, nick)
            /\ UNCHANGED <<nkflooding, nickkick>>
    /\ Witness(<<"nk">>, nick)
    /\ UNCHANGED <<chan, locked, bfull, unlocked, kflooders, kicks, bans, kicked>>

\* sl_pfloodk: somebody is kicked; counted, not listed.
pfloodk ==
    /\ present /\ "p" \in Kinds /\ ~flooded /\ queue["p"] < MaxParts
    /\ queue' = [queue EXCEPT !["p"] = @ + 1]
    /\ resets' = [resets EXCEPT !["p"] = Append(@, Window)]
    /\ UNCHANGED <<chan, wire, script, nicks, hosts, lapses, timers, history>>

-----------------------------------------------------------------------------
(* Timers.                                                                 *)

queuereset(kind) ==
    /\ resets[kind] # <<>> /\ Head(resets[kind]) = 0
    /\ resets' = [resets EXCEPT ![kind] = Tail(@)]
    /\ queue' = [queue EXCEPT ![kind] = @ - 1]
    /\ UNCHANGED <<chan, wire, script, nicks, hosts, lapses, timers, history>>

\* sl_txqueuereset: a timer of its own period, not in step with the lines.
txqueuereset ==
    /\ "tx" \in Kinds /\ queue["tx"] > 0
    /\ queue' = [queue EXCEPT !["tx"] = 0]
    /\ UNCHANGED <<chan, wire, script, nicks, hosts, resets, lapses, timers, history>>

\* Mutant of banqueue: the lists keep whom the window has passed.
banqueueKept(kind) ==
    /\ 0 \in lapses[kind]
    /\ lapses' = [lapses EXCEPT ![kind] = @ \ {0}]
    /\ UNCHANGED <<chan, wire, script, queue, nicks, hosts, resets, timers, history>>

\* sl_*banqueue: "lrange sl_ccbannick($chan) 1 end" takes its own name for the list,
\* whose rest is empty, instead of the listed nicks.
banqueue(kind) ==
    /\ 0 \in lapses[kind]
    /\ lapses' = [lapses EXCEPT ![kind] = @ \ {0}]
    /\ nicks' = [nicks EXCEPT ![kind] = {}]
    /\ hosts' = [hosts EXCEPT ![kind] = {}]
    /\ UNCHANGED <<chan, wire, script, queue, resets, timers, history>>

\* What sl_unlock asks for.
TakenOff(u) == (u.modes \cap modes) \ (IF full THEN {"i"} ELSE {})
InOrder(S) == SelectSeq(<<"i", "m">>, LAMBDA f : f \in S)

\* Mutant of unlock: the flood is over only when the mode has been taken off.
unlockFlooded(u) ==
    /\ u \in unlocks /\ u.left = 0
    /\ IF nkflooding < NickHold
       THEN flooded' = TRUE /\ unlocks' = UnlockTimers /\ UNCHANGED wire
       ELSE /\ unlocks' = unlocks \ {u} /\ UNCHANGED flooded
            /\ IF opped /\ TakenOff(u) # {} THEN Push(Ask("-", InOrder(TakenOff(u)))) ELSE UNCHANGED wire
    /\ UNCHANGED <<chan, locked, bfull, unlocked, nkflooding, nickkick, kflooders, lists, kicks, bans, history>>

\* sl_unlock: put off while nicks are changing.  Without op nothing is taken off, and
\* the timer is used up.
unlock(u) ==
    /\ u \in unlocks /\ u.left = 0
    /\ IF nkflooding < NickHold
       THEN flooded' = TRUE /\ unlocks' = UnlockTimers /\ UNCHANGED wire
       ELSE /\ flooded' = FALSE /\ unlocks' = unlocks \ {u}
            /\ IF opped /\ TakenOff(u) # {} THEN Push(Ask("-", InOrder(TakenOff(u)))) ELSE UNCHANGED wire
    /\ UNCHANGED <<chan, locked, bfull, unlocked, nkflooding, nickkick, kflooders, lists, kicks, bans, history>>

\* Those on the lists of kinds that are punished by themselves, and those on both lists
\* of a join-part flood.
OnLists(list) ==
    UNION {list[kind] : kind \in Kinds \ {"j", "p"}}
        \cup (IF {"j", "p"} \subseteq Kinds THEN list["j"] \cap list["p"] ELSE {})
NoLists == [kind \in Kinds |-> {}]

dokicks ==
    /\ 0 \in kicks /\ kicks' = kicks \ {0}
    /\ IF opped
       THEN /\ kflooders' = Cardinality(OnLists(nicks)) /\ kicked' = OnLists(nicks)
            /\ nicks' = NoLists
       ELSE UNCHANGED <<kflooders, kicked, nicks>>
    /\ UNCHANGED <<chan, wire, flooded, locked, bfull, unlocked, nkflooding, nickkick,
                   queue, hosts, resets, lapses, unlocks, bans, floods, seen, flooders>>

\* sl_setbans: eggdrop's own ban list; the short lock replaces the timers of the lock.
setbans ==
    /\ 0 \in bans /\ bans' = bans \ {0}
    /\ IF present
       THEN /\ hosts' = NoLists
            /\ unlocks' = IF ShortLock /\ kflooders <= 2 /\ Cardinality(OnLists(hosts)) <= 2
                             /\ unlocked > RecentUnlock
                          THEN {[modes |-> ModeFlags, left |-> ShortDelay]} ELSE unlocks
       ELSE UNCHANGED <<hosts, unlocks>>
    /\ UNCHANGED <<chan, wire, script, queue, nicks, resets, lapses, kicks, history>>

Timers ==
    \/ \E kind \in Kinds : queuereset(kind) \/ banqueue(kind)
    \/ \E u \in unlocks : unlock(u)
    \/ dokicks \/ setbans

-----------------------------------------------------------------------------
(* sl_mode: the modes of the channel change.                               *)

Changes(sign, f) == f \in modes <=> sign = "-"
\* The flags of a command that change anything, in its order.
Effect(sign, flags) == SelectSeq(flags, LAMBDA f : Changes(sign, f))

\* The handler runs once for each flag.  For the first one that is taken off the flood is
\* over, and only that flag's own unlock timer is killed.
ModeMinus(effect) ==
    IF effect = <<>> THEN UNCHANGED <<locked, unlocked, flooded, unlocks>>
    ELSE /\ locked' = FALSE /\ unlocked' = 0 /\ flooded' = FALSE
         /\ unlocks' = IF flooded
                       THEN {u \in unlocks : u.modes \notin {{effect[1]}, ModeFlags}}
                       ELSE unlocks

\* +i during a flood: the channel is locked, kicks and bans follow.
ModePlus(effect) ==
    IF "i" \in ToSet(effect) /\ flooded
    THEN locked' = TRUE /\ kicks' = kicks \cup {KickDelay} /\ bans' = bans \cup {BanDelay}
         /\ lapses' = NoLists
    ELSE UNCHANGED <<locked, kicks, bans, lapses>>

ModeChange(sign, flags) ==
    LET effect == Effect(sign, flags)
    IN  IF sign = "+"
        THEN /\ modes' = modes \cup ToSet(effect) /\ ModePlus(effect)
             /\ UNCHANGED <<unlocked, flooded, unlocks>>
        ELSE /\ modes' = modes \ ToSet(effect) /\ ModeMinus(effect)
             /\ UNCHANGED <<kicks, bans, lapses>>

NoMode == UNCHANGED <<modes, locked, unlocked, flooded, unlocks, kicks, bans, lapses>>

\* The server comes to the bot's next MODE; without op it is refused.
Echo ==
    /\ wire # <<>> /\ wire' = Tail(wire)
    /\ IF opped THEN ModeChange(Head(wire).sign, Head(wire).flags) ELSE NoMode
    /\ UNCHANGED <<opped, present, full, bfull, nkflooding, nickkick, kflooders,
                   queue, nicks, hosts, resets, history>>

OtherMode(sign, flags) ==
    /\ present /\ sign \in OthersMode
    /\ Effect(sign, flags) = flags /\ ModeChange(sign, flags)
    /\ UNCHANGED <<opped, present, full, wire, bfull, nkflooding, nickkick, kflooders,
                   queue, nicks, hosts, resets, history>>

\* A ban is set: with a full list the channel is set +i.
Ban ==
    /\ BansFill /\ present /\ full' \in {full, TRUE}
    /\ IF full' /\ bfull = 0 /\ "i" \notin modes /\ opped
       THEN Push(Ask("+", <<"i">>)) /\ bfull' = BfullTime
       ELSE UNCHANGED <<wire, bfull>>
    /\ Len(wire') <= MaxWire
    /\ UNCHANGED <<opped, present, modes, flooded, locked, unlocked, nkflooding, nickkick,
                   kflooders, lists, timers, history>>

Unban ==
    /\ full /\ full' = FALSE
    /\ UNCHANGED <<opped, present, modes, wire, script, lists, timers, history>>

\* sl_lc and .lock
lc ==
    /\ opped /\ "+" \in OthersMode /\ Len(wire) < MaxWire
    /\ quicklock
    /\ UNCHANGED <<chan, script, lists, timers, history>>

\* sl_uc and .unlock
uc ==
    /\ opped /\ "-" \in OthersMode /\ Len(wire) < MaxWire
    /\ Push(Ask("-", <<"m", "i">>))
    /\ UNCHANGED <<chan, script, lists, timers, history>>

-----------------------------------------------------------------------------
(* The bot and the clock.                                                  *)

Opped ==
    /\ present /\ ~opped /\ opped' = TRUE
    /\ UNCHANGED <<present, modes, full, wire, script, lists, timers, history>>

Deopped ==
    /\ OpLost /\ opped /\ opped' = FALSE
    /\ UNCHANGED <<present, modes, full, wire, script, lists, timers, history>>

Leave ==
    /\ BotLeaves /\ present /\ present' = FALSE /\ opped' = FALSE
    /\ UNCHANGED <<modes, full, wire, script, lists, timers, history>>

\* Mutant of setarray: the timers of the counters are not killed.
setarrayTimersLeft ==
    /\ ~present /\ "i" \notin modes /\ present' = TRUE
    /\ flooded' = FALSE /\ locked' = FALSE /\ bfull' = 0
    /\ unlocked' = 0 /\ nkflooding' = 0
    /\ queue' = [kind \in Kinds |-> 0] /\ resets' = resets
    /\ nicks' = NoLists /\ hosts' = NoLists /\ lapses' = NoLists
    /\ UNCHANGED <<opped, modes, full, wire, nickkick, kflooders, timers, history>>

\* sl_setarray: the bot joins; the timers of the lists are killed, those of the lock
\* stay.
setarray ==
    /\ ~present /\ "i" \notin modes /\ present' = TRUE
    /\ flooded' = FALSE /\ locked' = FALSE /\ bfull' = 0
    /\ unlocked' = 0 /\ nkflooding' = 0
    /\ queue' = [kind \in Kinds |-> 0] /\ resets' = [kind \in Kinds |-> <<>>]
    /\ nicks' = NoLists /\ hosts' = NoLists /\ lapses' = NoLists
    /\ UNCHANGED <<opped, modes, full, wire, nickkick, kflooders, timers, history>>

Down(n) == IF n = 0 THEN 0 ELSE n - 1
Older(n, most) == IF n = most THEN n ELSE n + 1
Sooner(S) == {n - 1 : n \in S}

NothingDue ==
    /\ \A k \in DOMAIN wire : wire[k].left > 0
    /\ \A kind \in Kinds : 0 \notin lapses[kind] \cup ToSet(resets[kind])
    /\ \A u \in unlocks : u.left > 0
    /\ 0 \notin kicks \cup bans

\* Timers that are due run before the clock goes on.
Tick ==
    /\ NothingDue
    /\ wire' = [k \in DOMAIN wire |-> [wire[k] EXCEPT !.left = @ - 1]]
    /\ resets' = [kind \in Kinds |-> [k \in DOMAIN resets[kind] |-> resets[kind][k] - 1]]
    /\ lapses' = [kind \in Kinds |-> Sooner(lapses[kind])]
    /\ unlocks' = {[u EXCEPT !.left = @ - 1] : u \in unlocks}
    /\ kicks' = Sooner(kicks) /\ bans' = Sooner(bans)
    /\ bfull' = Down(bfull) /\ nickkick' = Down(nickkick)
    /\ unlocked' = Older(unlocked, RecentUnlock + 1) /\ nkflooding' = Older(nkflooding, NickHold)
    /\ seen' = [n \in Nicks |-> Older(seen[n], Window + 1)]
    /\ UNCHANGED <<chan, flooded, locked, kflooders, queue, nicks, hosts, floods, flooders, kicked>>

-----------------------------------------------------------------------------
\* The bot has been on the channel for a while, opped.
Init ==
    /\ opped = TRUE /\ present = TRUE /\ modes = {} /\ full = FALSE /\ wire = <<>>
    /\ flooded = FALSE /\ locked = FALSE /\ bfull = 0 /\ nickkick = 0 /\ kflooders = 0
    /\ unlocked = RecentUnlock + 1 /\ nkflooding = NickHold
    /\ queue = [kind \in Kinds |-> 0] /\ resets = [kind \in Kinds |-> <<>>]
    /\ nicks = NoLists /\ hosts = NoLists /\ lapses = NoLists
    /\ unlocks = {} /\ kicks = {} /\ bans = {}
    /\ floods = 0 /\ seen = [n \in Nicks |-> Window + 1] /\ flooders = {} /\ kicked = {}

Events == {<<"cc">>, <<"tx">>, <<"tx", "av">>, <<"bo", "j">>, <<"j">>, <<"p">>}
Flags == {<<"m">>, <<"i">>, <<"m", "i">>, <<"i", "m">>}

Next ==
    \/ \E nick \in Nicks : nkflood(nick) \/ \E ks \in Events : Event(ks, nick)
    \/ pfloodk \/ txqueuereset \/ Timers \/ Echo \/ Tick
    \/ \E sign \in OthersMode, flags \in Flags : OtherMode(sign, flags)
    \/ Ban \/ Unban \/ lc \/ uc \/ Opped \/ Deopped \/ Leave \/ setarray

Spec == Init /\ [][Next]_vars

\* Timers run, the server answers, the clock goes on.
FairSpec == Spec /\ WF_vars(Timers) /\ WF_vars(Echo) /\ WF_vars(Tick)

-----------------------------------------------------------------------------
(* Correctness.                                                            *)

\* A counter is the number of events whose timers are still to take them out of it, so
\* it returns to zero when the channel is quiet, also after the bot left and came back.
QueueIsPending ==
    \A kind \in Kinds \ {"tx"} : queue[kind] = Len(resets[kind])

\* While sl_flooded is set nothing is counted, so a pending timer must be there to end
\* it: the script never goes deaf (with a lock time set, on a channel it is opped on).
FloodedEnds == flooded => unlocks # {}

\* The modes of a lock are taken off in the end (no lock by command, and the floods stop),
\* as the two lock times promise (sentinel.tcl:200).
LockLifted == modes # {} ~> modes = {}

\* sentinel.tcl:72 says the flooders are kicked after the channel has been locked: who is
\* kicked had an event in the window of the last flood or since, while it lasted.
OnlyFloodersKicked ==
    [][0 \in kicks /\ 0 \notin kicks' /\ opped => kicked' \subseteq flooders]_vars
=============================================================================
