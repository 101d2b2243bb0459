------------------------------- MODULE Remind -------------------------------
(***************************************************************************)
(* remind.tcl: reminders that are announced in a channel at a given time.  *)
(*                                                                         *)
(* Each reminder is an array entry, keyed by the second it was made in,    *)
(* that holds its time and the id of the Tcl "after" timer that will fire  *)
(* it.  The array is written to a file after every change and read back    *)
(* when the script is loaded, at a start of the bot and at every rehash.   *)
(* Timers die with the process, and the ids the file remembers can belong  *)
(* to other scripts' timers in the next one.                               *)
(*                                                                         *)
(* External: the clock, the "after" queue (a timer runs at or after its    *)
(* time, ids count up from after#0 in each process), the other scripts'    *)
(* use of it, and the cron job (botchk) that starts a dead bot again.      *)
(***************************************************************************)
EXTENDS Naturals, FiniteSets, Sequences, Functions

CONSTANTS
    Torn,       \* a file that "array set" cannot read: no file, or a cut list
    OnePerSecond,   \* whether at most one reminder is made in any second
    MaxForeign, \* timers of other scripts in one process
    MaxNow, MaxTimers, MaxCrashes   \* bounds for model checking

ASSUME RemindAssumption ==
    /\ OnePerSecond \in BOOLEAN
    /\ {MaxForeign, MaxNow, MaxTimers, MaxCrashes} \subseteq Nat

VARIABLES
    now,        \* clock seconds
    up,         \* the bot runs
    reminders,  \* id |-> [time, timer], the array of the script
    datafile,   \* the array as last saved, or Torn
    timers,     \* pending timers of this script: [tid, due, id]
    foreign,    \* ids of pending timers of other scripts
    nexttid,    \* number of the next after#N
    announced,  \* history variable: announcements [id, time, at], in order
    crashes,    \* number of crashes so far
    fresh       \* history variable: no reminder was made in this second

script == <<reminders, datafile, timers>>
vars == <<now, up, script, foreign, nexttid, announced, crashes, fresh>>

Ids  == Nat
Reminder == [time : Nat, timer : Nat]
NoReminders == [id \in {} |-> 0]
IsReminders(r) == DOMAIN r \subseteq Ids /\ \A id \in DOMAIN r : r[id] \in Reminder
Without(r, ids) == [id \in DOMAIN r \ ids |-> r[id]]
With(r, id, v)  == [j \in DOMAIN r \cup {id} |-> IF j = id THEN v ELSE r[j]]

TypeOK ==
    /\ now \in Nat /\ nexttid \in Nat /\ crashes \in Nat /\ {up, fresh} \subseteq BOOLEAN
    /\ IsReminders(reminders)
    /\ datafile = Torn \/ IsReminders(datafile)
    /\ \A t \in timers : t \in [tid : Nat, due : Nat, id : Nat] /\ t.tid < nexttid
    /\ foreign \subseteq 0 .. nexttid - 1
    /\ \A t \in timers : t.tid \notin foreign

Announcement(id, r) == [id |-> id, time |-> r[id].time, at |-> now]

-----------------------------------------------------------------------------
(* Commands.                                                               *)

\* Mutants of newReminder: the entry keeps the "null" it was made with (no timer id);
\* the delay of the timer is left out.
newReminderNull(time) ==
    /\ up /\ nexttid < MaxTimers
    /\ OnePerSecond => fresh
    /\ fresh' = FALSE
    /\ timers' = timers \cup {[tid |-> nexttid, due |-> time, id |-> now]}
    /\ nexttid' = nexttid + 1
    /\ reminders' = With(reminders, now, [time |-> time, timer |-> Torn])
    /\ datafile' = reminders'
    /\ UNCHANGED <<now, up, foreign, announced, crashes>>
newReminderAtOnce(time) ==
    /\ up /\ nexttid < MaxTimers
    /\ OnePerSecond => fresh
    /\ fresh' = FALSE
    /\ timers' = timers \cup {[tid |-> nexttid, due |-> now, id |-> now]}
    /\ nexttid' = nexttid + 1
    /\ reminders' = With(reminders, now, [time |-> time, timer |-> nexttid])
    /\ datafile' = reminders'
    /\ UNCHANGED <<now, up, foreign, announced, crashes>>

\* pub:newReminder: the timer is set first, the entry of this second is stored,
\* over an earlier one of the same second if there is one, and all is saved.  A time
\* in the past is due at once.
newReminder(time) ==
    /\ up /\ nexttid < MaxTimers
    /\ OnePerSecond => fresh
    /\ fresh' = FALSE
    /\ timers' = timers \cup {[tid |-> nexttid, due |-> time, id |-> now]}
    /\ nexttid' = nexttid + 1
    /\ reminders' = With(reminders, now, [time |-> time, timer |-> nexttid])
    /\ datafile' = reminders'
    /\ UNCHANGED <<now, up, foreign, announced, crashes>>

\* Mutants of cancelReminder: the change is not saved; the timer is not cancelled.
cancelReminderUnsaved(id) ==
    /\ up /\ id \in DOMAIN reminders
    /\ timers' = {t \in timers : t.tid # reminders[id].timer}
    /\ foreign' = foreign \ {reminders[id].timer}
    /\ reminders' = Without(reminders, {id})
    /\ UNCHANGED <<now, up, datafile, nexttid, announced, crashes, fresh>>
cancelReminderTimerLeft(id) ==
    /\ up /\ id \in DOMAIN reminders
    /\ reminders' = Without(reminders, {id})
    /\ datafile' = reminders'
    /\ UNCHANGED <<now, up, timers, foreign, nexttid, announced, crashes, fresh>>

\* pub:cancelReminder: "after cancel" takes the remembered id, whoever owns it now.
\* An unknown id is an error that changes nothing.
cancelReminder(id) ==
    /\ up /\ id \in DOMAIN reminders
    /\ LET tid == reminders[id].timer
       IN  /\ timers' = {t \in timers : t.tid # tid}
           /\ foreign' = foreign \ {tid}
    /\ reminders' = Without(reminders, {id})
    /\ datafile' = reminders'
    /\ UNCHANGED <<now, up, nexttid, announced, crashes, fresh>>

-----------------------------------------------------------------------------
(* Firing.                                                                 *)

Due(t) == up /\ t.due <= now

\* A timer whose entry is gone raises an error: nothing is announced or saved.
fireReminder(t) ==
    /\ Due(t)
    /\ timers' = timers \ {t}
    /\ IF t.id \in DOMAIN reminders
       THEN /\ announced' = Append(announced, Announcement(t.id, reminders))
            /\ reminders' = Without(reminders, {t.id})
            /\ datafile' = reminders'
       ELSE UNCHANGED <<announced, reminders, datafile>>
    /\ UNCHANGED <<now, up, foreign, nexttid, crashes, fresh>>

-----------------------------------------------------------------------------
(* Loading: initReminders over the array merged with the file.             *)

\* Entries of the file replace entries in memory; others in memory stay.
Merged(r) == [id \in DOMAIN datafile \cup DOMAIN r |->
                IF id \in DOMAIN datafile THEN datafile[id] ELSE r[id]]
Expired(r) == {id \in DOMAIN r : r[id].time < now}

\* Mutant of ToArm: nothing is armed again after a load.
ToArmNone(r, active) == {}

\* Entries whose remembered timer id is not among the pending timers, whoever set them.
ToArm(r, active) == {id \in DOMAIN r \ Expired(r) : r[id].timer \notin active}

Before(S, id) == Cardinality({j \in S : j < id})

\* The expired ones are fired, in any order; their timers, if any, stay behind.
FireAll(r) ==
    \E s \in [1 .. Cardinality(Expired(r)) -> Expired(r)] :
        /\ IsInjective(s)
        /\ announced' = announced \o [k \in DOMAIN s |-> Announcement(s[k], r)]

\* Mutant of initReminders: what was fired is not unset.
initRemindersKept(r, active, base) ==
    LET arm  == ToArm(r, active)
        tid(id) == base + Before(arm, id)
    IN  /\ FireAll(r)
        /\ reminders' = [id \in DOMAIN r |->
                            IF id \in arm THEN [r[id] EXCEPT !.timer = tid(id)]
                            ELSE r[id]]
        /\ datafile' = reminders'
        /\ timers' = timers \cup {[tid |-> tid(id), due |-> r[id].time, id |-> id] : id \in arm}
        /\ nexttid' = base + Cardinality(arm)
        /\ nexttid' <= MaxTimers

initReminders(r, active, base) ==
    LET arm  == ToArm(r, active)
        tid(id) == base + Before(arm, id)
    IN  /\ FireAll(r)
        /\ reminders' = [id \in DOMAIN r \ Expired(r) |->
                            IF id \in arm THEN [r[id] EXCEPT !.timer = tid(id)]
                            ELSE r[id]]
        /\ datafile' = reminders'
        /\ timers' = timers \cup {[tid |-> tid(id), due |-> r[id].time, id |-> id] : id \in arm}
        /\ nexttid' = base + Cardinality(arm)
        /\ nexttid' <= MaxTimers

\* Reading a torn or missing file is an error: the script keeps what it has and
\* initReminders does not run.
Rehash ==
    /\ up
    /\ IF datafile = Torn
       THEN UNCHANGED <<reminders, datafile, timers, nexttid, announced>>
       ELSE initReminders(Merged(reminders), {t.tid : t \in timers} \cup foreign, nexttid)
    /\ UNCHANGED <<now, up, foreign, crashes, fresh>>

\* A new process, in which other scripts have set k timers before this one loads.
Start ==
    /\ ~up /\ up' = TRUE
    /\ \E k \in 0 .. MaxForeign :
         /\ foreign' = 0 .. k - 1
         /\ IF datafile = Torn
            THEN /\ nexttid' = k
                 /\ UNCHANGED <<reminders, datafile, timers, announced>>
            ELSE initReminders(Merged(reminders), foreign', k)
    /\ UNCHANGED <<now, crashes, fresh>>

-----------------------------------------------------------------------------
(* The world around the script.                                            *)

Tick ==
    /\ now < MaxNow
    /\ now' = now + 1 /\ fresh' = TRUE
    /\ UNCHANGED <<up, script, foreign, nexttid, announced, crashes>>

ForeignDone(tid) ==
    /\ up /\ tid \in foreign
    /\ foreign' = foreign \ {tid}
    /\ UNCHANGED <<now, up, script, nexttid, announced, crashes, fresh>>

Die ==
    /\ up' = FALSE
    /\ reminders' = NoReminders /\ timers' = {} /\ foreign' = {} /\ nexttid' = 0
    /\ crashes' = crashes + 1

\* The process ends between two handlers.
Crash ==
    /\ up /\ crashes < MaxCrashes /\ Die
    /\ UNCHANGED <<now, datafile, announced, fresh>>

\* The process ends inside fireReminder, after the announcement: before the file is
\* opened, or after the open that empties it.
CrashInFire(t) ==
    /\ Due(t) /\ t.id \in DOMAIN reminders /\ crashes < MaxCrashes
    /\ announced' = Append(announced, Announcement(t.id, reminders))
    /\ datafile' \in {datafile, NoReminders, Torn}
    /\ Die
    /\ UNCHANGED <<now, fresh>>

-----------------------------------------------------------------------------
Init ==
    /\ now = 0 /\ up = FALSE
    /\ reminders = NoReminders /\ datafile = Torn
    /\ timers = {} /\ foreign = {} /\ nexttid = 0
    /\ announced = <<>> /\ crashes = 0 /\ fresh = TRUE

Next ==
    \/ \E time \in 0 .. MaxNow : newReminder(time)
    \/ \E id \in DOMAIN reminders : cancelReminder(id)
    \/ \E t \in timers : fireReminder(t) \/ CrashInFire(t)
    \/ \E tid \in foreign : ForeignDone(tid)
    \/ Rehash \/ Start \/ Tick \/ Crash

Spec == Init /\ [][Next]_vars

\* The clock runs, the event loop runs due timers, cron starts a dead bot.
FairSpec ==
    /\ Spec
    /\ WF_vars(Tick) /\ WF_vars(Start)
    /\ WF_vars(\E t \in timers : fireReminder(t))

-----------------------------------------------------------------------------
(* Correctness.                                                            *)

\* Every reminder of a running bot has a pending timer of its own that is due no later
\* than its time and calls it by its id: across new reminders, cancels, rehashes and
\* restarts, none is listed that will never fire (no timers of other scripts).
EveryReminderArmed ==
    up => \A id \in DOMAIN reminders :
            \E t \in timers : /\ t.id = id
                              /\ t.tid = reminders[id].timer
                              /\ t.due = reminders[id].time

\* remind.tcl:10 says a reminder is made for a time: none is announced earlier.
NeverEarly == \A k \in DOMAIN announced : announced[k].time <= announced[k].at

\* A reminder is announced once; a second time only if the process died after an
\* announcement and before the save that would have recorded it.
AnnouncedOnce ==
    \A id \in 0 .. MaxNow :
        Cardinality({k \in DOMAIN announced : announced[k].id = id}) <= 1 + crashes

\* What the file holds is what a running script lists, once it has been written.
FileIsCurrent == up /\ datafile # Torn => datafile = reminders

\* A reminder in the file is in the end announced, cancelled, or lost with the file,
\* whatever crashes and restarts come before its time.
Saved == IF datafile = Torn THEN {} ELSE DOMAIN datafile
RemindersEnd == \A id \in 0 .. MaxNow : id \in Saved ~> id \notin Saved

\* A reminder taken off the list without an announcement leaves no timer behind that
\* could still call it (no timers of other scripts).
CancelIsFinal ==
    [][\A id \in 0 .. MaxNow :
         id \in DOMAIN reminders /\ id \notin DOMAIN reminders' /\ up' /\ announced' = announced
            => \A t \in timers' : t.id # id]_vars
=============================================================================
