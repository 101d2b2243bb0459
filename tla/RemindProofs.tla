---------------------------- MODULE RemindProofs ----------------------------
(***************************************************************************)
(* Invariants of Remind, for any clock, number of timers and crashes.      *)
(*                                                                         *)
(* The base BInv has the types, that the file and the array agree, and     *)
(* that ids are seconds of the past.  On it rest the two facts about       *)
(* times: a timer is never due before the entry it will announce (DInv),   *)
(* and, without timers of other scripts, every entry has its timer (AInv). *)
(* How often a reminder is announced follows from what the file still      *)
(* lists (OInv), that a cancelled one leaves no timer from the uniqueness  *)
(* of timers (UInv).                                                       *)
(***************************************************************************)
EXTENDS Remind, FiniteSetTheorems, SequenceTheorems, TLAPS

\* A second in which a reminder can have been made: the present one only if one was.
Past(id) == id < now \/ (id = now /\ ~fresh)

PastInv ==
    /\ \A id \in DOMAIN reminders : Past(id)
    /\ datafile # Torn => \A id \in DOMAIN datafile : Past(id)
    /\ \A t \in timers : Past(t.id)

DownInv == ~up => reminders = NoReminders /\ timers = {} /\ foreign = {} /\ nexttid = 0

\* Announcements that are not early.
Timely == {a \in [id : Nat, time : Nat, at : Nat] : a.time <= a.at}

TInv == TypeOK /\ FileIsCurrent
BInv == TInv /\ PastInv /\ DownInv

\* With one reminder in a second, a timer is due no earlier than the entry it finds.
DInv ==
    /\ \A t \in timers : t.id \in DOMAIN reminders => reminders[t.id].time <= t.due
    /\ announced \in Seq(Timely)

\* Without timers of other scripts, no two timers share an id and each entry has its own.
AInv ==
    /\ foreign = {}
    /\ \A t, u \in timers : t.tid = u.tid => t = u
    /\ EveryReminderArmed

-----------------------------------------------------------------------------
(* The array as a function.                                                *)

LEMMA WithType ==
    ASSUME NEW r, IsReminders(r), NEW id \in Nat, NEW v \in Reminder
    PROVE  IsReminders(With(r, id, v))
BY DEF With, IsReminders, Ids

LEMMA WithoutType ==
    ASSUME NEW r, IsReminders(r), NEW S
    PROVE  IsReminders(Without(r, S))
BY DEF Without, IsReminders

LEMMA EmptyType == IsReminders(NoReminders) /\ DOMAIN NoReminders = {}
BY DEF IsReminders, NoReminders

\* The ids of an array are finitely many seconds.
LEMMA FewIds ==
    ASSUME NEW r, IsReminders(r), now \in Nat, \A id \in DOMAIN r : Past(id),
           NEW S \in SUBSET DOMAIN r
    PROVE  IsFiniteSet(S) /\ Cardinality(S) \in Nat
<1>1. S \in SUBSET Nat /\ \A id \in S : id <= now
  BY DEF IsReminders, Ids, Past
<1> QED BY <1>1, FS_BoundedSetOfNaturals, FS_CardinalityType

LEMMA LongerInterval ==
    ASSUME NEW a \in Nat, NEW b \in Nat, a <= b
    PROVE  0 .. a - 1 \subseteq 0 .. b - 1
OBVIOUS

\* Before numbers the elements of a finite set of numbers, each with its own number.
LEMMA BeforeType ==
    ASSUME NEW S \in SUBSET Nat, IsFiniteSet(S), NEW i \in S
    PROVE  Before(S, i) \in Nat /\ Before(S, i) < Cardinality(S)
<1> DEFINE below == {j \in S : j < i}
<1>1. below \in SUBSET S /\ below # S
  <2>1. i \notin below
    OBVIOUS
  <2> QED BY <2>1
<1>2. IsFiniteSet(below) /\ Cardinality(below) <= Cardinality(S)
      /\ Cardinality(below) # Cardinality(S)
  BY <1>1, FS_Subset
<1>3. Cardinality(below) \in Nat /\ Cardinality(S) \in Nat
  BY <1>2, FS_CardinalityType
<1>4. Before(S, i) = Cardinality(below)
  BY DEF Before
<1> QED BY <1>2, <1>3, <1>4

LEMMA BeforeOrder ==
    ASSUME NEW S \in SUBSET Nat, IsFiniteSet(S), NEW i \in S, NEW j \in S, i < j
    PROVE  Before(S, i) < Before(S, j)
<1> DEFINE below == {k \in S : k < j}
<1>1. below \in SUBSET Nat /\ below \in SUBSET S /\ i \in below
  OBVIOUS
<1>2. IsFiniteSet(below)
  BY <1>1, FS_Subset
<1>3. Before(below, i) < Cardinality(below)
  BY <1>1, <1>2, BeforeType
<1>4. {k \in below : k < i} = {k \in S : k < i}
  <2>1. ASSUME NEW k \in S, k < i PROVE k < j
    <3>1. k \in Nat /\ i \in Nat /\ j \in Nat
      OBVIOUS
    <3> QED BY <2>1, <3>1
  <2> QED BY <2>1
<1>5. Before(below, i) = Before(S, i) /\ Cardinality(below) = Before(S, j)
  BY <1>4 DEF Before
<1> QED BY <1>3, <1>5

LEMMA BeforeInjective ==
    ASSUME NEW S \in SUBSET Nat, IsFiniteSet(S), NEW i \in S, NEW j \in S,
           Before(S, i) = Before(S, j)
    PROVE  i = j
<1>1. Before(S, i) \in Nat /\ Before(S, j) \in Nat
  BY BeforeType
<1>2. CASE i < j
  BY <1>1, <1>2, BeforeOrder
<1>3. CASE j < i
  BY <1>1, <1>3, BeforeOrder
<1>4. i \in Nat /\ j \in Nat
  OBVIOUS
<1> QED BY <1>2, <1>3, <1>4

-----------------------------------------------------------------------------
(* Loading.                                                                *)

\* What initReminders makes of an array r whose ids are of the past, with timer ids
\* from base on.
Loaded(r, active, base) ==
    /\ IsReminders(reminders') /\ datafile' = reminders' /\ nexttid' \in Nat /\ base <= nexttid'
    /\ DOMAIN reminders' = DOMAIN r \ Expired(r)
    /\ \A id \in DOMAIN reminders' : reminders'[id].time = r[id].time
    /\ \A id \in DOMAIN reminders' : id \notin ToArm(r, active) => reminders'[id] = r[id]
    /\ timers \subseteq timers'
    /\ \A t \in timers' \ timers :
          /\ t \in [tid : Nat, due : Nat, id : Nat] /\ base <= t.tid /\ t.tid < nexttid'
          /\ t.id \in ToArm(r, active) /\ t.due = r[t.id].time
    /\ \A t, u \in timers' \ timers : t.tid = u.tid => t = u
    /\ \A id \in ToArm(r, active) :
          \E t \in timers' : t.id = id /\ t.tid = reminders'[id].timer /\ t.due = r[id].time

LEMMA InitEffect ==
    ASSUME NEW r, IsReminders(r), now \in Nat, \A id \in DOMAIN r : Past(id),
           NEW active, NEW base \in Nat, initReminders(r, active, base)
    PROVE  Loaded(r, active, base)
<1> DEFINE arm == ToArm(r, active)
           tid(id) == base + Before(arm, id)
           new(id) == [tid |-> tid(id), due |-> r[id].time, id |-> id]
<1>1. /\ reminders' = [id \in DOMAIN r \ Expired(r) |->
                          IF id \in arm THEN [r[id] EXCEPT !.timer = tid(id)] ELSE r[id]]
      /\ datafile' = reminders'
      /\ timers' = timers \cup {new(id) : id \in arm}
      /\ nexttid' = base + Cardinality(arm)
  BY DEF initReminders
<1>2. arm \in SUBSET DOMAIN r /\ arm \in SUBSET Nat /\ arm \in SUBSET (DOMAIN r \ Expired(r))
  BY DEF ToArm, IsReminders, Ids
<1>3. IsFiniteSet(arm) /\ Cardinality(arm) \in Nat
  BY <1>2, FewIds
<1>4. \A id \in arm : tid(id) \in Nat /\ base <= tid(id) /\ tid(id) < nexttid'
  <2>1. \A id \in arm : Before(arm, id) \in Nat /\ Before(arm, id) < Cardinality(arm)
    BY <1>2, <1>3, BeforeType
  <2>2. nexttid' = base + Cardinality(arm)
    BY <1>1
  <2> QED BY <1>3, <2>1, <2>2
<1>5. \A id \in DOMAIN r : r[id] \in Reminder
  BY DEF IsReminders
<1>6. \A i, j \in arm : tid(i) = tid(j) => i = j
  <2>1. \A i \in arm : Before(arm, i) \in Nat
    BY <1>2, <1>3, BeforeType
  <2>2. \A i, j \in arm : tid(i) = tid(j) => Before(arm, i) = Before(arm, j)
    BY <2>1
  <2> QED BY <1>2, <1>3, <2>2, BeforeInjective
<1>7. \A id \in arm : [r[id] EXCEPT !.timer = tid(id)] \in Reminder
                      /\ [r[id] EXCEPT !.timer = tid(id)].time = r[id].time
                      /\ [r[id] EXCEPT !.timer = tid(id)].timer = tid(id)
  BY <1>2, <1>4, <1>5 DEF Reminder
<1>8. DOMAIN reminders' = DOMAIN r \ Expired(r)
  BY <1>1
<1>9. IsReminders(reminders')
  BY <1>1, <1>5, <1>7, <1>8 DEF IsReminders
<1>10. \A id \in DOMAIN reminders' : reminders'[id].time = r[id].time
  BY <1>1, <1>7, <1>8
<1>11. \A id \in DOMAIN reminders' : id \notin arm => reminders'[id] = r[id]
  BY <1>1, <1>8
<1>12. \A t \in timers' \ timers : \E id \in arm : t = new(id)
  BY <1>1
<1>13. \A id \in arm : new(id) \in [tid : Nat, due : Nat, id : Nat]
  BY <1>2, <1>4, <1>5 DEF Reminder
<1>14. ASSUME NEW t \in timers' \ timers
       PROVE  /\ t \in [tid : Nat, due : Nat, id : Nat] /\ base <= t.tid /\ t.tid < nexttid'
              /\ t.id \in arm /\ t.due = r[t.id].time
  <2>1. PICK id \in arm : t = new(id)
    BY <1>12, <1>14
  <2>2. t.tid = tid(id) /\ t.id = id /\ t.due = r[id].time
    BY <2>1
  <2> QED BY <1>4, <1>13, <2>1, <2>2
<1>15. ASSUME NEW t \in timers' \ timers, NEW u \in timers' \ timers, t.tid = u.tid PROVE t = u
  <2>1. PICK i \in arm : t = new(i)
    BY <1>12, <1>15
  <2>2. PICK j \in arm : u = new(j)
    BY <1>12, <1>15
  <2>3. tid(i) = tid(j)
    BY <1>15, <2>1, <2>2
  <2> QED BY <1>6, <2>1, <2>2, <2>3
<1>16. ASSUME NEW id \in arm
       PROVE  \E t \in timers' : t.id = id /\ t.tid = reminders'[id].timer /\ t.due = r[id].time
  <2>1. new(id) \in timers'
    BY <1>1, <1>16
  <2>2. reminders'[id].timer = tid(id)
    BY <1>1, <1>2, <1>7, <1>16
  <2> QED BY <2>1, <2>2
<1>17. nexttid' \in Nat /\ base <= nexttid'
  BY <1>1, <1>3
<1> QED BY <1>1, <1>8, <1>9, <1>10, <1>11, <1>14, <1>15, <1>16, <1>17 DEF Loaded

\* What is announced while loading is not early.
LEMMA InitTimely ==
    ASSUME NEW r, IsReminders(r), now \in Nat, \A id \in DOMAIN r : Past(id),
           NEW active, NEW base \in Nat, initReminders(r, active, base), announced \in Seq(Timely)
    PROVE  announced' \in Seq(Timely)
<1> DEFINE E == Expired(r)
           n == Cardinality(E)
<1>1. PICK s \in [1 .. n -> E] : announced' = announced \o [k \in DOMAIN s |-> Announcement(s[k], r)]
  BY DEF initReminders, FireAll
<1>2. E \in SUBSET DOMAIN r
  BY DEF Expired
<1>3. n \in Nat
  BY <1>2, FewIds
<1>4. \A id \in E : Announcement(id, r) \in Timely
  <2>1. \A id \in E : id \in Nat /\ r[id].time \in Nat /\ r[id].time < now
    BY <1>2 DEF Expired, IsReminders, Ids, Reminder
  <2> QED BY <2>1 DEF Announcement, Timely
<1>5. DOMAIN s = 1 .. n
  OBVIOUS
<1>6. [k \in 1 .. n |-> Announcement(s[k], r)] \in Seq(Timely)
  BY <1>3, <1>4, IsASeq
<1> QED BY <1>1, <1>5, <1>6, ConcatProperties

-----------------------------------------------------------------------------
(* Types, and the agreement of array and file.                             *)

LEMMA BInit == Init => BInv
<1> SUFFICES ASSUME Init PROVE BInv
  OBVIOUS
<1>1. IsReminders(reminders) /\ DOMAIN reminders = {}
  BY EmptyType DEF Init
<1>2. TypeOK
  BY <1>1 DEF Init, TypeOK
<1> QED BY <1>1, <1>2 DEF Init, BInv, TInv, FileIsCurrent, PastInv, DownInv

\* The array of a start or a rehash.
LEMMA MergedType ==
    ASSUME BInv, datafile # Torn
    PROVE  /\ IsReminders(Merged(reminders)) /\ now \in Nat
           /\ \A id \in DOMAIN Merged(reminders) : Past(id)
           /\ DOMAIN Merged(reminders) = DOMAIN datafile
           /\ \A id \in DOMAIN datafile : Merged(reminders)[id] = datafile[id]
           /\ up => datafile = reminders
<1>1. IsReminders(datafile) /\ now \in Nat /\ IsReminders(reminders)
  BY DEF BInv, TInv, TypeOK
<1>2. up => datafile = reminders
  BY DEF BInv, TInv, FileIsCurrent
<1>3. ~up => DOMAIN reminders = {}
  BY EmptyType DEF BInv, DownInv
<1>4. DOMAIN Merged(reminders) = DOMAIN datafile
  BY <1>2, <1>3 DEF Merged
<1>5. \A id \in DOMAIN datafile : Merged(reminders)[id] = datafile[id]
  BY DEF Merged
<1>6. IsReminders(Merged(reminders))
  BY <1>1, <1>4, <1>5 DEF IsReminders
<1>7. \A id \in DOMAIN datafile : Past(id)
  BY DEF BInv, PastInv
<1> QED BY <1>1, <1>2, <1>4, <1>5, <1>6, <1>7

\* Loading keeps the base, for the timers of this process that are there already.
LEMMA InitBase ==
    ASSUME BInv, datafile # Torn, NEW active, NEW base \in Nat,
           initReminders(Merged(reminders), active, base),
           now' = now, fresh' = fresh, up', crashes' = crashes,
           foreign' \subseteq 0 .. base - 1,
           \A t \in timers : t.tid < base /\ t.tid \notin foreign'
    PROVE  BInv'
<1> DEFINE r == Merged(reminders)
<1>1. /\ IsReminders(r) /\ now \in Nat /\ \A id \in DOMAIN r : Past(id)
  BY MergedType
<1> HIDE DEF r
<1>2. /\ IsReminders(reminders') /\ datafile' = reminders' /\ nexttid' \in Nat /\ base <= nexttid'
      /\ DOMAIN reminders' = DOMAIN r \ Expired(r)
      /\ \A t \in timers' \ timers :
            /\ t \in [tid : Nat, due : Nat, id : Nat] /\ base <= t.tid /\ t.tid < nexttid'
            /\ t.id \in ToArm(r, active)
  <2>1. Loaded(r, active, base)
    BY <1>1, InitEffect DEF r
  <2> QED BY <2>1 DEF Loaded
<1>3. \A id : Past(id) => Past(id)'
  BY DEF Past
<1>4. \A t \in timers' \ timers : Past(t.id)
  BY <1>1, <1>2 DEF ToArm
<1>5. \A t \in timers : t \in [tid : Nat, due : Nat, id : Nat] /\ Past(t.id)
  BY DEF BInv, TInv, TypeOK, PastInv
<1>6. PastInv'
  BY <1>1, <1>2, <1>3, <1>4, <1>5 DEF PastInv
<1>7. \A t \in timers' : t \in [tid : Nat, due : Nat, id : Nat] /\ t.tid < nexttid' /\ t.tid \notin foreign'
  <2>1. ASSUME NEW t \in timers' \cap timers
        PROVE  t \in [tid : Nat, due : Nat, id : Nat] /\ t.tid < nexttid' /\ t.tid \notin foreign'
    <3>1. t.tid \in Nat
      BY <1>5
    <3> QED BY <1>2, <1>5, <3>1
  <2>2. ASSUME NEW t \in timers' \ timers
        PROVE  t \in [tid : Nat, due : Nat, id : Nat] /\ t.tid < nexttid' /\ t.tid \notin foreign'
    <3>1. t \in [tid : Nat, due : Nat, id : Nat] /\ base <= t.tid /\ t.tid < nexttid'
      BY <1>2
    <3>2. t.tid \in Nat /\ t.tid \notin 0 .. base - 1
      BY <3>1
    <3> QED BY <3>1, <3>2
  <2> QED BY <2>1, <2>2
<1>8. foreign' \subseteq 0 .. nexttid' - 1
  <2>1. nexttid' \in Nat /\ base <= nexttid'
    BY <1>2
  <2> QED BY <2>1, LongerInterval
<1>9. crashes' \in Nat /\ now' \in Nat /\ {up', fresh'} \subseteq BOOLEAN
  BY DEF BInv, TInv, TypeOK
<1>10. TypeOK'
  BY <1>2, <1>7, <1>8, <1>9 DEF TypeOK
<1> QED BY <1>2, <1>6, <1>10 DEF BInv, TInv, FileIsCurrent, DownInv

\* The steps that load.
LEMMA LoadBase ==
    ASSUME BInv, Rehash \/ Start
    PROVE  BInv'
<1>1. /\ now \in Nat /\ nexttid \in Nat /\ foreign \subseteq 0 .. nexttid - 1
      /\ \A t \in timers : t.tid < nexttid /\ t.tid \notin foreign
      /\ MaxForeign \in Nat
  BY RemindAssumption DEF BInv, TInv, TypeOK, RemindAssumption
<1>2. CASE Rehash
  <2>1. CASE datafile = Torn
    <3>1. UNCHANGED <<now, up, reminders, datafile, timers, foreign, nexttid, crashes, fresh>>
      BY <1>2, <2>1 DEF Rehash
    <3> QED BY <3>1 DEF BInv, TInv, TypeOK, FileIsCurrent, PastInv, Past, DownInv
  <2>2. CASE datafile # Torn
    <3>1. /\ initReminders(Merged(reminders), {t.tid : t \in timers} \cup foreign, nexttid)
          /\ up /\ UNCHANGED <<now, up, foreign, crashes, fresh>>
      BY <1>2, <2>2 DEF Rehash
    <3> QED BY <1>1, <2>2, <3>1, InitBase
  <2> QED BY <2>1, <2>2
<1>3. CASE Start
  <2>1. PICK k \in 0 .. MaxForeign :
          /\ foreign' = 0 .. k - 1
          /\ IF datafile = Torn
             THEN nexttid' = k /\ UNCHANGED <<reminders, datafile, timers, announced>>
             ELSE initReminders(Merged(reminders), foreign', k)
    BY <1>3 DEF Start
  <2>2. k \in Nat
    BY <1>1
  <2>3. up' = TRUE /\ ~up /\ UNCHANGED <<now, crashes, fresh>>
    BY <1>3 DEF Start
  <2>4. timers = {} /\ reminders = NoReminders
    BY <2>3 DEF BInv, DownInv
  <2>5. CASE datafile = Torn
    <3>1. /\ nexttid' = k /\ UNCHANGED <<reminders, datafile, timers>>
      BY <2>1, <2>5
    <3>2. TypeOK'
      BY <2>1, <2>2, <2>3, <2>4, <3>1 DEF BInv, TInv, TypeOK
    <3> QED BY <2>3, <2>4, <2>5, <3>1, <3>2
            DEF BInv, TInv, FileIsCurrent, PastInv, Past, DownInv
  <2>6. CASE datafile # Torn
    BY <2>1, <2>2, <2>3, <2>4, <2>6, InitBase
  <2> QED BY <2>5, <2>6
<1> QED BY <1>2, <1>3

\* A reminder is made: its id is the present second, its timer the next one.
LEMMA MakeBase ==
    ASSUME BInv, NEW time \in Nat, newReminder(time)
    PROVE  BInv'
<1> DEFINE new == [tid |-> nexttid, due |-> time, id |-> now]
           entry == [time |-> time, timer |-> nexttid]
<1>1. /\ up /\ timers' = timers \cup {new} /\ nexttid' = nexttid + 1 /\ fresh' = FALSE
      /\ reminders' = With(reminders, now, entry) /\ datafile' = reminders'
      /\ UNCHANGED <<now, up, foreign, announced, crashes>>
  BY DEF newReminder
<1>2. now \in Nat /\ nexttid \in Nat /\ IsReminders(reminders) /\ foreign \subseteq 0 .. nexttid - 1
  BY DEF BInv, TInv, TypeOK
<1>3. IsReminders(reminders')
  <2>1. entry \in Reminder
    BY <1>2 DEF Reminder
  <2> QED BY <1>1, <1>2, <2>1, WithType
<1>4. foreign' \subseteq 0 .. nexttid' - 1 /\ nexttid \notin foreign
  <2>1. \A x \in 0 .. nexttid - 1 : x \in 0 .. nexttid' - 1 /\ x # nexttid
    BY <1>1, <1>2
  <2> QED BY <1>1, <1>2, <2>1
<1>5. new \in [tid : Nat, due : Nat, id : Nat] /\ new.tid = nexttid /\ new.id = now
  BY <1>2
<1>6. \A t \in timers : t \in [tid : Nat, due : Nat, id : Nat] /\ t.tid < nexttid /\ t.tid \notin foreign
  BY DEF BInv, TInv, TypeOK
<1>7. ASSUME NEW t \in timers'
      PROVE  t \in [tid : Nat, due : Nat, id : Nat] /\ t.tid < nexttid' /\ t.tid \notin foreign'
  <2>1. CASE t = new
    BY <1>1, <1>2, <1>4, <1>5, <2>1
  <2>2. CASE t \in timers
    <3>1. t \in [tid : Nat, due : Nat, id : Nat] /\ t.tid < nexttid /\ t.tid \notin foreign
      BY <1>6, <2>2
    <3>2. t.tid \in Nat
      BY <3>1
    <3> QED BY <1>1, <1>2, <3>1, <3>2
  <2> QED BY <1>1, <2>1, <2>2
<1>8. TypeOK'
  <2>1. crashes' \in Nat /\ {up', fresh'} \subseteq BOOLEAN
    BY <1>1 DEF BInv, TInv, TypeOK
  <2>2. nexttid' \in Nat /\ now' \in Nat
    BY <1>1, <1>2
  <2> QED BY <1>1, <1>3, <1>4, <1>7, <2>1, <2>2 DEF TypeOK
<1>9. PastInv'
  <2>1. \A id : Past(id) => Past(id)'
    BY <1>1 DEF Past
  <2>2. Past(now)'
    BY <1>1 DEF Past
  <2>3. DOMAIN reminders' = DOMAIN reminders \cup {now}
    BY <1>1 DEF With
  <2> QED BY <1>1, <1>5, <2>1, <2>2, <2>3 DEF BInv, PastInv
<1> QED BY <1>1, <1>8, <1>9 DEF BInv, TInv, FileIsCurrent, DownInv

\* A reminder is taken off: cancelled, or announced.
LEMMA DropBase ==
    ASSUME BInv, NEW id, up, reminders' = Without(reminders, {id}), datafile' = reminders',
           timers' \subseteq timers, foreign' \subseteq foreign,
           UNCHANGED <<now, up, nexttid, crashes, fresh>>
    PROVE  BInv'
<1>1. IsReminders(reminders')
  BY WithoutType DEF BInv, TInv, TypeOK
<1>2. TypeOK'
  BY <1>1 DEF BInv, TInv, TypeOK
<1>3. DOMAIN reminders' \subseteq DOMAIN reminders
  BY DEF Without
<1>4. PastInv'
  BY <1>3 DEF BInv, PastInv, Past
<1> QED BY <1>2, <1>4 DEF BInv, TInv, FileIsCurrent, DownInv

\* The process ends: the array and the timers are gone, the file holds at most what it
\* held.
LEMMA DieBase ==
    ASSUME BInv, Die, datafile' \in {datafile, NoReminders, Torn}, UNCHANGED <<now, fresh>>
    PROVE  BInv'
<1>1. IsReminders(reminders') /\ DOMAIN reminders' = {} /\ IsReminders(NoReminders)
  BY EmptyType DEF Die
<1>2. timers' = {} /\ foreign' = {} /\ nexttid' = 0 /\ up' = FALSE /\ crashes' = crashes + 1
  BY DEF Die
<1>3. datafile' = Torn \/ IsReminders(datafile')
  BY <1>1 DEF BInv, TInv, TypeOK
<1>4. TypeOK'
  <2>1. now' \in Nat /\ nexttid' \in Nat /\ crashes' \in Nat
    BY <1>2 DEF BInv, TInv, TypeOK
  <2>2. {up', fresh'} \subseteq BOOLEAN
    BY <1>2 DEF BInv, TInv, TypeOK
  <2> QED BY <1>1, <1>2, <1>3, <2>1, <2>2 DEF TypeOK
<1>5. PastInv'
  <2>1. datafile' # Torn => \A id \in DOMAIN datafile' : Past(id)
    BY EmptyType DEF BInv, PastInv
  <2> QED BY <1>1, <1>2, <2>1 DEF PastInv, Past
<1>6. DownInv' /\ FileIsCurrent'
  BY <1>2 DEF Die, DownInv, FileIsCurrent
<1> QED BY <1>4, <1>5, <1>6 DEF BInv, TInv

LEMMA BNext == BInv /\ [Next]_vars => BInv'
<1> SUFFICES ASSUME BInv, [Next]_vars PROVE BInv'
  OBVIOUS
<1>1. ASSUME NEW time \in 0 .. MaxNow, newReminder(time) PROVE BInv'
  BY <1>1, MakeBase
<1>2. ASSUME NEW id \in DOMAIN reminders, cancelReminder(id) PROVE BInv'
  BY <1>2, DropBase DEF cancelReminder
<1>3. ASSUME NEW t \in timers, fireReminder(t) PROVE BInv'
  <2>1. up /\ timers' \subseteq timers /\ UNCHANGED <<now, up, foreign, nexttid, crashes, fresh>>
    BY <1>3 DEF fireReminder, Due
  <2>2. CASE t.id \in DOMAIN reminders
    BY <1>3, <2>1, <2>2, DropBase DEF fireReminder
  <2>3. CASE t.id \notin DOMAIN reminders
    <3>1. UNCHANGED <<reminders, datafile>>
      BY <1>3, <2>3 DEF fireReminder
    <3> QED BY <2>1, <3>1 DEF BInv, TInv, TypeOK, FileIsCurrent, PastInv, Past, DownInv
  <2> QED BY <2>2, <2>3
<1>4. ASSUME NEW t \in timers, CrashInFire(t) PROVE BInv'
  BY <1>4, DieBase DEF CrashInFire
<1>5. ASSUME NEW tid \in foreign, ForeignDone(tid) PROVE BInv'
  BY <1>5 DEF ForeignDone, script, BInv, TInv, TypeOK, FileIsCurrent, PastInv, Past, DownInv
<1>6. CASE Rehash \/ Start
  BY <1>6, LoadBase
<1>7. CASE Tick
  <2>1. now' = now + 1 /\ fresh' = TRUE /\ now \in Nat
        /\ UNCHANGED <<up, script, foreign, nexttid, announced, crashes>>
    BY <1>7 DEF Tick, BInv, TInv, TypeOK
  <2>2. ASSUME NEW id \in Nat, Past(id) PROVE Past(id)'
    BY <2>1, <2>2 DEF Past
  <2>3. /\ DOMAIN reminders \subseteq Nat /\ \A t \in timers : t.id \in Nat
        /\ datafile # Torn => DOMAIN datafile \subseteq Nat
    BY DEF BInv, TInv, TypeOK, IsReminders, Ids
  <2>4. PastInv'
    BY <2>1, <2>2, <2>3 DEF BInv, PastInv, script
  <2>5. TypeOK'
    BY <2>1 DEF BInv, TInv, TypeOK, script
  <2> QED BY <2>1, <2>4, <2>5 DEF BInv, TInv, FileIsCurrent, DownInv, script
<1>8. CASE Crash
  BY <1>8, DieBase DEF Crash
<1>9. CASE UNCHANGED vars
  BY <1>9 DEF vars, script, BInv, TInv, TypeOK, FileIsCurrent, PastInv, Past, DownInv
<1> QED BY <1>1, <1>2, <1>3, <1>4, <1>5, <1>6, <1>7, <1>8, <1>9 DEF Next

LEMMA BAlways == Spec => []BInv
BY BInit, BNext, PTL DEF Spec

\* Types: the array holds a time and a timer id under numbers, and the timers of this
\* script and of others share no id (remind.tcl:51-199).
THEOREM TypeCorrect == Spec => []TypeOK
<1>1. BInv => TypeOK
  BY DEF BInv, TInv
<1> QED BY <1>1, BAlways, PTL

\* The file of a running script holds its array, once it has been written: every change
\* of the array is saved in the same handler (saveReminders, remind.tcl:51).
THEOREM FileAgrees == Spec => []FileIsCurrent
<1>1. BInv => FileIsCurrent
  BY DEF BInv, TInv
<1> QED BY <1>1, BAlways, PTL

-----------------------------------------------------------------------------
(* Times.                                                                  *)

LEMMA DInit == Init => DInv
<1>1. Init => timers = {} /\ announced = <<>>
  BY DEF Init
<1>2. <<>> \in Seq(Timely)
  BY EmptySeq
<1> QED BY <1>1, <1>2 DEF DInv

\* What is due is announced on time.
LEMMA FireTimely ==
    ASSUME BInv, DInv, NEW t \in timers, Due(t), t.id \in DOMAIN reminders
    PROVE  Append(announced, Announcement(t.id, reminders)) \in Seq(Timely)
<1>1. reminders[t.id].time <= t.due /\ t.due <= now
  BY DEF DInv, Due
<1>2. t.id \in Nat /\ t.due \in Nat /\ now \in Nat /\ reminders[t.id].time \in Nat
  BY DEF BInv, TInv, TypeOK, IsReminders, Reminder
<1>3. reminders[t.id].time <= now
  BY <1>1, <1>2
<1>4. Announcement(t.id, reminders) \in Timely
  BY <1>2, <1>3 DEF Announcement, Timely
<1> QED BY <1>4, AppendProperties DEF DInv

LEMMA LoadTimes ==
    ASSUME BInv, DInv, Rehash \/ Start
    PROVE  DInv'
<1>1. ASSUME NEW active, NEW base \in Nat, datafile # Torn,
             initReminders(Merged(reminders), active, base)
      PROVE  DInv'
  <2> DEFINE r == Merged(reminders)
  <2>1. /\ IsReminders(r) /\ now \in Nat /\ \A id \in DOMAIN r : Past(id)
        /\ DOMAIN r = DOMAIN datafile /\ \A id \in DOMAIN datafile : r[id] = datafile[id]
        /\ up => datafile = reminders
    BY <1>1, MergedType
  <2>2. ~up => timers = {}
    BY DEF BInv, DownInv
  <2> HIDE DEF r
  <2>3. /\ DOMAIN reminders' = DOMAIN r \ Expired(r)
        /\ \A id \in DOMAIN reminders' : reminders'[id].time = r[id].time
        /\ \A t \in timers' \ timers : t.due = r[t.id].time /\ t \in [tid : Nat, due : Nat, id : Nat]
    <3>1. Loaded(r, active, base)
      BY <1>1, <2>1, InitEffect DEF r
    <3> QED BY <3>1 DEF Loaded
  <2>4. announced' \in Seq(Timely)
    BY <1>1, <2>1, InitTimely DEF r, DInv
  <2>5. ASSUME NEW t \in timers', t.id \in DOMAIN reminders' PROVE reminders'[t.id].time <= t.due
    <3>1. CASE t \in timers
      <4>1. up
        BY <2>2, <3>1
      <4>2. t.id \in DOMAIN reminders /\ reminders'[t.id].time = reminders[t.id].time
        BY <2>1, <2>3, <2>5, <4>1
      <4> QED BY <3>1, <4>2 DEF DInv
    <3>2. CASE t \notin timers
      <4>1. t.due \in Nat /\ reminders'[t.id].time = t.due
        BY <2>3, <2>5, <3>2
      <4> QED BY <4>1
    <3> QED BY <3>1, <3>2
  <2> QED BY <2>4, <2>5 DEF DInv
<1>2. CASE datafile = Torn
  <2>1. UNCHANGED <<reminders, timers, announced>>
    BY <1>2 DEF Rehash, Start
  <2> QED BY <2>1 DEF DInv
<1>3. CASE datafile # Torn
  <2>1. CASE Rehash
    <3>1. nexttid \in Nat
      BY DEF BInv, TInv, TypeOK
    <3> QED BY <1>1, <1>3, <2>1, <3>1 DEF Rehash
  <2>2. CASE Start
    <3>1. PICK k \in 0 .. MaxForeign : initReminders(Merged(reminders), foreign', k)
      BY <1>3, <2>2 DEF Start
    <3>2. k \in Nat
      BY RemindAssumption DEF RemindAssumption
    <3> QED BY <1>1, <1>3, <3>1, <3>2
  <2> QED BY <2>1, <2>2
<1> QED BY <1>2, <1>3

LEMMA DNext ==
    ASSUME OnePerSecond
    PROVE  BInv /\ DInv /\ [Next]_vars => DInv'
<1> SUFFICES ASSUME BInv, DInv, [Next]_vars PROVE DInv'
  OBVIOUS
<1>1. ASSUME NEW time \in 0 .. MaxNow, newReminder(time) PROVE DInv'
  <2>1. /\ timers' = timers \cup {[tid |-> nexttid, due |-> time, id |-> now]}
        /\ reminders' = With(reminders, now, [time |-> time, timer |-> nexttid])
        /\ fresh /\ announced' = announced
    BY <1>1 DEF newReminder
  <2>2. \A t \in timers : t.id # now
    <3>1. now \in Nat
      BY DEF BInv, TInv, TypeOK
    <3> QED BY <2>1, <3>1 DEF BInv, PastInv, Past
  <2>3. reminders'[now].time = time /\ now \in DOMAIN reminders'
    BY <2>1 DEF With
  <2>4. \A id \in DOMAIN reminders' : id # now => id \in DOMAIN reminders /\ reminders'[id] = reminders[id]
    BY <2>1 DEF With
  <2>5. ASSUME NEW t \in timers', t.id \in DOMAIN reminders' PROVE reminders'[t.id].time <= t.due
    <3>1. CASE t \in timers
      BY <2>2, <2>4, <2>5, <3>1 DEF DInv
    <3>2. CASE t = [tid |-> nexttid, due |-> time, id |-> now]
      BY <2>3, <3>2
    <3> QED BY <2>1, <3>1, <3>2
  <2> QED BY <2>1, <2>5 DEF DInv
<1>2. ASSUME NEW id \in DOMAIN reminders, cancelReminder(id) PROVE DInv'
  BY <1>2 DEF cancelReminder, Without, DInv
<1>3. ASSUME NEW t \in timers, fireReminder(t) PROVE DInv'
  <2>1. CASE t.id \in DOMAIN reminders
    <3>1. /\ announced' = Append(announced, Announcement(t.id, reminders)) /\ Due(t)
          /\ reminders' = Without(reminders, {t.id}) /\ timers' \subseteq timers
      BY <1>3, <2>1 DEF fireReminder
    <3> QED BY <2>1, <3>1, FireTimely DEF Without, DInv
  <2>2. CASE t.id \notin DOMAIN reminders
    <3>1. UNCHANGED <<announced, reminders>> /\ timers' \subseteq timers
      BY <1>3, <2>2 DEF fireReminder
    <3> QED BY <3>1 DEF DInv
  <2> QED BY <2>1, <2>2
<1>4. ASSUME NEW t \in timers, CrashInFire(t) PROVE DInv'
  <2>1. /\ announced' = Append(announced, Announcement(t.id, reminders)) /\ Due(t)
        /\ t.id \in DOMAIN reminders /\ timers' = {}
    BY <1>4 DEF CrashInFire, Die
  <2> QED BY <2>1, FireTimely DEF DInv
<1>5. ASSUME NEW tid \in foreign, ForeignDone(tid) PROVE DInv'
  BY <1>5 DEF ForeignDone, script, DInv
<1>6. CASE Rehash \/ Start
  BY <1>6, LoadTimes
<1>7. CASE Tick
  BY <1>7 DEF Tick, script, DInv
<1>8. CASE Crash
  BY <1>8 DEF Crash, Die, DInv
<1>9. CASE UNCHANGED vars
  BY <1>9 DEF vars, script, DInv
<1> QED BY <1>1, <1>2, <1>3, <1>4, <1>5, <1>6, <1>7, <1>8, <1>9 DEF Next

\* With at most one reminder made in a second, none is announced before its time, over
\* any rehashes, crashes and starts (at, fireReminder, remind.tcl:61-94).
THEOREM NoneIsEarly ==
    ASSUME OnePerSecond
    PROVE  Spec => []NeverEarly
<1>1. DInv => NeverEarly
  <2> SUFFICES ASSUME DInv, NEW k \in DOMAIN announced
               PROVE  announced[k].time <= announced[k].at
    BY DEF NeverEarly
  <2>1. announced \in Seq(Timely) /\ k \in 1 .. Len(announced)
    BY LenProperties DEF DInv
  <2>2. announced[k] \in Timely
    BY <2>1, ElementOfSeq
  <2> QED BY <2>2 DEF Timely
<1>2. Spec => [](BInv /\ DInv)
  BY BInit, BNext, DInit, DNext, PTL DEF Spec
<1> QED BY <1>1, <1>2, PTL

-----------------------------------------------------------------------------
(* Every reminder is armed, if no other script sets timers.                *)

LEMMA AInit == Init => AInv
BY DEF Init, AInv, EveryReminderArmed

\* Entries that stay as they are keep their timers.
LEMMA KeepArmed ==
    ASSUME AInv, up, foreign' = {}, timers' \subseteq timers,
           \A id \in DOMAIN reminders' : id \in DOMAIN reminders /\ reminders'[id] = reminders[id],
           \A t \in timers : t.id \in DOMAIN reminders' => t \in timers'
    PROVE  AInv'
<1>1. ASSUME NEW id \in DOMAIN reminders'
      PROVE  \E t \in timers' : t.id = id /\ t.tid = reminders'[id].timer /\ t.due = reminders'[id].time
  <2>1. PICK t \in timers : t.id = id /\ t.tid = reminders[id].timer /\ t.due = reminders[id].time
    BY <1>1 DEF AInv, EveryReminderArmed
  <2>2. t \in timers' /\ reminders'[id] = reminders[id]
    BY <1>1, <2>1
  <2> QED BY <2>1, <2>2
<1> QED BY <1>1 DEF AInv, EveryReminderArmed

\* A new reminder has the timer set for it; those of the others have other ids.
LEMMA MakeArmed ==
    ASSUME BInv, AInv, NEW time \in Nat, newReminder(time)
    PROVE  AInv'
<1> DEFINE new == [tid |-> nexttid, due |-> time, id |-> now]
<1>1. /\ up /\ timers' = timers \cup {new} /\ foreign' = foreign
      /\ reminders' = With(reminders, now, [time |-> time, timer |-> nexttid])
  BY DEF newReminder
<1>2. \A t \in timers : t.tid # nexttid
  <2>1. \A t \in timers : t.tid \in Nat /\ t.tid < nexttid
    BY DEF BInv, TInv, TypeOK
  <2> QED BY <2>1
<1>3. \A t, u \in timers' : t.tid = u.tid => t = u
  BY <1>1, <1>2 DEF AInv
<1>4. ASSUME NEW id \in DOMAIN reminders'
      PROVE  \E t \in timers' : t.id = id /\ t.tid = reminders'[id].timer /\ t.due = reminders'[id].time
  <2>1. CASE id = now
    <3>1. reminders'[id] = [time |-> time, timer |-> nexttid]
      BY <1>1, <2>1 DEF With
    <3>2. new \in timers' /\ new.id = id /\ new.tid = reminders'[id].timer
          /\ new.due = reminders'[id].time
      BY <1>1, <2>1, <3>1
    <3> QED BY <3>2
  <2>2. CASE id # now
    <3>1. id \in DOMAIN reminders /\ reminders'[id] = reminders[id]
      BY <1>1, <1>4, <2>2 DEF With
    <3>2. PICK t \in timers : t.id = id /\ t.tid = reminders[id].timer /\ t.due = reminders[id].time
      BY <1>1, <3>1 DEF AInv, EveryReminderArmed
    <3> QED BY <1>1, <3>1, <3>2
  <2> QED BY <2>1, <2>2
<1> QED BY <1>1, <1>3, <1>4 DEF AInv, EveryReminderArmed

\* Loading arms what has no timer among the pending ones.  Those are this script's own,
\* so an entry that is passed over has its timer.
LEMMA LoadArmed ==
    ASSUME BInv, AInv, datafile # Torn, NEW base \in Nat, foreign' = {},
           initReminders(Merged(reminders), {t.tid : t \in timers}, base),
           \A t \in timers : t.tid < base
    PROVE  AInv'
<1> DEFINE r == Merged(reminders)
           active == {t.tid : t \in timers}
<1>1. /\ IsReminders(r) /\ now \in Nat /\ \A id \in DOMAIN r : Past(id)
      /\ DOMAIN r = DOMAIN datafile /\ \A id \in DOMAIN datafile : r[id] = datafile[id]
      /\ up => datafile = reminders
  BY MergedType
<1>2. ~up => timers = {}
  BY DEF BInv, DownInv
<1>3. Loaded(r, active, base)
  BY <1>1, InitEffect
<1>4. \A t, u \in timers' : t.tid = u.tid => t = u
  <2>1. \A t \in timers : t.tid \in Nat
    BY DEF BInv, TInv, TypeOK
  <2>2. \A t \in timers' \ timers : t.tid \in Nat /\ base <= t.tid
    BY <1>3 DEF Loaded
  <2>3. \A t \in timers, u \in timers' \ timers : t.tid # u.tid
    BY <2>1, <2>2
  <2>4. \A t, u \in timers' \ timers : t.tid = u.tid => t = u
    BY <1>3 DEF Loaded
  <2> QED BY <2>3, <2>4 DEF AInv
<1> HIDE DEF r
<1>5. ASSUME NEW id \in DOMAIN reminders'
      PROVE  \E t \in timers' : t.id = id /\ t.tid = reminders'[id].timer /\ t.due = reminders'[id].time
  <2>1. id \in DOMAIN r \ Expired(r) /\ reminders'[id].time = r[id].time
    BY <1>3, <1>5 DEF Loaded
  <2>2. CASE id \in ToArm(r, active)
    <3>1. \E t \in timers' : t.id = id /\ t.tid = reminders'[id].timer /\ t.due = r[id].time
      BY <1>3, <2>2 DEF Loaded
    <3> QED BY <2>1, <3>1
  <2>3. CASE id \notin ToArm(r, active)
    <3>1. reminders'[id] = r[id] /\ timers \subseteq timers'
      BY <1>3, <1>5, <2>3 DEF Loaded
    <3>2. r[id].timer \in active
      BY <2>1, <2>3 DEF ToArm
    <3>3. up
      BY <1>2, <3>2
    <3>4. id \in DOMAIN reminders /\ r[id] = reminders[id]
      BY <1>1, <2>1, <3>3
    <3>5. PICK t \in timers : t.id = id /\ t.tid = reminders[id].timer /\ t.due = reminders[id].time
      BY <3>3, <3>4 DEF AInv, EveryReminderArmed
    <3> QED BY <3>1, <3>4, <3>5
  <2> QED BY <2>2, <2>3
<1> QED BY <1>4, <1>5 DEF AInv, EveryReminderArmed

LEMMA ANext ==
    ASSUME MaxForeign = 0
    PROVE  BInv /\ AInv /\ [Next]_vars => AInv'
<1> SUFFICES ASSUME BInv, AInv, [Next]_vars PROVE AInv'
  OBVIOUS
<1>1. ASSUME NEW time \in 0 .. MaxNow, newReminder(time) PROVE AInv'
  BY <1>1, MakeArmed
<1>2. ASSUME NEW id \in DOMAIN reminders, cancelReminder(id) PROVE AInv'
  <2>1. /\ up /\ timers' = {t \in timers : t.tid # reminders[id].timer} /\ foreign' = {}
        /\ reminders' = Without(reminders, {id})
    BY <1>2 DEF cancelReminder, AInv
  <2>2. PICK t \in timers : t.id = id /\ t.tid = reminders[id].timer
    BY <1>2, <2>1 DEF AInv, EveryReminderArmed
  <2>3. \A u \in timers : u.id # id => u \in timers'
    BY <2>1, <2>2 DEF AInv
  <2> QED BY <2>1, <2>3, KeepArmed DEF Without
<1>3. ASSUME NEW t \in timers, fireReminder(t) PROVE AInv'
  <2>1. up /\ timers' = timers \ {t} /\ foreign' = {}
    BY <1>3 DEF fireReminder, Due, AInv
  <2>2. CASE t.id \in DOMAIN reminders
    <3>1. reminders' = Without(reminders, {t.id})
      BY <1>3, <2>2 DEF fireReminder
    <3> QED BY <2>1, <3>1, KeepArmed DEF Without
  <2>3. CASE t.id \notin DOMAIN reminders
    <3>1. reminders' = reminders
      BY <1>3, <2>3 DEF fireReminder
    <3> QED BY <2>1, <2>3, <3>1, KeepArmed
  <2> QED BY <2>2, <2>3
<1>4. ASSUME NEW t \in timers, CrashInFire(t) PROVE AInv'
  BY <1>4 DEF CrashInFire, Die, AInv, EveryReminderArmed
<1>5. ASSUME NEW tid \in foreign, ForeignDone(tid) PROVE AInv'
  BY <1>5 DEF AInv
<1>6. CASE Rehash
  <2>1. CASE datafile = Torn
    BY <1>6, <2>1 DEF Rehash, AInv, EveryReminderArmed
  <2>2. CASE datafile # Torn
    <3>1. /\ foreign' = {} /\ foreign = {} /\ nexttid \in Nat
          /\ initReminders(Merged(reminders), {t.tid : t \in timers} \cup foreign, nexttid)
          /\ \A t \in timers : t.tid < nexttid
      BY <1>6, <2>2 DEF Rehash, AInv, BInv, TInv, TypeOK
    <3>2. {t.tid : t \in timers} \cup foreign = {t.tid : t \in timers}
      BY <3>1
    <3> QED BY <2>2, <3>1, <3>2, LoadArmed
  <2> QED BY <2>1, <2>2
<1>7. CASE Start
  <2>1. PICK k \in 0 .. MaxForeign :
          /\ foreign' = 0 .. k - 1
          /\ IF datafile = Torn
             THEN nexttid' = k /\ UNCHANGED <<reminders, datafile, timers, announced>>
             ELSE initReminders(Merged(reminders), foreign', k)
    BY <1>7 DEF Start
  <2>2. k = 0
    OBVIOUS
  <2>3. foreign' = {}
    BY <2>1, <2>2
  <2>4. ~up /\ timers = {} /\ reminders = NoReminders
    BY <1>7 DEF Start, BInv, DownInv
  <2>5. CASE datafile = Torn
    BY <2>1, <2>3, <2>4, <2>5, EmptyType DEF AInv, EveryReminderArmed
  <2>6. CASE datafile # Torn
    <3>1. foreign' = {t.tid : t \in timers}
      BY <2>3, <2>4
    <3> QED BY <2>1, <2>2, <2>3, <2>4, <2>6, <3>1, LoadArmed
  <2> QED BY <2>5, <2>6
<1>8. CASE Tick
  BY <1>8 DEF Tick, script, AInv, EveryReminderArmed
<1>9. CASE Crash
  BY <1>9 DEF Crash, Die, AInv, EveryReminderArmed
<1>10. CASE UNCHANGED vars
  BY <1>10 DEF vars, script, AInv, EveryReminderArmed
<1> QED BY <1>1, <1>2, <1>3, <1>4, <1>5, <1>6, <1>7, <1>8, <1>9, <1>10 DEF Next

\* If no other script sets timers, every reminder that is listed has a pending timer that
\* will announce it, over any rehashes, crashes and starts (initReminders,
\* remind.tcl:175-199).
THEOREM AllAreArmed ==
    ASSUME MaxForeign = 0
    PROVE  Spec => []EveryReminderArmed
<1>1. AInv => EveryReminderArmed
  BY DEF AInv
<1>2. Spec => [](BInv /\ AInv)
  BY BInit, BNext, AInit, ANext, PTL DEF Spec
<1> QED BY <1>1, <1>2, PTL

-----------------------------------------------------------------------------
(* One announcement, and one more for each crash.                          *)

\* The announcements of an id, by their places, and the ids that may still be announced.
Told(id) == {k \in DOMAIN announced : announced[k].id = id}
Listed(id) == id \in DOMAIN reminders \cup Saved

\* An id that may still be announced has used up at most the announcements that crashes
\* account for; one that is not listed any more, one more than that.
OInv ==
    /\ \A id \in Nat : ~Past(id) => Told(id) = {}
    /\ \A id \in Nat :
          /\ IsFiniteSet(Told(id))
          /\ Cardinality(Told(id)) <= crashes + (IF Listed(id) THEN 0 ELSE 1)

\* A place more is one announcement more.
LEMMA ToldOnceMore ==
    ASSUME NEW id \in Nat, IsFiniteSet(Told(id)), NEW k, Told(id)' \subseteq Told(id) \cup {k}
    PROVE  /\ IsFiniteSet(Told(id)') /\ Cardinality(Told(id)') \in Nat
           /\ Cardinality(Told(id)) \in Nat
           /\ Cardinality(Told(id)') <= Cardinality(Told(id)) + 1
<1>1. /\ IsFiniteSet(Told(id) \cup {k})
      /\ Cardinality(Told(id) \cup {k}) \in {Cardinality(Told(id)), Cardinality(Told(id)) + 1}
  BY FS_AddElement
<1>2. Cardinality(Told(id)) \in Nat
  BY FS_CardinalityType
<1>3. IsFiniteSet(Told(id)') /\ Cardinality(Told(id)') <= Cardinality(Told(id) \cup {k})
  BY <1>1, FS_Subset
<1>4. Cardinality(Told(id)') \in Nat
  BY <1>3, FS_CardinalityType
<1> QED BY <1>1, <1>2, <1>3, <1>4

LEMMA OInit == Init => OInv
<1> SUFFICES ASSUME Init PROVE OInv
  OBVIOUS
<1>1. \A id \in Nat : Told(id) = {}
  BY DEF Init, Told
<1>2. IsFiniteSet({}) /\ Cardinality({}) = 0
  BY FS_EmptySet
<1>3. crashes = 0
  BY DEF Init
<1> QED BY <1>1, <1>2, <1>3 DEF OInv

\* Where nothing is announced, the bound holds on if no id is listed anew that had none left.
LEMMA KeepOnce ==
    ASSUME BInv, OInv, announced' = announced, crashes' \in Nat, crashes <= crashes',
           \A id \in Nat : ~Past(id)' => ~Past(id),
           \A id \in Nat : Listed(id)' => Listed(id) \/ ~Past(id) \/ crashes < crashes'
    PROVE  OInv'
<1>1. \A id \in Nat : Told(id)' = Told(id)
  BY DEF Told
<1>2. ASSUME NEW id \in Nat
      PROVE  Cardinality(Told(id)) <= crashes' + (IF Listed(id)' THEN 0 ELSE 1)
  <2>1. /\ IsFiniteSet(Told(id))
        /\ Cardinality(Told(id)) <= crashes + (IF Listed(id) THEN 0 ELSE 1)
        /\ ~Past(id) => Told(id) = {}
    BY DEF OInv
  <2>2. Cardinality(Told(id)) \in Nat /\ crashes \in Nat
    BY <2>1, FS_CardinalityType DEF BInv, TInv, TypeOK
  <2>3. Cardinality({}) = 0
    BY FS_EmptySet
  <2> QED BY <2>1, <2>2, <2>3
<1>3. \A id \in Nat : ~Past(id)' => Told(id)' = {}
  BY <1>1 DEF OInv
<1>4. \A id \in Nat : IsFiniteSet(Told(id)')
  BY <1>1 DEF OInv
<1> QED BY <1>1, <1>2, <1>3, <1>4 DEF OInv

\* One announcement, of an id that then leaves the list or comes with a crash.
LEMMA TellOnce ==
    ASSUME BInv, OInv, NEW i \in Nat, NEW a, a.id = i, announced \in Seq(Timely),
           announced' = Append(announced, a), i \in DOMAIN reminders,
           now' = now, fresh' = fresh, crashes' \in Nat,
           \/ crashes' = crashes /\ ~Listed(i)'
              /\ \A id \in Nat : Listed(id)' => Listed(id)
           \/ crashes' = crashes + 1
    PROVE  OInv'
<1> DEFINE n == Len(announced) + 1
<1>1. DOMAIN announced' = DOMAIN announced \cup {n} /\ announced'[n] = a
      /\ \A k \in DOMAIN announced : announced'[k] = announced[k]
  <2>1. DOMAIN announced = 1 .. Len(announced) /\ Len(announced) \in Nat
    BY LenProperties
  <2>2. DOMAIN announced' = 1 .. n
    BY <2>1, AppendProperties
  <2> QED BY <2>1, <2>2, AppendProperties
<1>2. Told(i)' \subseteq Told(i) \cup {n}
  BY <1>1 DEF Told
<1>3. \A id \in Nat : id # i => Told(id)' = Told(id)
  BY <1>1 DEF Told
<1>4. crashes \in Nat
  BY DEF BInv, TInv, TypeOK
<1>5. Listed(i) /\ Past(i)
  BY DEF Listed, BInv, PastInv
<1>6. ASSUME NEW id \in Nat
      PROVE  /\ IsFiniteSet(Told(id)')
             /\ Cardinality(Told(id)') <= crashes' + (IF Listed(id)' THEN 0 ELSE 1)
             /\ ~Past(id)' => Told(id)' = {}
  <2>1. /\ IsFiniteSet(Told(id))
        /\ Cardinality(Told(id)) <= crashes + (IF Listed(id) THEN 0 ELSE 1)
        /\ ~Past(id) => Told(id) = {}
    BY DEF OInv
  <2>2. Cardinality(Told(id)) \in Nat
    BY <2>1, FS_CardinalityType
  <2>3. CASE id = i
    <3>1. /\ IsFiniteSet(Told(id)') /\ Cardinality(Told(id)') \in Nat
          /\ Cardinality(Told(id)') <= Cardinality(Told(id)) + 1
      BY <1>2, <2>1, <2>3, ToldOnceMore
    <3>2. Past(id)'
      BY <1>5, <2>3 DEF Past
    <3> QED BY <1>4, <1>5, <2>1, <2>2, <2>3, <3>1, <3>2
  <2>4. CASE id # i
    <3>1. Told(id)' = Told(id) /\ (Past(id) => Past(id)')
      BY <1>3, <2>4 DEF Past
    <3> QED BY <1>4, <2>1, <2>2, <3>1
  <2> QED BY <2>3, <2>4
<1> QED BY <1>6 DEF OInv

\* Loading announces each expired id once, and takes it off.
LEMMA LoadOnce ==
    ASSUME BInv, OInv, NEW active, NEW base \in Nat, datafile # Torn, announced \in Seq(Timely),
           initReminders(Merged(reminders), active, base), UNCHANGED <<now, fresh, crashes>>,
           announced' \in Seq(Timely)
    PROVE  OInv'
<1> DEFINE r == Merged(reminders)
           E == Expired(r)
           n == Len(announced)
<1>1. /\ IsReminders(r) /\ now \in Nat /\ \A id \in DOMAIN r : Past(id)
      /\ DOMAIN r = DOMAIN datafile
      /\ up => datafile = reminders
  BY MergedType
<1>2. \A id \in Nat : Listed(id) <=> id \in DOMAIN r
  <2>1. ~up => DOMAIN reminders = {}
    BY EmptyType DEF BInv, DownInv
  <2> QED BY <1>1, <2>1 DEF Listed, Saved
<1>3. \A id \in Nat : Listed(id)' => id \in DOMAIN r \ E
  <2>1. DOMAIN reminders' = DOMAIN r \ E /\ datafile' = reminders'
    BY <1>1, InitEffect DEF Loaded
  <2>2. Saved' \subseteq DOMAIN reminders'
    BY <2>1 DEF Saved
  <2> QED BY <2>1, <2>2 DEF Listed
<1>4. PICK s \in [1 .. Cardinality(E) -> E] :
        /\ IsInjective(s)
        /\ announced' = announced \o [k \in DOMAIN s |-> Announcement(s[k], r)]
  BY DEF initReminders, FireAll
<1>5. Cardinality(E) \in Nat /\ E \subseteq DOMAIN r /\ E \subseteq Nat
  <2>1. E \in SUBSET DOMAIN r
    BY DEF Expired
  <2> QED BY <1>1, <2>1, FewIds DEF IsReminders, Ids
<1> HIDE DEF r, E
<1> DEFINE f == [k \in DOMAIN s |-> Announcement(s[k], r)]
           m == Cardinality(E)
<1>6. /\ n \in Nat /\ DOMAIN announced = 1 .. n
      /\ DOMAIN announced' = 1 .. n + m
      /\ \A k \in 1 .. n : announced'[k] = announced[k]
      /\ \A k \in 1 .. m : announced'[n + k].id = s[k]
  <2>1. n \in Nat /\ DOMAIN announced = 1 .. n
    BY LenProperties
  <2>2. f \in Seq({Announcement(id, r) : id \in E}) /\ Len(f) = m
    BY <1>5, IsASeq
  <2>3. announced \in Seq(Timely \cup {Announcement(id, r) : id \in E})
    OBVIOUS
  <2>4. f \in Seq(Timely \cup {Announcement(id, r) : id \in E})
    BY <2>2
  <2>5. Len(announced') = n + m /\ DOMAIN announced' = 1 .. Len(announced')
    BY <1>4, <2>2, <2>3, <2>4, ConcatProperties, LenProperties
  <2>6. \A k \in 1 .. n + m : announced'[k] = IF k <= n THEN announced[k] ELSE f[k - n]
    BY <1>4, <2>2, <2>3, <2>4, ConcatProperties
  <2>7. \A k \in 1 .. n : k \in 1 .. n + m /\ k <= n
    BY <1>5, <2>1
  <2>8. ASSUME NEW k \in 1 .. m PROVE announced'[n + k].id = s[k]
    <3>1. n + k \in 1 .. n + m /\ ~(n + k <= n) /\ (n + k) - n = k
      BY <1>5, <2>1
    <3>2. announced'[n + k] = f[k]
      BY <2>6, <3>1
    <3>3. f[k] = Announcement(s[k], r)
      OBVIOUS
    <3> QED BY <3>2, <3>3 DEF Announcement
  <2> QED BY <2>1, <2>5, <2>6, <2>7, <2>8
<1> HIDE DEF f, m, n
<1>7. crashes \in Nat /\ m \in Nat
  BY <1>5 DEF BInv, TInv, TypeOK, m
<1>8. ASSUME NEW id \in Nat
      PROVE  /\ IsFiniteSet(Told(id)')
             /\ Cardinality(Told(id)') <= crashes' + (IF Listed(id)' THEN 0 ELSE 1)
             /\ ~Past(id)' => Told(id)' = {}
  <2>1. /\ IsFiniteSet(Told(id))
        /\ Cardinality(Told(id)) <= crashes + (IF Listed(id) THEN 0 ELSE 1)
        /\ ~Past(id) => Told(id) = {}
    BY DEF OInv
  <2>2. Cardinality(Told(id)) \in Nat
    BY <2>1, FS_CardinalityType
  <2>3. Past(id)' <=> Past(id)
    BY DEF Past
  <2>4. ASSUME NEW p \in Told(id)', p \notin Told(id)
        PROVE  \E k \in 1 .. m : p = n + k /\ s[k] = id
    <3>1. p \in 1 .. n + m /\ announced'[p].id = id
      BY <1>6, <2>4 DEF Told
    <3>2. p \notin 1 .. n
      BY <1>6, <2>4, <3>1 DEF Told
    <3>3. p - n \in 1 .. m /\ p = n + (p - n)
      BY <1>6, <1>7, <3>1, <3>2
    <3> QED BY <1>6, <3>1, <3>3
  <2>5. CASE id \in E
    <3>1. \E p : Told(id)' \subseteq Told(id) \cup {p}
      <4>1. CASE Told(id)' \subseteq Told(id)
        BY <4>1
      <4>2. CASE ~(Told(id)' \subseteq Told(id))
        <5>1. PICK p \in Told(id)' : p \notin Told(id)
          BY <4>2
        <5>2. ASSUME NEW q \in Told(id)', q \notin Told(id) PROVE q = p
          <6>1. PICK k \in 1 .. m : p = n + k /\ s[k] = id
            BY <2>4, <5>1
          <6>2. PICK l \in 1 .. m : q = n + l /\ s[l] = id
            BY <2>4, <5>2
          <6>3. k = l
            BY <1>4, <6>1, <6>2 DEF IsInjective, m
          <6> QED BY <6>1, <6>2, <6>3
        <5> QED BY <5>2
      <4> QED BY <4>1, <4>2
    <3>2. PICK p : Told(id)' \subseteq Told(id) \cup {p}
      BY <3>1
    <3>3. /\ IsFiniteSet(Told(id)') /\ Cardinality(Told(id)') \in Nat
          /\ Cardinality(Told(id)') <= Cardinality(Told(id)) + 1
      BY <2>1, <3>2, ToldOnceMore
    <3>4. Listed(id) /\ ~Listed(id)' /\ Past(id)
      BY <1>1, <1>2, <1>3, <1>5, <2>5
    <3> QED BY <1>7, <2>1, <2>2, <2>3, <3>3, <3>4
  <2>6. CASE id \notin E
    <3>1. Told(id)' = Told(id)
      <4>1. Told(id)' \subseteq Told(id)
        <5>1. \A k \in 1 .. m : s[k] # id
          BY <1>4, <2>6 DEF m
        <5> QED BY <2>4, <5>1
      <4>2. \A k \in 1 .. n : k \in 1 .. n + m
        BY <1>6, <1>7
      <4>3. Told(id) \subseteq Told(id)'
        BY <1>6, <4>2 DEF Told
      <4> QED BY <4>1, <4>3
    <3>2. Listed(id)' => Listed(id)
      BY <1>2, <1>3
    <3> QED BY <1>7, <2>1, <2>2, <2>3, <3>1, <3>2
  <2> QED BY <2>5, <2>6
<1> QED BY <1>8 DEF OInv

\* Nothing that is announced, and nothing listed that was not: the commands that take away.
LEMMA DropOnce ==
    ASSUME BInv, OInv, announced' = announced, crashes' = crashes, UNCHANGED <<now, fresh>>,
           DOMAIN reminders' \subseteq DOMAIN reminders, Saved' \subseteq Saved \cup DOMAIN reminders
    PROVE  OInv'
<1>1. crashes' \in Nat /\ crashes <= crashes'
  BY DEF BInv, TInv, TypeOK
<1>2. \A id \in Nat : ~Past(id)' => ~Past(id)
  BY DEF Past
<1>3. \A id \in Nat : Listed(id)' => Listed(id)
  BY DEF Listed
<1> QED BY <1>1, <1>2, <1>3, KeepOnce

\* A reminder that is announced and taken off, or whose announcement the process dies in.
LEMMA FireOnce ==
    ASSUME BInv, OInv, announced \in Seq(Timely), NEW t \in timers, fireReminder(t) \/ CrashInFire(t)
    PROVE  OInv'
<1>1. crashes \in Nat /\ t.id \in Nat /\ Announcement(t.id, reminders).id = t.id
  BY DEF BInv, TInv, TypeOK, Announcement
<1>2. CASE fireReminder(t) /\ t.id \in DOMAIN reminders
  <2>1. /\ announced' = Append(announced, Announcement(t.id, reminders))
        /\ reminders' = Without(reminders, {t.id}) /\ datafile' = reminders'
        /\ UNCHANGED <<now, crashes, fresh>>
    BY <1>2 DEF fireReminder
  <2>2. DOMAIN reminders' = DOMAIN reminders \ {t.id} /\ Saved' \subseteq DOMAIN reminders'
    BY <2>1 DEF Without, Saved
  <2>3. ~Listed(t.id)' /\ \A id \in Nat : Listed(id)' => Listed(id)
    BY <2>2 DEF Listed
  <2> QED BY <1>1, <1>2, <2>1, <2>3, TellOnce
<1>3. CASE fireReminder(t) /\ t.id \notin DOMAIN reminders
  <2>1. UNCHANGED <<announced, reminders, datafile, now, crashes, fresh>>
    BY <1>3 DEF fireReminder
  <2> QED BY <2>1, DropOnce DEF Saved
<1>4. CASE CrashInFire(t)
  <2>1. /\ announced' = Append(announced, Announcement(t.id, reminders))
        /\ t.id \in DOMAIN reminders /\ crashes' = crashes + 1
        /\ UNCHANGED <<now, fresh>>
    BY <1>4 DEF CrashInFire, Die
  <2> QED BY <1>1, <2>1, TellOnce
<1> QED BY <1>2, <1>3, <1>4

LEMMA ONext ==
    ASSUME OnePerSecond, BInv, announced \in Seq(Timely), announced' \in Seq(Timely), OInv, [Next]_vars
    PROVE  OInv'
<1>a. crashes \in Nat /\ now \in Nat /\ nexttid \in Nat
  BY DEF BInv, TInv, TypeOK
<1>1. ASSUME NEW time \in 0 .. MaxNow, newReminder(time) PROVE OInv'
  <2>1. /\ reminders' = With(reminders, now, [time |-> time, timer |-> nexttid])
        /\ datafile' = reminders' /\ fresh = TRUE
        /\ UNCHANGED <<now, announced, crashes>>
    BY <1>1 DEF newReminder, BInv, TInv, TypeOK
  <2>2. DOMAIN reminders' = DOMAIN reminders \cup {now} /\ Saved' \subseteq DOMAIN reminders'
    BY <2>1 DEF With, Saved
  <2>3. ~Past(now) /\ \A id \in Nat : ~Past(id)' => ~Past(id)
    BY <1>a, <2>1 DEF Past
  <2>4. \A id \in Nat : Listed(id)' => Listed(id) \/ ~Past(id)
    BY <2>2, <2>3 DEF Listed
  <2> QED BY <1>a, <2>1, <2>3, <2>4, KeepOnce
<1>2. ASSUME NEW id \in DOMAIN reminders, cancelReminder(id) PROVE OInv'
  <2>1. /\ reminders' = Without(reminders, {id}) /\ datafile' = reminders'
        /\ UNCHANGED <<now, announced, crashes, fresh>>
    BY <1>2 DEF cancelReminder
  <2>2. DOMAIN reminders' \subseteq DOMAIN reminders /\ Saved' \subseteq DOMAIN reminders
    BY <2>1 DEF Without, Saved
  <2> QED BY <2>1, <2>2, DropOnce
<1>3. ASSUME NEW t \in timers, fireReminder(t) \/ CrashInFire(t) PROVE OInv'
  BY <1>3, FireOnce
<1>4. ASSUME NEW tid \in foreign, ForeignDone(tid) PROVE OInv'
  <2>1. UNCHANGED <<reminders, datafile, now, announced, crashes, fresh>>
    BY <1>4 DEF ForeignDone, script
  <2> QED BY <2>1, DropOnce DEF Saved
<1>5. CASE Rehash \/ Start
  <2>1. CASE datafile = Torn
    <3>1. UNCHANGED <<reminders, datafile, now, announced, crashes, fresh>>
      BY <1>5, <2>1 DEF Rehash, Start
    <3> QED BY <3>1, DropOnce DEF Saved
  <2>2. CASE datafile # Torn
    <3>1. UNCHANGED <<now, crashes, fresh>>
      BY <1>5 DEF Rehash, Start
    <3>2. CASE Rehash
      <4>1. initReminders(Merged(reminders), {t.tid : t \in timers} \cup foreign, nexttid)
        BY <2>2, <3>2 DEF Rehash
      <4> QED BY <1>a, <2>2, <3>1, <4>1, LoadOnce
    <3>3. CASE Start
      <4>1. PICK k \in 0 .. MaxForeign : initReminders(Merged(reminders), foreign', k)
        BY <2>2, <3>3 DEF Start
      <4> QED BY <2>2, <3>1, <4>1, LoadOnce
    <3> QED BY <1>5, <3>2, <3>3
  <2> QED BY <2>1, <2>2
<1>6. CASE Tick
  <2>1. now' = now + 1 /\ fresh' = TRUE /\ UNCHANGED <<reminders, datafile, announced, crashes>>
    BY <1>6 DEF Tick, script
  <2>2. \A id \in Nat : ~Past(id)' => ~Past(id)
    BY <1>a, <2>1 DEF Past
  <2>3. \A id \in Nat : Listed(id)' => Listed(id)
    BY <2>1 DEF Listed, Saved
  <2> QED BY <1>a, <2>1, <2>2, <2>3, KeepOnce
<1>7. CASE Crash
  <2>1. crashes' = crashes + 1 /\ UNCHANGED <<now, announced, fresh>>
    BY <1>7 DEF Crash, Die
  <2>2. \A id \in Nat : ~Past(id)' => ~Past(id)
    BY <2>1 DEF Past
  <2> QED BY <1>a, <2>1, <2>2, KeepOnce
<1>8. CASE UNCHANGED vars
  <2>1. UNCHANGED <<reminders, datafile, now, announced, crashes, fresh>>
    BY <1>8 DEF vars, script
  <2> QED BY <2>1, DropOnce DEF Saved
<1> QED BY <1>1, <1>2, <1>3, <1>4, <1>5, <1>6, <1>7, <1>8 DEF Next

\* With at most one reminder made in a second, one is announced at most once and once
\* more for each crash, over any rehashes and starts (fireReminder and initReminders,
\* remind.tcl:61-94, 175-199).
THEOREM AnnouncedAtMostOnce ==
    ASSUME OnePerSecond
    PROVE  Spec => []AnnouncedOnce
<1>1. BInv /\ OInv => AnnouncedOnce
  <2> SUFFICES ASSUME BInv, OInv, NEW id \in 0 .. MaxNow
               PROVE  Cardinality({k \in DOMAIN announced : announced[k].id = id}) <= 1 + crashes
    BY DEF AnnouncedOnce
  <2>1. id \in Nat /\ crashes \in Nat
    BY RemindAssumption DEF BInv, TInv, TypeOK
  <2>2. /\ IsFiniteSet(Told(id))
        /\ Cardinality(Told(id)) <= crashes + (IF Listed(id) THEN 0 ELSE 1)
    BY <2>1 DEF OInv
  <2>3. Cardinality(Told(id)) \in Nat
    BY <2>2, FS_CardinalityType
  <2>4. Cardinality(Told(id)) <= 1 + crashes
    BY <2>1, <2>2, <2>3
  <2> QED BY <2>4 DEF Told
<1>2. DInv => announced \in Seq(Timely)
  BY DEF DInv
<1>3. BInv /\ DInv /\ OInv /\ [Next]_vars => BInv' /\ DInv' /\ OInv'
  <2> SUFFICES ASSUME BInv, DInv, OInv, [Next]_vars PROVE BInv' /\ DInv' /\ OInv'
    OBVIOUS
  <2>1. BInv' /\ DInv'
    BY BNext, DNext
  <2>2. announced \in Seq(Timely) /\ announced' \in Seq(Timely)
    BY <2>1 DEF DInv
  <2> QED BY <2>1, <2>2, ONext
<1>4. Spec => [](BInv /\ DInv /\ OInv)
  BY BInit, DInit, OInit, <1>3, PTL DEF Spec
<1> QED BY <1>1, <1>4, PTL

-----------------------------------------------------------------------------
(* A cancelled reminder leaves no timer, if no other script sets timers.   *)

\* No two pending timers would announce the same id.
UInv == \A t, u \in timers : t.id = u.id => t = u

LEMMA UInit == Init => UInv
BY DEF Init, UInv

\* In a running bot every entry of the file has a pending timer, so a rehash arms none.
LEMMA RehashArmsNone ==
    ASSUME BInv, AInv, up, datafile # Torn, NEW active, {t.tid : t \in timers} \subseteq active
    PROVE  ToArm(Merged(reminders), active) = {}
<1> SUFFICES ASSUME NEW id \in ToArm(Merged(reminders), active) PROVE FALSE
  OBVIOUS
<1>1. id \in DOMAIN Merged(reminders) /\ Merged(reminders)[id].timer \notin active
  BY DEF ToArm
<1>2. id \in DOMAIN reminders /\ Merged(reminders)[id] = reminders[id]
  BY <1>1, MergedType
<1>3. PICK t \in timers : t.id = id /\ t.tid = reminders[id].timer
  BY <1>2 DEF AInv, EveryReminderArmed
<1> QED BY <1>1, <1>2, <1>3

LEMMA UNext ==
    ASSUME MaxForeign = 0, OnePerSecond, BInv, AInv, UInv, [Next]_vars
    PROVE  UInv'
<1>1. ASSUME NEW time \in 0 .. MaxNow, newReminder(time) PROVE UInv'
  <2>1. timers' = timers \cup {[tid |-> nexttid, due |-> time, id |-> now]} /\ fresh = TRUE
    BY <1>1 DEF newReminder, BInv, TInv, TypeOK
  <2>2. \A t \in timers : t.id # now
    <3>1. now \in Nat
      BY DEF BInv, TInv, TypeOK
    <3> QED BY <2>1, <3>1 DEF BInv, PastInv, Past
  <2> QED BY <2>1, <2>2 DEF UInv
<1>2. ASSUME timers' \subseteq timers PROVE UInv'
  BY <1>2 DEF UInv
<1>3. ASSUME NEW id \in DOMAIN reminders, cancelReminder(id) PROVE timers' \subseteq timers
  BY <1>3 DEF cancelReminder
<1>4. ASSUME NEW t \in timers, fireReminder(t) \/ CrashInFire(t) PROVE timers' \subseteq timers
  BY <1>4 DEF fireReminder, CrashInFire, Die
<1>5. ASSUME NEW tid \in foreign, ForeignDone(tid) PROVE timers' \subseteq timers
  BY <1>5 DEF ForeignDone, script
<1>6. CASE Rehash
  <2>1. CASE datafile = Torn
    BY <1>2, <1>6, <2>1 DEF Rehash
  <2>2. CASE datafile # Torn
    <3> DEFINE active == {t.tid : t \in timers} \cup foreign
    <3>1. up /\ initReminders(Merged(reminders), active, nexttid)
      BY <1>6, <2>2 DEF Rehash
    <3>2. ToArm(Merged(reminders), active) = {}
      BY <2>2, <3>1, RehashArmsNone
    <3> HIDE DEF active
    <3>3. timers' \subseteq timers
      BY <3>1, <3>2 DEF initReminders
    <3> QED BY <1>2, <3>3
  <2> QED BY <2>1, <2>2
<1>7. CASE Start
  <2>1. ~up /\ timers = {}
    BY <1>7 DEF Start, BInv, DownInv
  <2>2. CASE datafile = Torn
    BY <1>2, <1>7, <2>2 DEF Start
  <2>3. CASE datafile # Torn
    <3>1. PICK k \in 0 .. MaxForeign : initReminders(Merged(reminders), foreign', k)
      BY <1>7, <2>3 DEF Start
    <3> DEFINE r == Merged(reminders)
               arm == ToArm(r, foreign')
               new(id) == [tid |-> k + Before(arm, id), due |-> r[id].time, id |-> id]
    <3>2. timers' = {new(id) : id \in arm}
      BY <2>1, <3>1 DEF initReminders
    <3> QED BY <3>2 DEF UInv
  <2> QED BY <2>2, <2>3
<1>8. CASE Tick \/ Crash \/ UNCHANGED vars
  <2>1. timers' \subseteq timers
    BY <1>8 DEF Tick, Crash, Die, vars, script
  <2> QED BY <1>2, <2>1
<1> QED BY <1>1, <1>2, <1>3, <1>4, <1>5, <1>6, <1>7, <1>8 DEF Next

\* What a load takes off the list it announces.
LEMMA LoadTells ==
    ASSUME BInv, announced \in Seq(Timely), datafile # Torn, NEW active, NEW base \in Nat,
           initReminders(Merged(reminders), active, base), announced' = announced,
           NEW id \in DOMAIN Merged(reminders)
    PROVE  id \in DOMAIN reminders'
<1> DEFINE r == Merged(reminders)
           E == Expired(r)
           m == Cardinality(E)
<1>1. /\ IsReminders(r) /\ now \in Nat /\ \A j \in DOMAIN r : Past(j)
  BY MergedType
<1>2. Loaded(r, active, base)
  BY <1>1, InitEffect
<1>3. PICK s \in [1 .. m -> E] : announced' = announced \o [k \in DOMAIN s |-> Announcement(s[k], r)]
  BY DEF initReminders, FireAll
<1>4. E \in SUBSET DOMAIN r
  BY DEF Expired
<1>5. IsFiniteSet(E) /\ m \in Nat
  BY <1>1, <1>4, FewIds
<1> HIDE DEF r, E
<1> DEFINE T == Timely \cup {Announcement(j, r) : j \in E}
           f == [k \in 1 .. m |-> Announcement(s[k], r)]
<1>6. f \in Seq(T) /\ Len(f) = m
  BY <1>5, IsASeq
<1>7. announced \in Seq(T)
  OBVIOUS
<1>8. announced' = announced \o f
  <2>1. DOMAIN s = 1 .. m
    OBVIOUS
  <2> QED BY <1>3, <2>1
<1>9. Len(announced') = Len(announced) + m /\ Len(announced) \in Nat
  <2> HIDE DEF f, T, m
  <2> QED BY <1>6, <1>7, <1>8, ConcatProperties, LenProperties
<1>10. m = 0
  BY <1>5, <1>9
<1>11. E = {}
  BY <1>5, <1>10, FS_EmptySet
<1> QED BY <1>2, <1>11 DEF Loaded, r, E

\* A step that takes an id off the list without a word is its cancellation.
LEMMA SilentDrop ==
    ASSUME BInv, announced \in Seq(Timely), [Next]_vars, NEW id \in DOMAIN reminders,
           id \notin DOMAIN reminders', up', announced' = announced
    PROVE  cancelReminder(id)
<1>a. /\ Len(announced) \in Nat /\ nexttid \in Nat
      /\ datafile # Torn => id \in DOMAIN Merged(reminders)
  BY LenProperties DEF BInv, TInv, TypeOK, Merged
<1>b. up
  BY EmptyType DEF BInv, DownInv
<1>1. ASSUME NEW time \in 0 .. MaxNow, newReminder(time) PROVE FALSE
  BY <1>1 DEF newReminder, With
<1>2. ASSUME NEW j \in DOMAIN reminders, cancelReminder(j) PROVE cancelReminder(id)
  <2>1. j = id
    BY <1>2 DEF cancelReminder, Without
  <2> QED BY <1>2, <2>1
<1>3. ASSUME NEW t \in timers, fireReminder(t) PROVE FALSE
  <2>1. t.id \in DOMAIN reminders
    BY <1>3 DEF fireReminder
  <2>2. announced' = Append(announced, Announcement(t.id, reminders))
    BY <1>3, <2>1 DEF fireReminder
  <2>3. Len(announced') = Len(announced) + 1
    BY <2>2, AppendProperties
  <2> QED BY <1>a, <2>3
<1>4. ASSUME NEW tid \in foreign, ForeignDone(tid) PROVE FALSE
  BY <1>4 DEF ForeignDone, script
<1>5. CASE Rehash
  <2>1. CASE datafile = Torn
    BY <1>5, <2>1 DEF Rehash
  <2>2. CASE datafile # Torn
    <3>1. initReminders(Merged(reminders), {t.tid : t \in timers} \cup foreign, nexttid)
      BY <1>5, <2>2 DEF Rehash
    <3> QED BY <1>a, <2>2, <3>1, LoadTells
  <2> QED BY <2>1, <2>2
<1>6. CASE Start
  BY <1>b, <1>6 DEF Start
<1>7. CASE Tick \/ UNCHANGED vars
  BY <1>7 DEF Tick, vars, script
<1>8. CASE Crash \/ \E t \in timers : CrashInFire(t)
  BY <1>8 DEF Crash, CrashInFire, Die
<1> QED BY <1>1, <1>2, <1>3, <1>4, <1>5, <1>6, <1>7, <1>8 DEF Next

\* If no other script sets timers and at most one reminder is made in a second, no timer
\* is left that could call a reminder taken off the list without an announcement
\* (pub:cancelReminder, remind.tcl:151-163, initReminders, remind.tcl:175-199).
THEOREM CancelLeavesNoTimer ==
    ASSUME MaxForeign = 0, OnePerSecond
    PROVE  Spec => CancelIsFinal
<1> DEFINE Final == \A id \in 0 .. MaxNow :
             id \in DOMAIN reminders /\ id \notin DOMAIN reminders' /\ up' /\ announced' = announced
                => \A t \in timers' : t.id # id
           Inv == BInv /\ DInv /\ AInv /\ UInv
<1>1. Inv /\ [Next]_vars => Inv'
  BY BNext, DNext, ANext, UNext
<1>2. Inv /\ [Next]_vars => [Final]_vars
  <2> SUFFICES ASSUME Inv, [Next]_vars, NEW id \in 0 .. MaxNow,
                      id \in DOMAIN reminders, id \notin DOMAIN reminders', up', announced' = announced,
                      NEW t \in timers', t.id = id
               PROVE  FALSE
    OBVIOUS
  <2>1. cancelReminder(id)
    BY SilentDrop DEF DInv
  <2>2. t \in timers /\ t.tid # reminders[id].timer /\ up
    BY <2>1 DEF cancelReminder
  <2>3. PICK u \in timers : u.id = id /\ u.tid = reminders[id].timer
    BY <2>2 DEF AInv, EveryReminderArmed
  <2> QED BY <2>2, <2>3 DEF UInv
<1>3. Init => Inv
  BY BInit, DInit, AInit, UInit
<1>4. Spec => [][Final]_vars
  <2> HIDE DEF Inv, Final
  <2> QED BY <1>1, <1>2, <1>3, PTL DEF Spec
<1> QED BY <1>4 DEF CancelIsFinal
=============================================================================
