---------------------------- MODULE TopTodProofs ----------------------------
(***************************************************************************)
(* Proofs about module TopTod: type correctness and its safety invariants, *)
(* for every set of channels and names, every glob relation, and every     *)
(* value of the bounds.                                                    *)
(***************************************************************************)
EXTENDS TopTod, TLAPS, SequenceTheorems, FiniteSetTheorems,
        WellFoundedInduction

-----------------------------------------------------------------------------
(* The inductive invariant.                                                *)

Aligned(nl, wc) ==
    /\ Len(wc) = Len(nl)
    /\ \A p \in 1 .. Len(wc) : wc[p].i = p - 1
Indexed(wc) == \A p \in 1 .. Len(wc) : wc[p].i = p - 1
Unique(nl) ==
    \A p, q \in 1 .. Len(nl) : nl[p] = nl[q] /\ Plain(NickOf(nl[p])) => p = q
Shows(nl, wc) ==
    \A k \in Keys : Plain(NickOf(k)) =>
        IF \E p \in 1 .. Len(nl) : nl[p] = k
        THEN \A p \in 1 .. Len(nl) : nl[p] = k => wc[p].w = said[k]
        ELSE said[k] = 0

\* Memory: parallel lists with one entry per plain name; nothing while down.
MemoryInv ==
    /\ Aligned(todnicklist, todwordcount)
    /\ Len(todlastcomlist) = Len(todnicklist)
    /\ Unique(todnicklist)
    /\ ~up => todnicklist = <<>>

\* The file: a cut file may lack counts, never have them out of place.  A file of
\* today exists only if something was counted today.
FileInv ==
    savefile # NoFile =>
        /\ Indexed(savefile.words)
        /\ Unique(savefile.nicks)
        /\ savefile.date <= today
        /\ said = Zero => savefile.date # today

\* On an undisturbed day memory shows what was said, and so does the file once it
\* carries today's date; before that nothing was counted.
ExactInv ==
    exact =>
        /\ up => Shows(todnicklist, todwordcount)
        /\ IF savefile # NoFile /\ savefile.date = today
           THEN /\ Len(savefile.words) = Len(savefile.nicks)
                /\ Shows(savefile.nicks, savefile.words)
           ELSE said = Zero

IInv == TypeOK /\ MemoryInv /\ FileInv /\ ExactInv

-----------------------------------------------------------------------------
(* Lemmas about the operators.                                             *)

\* The least element comes from the strict inclusion of the intervals 1 .. p, which
\* is well founded on finite sets.
LEMMA LeastNat ==
    ASSUME NEW S, S \subseteq Nat, S # {}
    PROVE  First(S) \in S
<1> DEFINE T == {1 .. p : p \in S}
           R == StrictSubsetOrdering(Nat)
<1>1. T \subseteq FiniteSubsetsOf(Nat)
  BY FS_Interval DEF FiniteSubsetsOf
<1>2. T # {}
  OBVIOUS
<1>3. \E x \in T : \A y \in T : ~(<<y, x>> \in R)
  <2> HIDE DEF T, R
  <2> QED BY <1>1, <1>2, WFMin, FS_StrictSubsetOrderingWellFounded DEF R
<1>4. PICK p \in S : \A q \in S : <<1 .. q, 1 .. p>> \notin R
  BY <1>3
<1>5. \A q \in S : p <= q
  <2> SUFFICES ASSUME NEW q \in S, q < p PROVE FALSE
    OBVIOUS
  <2>1. 1 .. q \subseteq 1 .. p /\ p \in 1 .. p /\ p \notin 1 .. q
    OBVIOUS
  <2>2. <<1 .. q, 1 .. p>> \in R
    BY <2>1 DEF StrictSubsetOrdering
  <2> QED BY <1>4, <2>2
<1> QED
  BY <1>5 DEF First

\* What lookup or insertion of c:n leaves before any words are added.
LEMMA Inserted ==
    ASSUME TypeOK, MemoryInv, NEW c \in LogChans, NEW n \in Niks
    PROVE  /\ Slot(c, n) \in 1 .. Len(Nicks(c, n))
           /\ Nicks(c, n) \in Seq(Keys)
           /\ CountsWith(c, n) \in Seq(Counts)
           /\ LastsWith(c, n) \in Seq(Texts \cup {NoText})
           /\ Aligned(Nicks(c, n), CountsWith(c, n))
           /\ Len(LastsWith(c, n)) = Len(Nicks(c, n))
           /\ Unique(Nicks(c, n))
<1> DEFINE key == <<c, n>>
<1>1. /\ todnicklist \in Seq(Keys) /\ todwordcount \in Seq(Counts)
      /\ todlastcomlist \in Seq(Texts \cup {NoText})
      /\ Len(todnicklist) \in Nat
      /\ Len(todwordcount) = Len(todnicklist)
      /\ Len(todlastcomlist) = Len(todnicklist)
      /\ DOMAIN todnicklist = 1 .. Len(todnicklist)
  BY DEF TypeOK, MemoryInv, Aligned
<1>2. key \in Keys
  BY DEF Keys
<1>3. Count(0, Len(todnicklist)) \in Counts /\ Count(0, Len(todnicklist)).i = Len(todnicklist)
  BY <1>1 DEF Count, Counts
<1>4. CASE Hits(c, n) # {}
  <2>1. Hits(c, n) \subseteq Nat
    BY <1>1 DEF Hits
  <2>2. Slot(c, n) \in 1 .. Len(todnicklist)
    BY <1>1, <1>4, <2>1, LeastNat DEF Slot, Hits
  <2> QED
    BY <1>1, <1>4, <2>2 DEF Nicks, CountsWith, LastsWith, MemoryInv, Slot
<1>5. CASE Hits(c, n) = {}
  <2>1. /\ Nicks(c, n) = Append(todnicklist, key)
        /\ CountsWith(c, n) = Append(todwordcount, Count(0, Len(todnicklist)))
        /\ LastsWith(c, n) = Append(todlastcomlist, NoText)
        /\ Slot(c, n) = Len(todnicklist) + 1
    BY <1>5 DEF Nicks, CountsWith, LastsWith, Slot
  <2>2. Aligned(Nicks(c, n), CountsWith(c, n))
    BY <1>1, <1>2, <1>3, <2>1, AppendProperties DEF Aligned, MemoryInv
  <2>3. Unique(Nicks(c, n))
    <3> SUFFICES ASSUME NEW p \in 1 .. Len(todnicklist) + 1,
                        NEW q \in 1 .. Len(todnicklist) + 1,
                        Nicks(c, n)[p] = Nicks(c, n)[q],
                        Plain(NickOf(Nicks(c, n)[p]))
                 PROVE  p = q
      BY <1>1, <1>2, <2>1, AppendProperties DEF Unique
    <3>1. \A r \in 1 .. Len(todnicklist) : Nicks(c, n)[r] = todnicklist[r]
      BY <1>1, <1>2, <2>1, AppendProperties
    <3>2. Nicks(c, n)[Len(todnicklist) + 1] = key
      BY <1>1, <1>2, <2>1, AppendProperties
    <3>3. Plain(n) => \A r \in 1 .. Len(todnicklist) : todnicklist[r] # key
      BY <1>1, <1>5 DEF Hits, Plain
    <3>4. NickOf(key) = n
      BY DEF NickOf
    <3>5. CASE p \in 1 .. Len(todnicklist) /\ q \in 1 .. Len(todnicklist)
      <4>1. todnicklist[p] = todnicklist[q] /\ Plain(NickOf(todnicklist[p]))
        BY <3>1, <3>5
      <4>2. Unique(todnicklist)
        BY DEF MemoryInv
      <4> QED BY <3>5, <4>1, <4>2 DEF Unique
    <3>6. CASE p = Len(todnicklist) + 1 /\ q # p
      <4>1. q \in 1 .. Len(todnicklist)
        BY <1>1, <3>6
      <4>2. Nicks(c, n)[p] = key
        BY <3>2, <3>6
      <4>3. Plain(n)
        BY <3>4, <4>2, Zenon
      <4> QED BY <3>1, <3>3, <4>1, <4>2, <4>3
    <3>7. CASE q = Len(todnicklist) + 1 /\ q # p
      <4>1. p \in 1 .. Len(todnicklist)
        BY <1>1, <3>7
      <4>2. Nicks(c, n)[q] = key
        BY <3>2, <3>7
      <4>3. Plain(n)
        BY <3>4, <4>2, Zenon
      <4> QED BY <3>1, <3>3, <4>1, <4>2, <4>3
    <3> QED
      BY <1>1, <3>5, <3>6, <3>7
  <2> QED
    BY <1>1, <1>2, <1>3, <2>1, <2>2, <2>3, AppendProperties
<1> QED
  BY <1>4, <1>5

\* The lists a counted line leaves: still parallel, and the entry of the line is the
\* only one whose count changed.
LEMMA Counting ==
    ASSUME TypeOK, MemoryInv,
           NEW c \in LogChans, NEW n \in Niks, NEW t \in Texts
    PROVE  /\ NewCounts(c, n, t) \in Seq(Counts)
           /\ NewLasts(c, n, t) \in Seq(Texts \cup {NoText})
           /\ Aligned(Nicks(c, n), NewCounts(c, n, t))
           /\ Len(NewLasts(c, n, t)) = Len(Nicks(c, n))
           /\ \A q \in 1 .. Len(Nicks(c, n)) :
                NewCounts(c, n, t)[q].w =
                  IF q = Slot(c, n) THEN CountsWith(c, n)[q].w + WordsOf[t]
                  ELSE CountsWith(c, n)[q].w
<1> DEFINE p == Slot(c, n)
           wc == CountsWith(c, n)
           ls == LastsWith(c, n)
           nl == Nicks(c, n)
           new == Count(wc[p].w + WordsOf[t], p - 1)
<1>1. /\ p \in 1 .. Len(nl) /\ wc \in Seq(Counts) /\ Len(wc) = Len(nl)
      /\ ls \in Seq(Texts \cup {NoText}) /\ Len(ls) = Len(nl)
      /\ \A q \in 1 .. Len(nl) : wc[q].i = q - 1
  BY Inserted DEF Aligned
<1>2. WordsOf[t] \in Nat
  BY TopTodAssumption
<1>3. wc[p] \in Counts
  BY <1>1, ElementOfSeq
<1>4. new \in Counts /\ new.i = p - 1 /\ new.w = wc[p].w + WordsOf[t]
  BY <1>1, <1>2, <1>3 DEF Counts, Count
<1>5. NewCounts(c, n, t) = [wc EXCEPT ![p] = new]
  BY <1>1 DEF NewCounts
<1>6. NewLasts(c, n, t) = [ls EXCEPT ![p] = t]
  BY DEF NewLasts
<1>7. /\ NewCounts(c, n, t) \in Seq(Counts)
      /\ Len(NewCounts(c, n, t)) = Len(nl)
      /\ \A q \in 1 .. Len(nl) :
            NewCounts(c, n, t)[q] = IF q = p THEN new ELSE wc[q]
  <2> HIDE DEF new, wc, p, nl
  <2> QED BY <1>1, <1>4, <1>5, ExceptSeq
<1>8. NewLasts(c, n, t) \in Seq(Texts \cup {NoText}) /\ Len(NewLasts(c, n, t)) = Len(nl)
  <2> HIDE DEF ls, p, nl
  <2> QED BY <1>1, <1>6, ExceptSeq
<1>9. Aligned(nl, NewCounts(c, n, t))
  BY <1>1, <1>4, <1>7 DEF Aligned
<1> QED
  BY <1>4, <1>7, <1>8, <1>9

\* The key a line is counted under: its own, or the one its pattern finds.
LEMMA CountedKey ==
    ASSUME TypeOK, MemoryInv, NEW c \in LogChans, NEW n \in Niks
    PROVE  /\ Nicks(c, n)[Slot(c, n)] \in Keys
           /\ \/ /\ Nicks(c, n) = todnicklist
                 /\ CountsWith(c, n) = todwordcount
              \/ /\ Nicks(c, n) = Append(todnicklist, <<c, n>>)
                 /\ CountsWith(c, n) = Append(todwordcount, Count(0, Len(todnicklist)))
                 /\ Slot(c, n) = Len(todnicklist) + 1
                 /\ Plain(n) => \A q \in 1 .. Len(todnicklist) : todnicklist[q] # <<c, n>>
<1>1. Slot(c, n) \in 1 .. Len(Nicks(c, n)) /\ Nicks(c, n) \in Seq(Keys)
  BY Inserted
<1>2. Nicks(c, n)[Slot(c, n)] \in Keys
  BY <1>1, ElementOfSeq
<1>3. DOMAIN todnicklist = 1 .. Len(todnicklist)
  BY DEF TypeOK
<1> QED
  BY <1>2, <1>3 DEF Nicks, CountsWith, Slot, Hits, Plain

-----------------------------------------------------------------------------
(* Preservation, one lemma per action that has something to say.           *)

\* What both outcomes of a counted line, finished or cut, do to said.
LEMMA SaidGrows ==
    ASSUME TypeOK, MemoryInv,
           NEW c \in LogChans, NEW n \in Niks, NEW t \in Texts,
           said' = [said EXCEPT ![Nicks(c, n)[Slot(c, n)]] = @ + WordsOf[t]]
    PROVE  /\ said' \in [Keys -> Nat]
           /\ said' # Zero
           /\ \A k \in Keys :
                said'[k] = IF k = Nicks(c, n)[Slot(c, n)] THEN said[k] + WordsOf[t] ELSE said[k]
<1> DEFINE key == Nicks(c, n)[Slot(c, n)]
<1>1. key \in Keys /\ said \in [Keys -> Nat]
  BY CountedKey DEF TypeOK
<1>2. WordsOf[t] \in Nat \ {0}
  BY TopTodAssumption
<1>3. said' = [said EXCEPT ![key] = said[key] + WordsOf[t]]
  OBVIOUS
<1> HIDE DEF key
<1>4. said' \in [Keys -> Nat] /\ said'[key] = said[key] + WordsOf[t]
  BY <1>1, <1>2, <1>3
<1>5. Zero[key] = 0
  BY <1>1 DEF Zero
<1>6. said' # Zero
  BY <1>1, <1>2, <1>4, <1>5
<1>7. \A k \in Keys : said'[k] = IF k = key THEN said[k] + WordsOf[t] ELSE said[k]
  BY <1>1, <1>3
<1> QED
  BY <1>4, <1>6, <1>7 DEF key

\* If memory showed what was said, the new lists show what has been said with the
\* line counted.
LEMMA ShowsCounted ==
    ASSUME TypeOK, MemoryInv, Shows(todnicklist, todwordcount),
           NEW c \in LogChans, NEW n \in Niks, NEW t \in Texts,
           said' = [said EXCEPT ![Nicks(c, n)[Slot(c, n)]] = @ + WordsOf[t]],
           todnicklist' = Nicks(c, n),
           todwordcount' = NewCounts(c, n, t)
    PROVE  Shows(todnicklist, todwordcount)'
<1> DEFINE nl == Nicks(c, n)
           wc == CountsWith(c, n)
           s == Slot(c, n)
           L == Len(todnicklist)
<1>1. /\ s \in 1 .. Len(nl) /\ nl \in Seq(Keys) /\ Unique(nl)
      /\ wc \in Seq(Counts) /\ Len(wc) = Len(nl) /\ L \in Nat
      /\ Len(todwordcount) = L /\ todnicklist \in Seq(Keys) /\ todwordcount \in Seq(Counts)
  BY Inserted DEF Aligned, TypeOK, MemoryInv
<1>2. \A q \in 1 .. Len(nl) :
        todwordcount'[q].w = IF q = s THEN wc[q].w + WordsOf[t] ELSE wc[q].w
  BY Counting
<1>3. \A k \in Keys : said'[k] = IF k = nl[s] THEN said[k] + WordsOf[t] ELSE said[k]
  BY SaidGrows
<1>4. ASSUME NEW k \in Keys, Plain(NickOf(k))
      PROVE  IF \E p \in 1 .. Len(nl) : nl[p] = k
             THEN \A p \in 1 .. Len(nl) : nl[p] = k => wc[p].w = said[k]
             ELSE said[k] = 0
  <2>1. CASE nl = todnicklist /\ wc = todwordcount
    BY <1>4, <2>1 DEF Shows
  <2>2. CASE /\ nl = Append(todnicklist, <<c, n>>)
             /\ wc = Append(todwordcount, Count(0, L))
             /\ s = L + 1
             /\ Plain(n) => \A q \in 1 .. L : todnicklist[q] # <<c, n>>
    <3>1. <<c, n>> \in Keys /\ NickOf(<<c, n>>) = n
      BY DEF Keys, NickOf
    <3>2. Count(0, L) \in Counts /\ Count(0, L).w = 0
      BY <1>1 DEF Counts, Count
    <3>3. /\ Len(nl) = L + 1 /\ nl[L + 1] = <<c, n>>
          /\ \A q \in 1 .. L : nl[q] = todnicklist[q]
      BY <1>1, <2>2, <3>1, AppendProperties
    <3>4. wc[L + 1].w = 0 /\ \A q \in 1 .. L : wc[q] = todwordcount[q]
      BY <1>1, <2>2, <3>2, AppendProperties
    <3>5. CASE k = <<c, n>>
      <4>1. Plain(n)
        BY <1>4, <3>1, <3>5, Zenon
      <4>2. \A q \in 1 .. L : todnicklist[q] # k
        BY <2>2, <3>5, <4>1
      <4>3. said[k] = 0
        BY <1>4, <4>2 DEF Shows
      <4>4. \A p \in 1 .. Len(nl) : nl[p] = k => p = L + 1
        <5> HIDE DEF nl, wc, L, s
        <5>1. ASSUME NEW p \in 1 .. Len(nl), nl[p] = k PROVE p = L + 1
          <6>1. ~(p \in 1 .. L)
            BY <3>3, <4>2, <5>1
          <6> QED BY <1>1, <3>3, <5>1, <6>1
        <5> QED BY <5>1
      <4>5. L + 1 \in 1 .. Len(nl) /\ nl[L + 1] = k
        BY <1>1, <3>3, <3>5
      <4> HIDE DEF nl, wc, L
      <4> QED BY <3>4, <4>3, <4>4, <4>5
    <3>6. CASE k # <<c, n>>
      <4>1. \A p \in 1 .. Len(nl) : nl[p] = k => p \in 1 .. L
        <5> SUFFICES ASSUME NEW p \in 1 .. Len(nl), nl[p] = k PROVE p \in 1 .. L
          OBVIOUS
        <5>1. p # L + 1
          BY <3>3, <3>6
        <5>2. p \in 1 .. L + 1
          BY <3>3
        <5> HIDE DEF nl, wc, L
        <5> QED BY <1>1, <5>1, <5>2
      <4>2. 1 .. L \subseteq 1 .. Len(nl)
        BY <1>1, <3>3
      <4>3. IF \E p \in 1 .. L : todnicklist[p] = k
            THEN \A p \in 1 .. L : todnicklist[p] = k => todwordcount[p].w = said[k]
            ELSE said[k] = 0
        BY <1>4 DEF Shows
      <4> HIDE DEF nl, wc, L
      <4> QED BY <3>3, <3>4, <4>1, <4>2, <4>3
    <3> QED BY <3>5, <3>6
  <2> QED
    BY <2>1, <2>2, CountedKey
<1>5. ASSUME NEW k \in Keys, Plain(NickOf(k))
      PROVE  IF \E p \in 1 .. Len(nl) : nl[p] = k
             THEN \A p \in 1 .. Len(nl) : nl[p] = k => todwordcount'[p].w = said'[k]
             ELSE said'[k] = 0
  <2>1. CASE k = nl[s]
    <3>1. \A p \in 1 .. Len(nl) : nl[p] = k => p = s
      <4> HIDE DEF nl, s
      <4> QED BY <1>1, <1>5, <2>1 DEF Unique
    <3>2. wc[s].w = said[k]
      BY <1>1, <1>4, <1>5, <2>1
    <3> QED
      BY <1>1, <1>2, <1>3, <2>1, <3>1, <3>2
  <2>2. CASE k # nl[s]
    <3>1. said'[k] = said[k]
      BY <1>3, <2>2
    <3>2. \A p \in 1 .. Len(nl) : nl[p] = k => todwordcount'[p].w = wc[p].w
      BY <1>2, <2>2
    <3> HIDE DEF nl, wc, s
    <3> QED BY <1>4, <1>5, <3>1, <3>2
  <2> QED BY <2>1, <2>2
<1> QED
  BY <1>5 DEF Shows

\* Record(...) is a record of the right type that FileInv accepts.
LEMMA RecordProperties ==
    ASSUME NEW d \in Nat, NEW nl \in Seq(Keys), NEW wc \in Seq(Counts)
    PROVE  /\ Record(d, nl, wc) \in Records
           /\ Record(d, nl, wc).date = d
           /\ Record(d, nl, wc).nicks = nl
           /\ Record(d, nl, wc).words = wc
BY DEF Record, Records, Dates

LEMMA ArchiveType == TypeOK => Archive \in Seq(Records)
<1> SUFFICES ASSUME TypeOK PROVE Archive \in Seq(Records)
  OBVIOUS
<1>1. CASE savefile # NoFile /\ savefile.date # today
  <2>1. savefile \in Records /\ history \in Seq(Records)
    BY <1>1 DEF TypeOK
  <2> QED BY <1>1, <2>1, AppendProperties DEF Archive
<1> QED BY <1>1 DEF Archive, TypeOK

LEMMA CountLineStep ==
    ASSUME IInv, NEW c \in Channels, NEW n \in Niks, NEW t \in Texts, CountLine(c, n, t)
    PROVE  IInv'
<1> USE DEF IInv
<1>0. c \in LogChans
  BY DEF CountLine, Counted
<1>1. /\ todnicklist' = Nicks(c, n)
      /\ todwordcount' = NewCounts(c, n, t)
      /\ todlastcomlist' = NewLasts(c, n, t)
      /\ said' = [said EXCEPT ![Nicks(c, n)[Slot(c, n)]] = @ + WordsOf[t]]
      /\ up /\ UNCHANGED <<today, midnight, up>>
  BY DEF CountLine
<1>2. PICK histOk \in {TRUE, ~MayFail}, saveOk \in {TRUE, ~MayFail} :
        /\ history' = IF histOk THEN Archive ELSE history
        /\ savefile' = IF saveOk THEN Record(today, Nicks(c, n), NewCounts(c, n, t))
                       ELSE savefile
        /\ exact' = (exact /\ histOk /\ saveOk)
  BY DEF CountLine, savetoptod
<1>3. /\ Nicks(c, n) \in Seq(Keys) /\ Unique(Nicks(c, n))
      /\ NewCounts(c, n, t) \in Seq(Counts)
      /\ NewLasts(c, n, t) \in Seq(Texts \cup {NoText})
      /\ Aligned(Nicks(c, n), NewCounts(c, n, t))
      /\ Len(NewLasts(c, n, t)) = Len(Nicks(c, n))
  BY <1>0, Inserted, Counting
<1>4. said' \in [Keys -> Nat] /\ said' # Zero
  BY <1>0, <1>1, SaidGrows
<1>5. /\ today \in Nat
      /\ Record(today, Nicks(c, n), NewCounts(c, n, t)) \in Records
      /\ Record(today, Nicks(c, n), NewCounts(c, n, t)).date = today
      /\ Record(today, Nicks(c, n), NewCounts(c, n, t)).nicks = Nicks(c, n)
      /\ Record(today, Nicks(c, n), NewCounts(c, n, t)).words = NewCounts(c, n, t)
  BY <1>3, RecordProperties DEF TypeOK
<1>6. TypeOK'
  <2>1. history' \in Seq(Records)
    BY <1>2, ArchiveType DEF TypeOK
  <2>2. savefile' \in Records \cup {NoFile}
    BY <1>2, <1>5 DEF TypeOK
  <2>3. exact' \in BOOLEAN
    BY <1>2
  <2> QED
    BY <1>1, <1>3, <1>4, <2>1, <2>2, <2>3 DEF TypeOK
<1>7. MemoryInv'
  BY <1>1, <1>3 DEF MemoryInv, Aligned, Unique
<1>8. FileInv'
  <2>1. CASE savefile' = savefile
    BY <1>1, <1>4, <2>1 DEF FileInv
  <2>2. CASE savefile' = Record(today, Nicks(c, n), NewCounts(c, n, t))
    <3>1. savefile'.date = today /\ savefile'.nicks = Nicks(c, n)
          /\ savefile'.words = NewCounts(c, n, t)
      BY <1>5, <2>2
    <3>2. Indexed(savefile'.words)
      BY <1>3, <3>1 DEF Indexed, Aligned
    <3>3. Unique(savefile'.nicks)
      BY <1>3, <3>1
    <3> QED
      BY <1>1, <1>4, <1>5, <3>1, <3>2, <3>3 DEF FileInv
  <2> QED BY <1>2, <2>1, <2>2
<1>9. ExactInv'
  <2> SUFFICES ASSUME exact' PROVE ExactInv'
    BY DEF ExactInv
  <2>1. exact /\ saveOk
    BY <1>2
  <2>2. Shows(todnicklist, todwordcount)
    BY <1>1, <2>1 DEF ExactInv
  <2>3. Shows(todnicklist, todwordcount)'
    BY <1>0, <1>1, <2>2, ShowsCounted
  <2>4. savefile'.date = today /\ savefile'.nicks = todnicklist'
        /\ savefile'.words = todwordcount'
    BY <1>1, <1>2, <1>5, <2>1
  <2>5. Len(todwordcount') = Len(todnicklist')
    BY <1>1, <1>3 DEF Aligned
  <2>6. Shows(savefile.nicks, savefile.words)'
    BY <2>3, <2>4 DEF Shows
  <2>7. CASE savefile' # NoFile
    BY <1>1, <2>3, <2>4, <2>5, <2>6, <2>7 DEF ExactInv
  <2>8. savefile' # NoFile
    BY <1>2, <1>5, <2>1, NoFileAssumption
  <2> QED BY <2>7, <2>8
<1> QED BY <1>6, <1>7, <1>8, <1>9

LEMMA CrashInSaveStep ==
    ASSUME IInv, NEW c \in Channels, NEW n \in Niks, NEW t \in Texts, CrashInSave(c, n, t)
    PROVE  IInv'
<1> USE DEF IInv
<1>0. c \in LogChans
  BY DEF CrashInSave, Counted
<1>1. /\ todnicklist' = <<>> /\ todwordcount' = <<>> /\ todlastcomlist' = <<>>
      /\ up' = FALSE /\ exact' = FALSE /\ history' = Archive
      /\ said' = [said EXCEPT ![Nicks(c, n)[Slot(c, n)]] = @ + WordsOf[t]]
      /\ UNCHANGED <<today, midnight>>
  BY DEF CrashInSave, LoseMemory
<1>2. /\ Nicks(c, n) \in Seq(Keys) /\ Unique(Nicks(c, n))
      /\ NewCounts(c, n, t) \in Seq(Counts)
      /\ Aligned(Nicks(c, n), NewCounts(c, n, t))
  BY <1>0, Inserted, Counting
<1>3. said' \in [Keys -> Nat] /\ said' # Zero
  BY <1>0, <1>1, SaidGrows
<1>4. /\ savefile' \in Records \cup {NoFile}
      /\ savefile' # NoFile =>
            /\ Indexed(savefile'.words)
            /\ Unique(savefile'.nicks)
            /\ savefile'.date <= today
  <2>1. CASE savefile' = savefile
    BY <2>1 DEF TypeOK, FileInv
  <2>2. CASE savefile' = Record(NoDate, <<>>, <<>>)
    <3>1. <<>> \in Seq(Keys) /\ <<>> \in Seq(Counts) /\ Len(<<>>) = 0 /\ NoDate \in Nat
      BY EmptySeq DEF NoDate
    <3>2. savefile' \in Records /\ savefile'.date = NoDate /\ savefile'.nicks = <<>>
          /\ savefile'.words = <<>>
      BY <2>2, <3>1 DEF Record, Records, Dates
    <3> QED
      BY <3>1, <3>2 DEF Indexed, Unique, TypeOK, NoDate
  <2>3. ASSUME NEW m \in 0 .. Len(NewCounts(c, n, t)),
               savefile' = Record(today, Nicks(c, n), SubSeq(NewCounts(c, n, t), 1, m))
        PROVE  <1>4!2 /\ savefile' \in Records
    <3> DEFINE wc == NewCounts(c, n, t)
               cut == SubSeq(wc, 1, m)
    <3>1. \A q \in 1 .. m : wc[q] \in Counts /\ wc[q].i = q - 1
      BY <1>2, ElementOfSeq DEF Aligned
    <3>2. cut \in Seq(Counts) /\ Len(cut) = m /\ \A q \in 1 .. m : cut[q] = wc[q]
      <4> HIDE DEF wc
      <4> QED BY <3>1, SubSeqProperties
    <3>3. Indexed(cut)
      BY <3>1, <3>2 DEF Indexed
    <3>4. savefile' \in Records /\ savefile'.date = today /\ savefile'.nicks = Nicks(c, n)
          /\ savefile'.words = cut
      <4>1. savefile' = Record(today, Nicks(c, n), cut) /\ today \in Nat
        BY <2>3 DEF TypeOK
      <4> HIDE DEF cut
      <4> QED BY <1>2, <3>2, <4>1, RecordProperties
    <3> QED
      BY <1>2, <3>3, <3>4 DEF TypeOK
  <2> QED
    BY <2>1, <2>2, <2>3 DEF CrashInSave
<1>5. TypeOK'
  BY <1>1, <1>3, <1>4, ArchiveType, EmptySeq DEF TypeOK
<1>6. MemoryInv'
  BY <1>1, EmptySeq DEF MemoryInv, Aligned, Unique
<1>7. FileInv'
  BY <1>1, <1>3, <1>4 DEF FileInv
<1>8. ExactInv'
  BY <1>1 DEF ExactInv
<1> QED BY <1>5, <1>6, <1>7, <1>8

\* Reading the file back, at a start or a reload of the script.
LEMMA LoadStep ==
    ASSUME IInv, LoadLists, up' = TRUE
    PROVE  IInv'
<1> USE DEF IInv
<1>1. /\ UNCHANGED <<today, midnight, savefile, history, said>>
      /\ exact' = (exact \/ said = Zero)
  BY DEF LoadLists, files
<1>2. CASE Resumable
  <2>1. /\ savefile # NoFile /\ savefile \in Records /\ savefile.date = today
        /\ Len(savefile.nicks) = Len(savefile.words)
        /\ savefile.nicks \in Seq(Keys) /\ savefile.words \in Seq(Counts)
    BY <1>2 DEF Resumable, TypeOK, Records
  <2>2. /\ todnicklist' = savefile.nicks /\ todwordcount' = savefile.words
        /\ todlastcomlist' = [p \in 1 .. Len(savefile.nicks) |-> Dash]
    BY <1>2, <2>1 DEF LoadLists
  <2>3. /\ todlastcomlist' \in Seq(Texts \cup {NoText})
        /\ Len(todlastcomlist') = Len(savefile.nicks)
    BY <2>1, <2>2, TopTodAssumption
  <2>4. TypeOK'
    BY <1>1, <2>1, <2>2, <2>3 DEF TypeOK
  <2>5. MemoryInv'
    BY <2>1, <2>2, <2>3 DEF MemoryInv, FileInv, Aligned, Indexed, Unique
  <2>6. FileInv'
    BY <1>1 DEF FileInv
  <2>7. ExactInv'
    <3>1. said # Zero
      BY <2>1 DEF FileInv
    <3>2. Shows(todnicklist, todwordcount)' <=> Shows(savefile.nicks, savefile.words)
      BY <1>1, <2>2 DEF Shows
    <3>3. Shows(savefile.nicks, savefile.words)' <=> Shows(savefile.nicks, savefile.words)
      BY <1>1 DEF Shows
    <3> QED
      BY <1>1, <2>1, <3>1, <3>2, <3>3 DEF ExactInv
  <2> QED BY <2>4, <2>5, <2>6, <2>7
<1>3. CASE ~Resumable
  <2>1. todnicklist' = <<>> /\ todwordcount' = <<>> /\ todlastcomlist' = <<>>
    BY <1>3 DEF LoadLists
  <2>2. TypeOK'
    BY <1>1, <2>1, EmptySeq DEF TypeOK
  <2>3. MemoryInv'
    BY <2>1, EmptySeq DEF MemoryInv, Aligned, Unique
  <2>4. FileInv'
    BY <1>1 DEF FileInv
  <2>5. ExactInv'
    <3> SUFFICES ASSUME exact' PROVE ExactInv'
      BY DEF ExactInv
    <3>1. ~(savefile # NoFile /\ savefile.date = today)
      <4>1. CASE exact
        BY <1>3, <4>1 DEF Resumable, ExactInv
      <4>2. CASE said = Zero
        BY <4>2 DEF FileInv
      <4> QED BY <1>1, <4>1, <4>2
    <3>2. said = Zero
      BY <1>1, <3>1 DEF ExactInv
    <3>3. Shows(todnicklist, todwordcount)'
      BY <1>1, <2>1, <3>2, EmptySeq DEF Shows, Zero
    <3> QED
      BY <1>1, <3>1, <3>2, <3>3 DEF ExactInv
  <2> QED BY <2>2, <2>3, <2>4, <2>5
<1> QED BY <1>2, <1>3

\* The date change and the midnight bind, run or missed.
LEMMA MidnightStep ==
    ASSUME IInv, NewDay \/ cleartod \/ MissMinute
    PROVE  IInv'
<1> USE DEF IInv
<1>0. Zero \in [Keys -> Nat]
  BY DEF Zero
<1>1. CASE NewDay
  <2>1. /\ today' = today + 1 /\ midnight' = TRUE /\ said' = Zero
        /\ exact' = (todnicklist = <<>>)
        /\ UNCHANGED <<up, todnicklist, todwordcount, todlastcomlist, savefile, history>>
    BY <1>1 DEF NewDay, lists, files
  <2>2. today \in Nat \ {0} /\ today' \in Nat \ {0} /\ today < today'
    BY <2>1 DEF TypeOK
  <2>3. TypeOK'
    BY <1>0, <2>1, <2>2 DEF TypeOK
  <2>4. MemoryInv'
    BY <2>1 DEF MemoryInv, Aligned, Unique
  <2>5. savefile # NoFile => savefile.date \in Nat /\ savefile.date <= today
    BY DEF TypeOK, FileInv, Records, Dates
  <2>6. FileInv'
    BY <2>1, <2>2, <2>5 DEF FileInv
  <2>7. ExactInv'
    <3> SUFFICES ASSUME exact' PROVE ExactInv'
      BY DEF ExactInv
    <3>1. todnicklist' = <<>>
      BY <2>1
    <3>2. Shows(todnicklist, todwordcount)'
      BY <2>1, <3>1, EmptySeq DEF Shows, Zero
    <3>3. savefile' # NoFile => savefile'.date # today'
      BY <2>1, <2>2, <2>5
    <3> QED BY <2>1, <3>2, <3>3 DEF ExactInv
  <2> QED BY <2>3, <2>4, <2>6, <2>7
<1>2. CASE cleartod
  <2>1. /\ todnicklist' = <<>> /\ todwordcount' = <<>> /\ todlastcomlist' = <<>>
        /\ midnight' = FALSE /\ exact' = (said = Zero)
        /\ UNCHANGED <<today, up, savefile, history, said>>
    BY <1>2 DEF cleartod, files
  <2>2. TypeOK'
    BY <2>1, EmptySeq DEF TypeOK
  <2>3. MemoryInv'
    BY <2>1, EmptySeq DEF MemoryInv, Aligned, Unique
  <2>4. FileInv'
    BY <2>1 DEF FileInv
  <2>5. ExactInv'
    <3> SUFFICES ASSUME exact' PROVE ExactInv'
      BY DEF ExactInv
    <3>1. said = Zero
      BY <2>1
    <3>2. Shows(todnicklist, todwordcount)'
      BY <2>1, <3>1, EmptySeq DEF Shows, Zero
    <3>3. savefile # NoFile => savefile.date # today
      BY <3>1 DEF FileInv
    <3> QED BY <2>1, <3>1, <3>2, <3>3 DEF ExactInv
  <2> QED BY <2>2, <2>3, <2>4, <2>5
<1>3. CASE MissMinute
  <2>1. midnight' = FALSE /\ UNCHANGED <<today, up, todnicklist, todwordcount,
                                         todlastcomlist, savefile, history, said, exact>>
    BY <1>3 DEF MissMinute, lists, files
  <2>2. TypeOK'
    BY <2>1 DEF TypeOK
  <2>3. MemoryInv' /\ FileInv'
    BY <2>1 DEF MemoryInv, FileInv, Aligned, Indexed, Unique
  <2>4. ExactInv'
    BY <2>1 DEF ExactInv, Shows
  <2> QED BY <2>2, <2>3, <2>4
<1> QED BY <1>1, <1>2, <1>3

LEMMA StopStep ==
    ASSUME IInv, Stop
    PROVE  IInv'
<1> USE DEF IInv
<1>1. /\ up' = FALSE /\ todnicklist' = <<>> /\ todwordcount' = <<>> /\ todlastcomlist' = <<>>
      /\ UNCHANGED <<today, midnight, savefile, history, said, exact>>
  BY DEF Stop, LoseMemory, files
<1>2. TypeOK'
  BY <1>1, EmptySeq DEF TypeOK
<1>3. MemoryInv'
  BY <1>1, EmptySeq DEF MemoryInv, Aligned, Unique
<1>4. FileInv'
  BY <1>1 DEF FileInv
<1>5. ExactInv'
  BY <1>1 DEF ExactInv, Shows
<1> QED BY <1>2, <1>3, <1>4, <1>5

-----------------------------------------------------------------------------
(* The theorems.                                                           *)

LEMMA Initially == Init => IInv
<1> SUFFICES ASSUME Init PROVE IInv
  OBVIOUS
<1>1. Zero \in [Keys -> Nat]
  BY DEF Zero
<1>2. TypeOK
  <2>1. /\ todnicklist \in Seq(Keys) /\ todwordcount \in Seq(Counts)
        /\ todlastcomlist \in Seq(Texts \cup {NoText}) /\ history \in Seq(Records)
    <3> USE DEF Init
    <3> QED BY EmptySeq
  <2>2. midnight \in BOOLEAN /\ up \in BOOLEAN /\ exact \in BOOLEAN
    BY Zenon DEF Init
  <2>3. today \in Nat \ {0}
    BY DEF Init
  <2> QED BY <1>1, <2>1, <2>2, <2>3 DEF Init, TypeOK
<1>3. MemoryInv
  BY EmptySeq DEF Init, MemoryInv, Aligned, Unique
<1>4. FileInv
  BY DEF Init, FileInv
<1>5. ExactInv
  BY EmptySeq DEF Init, ExactInv, Shows, Zero
<1> QED BY <1>2, <1>3, <1>4, <1>5 DEF IInv

LEMMA Inductive == IInv /\ [Next]_vars => IInv'
<1> SUFFICES ASSUME IInv, [Next]_vars PROVE IInv'
  OBVIOUS
<1>1. ASSUME NEW c \in Channels, NEW n \in Niks, NEW t \in Texts,
             CountLine(c, n, t)
      PROVE  IInv'
  BY <1>1, CountLineStep
<1>2. ASSUME NEW c \in Channels, NEW n \in Niks, NEW t \in Texts,
             CrashInSave(c, n, t)
      PROVE  IInv'
  BY <1>2, CrashInSaveStep
<1>3. CASE NewDay \/ cleartod \/ MissMinute
  BY <1>3, MidnightStep
<1>4. CASE Start \/ Rehash
  BY <1>4, LoadStep DEF Start, Rehash, IInv, TypeOK
<1>5. CASE Stop
  BY <1>5, StopStep
<1>6. CASE UNCHANGED vars
  <2>1. UNCHANGED <<today, midnight, up, todnicklist, todwordcount, todlastcomlist,
                    savefile, history, said, exact>>
    BY <1>6 DEF vars, lists, files
  <2> QED
    BY <2>1 DEF IInv, TypeOK, MemoryInv, FileInv, ExactInv, Aligned, Indexed, Unique, Shows
<1> QED
  BY <1>1, <1>2, <1>3, <1>4, <1>5, <1>6 DEF Next

\* The inductive invariant holds in every reachable state, for every configuration.
THEOREM Invariance == Spec => []IInv
BY Initially, Inductive, PTL DEF Spec

\* Lists, files and history keep their types.
THEOREM TypeCorrect == Spec => []TypeOK
BY Invariance, PTL DEF IInv

\* The index behind the dot of each count is the place of its nick, through crashes
\* that cut the file, reloads and midnight.
THEOREM ListsStayAligned == Spec => []ListsAligned
<1>1. IInv => ListsAligned
  <2> SUFFICES ASSUME IInv PROVE ListsAligned
    OBVIOUS
  <2>1. DOMAIN todwordcount = 1 .. Len(todwordcount)
    BY DEF IInv, TypeOK
  <2> QED BY <2>1 DEF IInv, MemoryInv, Aligned, ListsAligned
<1> QED BY <1>1, Invariance, PTL

\* A name whose pattern finds itself has at most one entry.
THEOREM NickHasOneEntry == Spec => []OneEntryPerNick
<1>1. IInv => OneEntryPerNick
  <2> SUFFICES ASSUME IInv PROVE OneEntryPerNick
    OBVIOUS
  <2>1. DOMAIN todnicklist = 1 .. Len(todnicklist)
    BY DEF IInv, TypeOK
  <2> QED BY <2>1 DEF IInv, MemoryInv, Unique, OneEntryPerNick
<1> QED BY <1>1, Invariance, PTL

\* On a day nothing disturbed, memory shows exactly the words counted, whatever
\* restarts and reloads the day had.
THEOREM TodayIsExact == Spec => []ExactToday
<1>1. IInv => ExactToday
  <2> SUFFICES ASSUME IInv PROVE ExactToday
    OBVIOUS
  <2>1. DOMAIN todnicklist = 1 .. Len(todnicklist)
    BY DEF IInv, TypeOK
  <2> QED BY <2>1 DEF IInv, ExactInv, Shows, ExactToday
<1> QED BY <1>1, Invariance, PTL

\* When opens do not fail, no saved day is overwritten before it is in the history.
THEOREM NoDayIsLost ==
    ASSUME MayFail = FALSE
    PROVE  Spec => HistoryKeepsDay
<1> DEFINE Kept ==
      savefile # NoFile /\ savefile' # savefile /\ savefile.date # today =>
         history' # <<>> /\ history'[Len(history')] = savefile
<1>1. ASSUME IInv, savefile # NoFile, savefile.date # today, history' = Archive
      PROVE  history' # <<>> /\ history'[Len(history')] = savefile
  <2>1. history \in Seq(Records) /\ savefile \in Records
    BY <1>1 DEF IInv, TypeOK
  <2>2. history' = Append(history, savefile)
    BY <1>1 DEF Archive
  <2> QED BY <2>1, <2>2, AppendProperties
<1>2. IInv /\ [Next]_vars => Kept
  <2> SUFFICES ASSUME IInv, [Next]_vars, savefile # NoFile, savefile' # savefile,
                      savefile.date # today
               PROVE  history' = Archive
    BY <1>1
  <2>1. ASSUME NEW c \in Channels, NEW n \in Niks, NEW t \in Texts,
               CountLine(c, n, t) \/ CrashInSave(c, n, t)
        PROVE  history' = Archive
    BY <2>1 DEF CountLine, CrashInSave, savetoptod
  <2> QED
    BY <2>1 DEF Next, NewDay, cleartod, MissMinute, Start, Rehash, Stop, LoadLists,
                vars, files
<1> QED BY <1>2, Invariance, PTL DEF Spec, HistoryKeepsDay

-----------------------------------------------------------------------------
(* The order of the history.                                               *)

\* The days of the history are past, none is later than the day of the file, and the
\* day of the file, if it was appended already, has the contents of the file.
Behind(r, f) ==
    f # NoFile /\ f.date # NoDate =>
        r.date <= f.date /\ (r.date = f.date => r = f)
PastDays ==
    \A i \in 1 .. Len(history) :
        history[i].date # NoDate => history[i].date < today /\ Behind(history[i], savefile)
InOrder ==
    \A i, j \in 1 .. Len(history) :
        history[i].date # NoDate /\ history[j].date # NoDate =>
            /\ i < j => history[i].date <= history[j].date
            /\ history[i].date = history[j].date => history[i] = history[j]
HInv == PastDays /\ InOrder

\* A save, finished, failed or cut: the history gets the file of an earlier day or
\* nothing, and the file stays, becomes empty or takes the date of today.
LEMMA SaveKeepsOrder ==
    ASSUME TypeOK, FileInv, HInv,
           today' = today, TypeOK',
           history' = history \/ history' = Archive,
           savefile' = savefile \/ savefile'.date = NoDate \/ savefile'.date = today
    PROVE  HInv'
<1> DEFINE L == Len(history)
           Day(r) == r.date \in Nat
<1>1. /\ history \in Seq(Records) /\ L \in Nat /\ today \in Nat
      /\ \A i \in 1 .. L : history[i] \in Records
  BY ElementOfSeq DEF TypeOK
<1>2. \A r \in Records : Day(r)
  BY DEF Records, Dates
<1>3. CASE history' = history
  <2>1. InOrder'
    BY <1>3 DEF HInv, InOrder
  <2>2. ASSUME NEW i \in 1 .. L, history[i].date # NoDate
        PROVE  history[i].date < today /\ Behind(history[i], savefile')
    <3>1. history[i].date < today /\ Behind(history[i], savefile)
      BY <2>2 DEF HInv, PastDays
    <3>2. Day(history[i])
      BY <1>1, <1>2
    <3> QED BY <1>1, <3>1, <3>2 DEF Behind
  <2>3. PastDays'
    BY <1>3, <2>2 DEF PastDays
  <2> QED BY <2>1, <2>3 DEF HInv
<1>4. CASE history' = Archive /\ savefile # NoFile /\ savefile.date # today
  <2>1. savefile \in Records
    BY <1>4 DEF TypeOK
  <2>2. history' = Append(history, savefile)
    BY <1>4 DEF Archive
  <2>3. /\ Len(history') = L + 1 /\ history'[L + 1] = savefile
        /\ \A i \in 1 .. L : history'[i] = history[i]
    BY <1>1, <2>1, <2>2, AppendProperties
  <2>4. Day(savefile) /\ savefile.date < today
    BY <1>1, <1>2, <1>4, <2>1 DEF FileInv
  <2>5. \A i \in 1 .. L : Day(history[i])
    BY <1>1, <1>2
  <2>6. ASSUME NEW i \in 1 .. L, history[i].date # NoDate
        PROVE  history[i].date < today /\ Behind(history[i], savefile)
    BY <2>6 DEF HInv, PastDays
  <2>7. ASSUME NEW i \in 1 .. L + 1, history'[i].date # NoDate
        PROVE  history'[i].date < today /\ Behind(history'[i], savefile')
    <3>1. CASE i \in 1 .. L
      <4>1. history'[i] = history[i] /\ Day(history[i])
        BY <2>3, <2>5, <3>1
      <4>2. history[i].date < today /\ Behind(history[i], savefile)
        BY <2>6, <2>7, <3>1, <4>1
      <4> QED BY <1>1, <4>1, <4>2 DEF Behind
    <3>2. CASE i = L + 1
      <4>1. history'[i] = savefile
        BY <2>3, <3>2
      <4> QED BY <1>1, <2>4, <4>1 DEF Behind
    <3> QED BY <1>1, <3>1, <3>2
  <2>8. PastDays'
    BY <2>3, <2>7 DEF PastDays
  <2>9. ASSUME NEW i \in 1 .. L + 1, NEW j \in 1 .. L + 1,
               history'[i].date # NoDate, history'[j].date # NoDate
        PROVE  /\ i < j => history'[i].date <= history'[j].date
               /\ history'[i].date = history'[j].date => history'[i] = history'[j]
    <3>1. CASE i \in 1 .. L /\ j \in 1 .. L
      BY <2>3, <2>9, <3>1 DEF HInv, InOrder
    <3>2. CASE i \in 1 .. L /\ j = L + 1
      <4>1. history'[j] = savefile /\ history'[i] = history[i]
        BY <2>3, <3>2
      <4>2. Behind(history[i], savefile)
        BY <2>6, <2>9, <3>2, <4>1
      <4> QED BY <1>4, <2>9, <4>1, <4>2 DEF Behind
    <3>3. CASE i = L + 1 /\ j \in 1 .. L
      <4>1. history'[i] = savefile /\ history'[j] = history[j]
        BY <2>3, <3>3
      <4>2. Behind(history[j], savefile)
        BY <2>6, <2>9, <3>3, <4>1
      <4>3. ~(i < j)
        BY <1>1, <3>3
      <4> QED BY <1>4, <2>9, <4>1, <4>2, <4>3 DEF Behind
    <3>4. CASE i = L + 1 /\ j = L + 1
      BY <1>1, <3>4
    <3> QED BY <1>1, <3>1, <3>2, <3>3, <3>4
  <2>10. InOrder'
    BY <2>3, <2>9 DEF InOrder
  <2> QED BY <2>8, <2>10 DEF HInv
<1> QED BY <1>3, <1>4 DEF Archive

LEMMA OrderInductive == IInv /\ IInv' /\ HInv /\ [Next]_vars => HInv'
<1> SUFFICES ASSUME IInv, IInv', HInv, [Next]_vars PROVE HInv'
  OBVIOUS
<1>1. TypeOK /\ TypeOK' /\ FileInv
  BY DEF IInv
<1>2. ASSUME NEW c \in Channels, NEW n \in Niks, NEW t \in Texts, CountLine(c, n, t)
      PROVE  HInv'
  <2>1. /\ today' = today
        /\ history' = history \/ history' = Archive
        /\ savefile' = savefile \/ savefile' = Record(today, Nicks(c, n), NewCounts(c, n, t))
    BY <1>2 DEF CountLine, savetoptod
  <2>2. savefile' = savefile \/ savefile'.date = NoDate \/ savefile'.date = today
    BY <2>1 DEF Record
  <2> QED BY <1>1, <2>1, <2>2, SaveKeepsOrder
<1>3. ASSUME NEW c \in Channels, NEW n \in Niks, NEW t \in Texts, CrashInSave(c, n, t)
      PROVE  HInv'
  <2>1. today' = today /\ history' = Archive
    BY <1>3 DEF CrashInSave
  <2>2. savefile' = savefile \/ savefile'.date = NoDate \/ savefile'.date = today
    BY <1>3 DEF CrashInSave, Record
  <2> QED BY <1>1, <2>1, <2>2, SaveKeepsOrder
<1>4. CASE NewDay
  <2>1. today' = today + 1 /\ history' = history /\ savefile' = savefile
    BY <1>4 DEF NewDay, files
  <2>2. today \in Nat /\ \A i \in 1 .. Len(history) : history[i].date \in Nat
    <3>1. today \in Nat /\ history \in Seq(Records)
      BY <1>1 DEF TypeOK
    <3>2. \A i \in 1 .. Len(history) : history[i] \in Records
      BY <3>1, ElementOfSeq
    <3> QED BY <3>1, <3>2 DEF Records, Dates
  <2>3. PastDays'
    BY <2>1, <2>2 DEF HInv, PastDays, Behind
  <2>4. InOrder'
    BY <2>1 DEF HInv, InOrder
  <2> QED BY <2>3, <2>4 DEF HInv
<1>5. CASE UNCHANGED <<today, savefile, history>>
  BY <1>5 DEF HInv, PastDays, InOrder, Behind
<1>6. cleartod \/ MissMinute \/ Start \/ Rehash \/ Stop \/ UNCHANGED vars
        => UNCHANGED <<today, savefile, history>>
  BY DEF cleartod, MissMinute, Start, Rehash, Stop, LoadLists, vars, files
<1> QED BY <1>2, <1>3, <1>4, <1>5, <1>6 DEF Next

\* The history lists past days in order, and a day that a crash or a failed open made
\* it list twice has the same contents both times.
THEOREM HistoryIsOrdered == Spec => []HistoryOrdered
<1>1. Init => HInv
  BY EmptySeq DEF Init, HInv, PastDays, InOrder
<1>2. IInv /\ HInv => HistoryOrdered
  <2> SUFFICES ASSUME IInv, HInv PROVE HistoryOrdered
    OBVIOUS
  <2>1. DOMAIN history = 1 .. Len(history)
    BY DEF IInv, TypeOK
  <2> QED BY <2>1 DEF HInv, PastDays, InOrder, HistoryOrdered
<1> QED BY <1>1, <1>2, Invariance, OrderInductive, PTL DEF Spec
=============================================================================
