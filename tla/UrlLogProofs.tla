---------------------------- MODULE UrlLogProofs ----------------------------
(***************************************************************************)
(* Proofs about UrlLog: the table holds a URL once, and short codes are    *)
(* unique, for any set of URLs, lines and overlapping activations.         *)
(***************************************************************************)
EXTENDS UrlLog, SequenceTheorems, TLAPS

Row == [url : Urls, by : Nat \X Nat]

\* The types a row's contents depend on.
WordsInv ==
    /\ said \in Seq(Seq(Word))
    /\ stack \in Seq(Activation)
    /\ \A i \in DOMAIN stack : stack[i].line \in DOMAIN said
    /\ \A i \in DOMAIN stack : stack[i].mode # "run" => stack[i].at \in DOMAIN said[stack[i].line]

TableInv == db \in Seq(Row) /\ UrlOnce
IInv == WordsInv /\ TableInv

\* The innermost activation is an activation.
LEMMA TopIs ==
    ASSUME WordsInv, stack # <<>>
    PROVE  /\ Len(stack) \in DOMAIN stack /\ Len(stack) \in Nat \ {0}
           /\ Top \in Activation
           /\ Top.line \in DOMAIN said
           /\ said[Top.line] \in Seq(Word)
           /\ Top.mode # "run" => Top.at \in DOMAIN said[Top.line]
<1>1. Len(stack) \in DOMAIN stack /\ Len(stack) \in Nat \ {0} /\ DOMAIN stack = 1 .. Len(stack)
  BY EmptySeq DEF WordsInv
<1> QED BY <1>1, ElementOfSeq DEF WordsInv, Top

\* At a word, the word and its place are well formed.
LEMMA HereIs ==
    ASSUME WordsInv, stack # <<>>, Top.at \in 1 .. Len(said[Top.line])
    PROVE  This \in Word /\ Here \in Nat \X Nat
<1>1. Top \in Activation /\ said[Top.line] \in Seq(Word)
  BY TopIs
<1>2. This \in Word
  BY <1>1, ElementOfSeq DEF This
<1>3. Here \in Nat \X Nat
  BY <1>1 DEF Here, Activation
<1> QED BY <1>2, <1>3

\* AddUrl keeps the table free of doubles when the URL is not in it.
LEMMA AddUrlKeepsTable ==
    ASSUME TableInv, Here \in Nat \X Nat, NEW url \in Urls, ~Exists(url), AddUrl(url)
    PROVE  TableInv'
<1>1. CASE UNCHANGED db
  BY <1>1 DEF TableInv, UrlOnce
<1>2. CASE db' = Append(db, [url |-> url, by |-> Here])
  <2> DEFINE row == [url |-> url, by |-> Here]
  <2>1. row \in Row
    BY DEF Row
  <2>2. row.url = url
    OBVIOUS
  <2> HIDE DEF row
  <2>3. /\ db' \in Seq(Row)
        /\ DOMAIN db = 1 .. Len(db) /\ Len(db) \in Nat
        /\ Len(db') = Len(db) + 1 /\ DOMAIN db' = 1 .. Len(db')
        /\ \A i \in 1 .. Len(db) : db'[i] = db[i]
        /\ db'[Len(db) + 1] = row
    <3>1. db' = Append(db, row) /\ db \in Seq(Row)
      BY <1>2 DEF TableInv, row
    <3> QED BY <3>1, <2>1, AppendProperties, LenProperties
  <2>4. \A i \in 1 .. Len(db) : db[i].url # url
    BY <2>3 DEF Exists
  <2>5. ASSUME NEW i \in DOMAIN db', NEW j \in DOMAIN db', db'[i].url = db'[j].url
        PROVE  i = j
    <3>1. CASE i \in 1 .. Len(db) /\ j \in 1 .. Len(db)
      BY <3>1, <2>3, <2>5 DEF TableInv, UrlOnce
    <3>2. CASE i = Len(db) + 1 /\ j \in 1 .. Len(db)
      BY <3>2, <2>2, <2>3, <2>4, <2>5
    <3>3. CASE j = Len(db) + 1 /\ i \in 1 .. Len(db)
      BY <3>3, <2>2, <2>3, <2>4, <2>5
    <3> QED BY <3>1, <3>2, <3>3, <2>3
  <2> QED BY <2>3, <2>5 DEF TableInv, UrlOnce
<1> QED BY <1>1, <1>2 DEF AddUrl

\* Going on replaces the innermost activation by one of the same line that runs.
LEMMA GoOnKeepsStack ==
    ASSUME WordsInv, stack # <<>>, GoOn, UNCHANGED said
    PROVE  WordsInv'
<1> DEFINE n == Len(stack)
           new == [line |-> Top.line, at |-> Top.at + 1, mode |-> "run"]
<1>1. n \in DOMAIN stack /\ n \in Nat \ {0} /\ Top \in Activation /\ Top.line \in DOMAIN said
  BY TopIs
<1>2. new \in Activation /\ new.line = Top.line /\ new.mode = "run"
  BY <1>1 DEF Activation
<1>3. stack' = [stack EXCEPT ![n] = new]
  BY DEF GoOn
<1> HIDE DEF new
<1>4. stack' \in Seq(Activation)
  BY <1>1, <1>2, <1>3, ExceptSeq DEF WordsInv
<1>5. ASSUME NEW i \in DOMAIN stack'
      PROVE  /\ stack'[i].line \in DOMAIN said
             /\ stack'[i].mode # "run" => stack'[i].at \in DOMAIN said[stack'[i].line]
  <2>1. i \in DOMAIN stack
    BY <1>3, <1>5
  <2>2. CASE i = n
    BY <2>2, <1>1, <1>2, <1>3, <2>1
  <2>3. CASE i # n
    BY <2>3, <1>3, <2>1 DEF WordsInv
  <2> QED BY <2>2, <2>3
<1> QED BY <1>4, <1>5 DEF WordsInv

\* Initially the table and the stack are empty.
LEMMA InitInv == Init => IInv
<1> SUFFICES ASSUME Init PROVE IInv
  OBVIOUS
<1>1. said = <<>> /\ stack = <<>> /\ db = <<>>
  BY DEF Init
<1>2. WordsInv
  BY <1>1, EmptySeq DEF WordsInv
<1>3. TableInv
  BY <1>1, EmptySeq DEF TableInv, UrlOnce
<1> QED BY <1>2, <1>3 DEF IInv

\* What a step on the innermost activation's word needs.
LEMMA WordReady ==
    ASSUME WordsInv, AtWord \/ (stack # <<>> /\ Top.mode \in Answers)
    PROVE  /\ stack # <<>> /\ This \in Word /\ Here \in Nat \X Nat
           /\ Len(stack) \in DOMAIN stack /\ Top.line \in DOMAIN said
           /\ Top.at \in DOMAIN said[Top.line]
<1>1. stack # <<>>
  BY DEF AtWord, Running
<1>2. Top \in Activation /\ said[Top.line] \in Seq(Word) /\ Top.line \in DOMAIN said
  BY <1>1, TopIs
<1>3. DOMAIN said[Top.line] = 1 .. Len(said[Top.line]) /\ Len(said[Top.line]) \in Nat
  BY <1>2, LenProperties
<1>4. Top.at \in 1 .. Len(said[Top.line])
  <2>1. CASE AtWord
    <3>1. Top.at \in Nat \ {0}
      BY <1>2 DEF Activation
    <3> QED BY <2>1, <3>1, <1>3 DEF AtWord
  <2>2. CASE Top.mode \in Answers
    <3>1. Top.mode # "run"
      BY <2>2 DEF Answers
    <3> QED BY <3>1, <1>1, <1>3, TopIs
  <2> QED BY <2>1, <2>2
<1> QED BY <1>1, <1>2, <1>3, <1>4, TopIs, HereIs

\* A step that stores nothing keeps the table.
LEMMA TableKept == TableInv /\ UNCHANGED db => TableInv'
BY DEF TableInv, UrlOnce

\* A new line is put on top of the stack.
LEMMA SayInv == ASSUME WordsInv, NEW line \in Lines, Say(line) PROVE WordsInv'
<1> DEFINE new == [line |-> Len(said) + 1, at |-> 1, mode |-> "run"]
<1>1. /\ DOMAIN said = 1 .. Len(said) /\ Len(said) \in Nat
      /\ DOMAIN stack = 1 .. Len(stack) /\ Len(stack) \in Nat
      /\ said \in Seq(Seq(Word)) /\ stack \in Seq(Activation)
  BY LenProperties DEF WordsInv
<1>2. line \in Seq(Word)
  BY UrlLogAssumption
<1>3. new \in Activation /\ new.line = Len(said) + 1 /\ new.mode = "run"
  BY <1>1 DEF Activation
<1>4. said' = Append(said, line) /\ stack' = Append(stack, new)
  BY DEF Say
<1> HIDE DEF new
<1>5. /\ said' \in Seq(Seq(Word)) /\ Len(said') = Len(said) + 1
      /\ \A i \in 1 .. Len(said) : said'[i] = said[i]
  BY <1>1, <1>2, <1>4, AppendProperties
<1>6. /\ stack' \in Seq(Activation) /\ Len(stack') = Len(stack) + 1
      /\ \A i \in 1 .. Len(stack) : stack'[i] = stack[i]
      /\ stack'[Len(stack) + 1] = new
  BY <1>1, <1>3, <1>4, AppendProperties
<1>7. DOMAIN said' = 1 .. Len(said) + 1 /\ DOMAIN stack' = 1 .. Len(stack) + 1
  BY <1>5, <1>6, LenProperties
<1>8. ASSUME NEW i \in DOMAIN stack'
      PROVE  /\ stack'[i].line \in DOMAIN said'
             /\ stack'[i].mode # "run" => stack'[i].at \in DOMAIN said'[stack'[i].line]
  <2>1. CASE i = Len(stack) + 1
    BY <2>1, <1>1, <1>3, <1>6, <1>7
  <2>2. CASE i \in 1 .. Len(stack)
    <3>1. /\ stack'[i] = stack[i] /\ stack[i].line \in 1 .. Len(said)
          /\ stack[i].mode # "run" => stack[i].at \in DOMAIN said[stack[i].line]
      BY <2>2, <1>1, <1>6 DEF WordsInv
    <3>2. stack[i].line \in DOMAIN said' /\ said'[stack[i].line] = said[stack[i].line]
      BY <3>1, <1>1, <1>5, <1>7
    <3> QED BY <3>1, <3>2
  <2> QED BY <2>1, <2>2, <1>7, <1>1
<1> QED BY <1>5, <1>6, <1>8 DEF WordsInv

\* The loop over a line ends: the rest of the stack is as it was.
LEMMA EndOfLineInv == ASSUME WordsInv, EndOfLine PROVE WordsInv'
<1>1. /\ stack # <<>> /\ stack \in Seq(Activation)
      /\ stack' = SubSeq(stack, 1, Len(stack) - 1) /\ UNCHANGED said
  BY DEF EndOfLine, Running, WordsInv
<1>2. Len(stack) \in Nat \ {0} /\ DOMAIN stack = 1 .. Len(stack)
  BY <1>1, EmptySeq, LenProperties
<1>3. /\ stack' \in Seq(Activation) /\ DOMAIN stack' = 1 .. Len(stack) - 1
      /\ \A i \in 1 .. Len(stack) - 1 : stack'[i] = stack[i]
  BY <1>1, <1>2, SubSeqProperties, LenProperties
<1> QED BY <1>1, <1>2, <1>3 DEF WordsInv

\* An activation begins to wait, or gets its answer: its word stays.
LEMMA ModeInv ==
    ASSUME WordsInv, NEW i \in DOMAIN stack, NEW mode \in {"wait"} \cup Answers,
           stack[i].at \in DOMAIN said[stack[i].line],
           stack' = [stack EXCEPT ![i].mode = mode], UNCHANGED said
    PROVE  WordsInv'
<1> DEFINE new == [stack[i] EXCEPT !.mode = mode]
<1>1. stack[i] \in Activation
  BY ElementOfSeq, LenProperties DEF WordsInv
<1>2. new \in Activation /\ new.line = stack[i].line /\ new.at = stack[i].at
  BY <1>1 DEF Activation
<1>3. stack' = [stack EXCEPT ![i] = new]
  OBVIOUS
<1> HIDE DEF new
<1>4. stack' \in Seq(Activation)
  <2>1. stack \in Seq(Activation) /\ i \in 1 .. Len(stack)
    BY LenProperties DEF WordsInv
  <2>2. [stack EXCEPT ![i] = new] \in Seq(Activation)
    BY <2>1, <1>2, ExceptSeq
  <2> QED BY <2>2, <1>3
<1>5. ASSUME NEW j \in DOMAIN stack'
      PROVE  /\ stack'[j].line \in DOMAIN said
             /\ stack'[j].mode # "run" => stack'[j].at \in DOMAIN said[stack'[j].line]
  <2>1. j \in DOMAIN stack
    BY <1>3, <1>5
  <2>2. CASE j = i
    BY <2>2, <1>2, <1>3, <2>1 DEF WordsInv
  <2>3. CASE j # i
    BY <2>3, <1>3, <2>1 DEF WordsInv
  <2> QED BY <2>2, <2>3
<1> QED BY <1>4, <1>5 DEF WordsInv

\* Every step keeps the invariant.
LEMMA NextInv == IInv /\ [Next]_vars => IInv'
<1> SUFFICES ASSUME WordsInv, TableInv, [Next]_vars PROVE WordsInv' /\ TableInv'
  BY DEF IInv
<1>1. ASSUME NEW line \in Lines, Say(line) PROVE WordsInv' /\ TableInv'
  BY <1>1, SayInv, TableKept DEF Say
<1>2. CASE EndOfLine
  BY <1>2, EndOfLineInv, TableKept DEF EndOfLine
<1>3. CASE IgnoreWord
  BY <1>3, GoOnKeepsStack, TableKept DEF IgnoreWord, AtWord, Running
<1>4. CASE KnownWord
  BY <1>4, GoOnKeepsStack, TableKept DEF KnownWord, AtWord, Running
<1>5. CASE AddUnchecked
  <2>1. AtWord /\ ~Exists(This.url) /\ AddUrl(This.url) /\ GoOn /\ UNCHANGED said
    BY <1>5 DEF AddUnchecked
  <2>2. This \in Word /\ Here \in Nat \X Nat /\ stack # <<>>
    BY <2>1, WordReady
  <2>3. This.url \in Urls
    BY <2>2 DEF Word, WordsInv
  <2> QED BY <2>1, <2>2, <2>3, GoOnKeepsStack, AddUrlKeepsTable
<1>6. CASE GetUrl
  <2>1. AtWord /\ UNCHANGED <<db, said>>
    BY <1>6 DEF GetUrl
  <2>2. CASE GoOn
    BY <2>1, <2>2, GoOnKeepsStack, TableKept DEF AtWord, Running
  <2>3. CASE stack' = [stack EXCEPT ![Len(stack)].mode = "wait"]
    <3>1. Len(stack) \in DOMAIN stack /\ Top.at \in DOMAIN said[Top.line]
      BY <2>1, WordReady
    <3> QED BY <2>1, <2>3, <3>1, ModeInv, TableKept DEF Top
  <2> QED BY <1>6, <2>2, <2>3 DEF GetUrl
<1>7. CASE GotPage
  <2>1. /\ stack # <<>> /\ Top.mode \in Answers /\ GoOn /\ UNCHANGED said
        /\ UNCHANGED db \/ \E url \in {This.url, This.page} : ~Exists(url) /\ AddUrl(url)
    BY <1>7 DEF GotPage
  <2>2. This \in Word /\ Here \in Nat \X Nat
    BY <2>1, WordReady
  <2>3. This.url \in Urls /\ This.page \in Urls
    BY <2>2 DEF Word, WordsInv
  <2>4. TableInv'
    <3>1. ASSUME NEW url \in {This.url, This.page}, ~Exists(url), AddUrl(url) PROVE TableInv'
      BY <3>1, <2>2, <2>3, AddUrlKeepsTable
    <3> QED BY <3>1, <2>1, TableKept
  <2> QED BY <2>1, <2>4, GoOnKeepsStack
<1>8. ASSUME NEW i \in DOMAIN stack, NEW answer \in Answers, Arrive(i, answer)
      PROVE  WordsInv' /\ TableInv'
  <2>1. /\ stack[i].mode = "wait" /\ stack' = [stack EXCEPT ![i].mode = answer]
        /\ UNCHANGED <<said, db>>
    BY <1>8 DEF Arrive
  <2>2. stack[i].at \in DOMAIN said[stack[i].line]
    BY <2>1 DEF WordsInv
  <2> QED BY <2>1, <2>2, ModeInv, TableKept
<1>9. CASE UNCHANGED vars
  BY <1>9, TableKept DEF vars, WordsInv
<1> QED BY <1>1, <1>2, <1>3, <1>4, <1>5, <1>6, <1>7, <1>8, <1>9
        DEF Next, Checkurl

\* The invariant holds throughout.
LEMMA Invariance == Spec => []IInv
BY InitInv, NextInv, PTL DEF Spec

\* The table holds each URL once, whatever lines are said and however the activations
\* that wait for their pages are stacked (the second look of urllog_checkurl).
THEOREM EachUrlStoredOnce == Spec => []UrlOnce
<1>1. IInv => UrlOnce
  BY DEF IInv, TableInv
<1> QED BY <1>1, Invariance, PTL

-----------------------------------------------------------------------------
\* A number is its digits.
LEMMA GetShortDigits ==
    ASSUME NEW x \in Nat, NEW y \in Nat, x < Base * Base * Base, y < Base * Base * Base,
           GetShort(x) = GetShort(y)
    PROVE  x = y
BY DEF GetShort, Digit, Base

\* The three digits of urllog_get_short tell the rows apart.
THEOREM ShortCodesAreUnique == Spec => []ShortCodesDiffer
<1>1. IInv => ShortCodesDiffer
  <2> SUFFICES ASSUME IInv, NEW i \in DOMAIN db, NEW j \in DOMAIN db,
                      RowId(i) < Base * Base * Base, RowId(j) < Base * Base * Base,
                      GetShort(RowId(i)) = GetShort(RowId(j))
               PROVE  i = j
    BY DEF ShortCodesDiffer
  <2>1. i \in Nat \ {0} /\ j \in Nat \ {0} /\ FirstId \in Nat
    BY LenProperties, UrlLogAssumption DEF IInv, TableInv
  <2>2. RowId(i) \in Nat /\ RowId(j) \in Nat
    BY <2>1 DEF RowId
  <2>3. RowId(i) = RowId(j)
    BY <2>2, GetShortDigits
  <2> QED BY <2>1, <2>3 DEF RowId
<1> QED BY <1>1, Invariance, PTL

-----------------------------------------------------------------------------
(* Outcomes.  The places of the outcomes lie before the places at which the *)
(* activations are, and each line has one activation at most: what the      *)
(* innermost one settles has no outcome yet.                                *)

PlacesInv ==
    /\ outcomes \subseteq Nat \X Nat \X Outcomes
    /\ \A o \in outcomes : o[1] \in DOMAIN said
    /\ \A i \in DOMAIN stack : \A o \in outcomes :
         o[1] = stack[i].line => o[2] < stack[i].at
    /\ \A i, j \in DOMAIN stack : stack[i].line = stack[j].line => i = j
    /\ \A o, p \in outcomes : o[1] = p[1] /\ o[2] = p[2] => o = p

\* The rows of the table and the outcomes "added" name the same places.
OwnersInv ==
    /\ \A i \in DOMAIN db : <<db[i].by[1], db[i].by[2], "added">> \in outcomes
    /\ \A o \in outcomes : o[3] = "added" => \E i \in DOMAIN db : db[i].by = <<o[1], o[2]>>

\* What a step past a word does: the word has an outcome or needs none.
Pass ==
    /\ GoOn /\ UNCHANGED said
    /\ UNCHANGED outcomes \/ \E outcome \in Outcomes : Settle(outcome)

\* Each step past a word is a Pass, the others leave the outcomes alone.
LEMMA StepKinds ==
    ASSUME WordsInv, Checkurl, ~EndOfLine
    PROVE  \/ stack # <<>> /\ Pass
           \/ /\ Len(stack) \in DOMAIN stack /\ UNCHANGED <<said, outcomes, db>>
              /\ stack' = [stack EXCEPT ![Len(stack)].mode = "wait"]
<1>1. CASE IgnoreWord \/ KnownWord \/ AddUnchecked
  BY <1>1 DEF IgnoreWord, KnownWord, AddUnchecked, AddUrl, Pass, AtWord, Running, Outcomes
<1>2. CASE GetUrl
  <2>1. AtWord /\ UNCHANGED <<db, said>> /\ stack # <<>>
    BY <1>2 DEF GetUrl, AtWord, Running
  <2>2. Len(stack) \in DOMAIN stack
    BY <2>1, TopIs
  <2> QED BY <1>2, <2>1, <2>2 DEF GetUrl, Pass, Outcomes
<1>3. CASE GotPage
  <2>1. stack # <<>> /\ GoOn /\ UNCHANGED said
    BY <1>3 DEF GotPage
  <2>2. Settle("no page") \/ Settle("known") \/ Settle("added") \/ Settle("not stored")
    BY <1>3 DEF GotPage, AddUrl
  <2> QED BY <2>1, <2>2 DEF Pass, Outcomes
<1> QED BY <1>1, <1>2, <1>3 DEF Checkurl

\* The innermost activation's place has no outcome yet.
LEMMA HereIsOpen ==
    ASSUME WordsInv, PlacesInv, stack # <<>>
    PROVE  \A o \in outcomes : ~(o[1] = Top.line /\ o[2] = Top.at)
<1>1. Len(stack) \in DOMAIN stack /\ Top \in Activation
  BY TopIs
<1>2. Top.at \in Nat
  BY <1>1 DEF Activation
<1>3. \A o \in outcomes : o[1] = Top.line => o[2] < Top.at
  BY <1>1 DEF PlacesInv, Top
<1> QED BY <1>2, <1>3

LEMMA PassPlaces ==
    ASSUME WordsInv, PlacesInv, stack # <<>>, Pass
    PROVE  PlacesInv'
<1> DEFINE n == Len(stack)
           new == [line |-> Top.line, at |-> Top.at + 1, mode |-> "run"]
<1>1. n \in DOMAIN stack /\ Top \in Activation /\ Top.line \in DOMAIN said /\ Top = stack[n]
  BY TopIs DEF Top
<1>2. /\ Top.line \in Nat /\ Top.at \in Nat
      /\ \A i \in DOMAIN stack : stack[i].at \in Nat /\ stack[i].line \in Nat
  <2>1. \A i \in DOMAIN stack : stack[i] \in Activation
    BY ElementOfSeq, LenProperties DEF WordsInv
  <2> QED BY <1>1, <2>1 DEF Activation
<1>3. stack' = [stack EXCEPT ![n] = new] /\ said' = said
  BY DEF Pass, GoOn
<1>4. new.line = Top.line /\ new.at = Top.at + 1
  OBVIOUS
<1> HIDE DEF new, n
<1>5. /\ DOMAIN stack' = DOMAIN stack
      /\ \A i \in DOMAIN stack : stack'[i].line = stack[i].line
      /\ \A i \in DOMAIN stack : i # n => stack'[i] = stack[i]
      /\ stack'[n].at = Top.at + 1
  BY <1>1, <1>3, <1>4
<1>6. \A i, j \in DOMAIN stack' : stack'[i].line = stack'[j].line => i = j
  BY <1>5 DEF PlacesInv
<1>7. \A i \in DOMAIN stack' : \A o \in outcomes : o[1] = stack'[i].line => o[2] < stack'[i].at
  <2> SUFFICES ASSUME NEW i \in DOMAIN stack, NEW o \in outcomes, o[1] = stack[i].line
               PROVE  o[2] < stack'[i].at
    BY <1>5
  <2>1. o[2] < stack[i].at /\ o[2] \in Nat
    BY DEF PlacesInv
  <2> QED BY <1>1, <1>2, <1>5, <2>1
<1>8. CASE UNCHANGED outcomes
  BY <1>3, <1>6, <1>7, <1>8 DEF PlacesInv
<1>9. ASSUME NEW outcome \in Outcomes, Settle(outcome)
      PROVE  PlacesInv'
  <2> DEFINE x == <<Top.line, Top.at, outcome>>
  <2>1. outcomes' = outcomes \cup {x}
    BY <1>9 DEF Settle
  <2>2. x \in Nat \X Nat \X Outcomes /\ x[1] = Top.line /\ x[2] = Top.at
    BY <1>2
  <2> HIDE DEF x
  <2>3. outcomes' \subseteq Nat \X Nat \X Outcomes /\ \A o \in outcomes' : o[1] \in DOMAIN said'
    BY <1>1, <1>3, <2>1, <2>2 DEF PlacesInv
  <2>4. ASSUME NEW i \in DOMAIN stack, x[1] = stack[i].line
        PROVE  x[2] < stack'[i].at
    <3>1. i = n
      BY <1>1, <2>2, <2>4 DEF PlacesInv
    <3> QED BY <1>2, <1>5, <2>2, <3>1
  <2>5. \A i \in DOMAIN stack' : \A o \in outcomes' : o[1] = stack'[i].line => o[2] < stack'[i].at
    BY <1>5, <1>7, <2>1, <2>4
  <2>6. \A o, p \in outcomes' : o[1] = p[1] /\ o[2] = p[2] => o = p
    BY <2>1, <2>2, HereIsOpen DEF PlacesInv
  <2> QED BY <1>6, <2>3, <2>5, <2>6 DEF PlacesInv
<1> QED BY <1>8, <1>9 DEF Pass

LEMMA SayPlaces ==
    ASSUME WordsInv, PlacesInv, NEW line \in Lines, Say(line)
    PROVE  PlacesInv'
<1> DEFINE new == [line |-> Len(said) + 1, at |-> 1, mode |-> "run"]
<1>1. /\ DOMAIN said = 1 .. Len(said) /\ Len(said) \in Nat /\ line \in Seq(Word)
      /\ DOMAIN stack = 1 .. Len(stack) /\ Len(stack) \in Nat
      /\ said \in Seq(Seq(Word)) /\ stack \in Seq(Activation)
  BY LenProperties, UrlLogAssumption DEF WordsInv
<1>2. said' = Append(said, line) /\ stack' = Append(stack, new) /\ outcomes' = outcomes
  BY DEF Say
<1>3. new \in Activation /\ new.line = Len(said) + 1
  BY <1>1 DEF Activation
<1> HIDE DEF new
<1>4. DOMAIN said' = 1 .. Len(said) + 1
  <2>1. said' \in Seq(Seq(Word)) /\ Len(said') = Len(said) + 1
    BY <1>1, <1>2, AppendProperties
  <2> QED BY <2>1, LenProperties
<1>5. /\ DOMAIN stack' = 1 .. Len(stack) + 1
      /\ \A i \in 1 .. Len(stack) : stack'[i] = stack[i]
      /\ stack'[Len(stack) + 1] = new
  <2>1. /\ stack' \in Seq(Activation) /\ Len(stack') = Len(stack) + 1
        /\ \A i \in 1 .. Len(stack) : stack'[i] = stack[i]
        /\ stack'[Len(stack) + 1] = new
    BY <1>1, <1>2, <1>3, AppendProperties
  <2> QED BY <2>1, LenProperties
<1>6. \A i \in 1 .. Len(stack) : stack[i].line \in 1 .. Len(said)
  BY <1>1 DEF WordsInv
<1>7. \A o \in outcomes : o[1] \in 1 .. Len(said)
  BY <1>1 DEF PlacesInv
<1>8. \A i, j \in DOMAIN stack' : stack'[i].line = stack'[j].line => i = j
  <2> SUFFICES ASSUME NEW i \in 1 .. Len(stack) + 1, NEW j \in 1 .. Len(stack) + 1,
                      stack'[i].line = stack'[j].line
               PROVE  i = j
    BY <1>5
  <2>1. CASE i \in 1 .. Len(stack) /\ j \in 1 .. Len(stack)
    BY <1>1, <1>5, <2>1 DEF PlacesInv
  <2>2. CASE i = Len(stack) + 1 /\ j \in 1 .. Len(stack)
    BY <1>1, <1>3, <1>5, <1>6, <2>2
  <2>3. CASE j = Len(stack) + 1 /\ i \in 1 .. Len(stack)
    BY <1>1, <1>3, <1>5, <1>6, <2>3
  <2> QED BY <1>1, <2>1, <2>2, <2>3
<1>9. \A i \in DOMAIN stack' : \A o \in outcomes : o[1] = stack'[i].line => o[2] < stack'[i].at
  <2> SUFFICES ASSUME NEW i \in 1 .. Len(stack) + 1, NEW o \in outcomes,
                      o[1] = stack'[i].line
               PROVE  o[2] < stack'[i].at
    BY <1>5
  <2>1. i \in 1 .. Len(stack)
    BY <1>1, <1>3, <1>5, <1>7
  <2> QED BY <1>1, <1>5, <2>1 DEF PlacesInv
<1>10. \A o \in outcomes : o[1] \in DOMAIN said'
  BY <1>1, <1>4, <1>7
<1> QED BY <1>2, <1>8, <1>9, <1>10 DEF PlacesInv

\* A shorter stack, or another mode of an activation, changes no place.
LEMMA OtherPlaces ==
    ASSUME PlacesInv, DOMAIN stack' \subseteq DOMAIN stack,
           \A i \in DOMAIN stack' : stack'[i].line = stack[i].line /\ stack'[i].at = stack[i].at,
           UNCHANGED <<said, outcomes>>
    PROVE  PlacesInv'
BY DEF PlacesInv

LEMMA PlacesInductive == WordsInv /\ PlacesInv /\ [Next]_vars => PlacesInv'
<1> SUFFICES ASSUME WordsInv, PlacesInv, [Next]_vars PROVE PlacesInv'
  OBVIOUS
<1>1. ASSUME NEW line \in Lines, Say(line) PROVE PlacesInv'
  BY <1>1, SayPlaces
<1>2. CASE EndOfLine
  <2>1. /\ stack # <<>> /\ stack \in Seq(Activation)
        /\ stack' = SubSeq(stack, 1, Len(stack) - 1) /\ UNCHANGED <<said, outcomes>>
    BY <1>2 DEF EndOfLine, Running, WordsInv
  <2>2. Len(stack) \in Nat \ {0} /\ DOMAIN stack = 1 .. Len(stack)
    BY <2>1, EmptySeq, LenProperties
  <2>3. /\ DOMAIN stack' = 1 .. Len(stack) - 1
        /\ \A i \in 1 .. Len(stack) - 1 : stack'[i] = stack[i]
    BY <2>1, <2>2, SubSeqProperties, LenProperties
  <2> QED BY <2>1, <2>2, <2>3, OtherPlaces
<1>3. ASSUME NEW i \in DOMAIN stack, NEW m, stack' = [stack EXCEPT ![i].mode = m],
             UNCHANGED <<said, outcomes>>
      PROVE  PlacesInv'
  <2>1. \A j \in DOMAIN stack : stack[j] \in Activation
    BY ElementOfSeq, LenProperties DEF WordsInv
  <2>2. /\ DOMAIN stack' = DOMAIN stack
        /\ \A j \in DOMAIN stack : stack'[j].line = stack[j].line /\ stack'[j].at = stack[j].at
    BY <1>3, <2>1 DEF Activation
  <2> QED BY <1>3, <2>2, OtherPlaces
<1>4. CASE Checkurl
  BY <1>2, <1>3, <1>4, StepKinds, PassPlaces
<1>5. ASSUME NEW i \in DOMAIN stack, NEW answer \in Answers, Arrive(i, answer) PROVE PlacesInv'
  BY <1>3, <1>5 DEF Arrive
<1>6. CASE UNCHANGED vars
  BY <1>6 DEF vars, PlacesInv
<1> QED BY <1>1, <1>4, <1>5, <1>6 DEF Next

\* Where the innermost activation settles a URL, and how.
AtUrl ==
    /\ stack # <<>> /\ Top.line \in DOMAIN said /\ Top.at \in DOMAIN said[Top.line]
    /\ This \in Word /\ Here \in Nat \X Nat
NewRow(url) == db' = Append(db, [url |-> url, by |-> Here]) /\ Settle("added")
Effect ==
    \/ UNCHANGED <<db, outcomes>>
    \/ AtUrl /\ UNCHANGED db /\ (Settle("no page") \/ Settle("not stored"))
    \/ AtUrl /\ UNCHANGED db /\ Settle("known") /\ (Exists(This.url) \/ Exists(This.page))
    \/ AtUrl /\ \E url \in {This.url, This.page} : ~Exists(url) /\ NewRow(url)

LEMMA CheckurlEffect ==
    ASSUME WordsInv, Checkurl
    PROVE  UNCHANGED said /\ Effect
<1>1. CASE EndOfLine \/ IgnoreWord
  BY <1>1 DEF EndOfLine, IgnoreWord, Effect
<1>2. CASE KnownWord
  BY <1>2, WordReady DEF KnownWord, Effect, AtUrl
<1>3. CASE AddUnchecked
  <2>1. AtUrl
    BY <1>3, WordReady DEF AddUnchecked, AtUrl
  <2> QED BY <1>3, <2>1 DEF AddUnchecked, AddUrl, NewRow, Effect
<1>4. CASE GetUrl
  <2>1. AtUrl
    BY <1>4, WordReady DEF GetUrl, AtUrl
  <2> QED BY <1>4, <2>1 DEF GetUrl, Effect
<1>5. CASE GotPage
  <2>1. AtUrl
    BY <1>5, WordReady DEF GotPage, AtUrl
  <2>2. CASE Top.mode # "ok"
    BY <1>5, <2>1, <2>2 DEF GotPage, Effect
  <2>3. CASE Top.mode = "ok"
    <3>1. PICK url \in {This.url, This.page} :
            IF Exists(url) THEN Settle("known") /\ UNCHANGED db ELSE AddUrl(url)
      BY <1>5, <2>3 DEF GotPage
    <3> QED BY <1>5, <2>1, <3>1 DEF GotPage, AddUrl, NewRow, Effect
  <2> QED BY <2>2, <2>3
<1> QED BY <1>1, <1>2, <1>3, <1>4, <1>5 DEF Checkurl

LEMMA RowAdded ==
    ASSUME db \in Seq(Row), NEW url \in Urls, Here \in Nat \X Nat, NewRow(url)
    PROVE  /\ DOMAIN db = 1 .. Len(db) /\ DOMAIN db' = 1 .. Len(db) + 1 /\ Len(db) \in Nat
           /\ \A i \in 1 .. Len(db) : db'[i] = db[i]
           /\ db'[Len(db) + 1].url = url /\ db'[Len(db) + 1].by = Here
<1> DEFINE row == [url |-> url, by |-> Here]
<1>1. row \in Row /\ row.url = url /\ row.by = Here
  BY DEF Row
<1>2. db' = Append(db, row)
  BY DEF NewRow
<1> HIDE DEF row
<1>3. /\ db' \in Seq(Row) /\ Len(db') = Len(db) + 1 /\ Len(db) \in Nat
      /\ \A i \in 1 .. Len(db) : db'[i] = db[i]
      /\ db'[Len(db) + 1] = row
  BY <1>1, <1>2, AppendProperties, LenProperties
<1> QED BY <1>1, <1>3, LenProperties

LEMMA EffectOwners ==
    ASSUME OwnersInv, db \in Seq(Row), Effect
    PROVE  OwnersInv'
<1>1. CASE UNCHANGED <<db, outcomes>>
  BY <1>1 DEF OwnersInv
<1>2. ASSUME UNCHANGED db, NEW outcome \in {"no page", "not stored", "known"}, Settle(outcome)
      PROVE  OwnersInv'
  <2> DEFINE x == <<Top.line, Top.at, outcome>>
  <2>1. outcomes' = outcomes \cup {x} /\ x[3] # "added"
    BY <1>2 DEF Settle
  <2> HIDE DEF x
  <2> QED BY <1>2, <2>1 DEF OwnersInv
<1>3. ASSUME AtUrl, NEW url \in {This.url, This.page}, NewRow(url)
      PROVE  OwnersInv'
  <2> DEFINE x == <<Top.line, Top.at, "added">>
             n == Len(db)
  <2>1. outcomes' = outcomes \cup {x}
    BY <1>3 DEF NewRow, Settle
  <2>2. url \in Urls /\ Here \in Nat \X Nat
    BY <1>3 DEF AtUrl, Word
  <2>3. /\ DOMAIN db = 1 .. n /\ DOMAIN db' = 1 .. n + 1 /\ n \in Nat
        /\ \A i \in 1 .. n : db'[i] = db[i]
        /\ db'[n + 1].by = Here
    BY <1>3, <2>2, RowAdded
  <2>4. Here = <<x[1], x[2]>> /\ <<Here[1], Here[2], "added">> = x
    BY DEF Here
  <2> HIDE DEF x, n
  <2>5. ASSUME NEW i \in DOMAIN db'
        PROVE  <<db'[i].by[1], db'[i].by[2], "added">> \in outcomes'
    <3>1. CASE i = n + 1
      BY <2>1, <2>3, <2>4, <3>1
    <3>2. CASE i \in 1 .. n
      BY <2>1, <2>3, <3>2 DEF OwnersInv
    <3> QED BY <2>3, <2>5, <3>1, <3>2
  <2>6. ASSUME NEW o \in outcomes', o[3] = "added"
        PROVE  \E i \in DOMAIN db' : db'[i].by = <<o[1], o[2]>>
    <3>1. CASE o = x
      <4>1. n + 1 \in DOMAIN db'
        BY <2>3
      <4> QED BY <2>3, <2>4, <3>1, <4>1
    <3>2. CASE o \in outcomes
      <4>1. PICK i \in 1 .. n : db[i].by = <<o[1], o[2]>>
        BY <2>3, <2>6, <3>2 DEF OwnersInv
      <4>2. i \in DOMAIN db' /\ db'[i] = db[i]
        BY <2>3
      <4> QED BY <4>1, <4>2
    <3> QED BY <2>1, <3>1, <3>2
  <2> QED BY <2>5, <2>6 DEF OwnersInv
<1> QED BY <1>1, <1>2, <1>3 DEF Effect

LEMMA OutcomesInvariance == Spec => [](IInv /\ PlacesInv /\ OwnersInv)
<1>1. Init => PlacesInv /\ OwnersInv
  BY EmptySeq DEF Init, PlacesInv, OwnersInv
<1>2. IInv /\ OwnersInv /\ [Next]_vars => OwnersInv'
  <2> SUFFICES ASSUME IInv, OwnersInv, [Next]_vars PROVE OwnersInv'
    OBVIOUS
  <2>1. db \in Seq(Row) /\ WordsInv
    BY DEF IInv, TableInv
  <2>2. CASE Checkurl
    BY <2>1, <2>2, CheckurlEffect, EffectOwners
  <2>3. CASE UNCHANGED <<db, outcomes>>
    BY <2>3 DEF OwnersInv
  <2> QED BY <2>2, <2>3 DEF Next, Say, Arrive, vars
<1>3. IInv /\ PlacesInv /\ [Next]_vars => PlacesInv'
  BY PlacesInductive DEF IInv
<1> QED BY <1>1, <1>2, <1>3, Invariance, PTL DEF Spec

\* The channel is told "added" for the URLs of the table and for no others, and never
\* has two answers for one URL, although an INSERT may fail after any fetch.
THEOREM ConfirmationsAreTrue == Spec => []ConfirmedIsStored
<1>1. PlacesInv /\ OwnersInv => ConfirmedIsStored
  BY DEF PlacesInv, OwnersInv, ConfirmedIsStored
<1> QED BY <1>1, OutcomesInvariance, PTL

-----------------------------------------------------------------------------
(* UrlLog implements UrlTable.                                             *)

Stored == {db[i].url : i \in DOMAIN db}

LEMMA SettlesAbstractly ==
    ASSUME WordsInv, PlacesInv, AtUrl, NEW n, NEW k, n = Top.line, k = Top.at,
           NEW outcome, Settle(outcome)
    PROVE  Table!Settle(n, k, outcome)
BY HereIsOpen DEF AtUrl, Settle, Table!Settle

\* The place is picked as a constant: an action does not look at a place that moves.
LEMMA EffectAbstractly ==
    ASSUME IInv, PlacesInv, Effect, UNCHANGED said, AtUrl
    PROVE  Table!Next \/ UNCHANGED <<said, Stored, outcomes>>
<1>0. WordsInv /\ db \in Seq(Row)
  BY DEF IInv, TableInv
<1>1. PICK n, k : n = Top.line /\ k = Top.at /\ n \in DOMAIN said /\ k \in DOMAIN said[n]
  BY DEF AtUrl
<1>2. Table!Names(n, k) = {This.url, This.page}
  BY <1>1 DEF Table!Names, This
<1>3. SUFFICES ASSUME ~UNCHANGED <<db, outcomes>>
               PROVE  Table!Add(n, k) \/ Table!Know(n, k) \/ Table!Refuse(n, k)
  BY <1>1 DEF Table!Next, Stored
<1>4. CASE UNCHANGED db /\ (Settle("no page") \/ Settle("not stored"))
  <2>1. Table!Settle(n, k, "no page") \/ Table!Settle(n, k, "not stored")
    BY <1>0, <1>1, <1>4, SettlesAbstractly
  <2> QED BY <1>4, <2>1 DEF Table!Refuse
<1>5. CASE UNCHANGED db /\ Settle("known") /\ (Exists(This.url) \/ Exists(This.page))
  <2>1. Table!Names(n, k) \cap Stored # {}
    BY <1>2, <1>5 DEF Exists, Stored
  <2>2. Table!Settle(n, k, "known")
    BY <1>0, <1>1, <1>5, SettlesAbstractly
  <2> QED BY <1>5, <2>1, <2>2 DEF Table!Know, Stored
<1>6. ASSUME NEW url \in {This.url, This.page}, ~Exists(url), NewRow(url)
      PROVE  Table!Add(n, k)
  <2>1. url \in Urls /\ Here \in Nat \X Nat
    BY <1>6 DEF AtUrl, Word
  <2>2. /\ DOMAIN db = 1 .. Len(db) /\ DOMAIN db' = 1 .. Len(db) + 1 /\ Len(db) \in Nat
        /\ \A i \in 1 .. Len(db) : db'[i] = db[i]
        /\ db'[Len(db) + 1].url = url
    BY <1>0, <1>6, <2>1, RowAdded
  <2>3. url \notin Stored
    BY <1>6 DEF Exists, Stored
  <2>4. Stored' = Stored \cup {url}
    BY <2>2 DEF Stored
  <2>5. Table!Settle(n, k, "added")
    BY <1>0, <1>1, <1>6, SettlesAbstractly DEF NewRow
  <2> QED BY <1>2, <2>3, <2>4, <2>5 DEF Table!Add, Stored
<1> QED BY <1>3, <1>4, <1>5, <1>6 DEF Effect

\* However the handlers are stacked, the table and the answers change as if every URL
\* were looked up and stored in one step.
THEOREM EachUrlInOneStep == Spec => OneStepEach
<1>1. Init => Table!Init
  BY EmptySeq DEF Init, Table!Init
<1>2. IInv /\ PlacesInv /\ [Next]_vars => [Table!Next]_(Table!vars)
  <2> SUFFICES ASSUME IInv, PlacesInv, [Next]_vars
               PROVE  Table!Next \/ UNCHANGED <<said, Stored, outcomes>>
    BY DEF Table!vars, Stored
  <2>1. ASSUME NEW line \in Lines, Say(line) PROVE Table!Next
    BY <2>1 DEF Say, Table!Next, Table!Say
  <2>2. CASE UNCHANGED <<said, db, outcomes>>
    BY <2>2 DEF Stored
  <2>3. CASE Checkurl
    <3>1. UNCHANGED said /\ Effect
      BY <2>3, CheckurlEffect DEF IInv
    <3>2. CASE AtUrl
      BY <3>1, <3>2, EffectAbstractly
    <3> QED BY <2>2, <3>1, <3>2 DEF Effect
  <2> QED BY <2>1, <2>2, <2>3 DEF Next, Arrive, vars
<1> QED BY <1>1, <1>2, OutcomesInvariance, PTL DEF Spec, OneStepEach, Table!Spec
=============================================================================
