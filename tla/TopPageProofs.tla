--------------------------- MODULE TopPageProofs ---------------------------
(***************************************************************************)
(* The page shows the ranking (RowsAreRanked), for lists of any length,    *)
(* pages of any size and any limit of the scan.  (Scale is the code's      *)
(* fraction for up to 1000 entries.)                                       *)
(*                                                                         *)
(* First that "words.index" is a total order, so that every place in the   *)
(* sorted list has one entry; then that the rank of an entry in its        *)
(* channel is how many of the channel the walk has seen when it gets       *)
(* there.  The invariant of the walk says what the three counters are in   *)
(* terms of that number, and which rows have been printed.                 *)
(***************************************************************************)
EXTENDS TopPage, FiniteSetTheorems, SequenceTheorems, TLAPS

-----------------------------------------------------------------------------
(* The order.                                                              *)
Counts == [w : Nat, i : Nat]

(* The fraction of an index in thousandths. *)
Thousandths(i) == IF i < 10 THEN i * 100 ELSE IF i < 100 THEN i * 10 ELSE i

\* Fractions are compared as thousandths.
LEMMA FractionsAre ==
    ASSUME NEW i \in Nat, NEW j \in Nat
    PROVE  /\ i * Scale(j) > j * Scale(i) <=> Thousandths(i) > Thousandths(j)
           /\ i * Scale(j) = j * Scale(i) <=> Thousandths(i) = Thousandths(j)
           /\ Thousandths(i) \in Nat
<1>1. CASE i < 10 /\ j < 10
    BY <1>1 DEF Scale, Thousandths
<1>2. CASE i < 10 /\ ~(j < 10) /\ j < 100
    BY <1>2 DEF Scale, Thousandths
<1>3. CASE i < 10 /\ ~(j < 10) /\ ~(j < 100)
    BY <1>3 DEF Scale, Thousandths
<1>4. CASE ~(i < 10) /\ i < 100 /\ j < 10
    BY <1>4 DEF Scale, Thousandths
<1>5. CASE ~(i < 10) /\ i < 100 /\ ~(j < 10) /\ j < 100
    BY <1>5 DEF Scale, Thousandths
<1>6. CASE ~(i < 10) /\ i < 100 /\ ~(j < 10) /\ ~(j < 100)
    BY <1>6 DEF Scale, Thousandths
<1>7. CASE ~(i < 10) /\ ~(i < 100) /\ j < 10
    BY <1>7 DEF Scale, Thousandths
<1>8. CASE ~(i < 10) /\ ~(i < 100) /\ ~(j < 10) /\ j < 100
    BY <1>8 DEF Scale, Thousandths
<1>9. CASE ~(i < 10) /\ ~(i < 100) /\ ~(j < 10) /\ ~(j < 100)
    BY <1>9 DEF Scale, Thousandths
<1> QED BY <1>1, <1>2, <1>3, <1>4, <1>5, <1>6, <1>7, <1>8, <1>9

\* Words first, then fractions, then indices.
LEMMA BeforeIs ==
    ASSUME NEW a \in Counts, NEW b \in Counts
    PROVE  Before(a, b) <=>
             \/ a.w > b.w
             \/ a.w = b.w /\ Thousandths(a.i) > Thousandths(b.i)
             \/ a.w = b.w /\ Thousandths(a.i) = Thousandths(b.i) /\ a.i < b.i
<1>1. a.i \in Nat /\ b.i \in Nat
    BY DEF Counts
<1>2. /\ a.i * Scale(b.i) > b.i * Scale(a.i) <=> Thousandths(a.i) > Thousandths(b.i)
      /\ a.i * Scale(b.i) = b.i * Scale(a.i) <=> Thousandths(a.i) = Thousandths(b.i)
    BY <1>1, FractionsAre
<1> QED BY <1>2, Zenon DEF Before

\* The order is a strict one, and total for different indices.
LEMMA BeforeOrders ==
    /\ \A a \in Counts : ~Before(a, a)
    /\ \A a, b, d \in Counts : Before(a, b) /\ Before(b, d) => Before(a, d)
    /\ \A a, b \in Counts : a.i # b.i => Before(a, b) \/ Before(b, a)
<1>1. \A a \in Counts : a.w \in Nat /\ a.i \in Nat /\ Thousandths(a.i) \in Nat
    BY FractionsAre DEF Counts
<1>2. ASSUME NEW a \in Counts PROVE ~Before(a, a)
  <2> HIDE DEF Counts
  <2> QED BY <1>1, BeforeIs
<1>3. ASSUME NEW a \in Counts, NEW b \in Counts, NEW d \in Counts, Before(a, b), Before(b, d)
      PROVE  Before(a, d)
    BY <1>1, <1>3, BeforeIs
<1>4. ASSUME NEW a \in Counts, NEW b \in Counts, a.i # b.i PROVE Before(a, b) \/ Before(b, a)
    BY <1>1, <1>4, BeforeIs
<1> QED BY <1>2, <1>3, <1>4

-----------------------------------------------------------------------------
(* Places in the sorted list.                                              *)
IsCounts(wc) == wc \in Seq(Counts) /\ \A p \in DOMAIN wc : wc[p].i = p - 1

BeforeAt(wc, p) == {q \in DOMAIN wc : Before(wc[q], wc[p])}

\* The entries before another are finitely many.
LEMMA BeforeCounted ==
    ASSUME NEW wc, IsCounts(wc), NEW p \in DOMAIN wc
    PROVE  /\ IsFiniteSet(DOMAIN wc) /\ Cardinality(DOMAIN wc) = Len(wc)
           /\ DOMAIN wc = 1 .. Len(wc) /\ Len(wc) \in Nat
           /\ IsFiniteSet(BeforeAt(wc, p)) /\ Cardinality(BeforeAt(wc, p)) \in Nat
           /\ GlobalRank(wc, p) = 1 + Cardinality(BeforeAt(wc, p))
<1>1. DOMAIN wc = 1 .. Len(wc) /\ Len(wc) \in Nat
    BY DEF IsCounts
<1>2. IsFiniteSet(DOMAIN wc) /\ Cardinality(DOMAIN wc) = Len(wc)
  <2> DEFINE n == Len(wc)
  <2>1. n \in Nat /\ 1 \in Int /\ n \in Int
      BY <1>1
  <2> HIDE DEF n
  <2>2. IsFiniteSet(1 .. n) /\ Cardinality(1 .. n) = IF 1 > n THEN 0 ELSE n - 1 + 1
      BY <2>1, FS_Interval
  <2>3. Cardinality(1 .. n) = n
      BY <2>1, <2>2
  <2> QED BY <1>1, <2>2, <2>3 DEF n
<1>3. BeforeAt(wc, p) \in SUBSET DOMAIN wc
    BY DEF BeforeAt
<1>4. IsFiniteSet(BeforeAt(wc, p))
    BY <1>2, <1>3, FS_Subset
<1> QED BY <1>1, <1>2, <1>4, FS_CardinalityType DEF GlobalRank, BeforeAt

\* An entry that comes before another has the lower rank,
LEMMA RankGrows ==
    ASSUME NEW wc, IsCounts(wc), NEW p \in DOMAIN wc, NEW q \in DOMAIN wc,
           Before(wc[q], wc[p])
    PROVE  GlobalRank(wc, q) < GlobalRank(wc, p)
<1>1. wc[p] \in Counts /\ wc[q] \in Counts
    BY DEF IsCounts
<1>2. BeforeAt(wc, q) \in SUBSET BeforeAt(wc, p)
  <2> SUFFICES ASSUME NEW r \in DOMAIN wc, Before(wc[r], wc[q]) PROVE Before(wc[r], wc[p])
      BY DEF BeforeAt
  <2>1. wc[r] \in Counts
      BY DEF IsCounts
  <2> QED BY <1>1, <2>1, BeforeOrders
<1>3. q \in BeforeAt(wc, p) /\ q \notin BeforeAt(wc, q)
    BY <1>1, BeforeOrders DEF BeforeAt
<1>4. /\ Cardinality(BeforeAt(wc, q)) <= Cardinality(BeforeAt(wc, p))
      /\ Cardinality(BeforeAt(wc, q)) # Cardinality(BeforeAt(wc, p))
    BY <1>2, <1>3, BeforeCounted, FS_Subset
<1> QED BY <1>4, BeforeCounted

\* so that different entries have different ranks and the ranks are 1 to the length.
LEMMA RanksAre ==
    ASSUME NEW wc, IsCounts(wc)
    PROVE  /\ \A p \in DOMAIN wc : GlobalRank(wc, p) \in 1 .. Len(wc)
           /\ \A p, q \in DOMAIN wc :
                /\ GlobalRank(wc, p) = GlobalRank(wc, q) => p = q
                /\ GlobalRank(wc, q) < GlobalRank(wc, p) <=> Before(wc[q], wc[p])
           /\ \A k \in 1 .. Len(wc) : \E p \in DOMAIN wc : GlobalRank(wc, p) = k
<1>1. ASSUME NEW p \in DOMAIN wc PROVE GlobalRank(wc, p) \in 1 .. Len(wc)
  <2>1. BeforeAt(wc, p) \in SUBSET DOMAIN wc /\ p \notin BeforeAt(wc, p)
    <3>1. wc[p] \in Counts
        BY DEF IsCounts
    <3> QED BY <3>1, BeforeOrders DEF BeforeAt
  <2>2. /\ Cardinality(BeforeAt(wc, p)) <= Cardinality(DOMAIN wc)
        /\ Cardinality(BeforeAt(wc, p)) # Cardinality(DOMAIN wc)
      BY <2>1, BeforeCounted, FS_Subset
  <2> QED BY <2>2, BeforeCounted
<1>2. ASSUME NEW p \in DOMAIN wc, NEW q \in DOMAIN wc
      PROVE  /\ GlobalRank(wc, p) = GlobalRank(wc, q) => p = q
             /\ GlobalRank(wc, q) < GlobalRank(wc, p) <=> Before(wc[q], wc[p])
  <2>1. wc[p] \in Counts /\ wc[q] \in Counts
      BY DEF IsCounts
  <2>2. wc[p].i # wc[q].i => Before(wc[p], wc[q]) \/ Before(wc[q], wc[p])
      BY <2>1, BeforeOrders
  <2>3. p # q => wc[p].i # wc[q].i
    <3>1. p \in 1 .. Len(wc) /\ q \in 1 .. Len(wc)
        BY DEF IsCounts
    <3> QED BY <3>1 DEF IsCounts
  <2>4. /\ Before(wc[q], wc[p]) => GlobalRank(wc, q) < GlobalRank(wc, p)
        /\ Before(wc[p], wc[q]) => GlobalRank(wc, p) < GlobalRank(wc, q)
      BY RankGrows
  <2>5. GlobalRank(wc, p) \in Nat /\ GlobalRank(wc, q) \in Nat
      BY BeforeCounted
  <2> QED BY <2>2, <2>3, <2>4, <2>5
<1>3. ASSUME NEW k \in 1 .. Len(wc) PROVE \E p \in DOMAIN wc : GlobalRank(wc, p) = k
  <2> DEFINE f == [p \in DOMAIN wc |-> GlobalRank(wc, p)]
             S == DOMAIN wc
             T == 1 .. Len(wc)
  <2>1. f \in [S -> T] /\ \A p, q \in S : f[p] = f[q] => p = q
      BY <1>1, <1>2
  <2>2. f \in Injection(S, T)
      BY <2>1 DEF Injection, IsInjective
  <2>3. S = T /\ IsFiniteSet(T)
    <3>1. Len(wc) \in Nat /\ S = 1 .. Len(wc)
        BY DEF IsCounts
    <3> QED BY <3>1, FS_Interval
  <2>4. f \in Surjection(S, T)
      BY <2>2, <2>3, FS_Injection
  <2>5. \E p \in S : f[p] = k
      BY <2>4 DEF Surjection
  <2> QED BY <2>5
<1> QED BY <1>1, <1>2, <1>3

(* The place of the k-th in the lists. *)
Place(wc, k) == CHOOSE p \in DOMAIN wc : GlobalRank(wc, p) = k

\* It is the one with that rank.
LEMMA PlaceIs ==
    ASSUME NEW wc, IsCounts(wc)
    PROVE  /\ \A k \in 1 .. Len(wc) :
                Place(wc, k) \in DOMAIN wc /\ GlobalRank(wc, Place(wc, k)) = k
           /\ \A p \in DOMAIN wc : Place(wc, GlobalRank(wc, p)) = p
<1>1. \A k \in 1 .. Len(wc) : Place(wc, k) \in DOMAIN wc /\ GlobalRank(wc, Place(wc, k)) = k
    BY RanksAre DEF Place
<1>2. ASSUME NEW p \in DOMAIN wc PROVE Place(wc, GlobalRank(wc, p)) = p
    BY <1>1, RanksAre
<1> QED BY <1>1, <1>2

\* The sorted list has the entries in the order of their ranks.
LEMMA SortedIs ==
    ASSUME NEW wc, IsCounts(wc)
    PROVE  /\ Len(Sorted(wc)) = Len(wc) /\ Len(wc) \in Nat
           /\ \A k \in 1 .. Len(wc) :
                Sorted(wc)[k] = wc[Place(wc, k)] /\ Sorted(wc)[k].i + 1 = Place(wc, k)
<1>1. DOMAIN wc = 1 .. Len(wc) /\ Len(wc) \in Nat
    BY DEF IsCounts
<1>2. Sorted(wc) = [k \in 1 .. Len(wc) |-> wc[Place(wc, k)]]
    BY <1>1 DEF Sorted, Place
<1>3. Len(Sorted(wc)) = Len(wc)
    BY <1>1, <1>2
<1>4. ASSUME NEW k \in 1 .. Len(wc)
      PROVE  Sorted(wc)[k] = wc[Place(wc, k)] /\ Sorted(wc)[k].i + 1 = Place(wc, k)
  <2>1. Place(wc, k) \in 1 .. Len(wc)
      BY <1>1, PlaceIs
  <2>2. wc[Place(wc, k)].i = Place(wc, k) - 1
      BY <1>1, <2>1 DEF IsCounts
  <2> QED BY <1>2, <2>1, <2>2
<1> QED BY <1>1, <1>3, <1>4

-----------------------------------------------------------------------------
(* Entries of the channel.                                                 *)
IsQuery(x) ==
    /\ IsCounts(x.wc) /\ DOMAIN x.nl = DOMAIN x.wc
    /\ x.ecount \in Nat \ {0}

OfChanAt(x, k) == ChannelOf(x.nl[Place(x.wc, k)]) = x.chan

(* Those of them in the first m places of the sorted list, and the row of one. *)
SeenTo(x, m) == {k \in 1 .. m : k <= Len(x.wc) /\ OfChanAt(x, k)}
Seen(x, m)   == Cardinality(SeenTo(x, m))
Row(x, k) ==
    [rank  |-> Seen(x, k),
     nick  |-> NickOf(x.nl[Place(x.wc, k)]),
     count |-> x.wc[Place(x.wc, k)]]

\* How many they are,
LEMMA SeenIs ==
    ASSUME NEW x, IsQuery(x), NEW m \in Nat
    PROVE  /\ IsFiniteSet(SeenTo(x, m)) /\ Seen(x, m) \in Nat /\ Seen(x, m) <= m
           /\ Seen(x, 0) = 0 /\ SeenTo(x, 0) = {}
<1>1. IsFiniteSet(1 .. m) /\ Cardinality(1 .. m) = m
  <2>1. IsFiniteSet(1 .. m) /\ Cardinality(1 .. m) = IF 1 > m THEN 0 ELSE m - 1 + 1
      BY FS_Interval
  <2> QED BY <2>1
<1>2. SeenTo(x, m) \in SUBSET (1 .. m)
    BY DEF SeenTo
<1>3. /\ IsFiniteSet(SeenTo(x, m)) /\ Cardinality(SeenTo(x, m)) <= m
      /\ Cardinality(SeenTo(x, m)) \in Nat
    BY <1>1, <1>2, FS_Subset, FS_CardinalityType
<1>4. SeenTo(x, 0) = {}
    BY DEF SeenTo
<1>5. Seen(x, 0) = 0
    BY <1>4, FS_EmptySet DEF Seen
<1> QED BY <1>3, <1>4, <1>5 DEF Seen

\* at the next place,
LEMMA SeenOn ==
    ASSUME NEW x, IsQuery(x), NEW m \in Nat
    PROVE  /\ m < Len(x.wc) /\ OfChanAt(x, m + 1) =>
                /\ SeenTo(x, m + 1) = SeenTo(x, m) \cup {m + 1}
                /\ Seen(x, m + 1) = Seen(x, m) + 1
           /\ ~(m < Len(x.wc) /\ OfChanAt(x, m + 1)) =>
                SeenTo(x, m + 1) = SeenTo(x, m) /\ Seen(x, m + 1) = Seen(x, m)
<1>1. Len(x.wc) \in Nat
    BY DEF IsQuery, IsCounts
<1>2. CASE m < Len(x.wc) /\ OfChanAt(x, m + 1)
  <2>1. SeenTo(x, m + 1) = SeenTo(x, m) \cup {m + 1}
      BY <1>1, <1>2 DEF SeenTo
  <2>2. m + 1 \notin SeenTo(x, m)
      BY DEF SeenTo
  <2> QED BY <1>2, <2>1, <2>2, SeenIs, FS_AddElement DEF Seen
<1>3. CASE ~(m < Len(x.wc) /\ OfChanAt(x, m + 1))
  <2>1. SeenTo(x, m + 1) = SeenTo(x, m)
      BY <1>1, <1>3 DEF SeenTo
  <2> QED BY <1>3, <2>1 DEF Seen
<1> QED BY <1>2, <1>3

\* and further on.
LEMMA SeenGrows ==
    ASSUME NEW x, IsQuery(x), NEW m \in Nat, NEW n \in Nat, m <= n
    PROVE  /\ Seen(x, m) <= Seen(x, n)
           /\ n \in SeenTo(x, n) /\ m < n => Seen(x, m) < Seen(x, n)
<1>1. SeenTo(x, m) \in SUBSET SeenTo(x, n)
    BY DEF SeenTo
<1>2. /\ IsFiniteSet(SeenTo(x, n)) /\ Seen(x, n) \in Nat
      /\ IsFiniteSet(SeenTo(x, m)) /\ Seen(x, m) \in Nat
    BY SeenIs
<1>3. Seen(x, m) <= Seen(x, n)
    BY <1>1, <1>2, FS_Subset DEF Seen
<1>4. ASSUME n \in SeenTo(x, n), m < n PROVE Seen(x, m) < Seen(x, n)
  <2>1. n \notin SeenTo(x, m)
      BY <1>4 DEF SeenTo
  <2>2. Seen(x, m) # Seen(x, n)
      BY <1>1, <1>2, <1>4, <2>1, FS_Subset DEF Seen
  <2> QED BY <1>2, <1>3, <2>2
<1> QED BY <1>3, <1>4

\* The rank of an entry in its channel is how many of the channel have been seen with it.
LEMMA ChannelRankIs ==
    ASSUME NEW x, IsQuery(x), NEW k \in 1 .. Len(x.wc), OfChanAt(x, k)
    PROVE  ChannelRank(x.nl, x.wc, Place(x.wc, k)) = Seen(x, k)
<1> DEFINE wc == x.wc
           p == Place(wc, k)
           S == SeenTo(x, k - 1)
           T == {q \in DOMAIN wc : /\ ChannelOf(x.nl[q]) = ChannelOf(x.nl[p])
                                   /\ Before(wc[q], wc[p])}
           f == [j \in S |-> Place(wc, j)]
<1>1. IsCounts(wc) /\ Len(wc) \in Nat /\ DOMAIN wc = 1 .. Len(wc)
    BY DEF IsQuery, IsCounts
<1>2. p \in DOMAIN wc /\ GlobalRank(wc, p) = k /\ ChannelOf(x.nl[p]) = x.chan
    BY <1>1, PlaceIs DEF OfChanAt
<1> HIDE DEF p
<1>3. ASSUME NEW j \in S
      PROVE  Place(wc, j) \in T /\ GlobalRank(wc, Place(wc, j)) = j
  <2>1. j \in 1 .. Len(wc) /\ j < k /\ ChannelOf(x.nl[Place(wc, j)]) = x.chan
      BY <1>1 DEF SeenTo, OfChanAt
  <2>2. Place(wc, j) \in DOMAIN wc /\ GlobalRank(wc, Place(wc, j)) = j
      BY <1>1, <2>1, PlaceIs
  <2>3. Before(wc[Place(wc, j)], wc[p])
      BY <1>1, <1>2, <2>1, <2>2, RanksAre
  <2> QED BY <1>2, <2>1, <2>2, <2>3
<1>4. ASSUME NEW q \in T PROVE \E j \in S : f[j] = q
  <2> DEFINE j == GlobalRank(wc, q)
  <2>1. q \in DOMAIN wc /\ ChannelOf(x.nl[q]) = x.chan /\ Before(wc[q], wc[p])
      BY <1>2
  <2>2. j \in 1 .. Len(wc) /\ j < k /\ Place(wc, j) = q
      BY <1>1, <1>2, <2>1, RanksAre, PlaceIs
  <2>3. j \in S
      BY <1>1, <2>1, <2>2 DEF SeenTo, OfChanAt
  <2> QED BY <2>2, <2>3
<1>5. f \in [S -> T] /\ \A i, j \in S : f[i] = f[j] => i = j
  <2>1. \A j \in S : f[j] = Place(wc, j)
      OBVIOUS
  <2> QED BY <1>3, <2>1
<1>6. f \in Bijection(S, T)
    BY <1>4, <1>5 DEF Bijection, Injection, Surjection, IsInjective
<1>7. k - 1 \in Nat /\ k - 1 + 1 = k
    BY <1>1
<1>8. IsFiniteSet(S)
    BY <1>7, SeenIs
<1>9. Cardinality(T) = Seen(x, k - 1)
    BY <1>6, <1>8, FS_Bijection DEF ExistsBijection, Seen
<1>10. Seen(x, k) = Seen(x, k - 1) + 1
    BY <1>1, <1>7, SeenOn
<1>11. ChannelRank(x.nl, wc, p) = 1 + Cardinality(T)
    BY DEF ChannelRank
<1>12. Seen(x, k - 1) \in Nat
    BY <1>7, SeenIs
<1> QED BY <1>9, <1>10, <1>11, <1>12 DEF p

-----------------------------------------------------------------------------
(* The walk.                                                               *)
First(x)   == x.ecount - PageSize
Reaches(x) == First(x) >= 0 /\ First(x) < Len(x.wc)

(* The rows printed when m places of the sorted list are behind the walk: those of the *)
(* channel past the skipped ones, in their order.                                      *)
RowsTo(x, rows, m) ==
    IF Reaches(x)
    THEN /\ Len(rows) = IF Seen(x, m) > First(x) THEN Seen(x, m) - First(x) ELSE 0
         /\ \A k \in SeenTo(x, m) :
                Seen(x, k) > First(x) => rows[Seen(x, k) - First(x)] = Row(x, k)
         /\ \A j \in DOMAIN rows : \E k \in SeenTo(x, m) : Seen(x, k) = First(x) + j
    ELSE rows = <<>>

IInv ==
    /\ IsQuery(input)
    /\ pc \in {"scan", "write", "done", "failed"}
    /\ pippeli \in Nat /\ pippeli <= ScanLimit
    /\ \E S : flood \in Seq(S)
    /\ le = First(input) + Len(flood) /\ le <= input.ecount
    /\ skipcount \in Int
    /\ Reaches(input) => skipcount = First(input) - Seen(input, pippeli)
    /\ RowsTo(input, flood, pippeli)
    /\ pc # "scan" => ~Looping
    /\ pc = "done" => page = flood

\* The numbers of the invariant.
LEMMA NumbersAre ==
    ASSUME IInv
    PROVE  /\ IsCounts(input.wc) /\ Len(input.wc) \in Nat
           /\ First(input) \in Int /\ First(input) < input.ecount
           /\ Len(flood) \in Nat /\ DOMAIN flood = 1 .. Len(flood)
           /\ le \in Int /\ ScanLimit \in Nat /\ pippeli + 1 \in Nat
           /\ Seen(input, pippeli) \in Nat /\ Seen(input, pippeli) <= pippeli
<1>1. IsCounts(input.wc) /\ input.ecount \in Nat \ {0} /\ IsQuery(input)
    BY DEF IInv, IsQuery
<1>2. Len(input.wc) \in Nat
    BY <1>1 DEF IsCounts
<1>3. PageSize \in Nat \ {0} /\ ScanLimit \in Nat
    BY PageAssumption
<1>4. First(input) \in Int /\ First(input) < input.ecount
    BY <1>1, <1>3 DEF First
<1>5. Len(flood) \in Nat /\ DOMAIN flood = 1 .. Len(flood)
    BY DEF IInv
<1>6. le \in Int
    BY <1>4, <1>5 DEF IInv
<1>7. pippeli \in Nat
    BY DEF IInv
<1>8. Seen(input, pippeli) \in Nat /\ Seen(input, pippeli) <= pippeli
    BY <1>1, <1>7, SeenIs
<1> QED BY <1>1, <1>2, <1>3, <1>4, <1>5, <1>6, <1>7, <1>8

\* The entry at hand is the one of the next rank, and as long as there is one of the channel,
\* le leads to it.
LEMMA EntryIs ==
    ASSUME IInv
    PROVE  /\ Len(sortedlist) = Len(input.wc)
           /\ pippeli < Len(input.wc) =>
                /\ Entry = input.wc[Place(input.wc, pippeli + 1)]
                /\ Entry.i + 1 = Place(input.wc, pippeli + 1)
                /\ OfChan <=> OfChanAt(input, pippeli + 1)
           /\ AtEntry => Reaches(input) /\ pippeli < Len(input.wc)
           /\ Reaches(input) /\ pippeli < Len(input.wc) => AtEntry
<1>1. /\ IsCounts(input.wc) /\ Len(input.wc) \in Nat /\ First(input) \in Int
      /\ Len(flood) \in Nat /\ pippeli \in Nat /\ Seen(input, pippeli) \in Nat
      /\ Seen(input, pippeli) <= pippeli
    BY NumbersAre DEF IInv
<1>2. Len(sortedlist) = Len(input.wc)
    BY <1>1, SortedIs DEF sortedlist
<1>3. ASSUME pippeli < Len(input.wc)
      PROVE  /\ Entry = input.wc[Place(input.wc, pippeli + 1)]
             /\ Entry.i + 1 = Place(input.wc, pippeli + 1)
  <2>1. pippeli + 1 \in 1 .. Len(input.wc)
      BY <1>1, <1>3
  <2> QED BY <1>1, <2>1, SortedIs DEF Entry, sortedlist
<1>4. ASSUME pippeli < Len(input.wc) PROVE OfChan <=> OfChanAt(input, pippeli + 1)
    BY <1>3, <1>4 DEF OfChan, OfChanAt
<1>5. le = First(input) + Len(flood) /\ RowsTo(input, flood, pippeli)
    BY DEF IInv
<1>6. ASSUME AtEntry PROVE Reaches(input) /\ pippeli < Len(input.wc)
  <2>1. le >= 0 /\ le < Len(input.wc) /\ pippeli < Len(input.wc)
      BY <1>2, <1>6 DEF AtEntry
  <2>2. ~Reaches(input) => Len(flood) = 0
      BY <1>5 DEF RowsTo
  <2> QED BY <1>1, <1>5, <2>1, <2>2 DEF Reaches
<1>7. ASSUME Reaches(input), pippeli < Len(input.wc) PROVE AtEntry
  <2>1. Len(flood) = IF Seen(input, pippeli) > First(input)
                     THEN Seen(input, pippeli) - First(input) ELSE 0
      BY <1>5, <1>7 DEF RowsTo
  <2>2. First(input) >= 0 /\ First(input) < Len(input.wc)
      BY <1>7 DEF Reaches
  <2>3. le >= 0 /\ le < Len(input.wc)
      BY <1>1, <1>5, <1>7, <2>1, <2>2
  <2> QED BY <1>2, <1>7, <2>3 DEF AtEntry
<1> QED BY <1>2, <1>3, <1>4, <1>6, <1>7

\* At first nothing has been printed.
LEMMA Initially == Init => IInv
<1> SUFFICES ASSUME Init PROVE IInv
    OBVIOUS
<1>1. PICK l \in Lists, ch \in Chans, n \in Askers, s \in BOOLEAN, t \in Asked :
        input = [nl |-> l.nl, wc |-> l.wc, chan |-> ch, nick |-> n,
                 show |-> s, ecount |-> ECount(t)]
    BY DEF Init
<1>2. IsCounts(l.wc) /\ DOMAIN l.nl = DOMAIN l.wc
    BY ListsAssumption DEF IsCounts, Counts
<1>3. ECount(t) \in Nat \ {0}
    BY PageAssumption, AskedAssumption DEF ECount
<1>4. IsQuery(input)
    BY <1>1, <1>2, <1>3 DEF IsQuery
<1>5. PageSize \in Nat \ {0} /\ ScanLimit \in Nat /\ input.ecount \in Nat
    BY <1>4, PageAssumption DEF IsQuery
<1>6. /\ pc = "scan" /\ le = First(input) /\ skipcount = First(input) /\ pippeli = 0
      /\ flood = <<>>
    BY DEF Init, First
<1>7. Seen(input, 0) = 0 /\ SeenTo(input, 0) = {}
    BY <1>4, SeenIs
<1>8. First(input) \in Int /\ First(input) <= input.ecount
    BY <1>5 DEF First
<1>9. flood \in Seq({}) /\ Len(flood) = 0 /\ DOMAIN flood = {}
    BY <1>6
<1>10. RowsTo(input, flood, 0)
    BY <1>6, <1>7, <1>8, <1>9 DEF RowsTo, Reaches
<1>11. /\ le = First(input) + Len(flood) /\ le <= input.ecount /\ skipcount \in Int
       /\ Reaches(input) => skipcount = First(input) - Seen(input, pippeli)
    BY <1>6, <1>7, <1>8, <1>9
<1> QED BY <1>4, <1>5, <1>6, <1>9, <1>10, <1>11 DEF IInv

\* A row goes under the ones before it,
LEMMA PrintRowSound ==
    ASSUME IInv, PrintRow
    PROVE  IInv'
<1> DEFINE m == pippeli
           x == input
           row == [rank |-> le + 1, nick |-> NickOf(input.nl[Entry.i + 1]), count |-> Entry]
<1>1. /\ IsQuery(x) /\ m \in Nat /\ m + 1 \in Nat /\ Len(x.wc) \in Nat /\ First(x) \in Int
      /\ Len(flood) \in Nat /\ Seen(x, m) \in Nat /\ x.ecount \in Nat /\ ScanLimit \in Nat
      /\ DOMAIN flood = 1 .. Len(flood) /\ skipcount \in Int /\ le \in Int
    BY NumbersAre DEF IInv, IsQuery
<1>2. Reaches(x) /\ m < Len(x.wc) /\ OfChanAt(x, m + 1)
    BY EntryIs DEF PrintRow
<1>3. /\ SeenTo(x, m + 1) = SeenTo(x, m) \cup {m + 1}
      /\ Seen(x, m + 1) = Seen(x, m) + 1
    BY <1>1, <1>2, SeenOn
<1>4. Seen(x, m) >= First(x)
    BY <1>1, <1>2 DEF IInv, PrintRow
<1>5. Len(flood) = Seen(x, m) - First(x)
    BY <1>1, <1>2, <1>4 DEF IInv, RowsTo
<1>6. le = First(x) + Len(flood) /\ le + 1 = Seen(x, m + 1)
    BY <1>1, <1>3, <1>5 DEF IInv
<1>7. row = Row(x, m + 1)
    BY <1>2, <1>6, EntryIs DEF Row
<1>8. PICK S : flood \in Seq(S)
    BY DEF IInv
<1>9. flood' = Append(flood, row)
    BY DEF PrintRow
<1>10. /\ flood' \in Seq(S \cup {row}) /\ Len(flood') = Len(flood) + 1
       /\ flood'[Len(flood) + 1] = row
       /\ \A j \in 1 .. Len(flood) : flood'[j] = flood[j]
  <2> HIDE DEF row
  <2>1. flood \in Seq(S \cup {row}) /\ row \in S \cup {row}
      BY <1>8
  <2> QED BY <1>9, <2>1, AppendProperties
<1>11. DOMAIN flood' = 1 .. Len(flood) + 1
  <2> HIDE DEF row
  <2> QED BY <1>10
<1> HIDE DEF row
<1>12. RowsTo(x, flood', m + 1)
  <2>1. Len(flood') = IF Seen(x, m + 1) > First(x) THEN Seen(x, m + 1) - First(x) ELSE 0
      BY <1>1, <1>3, <1>4, <1>5, <1>10
  <2>2. ASSUME NEW k \in SeenTo(x, m + 1), Seen(x, k) > First(x)
        PROVE  flood'[Seen(x, k) - First(x)] = Row(x, k)
    <3>1. CASE k = m + 1
      <4>1. Seen(x, k) - First(x) = Len(flood) + 1
          BY <1>1, <1>3, <1>5, <3>1
      <4> QED BY <1>7, <1>10, <3>1, <4>1
    <3>2. CASE k \in SeenTo(x, m)
      <4>1. flood[Seen(x, k) - First(x)] = Row(x, k)
          BY <1>2, <2>2, <3>2 DEF IInv, RowsTo
      <4>2. k \in Nat /\ k <= m /\ Seen(x, k) \in Nat
        <5>1. k \in Nat /\ k <= m
            BY <1>1, <3>2 DEF SeenTo
        <5> QED BY <1>1, <5>1, SeenIs
      <4>3. Seen(x, k) <= Seen(x, m)
          BY <1>1, <4>2, SeenGrows
      <4>4. Seen(x, k) - First(x) \in 1 .. Len(flood)
          BY <1>1, <1>5, <2>2, <4>2, <4>3
      <4> QED BY <1>10, <4>1, <4>4
    <3> QED BY <1>3, <2>2, <3>1, <3>2
  <2>3. ASSUME NEW j \in DOMAIN flood'
        PROVE  \E k \in SeenTo(x, m + 1) : Seen(x, k) = First(x) + j
    <3>1. CASE j = Len(flood) + 1
      <4>1. Seen(x, m + 1) = First(x) + j
          BY <1>1, <1>3, <1>5, <3>1
      <4> QED BY <1>3, <4>1
    <3>2. CASE j \in 1 .. Len(flood)
      <4>1. \E k \in SeenTo(x, m) : Seen(x, k) = First(x) + j
          BY <1>1, <1>2, <3>2 DEF IInv, RowsTo
      <4> QED BY <1>3, <4>1
    <3>3. j \in 1 .. Len(flood) + 1
        BY <1>11, <2>3
    <3> QED BY <1>1, <3>1, <3>2, <3>3
  <2> QED BY <1>2, <2>1, <2>2, <2>3 DEF RowsTo
<1>13. /\ input' = input /\ pippeli' = m + 1 /\ le' = le + 1 /\ skipcount' = skipcount - 1
       /\ pc' = "scan" /\ le < input.ecount /\ m < ScanLimit
    BY DEF PrintRow, Looping
<1>14. IsQuery(input') /\ RowsTo(input', flood', pippeli')
    BY <1>1, <1>12, <1>13
<1>15. /\ le' = First(input') + Len(flood') /\ le' <= input'.ecount /\ skipcount' \in Int
       /\ pippeli' \in Nat /\ pippeli' <= ScanLimit
    BY <1>1, <1>6, <1>10, <1>13
<1>16. skipcount' = First(input') - Seen(input', pippeli')
  <2>1. skipcount = First(x) - Seen(x, m)
      BY <1>2 DEF IInv
  <2> QED BY <1>1, <1>3, <1>13, <2>1
<1> QED BY <1>10, <1>13, <1>14, <1>15, <1>16 DEF IInv

\* a skipped entry prints none,
LEMMA SkipRowSound ==
    ASSUME IInv, SkipRow
    PROVE  IInv'
<1> DEFINE m == pippeli
           x == input
<1>1. /\ IsQuery(x) /\ m \in Nat /\ m + 1 \in Nat /\ Len(x.wc) \in Nat /\ First(x) \in Int
      /\ Len(flood) \in Nat /\ Seen(x, m) \in Nat /\ ScanLimit \in Nat
      /\ DOMAIN flood = 1 .. Len(flood) /\ skipcount \in Int
    BY NumbersAre DEF IInv
<1>2. Reaches(x) /\ m < Len(x.wc) /\ OfChanAt(x, m + 1)
    BY EntryIs DEF SkipRow
<1>3. /\ SeenTo(x, m + 1) = SeenTo(x, m) \cup {m + 1}
      /\ Seen(x, m + 1) = Seen(x, m) + 1
    BY <1>1, <1>2, SeenOn
<1>4. skipcount = First(x) - Seen(x, m) /\ Seen(x, m) < First(x)
    BY <1>1, <1>2 DEF IInv, SkipRow
<1>5. Len(flood) = 0
    BY <1>1, <1>2, <1>4 DEF IInv, RowsTo
<1>6. RowsTo(x, flood, m + 1)
  <2>1. Seen(x, m + 1) <= First(x)
      BY <1>1, <1>3, <1>4
  <2>2. ASSUME NEW k \in SeenTo(x, m + 1) PROVE ~(Seen(x, k) > First(x))
    <3>1. k \in Nat /\ k <= m + 1
        BY <1>1 DEF SeenTo
    <3>2. Seen(x, k) <= Seen(x, m + 1) /\ Seen(x, k) \in Nat /\ Seen(x, m + 1) \in Nat
        BY <1>1, <3>1, SeenGrows, SeenIs
    <3> QED BY <1>1, <2>1, <3>2
  <2>3. ~(Seen(x, m + 1) > First(x))
      BY <1>1, <1>3, <1>4
  <2> QED BY <1>1, <1>2, <1>5, <2>2, <2>3 DEF RowsTo
<1>7. /\ input' = input /\ pippeli' = m + 1 /\ le' = le /\ skipcount' = skipcount - 1
      /\ flood' = flood /\ pc' = "scan" /\ m < ScanLimit
    BY DEF SkipRow, Looping
<1>8. skipcount' = First(input') - Seen(input', pippeli')
    BY <1>1, <1>3, <1>4, <1>7
<1>9. pippeli' \in Nat /\ pippeli' <= ScanLimit /\ skipcount' \in Int
    BY <1>1, <1>7
<1>10. IsQuery(input') /\ RowsTo(input', flood', pippeli')
    BY <1>1, <1>6, <1>7
<1>11. (\E S : flood' \in Seq(S)) /\ le' = First(input') + Len(flood') /\ le' <= input'.ecount
    BY <1>7 DEF IInv
<1> QED BY <1>7, <1>8, <1>9, <1>10, <1>11 DEF IInv

\* nor does the entry of another channel, or a place behind the list.
LEMMA PassRowSound ==
    ASSUME IInv, PassRow
    PROVE  IInv'
<1> DEFINE m == pippeli
           x == input
<1>1. IsQuery(x) /\ m \in Nat /\ m + 1 \in Nat /\ ScanLimit \in Nat
    BY NumbersAre DEF IInv
<1>2. /\ input' = input /\ pippeli' = m + 1 /\ le' = le /\ skipcount' = skipcount
      /\ flood' = flood /\ pc' = "scan" /\ m < ScanLimit
    BY DEF PassRow, Looping
<1>3. Reaches(x) => SeenTo(x, m + 1) = SeenTo(x, m) /\ Seen(x, m + 1) = Seen(x, m)
  <2> SUFFICES ASSUME Reaches(x) PROVE ~(m < Len(x.wc) /\ OfChanAt(x, m + 1))
      BY <1>1, SeenOn
  <2> QED BY EntryIs DEF PassRow
<1>4. RowsTo(x, flood, m + 1)
    BY <1>3 DEF IInv, RowsTo
<1>5. Reaches(input') => skipcount' = First(input') - Seen(input', pippeli')
    BY <1>2, <1>3 DEF IInv
<1>6. pippeli' \in Nat /\ pippeli' <= ScanLimit /\ skipcount' \in Int
    BY <1>1, <1>2 DEF IInv
<1>7. IsQuery(input') /\ RowsTo(input', flood', pippeli')
    BY <1>1, <1>2, <1>4
<1>8. (\E S : flood' \in Seq(S)) /\ le' = First(input') + Len(flood') /\ le' <= input'.ecount
    BY <1>2 DEF IInv
<1> QED BY <1>2, <1>5, <1>6, <1>7, <1>8 DEF IInv

\* Every step keeps the invariant.
LEMMA Inductive == IInv /\ [Next]_vars => IInv'
<1> SUFFICES ASSUME IInv, [Next]_vars PROVE IInv'
    OBVIOUS
<1>1. CASE PrintRow \/ SkipRow \/ PassRow
    BY <1>1, PrintRowSound, SkipRowSound, PassRowSound
<1>2. CASE UNCHANGED <<input, le, skipcount, pippeli, flood>> /\ ~Looping
           /\ pc' \in {"write", "done", "failed"} /\ (pc' = "done" => page' = flood)
    BY <1>2 DEF IInv, Looping
<1>3. CASE EndScan
    BY <1>2, <1>3 DEF EndScan
<1>4. CASE WritePage
  <2>1. ~Looping
      BY <1>4 DEF WritePage, IInv
  <2> QED BY <1>2, <1>4, <2>1 DEF WritePage
<1>5. CASE UNCHANGED vars
    BY <1>5 DEF vars, IInv, Looping
<1> QED BY <1>1, <1>3, <1>4, <1>5 DEF Next

-----------------------------------------------------------------------------
(* The page.                                                               *)

\* The entries that the ranking puts on the page, by their places in the sorted list.
LEMMA ShownIs ==
    ASSUME NEW x, IsQuery(x), First(x) >= 0
    PROVE  TopRows(x.nl, x.wc, x.chan, x.ecount) =
             {Row(x, k) : k \in {j \in SeenTo(x, ScanLimit) :
                                    Seen(x, j) > First(x) /\ Seen(x, j) <= x.ecount}}
<1> DEFINE wc == x.wc
           Shown == {p \in DOMAIN wc :
                        /\ x.ecount >= PageSize
                        /\ ChannelOf(x.nl[p]) = x.chan
                        /\ GlobalRank(wc, p) <= ScanLimit
                        /\ ChannelRank(x.nl, wc, p) > x.ecount - PageSize
                        /\ ChannelRank(x.nl, wc, p) <= x.ecount}
           Printed(p) == [rank  |-> ChannelRank(x.nl, wc, p),
                          nick  |-> NickOf(x.nl[p]),
                          count |-> wc[p]]
           Ks == {j \in SeenTo(x, ScanLimit) : Seen(x, j) > First(x) /\ Seen(x, j) <= x.ecount}
<1>1. /\ IsCounts(wc) /\ Len(wc) \in Nat /\ DOMAIN wc = 1 .. Len(wc) /\ ScanLimit \in Nat
      /\ x.ecount \in Nat /\ PageSize \in Nat
    BY PageAssumption DEF IsQuery, IsCounts
<1>2. x.ecount >= PageSize
    BY <1>1 DEF First
<1>3. TopRows(x.nl, x.wc, x.chan, x.ecount) = {Printed(p) : p \in Shown}
    BY DEF TopRows
<1>4. ASSUME NEW p \in Shown PROVE \E k \in Ks : Printed(p) = Row(x, k)
  <2> DEFINE k == GlobalRank(wc, p)
  <2>1. k \in 1 .. Len(wc) /\ Place(wc, k) = p
      BY <1>1, RanksAre, PlaceIs
  <2>2. OfChanAt(x, k) /\ k <= ScanLimit
      BY <2>1 DEF OfChanAt
  <2> HIDE DEF k
  <2>3. ChannelRank(x.nl, wc, p) = Seen(x, k)
      BY <2>1, <2>2, ChannelRankIs
  <2>4. k \in SeenTo(x, ScanLimit)
      BY <1>1, <2>1, <2>2 DEF SeenTo
  <2>5. k \in Ks
      BY <2>3, <2>4 DEF First
  <2>6. Printed(p) = Row(x, k)
      BY <2>1, <2>3 DEF Row
  <2> QED BY <2>5, <2>6
<1>5. ASSUME NEW k \in Ks PROVE \E p \in Shown : Printed(p) = Row(x, k)
  <2> DEFINE p == Place(wc, k)
  <2>1. k \in 1 .. Len(wc) /\ OfChanAt(x, k) /\ k <= ScanLimit
      BY <1>1 DEF SeenTo
  <2>2. p \in DOMAIN wc /\ GlobalRank(wc, p) = k /\ ChannelOf(x.nl[p]) = x.chan
      BY <1>1, <2>1, PlaceIs DEF OfChanAt
  <2>3. ChannelRank(x.nl, wc, p) = Seen(x, k)
      BY <2>1, ChannelRankIs
  <2>4. Printed(p) = Row(x, k)
      BY <2>3 DEF Row
  <2>5. Seen(x, k) > x.ecount - PageSize /\ Seen(x, k) <= x.ecount
      BY DEF First
  <2> HIDE DEF p
  <2>6. p \in Shown
      BY <1>2, <2>1, <2>2, <2>3, <2>5
  <2> QED BY <2>4, <2>6
<1> HIDE DEF Shown, Printed, Ks
<1>6. {Printed(p) : p \in Shown} = {Row(x, k) : k \in Ks}
    BY <1>4, <1>5, Zenon
<1> QED BY <1>3, <1>6 DEF Ks

\* When the walk is over, its rows are those.
LEMMA WalkShows ==
    ASSUME IInv, ~Looping
    PROVE  /\ {flood[j] : j \in DOMAIN flood} =
                TopRows(input.nl, input.wc, input.chan, input.ecount)
           /\ \A j \in DOMAIN flood : flood[j].rank = First(input) + j
<1> DEFINE m == pippeli
           x == input
           Ks == {j \in SeenTo(x, ScanLimit) : Seen(x, j) > First(x) /\ Seen(x, j) <= x.ecount}
<1>1. /\ IsQuery(x) /\ m \in Nat /\ Len(x.wc) \in Nat /\ First(x) \in Int
      /\ Len(flood) \in Nat /\ Seen(x, m) \in Nat /\ x.ecount \in Nat /\ ScanLimit \in Nat
      /\ DOMAIN flood = 1 .. Len(flood) /\ le \in Int /\ First(x) < x.ecount
      /\ m <= ScanLimit /\ le = First(x) + Len(flood) /\ le <= x.ecount
      /\ RowsTo(x, flood, m)
    BY NumbersAre DEF IInv, IsQuery
<1>2. le >= x.ecount \/ m >= ScanLimit
    BY <1>1 DEF Looping
<1>3. \A k \in SeenTo(x, ScanLimit) :
        k \in 1 .. Len(x.wc) /\ Seen(x, k) \in Nat /\ Seen(x, k) <= k
  <2> SUFFICES ASSUME NEW k \in SeenTo(x, ScanLimit)
               PROVE  k \in 1 .. Len(x.wc) /\ Seen(x, k) \in Nat /\ Seen(x, k) <= k
      OBVIOUS
  <2>1. k \in 1 .. Len(x.wc) /\ k \in Nat
      BY <1>1 DEF SeenTo
  <2> QED BY <1>1, <2>1, SeenIs
<1>4. CASE ~Reaches(x)
  <2>1. flood = <<>>
      BY <1>1, <1>4 DEF RowsTo
  <2>2. TopRows(x.nl, x.wc, x.chan, x.ecount) = {}
    <3>1. CASE First(x) < 0
      <4>1. ~(x.ecount >= PageSize)
          BY <1>1, <3>1, PageAssumption DEF First
      <4> QED BY <4>1 DEF TopRows
    <3>2. CASE First(x) >= 0
      <4>1. Ks = {}
        <5> SUFFICES ASSUME NEW k \in SeenTo(x, ScanLimit) PROVE ~(Seen(x, k) > First(x))
            OBVIOUS
        <5>1. First(x) >= Len(x.wc)
            BY <1>1, <1>4, <3>2 DEF Reaches
        <5>2. Seen(x, k) <= k /\ k \in 1 .. Len(x.wc) /\ Seen(x, k) \in Nat
            BY <1>3
        <5> QED BY <1>1, <5>1, <5>2
      <4> QED BY <1>1, <3>2, <4>1, ShownIs
    <3> QED BY <1>1, <3>1, <3>2
  <2>3. DOMAIN flood = {}
      BY <2>1
  <2> QED BY <2>2, <2>3
<1>5. CASE Reaches(x)
  <2>1. First(x) >= 0
      BY <1>5 DEF Reaches
  <2>2. /\ Len(flood) = IF Seen(x, m) > First(x) THEN Seen(x, m) - First(x) ELSE 0
        /\ \A k \in SeenTo(x, m) :
                Seen(x, k) > First(x) => flood[Seen(x, k) - First(x)] = Row(x, k)
        /\ \A j \in DOMAIN flood : \E k \in SeenTo(x, m) : Seen(x, k) = First(x) + j
      BY <1>1, <1>5 DEF RowsTo
  <2>3. SeenTo(x, m) \subseteq SeenTo(x, ScanLimit)
      BY <1>1 DEF SeenTo
  <2>4. ASSUME NEW j \in DOMAIN flood
        PROVE  \E k \in Ks : Seen(x, k) = First(x) + j /\ flood[j] = Row(x, k)
    <3>1. PICK k \in SeenTo(x, m) : Seen(x, k) = First(x) + j
        BY <2>2
    <3>2. j \in Nat /\ j >= 1 /\ j <= Len(flood)
        BY <1>1
    <3>3. Seen(x, k) > First(x) /\ Seen(x, k) <= x.ecount /\ Seen(x, k) - First(x) = j
        BY <1>1, <3>1, <3>2
    <3>4. flood[j] = Row(x, k)
        BY <2>2, <3>1, <3>3
    <3> QED BY <2>3, <3>1, <3>3, <3>4
  <2>5. ASSUME NEW k \in Ks PROVE \E j \in DOMAIN flood : flood[j] = Row(x, k)
    <3>1. k \in SeenTo(x, ScanLimit) /\ Seen(x, k) > First(x) /\ Seen(x, k) <= x.ecount
        OBVIOUS
    <3>2. k \in Nat /\ k >= 1 /\ k <= Len(x.wc) /\ k <= ScanLimit /\ OfChanAt(x, k)
        BY <1>1, <3>1 DEF SeenTo
    <3>3. Seen(x, k) \in Nat
        BY <1>3, <3>1
    <3>4. k <= m
      <4> SUFFICES ASSUME m < k PROVE FALSE
          BY <1>1, <3>2
      <4>1. le >= x.ecount
          BY <1>1, <1>2, <3>2
      <4>2. k \in SeenTo(x, k)
          BY <3>2 DEF SeenTo
      <4>3. Seen(x, m) < Seen(x, k)
          BY <1>1, <3>2, <4>2, SeenGrows
      <4> QED BY <1>1, <2>2, <3>1, <3>3, <4>1, <4>3
    <3>5. k \in SeenTo(x, m)
        BY <1>1, <3>2, <3>4 DEF SeenTo
    <3>6. flood[Seen(x, k) - First(x)] = Row(x, k)
        BY <2>2, <3>1, <3>5
    <3>7. Seen(x, k) <= Seen(x, m)
        BY <1>1, <3>2, <3>4, SeenGrows
    <3>8. Seen(x, k) - First(x) \in DOMAIN flood
        BY <1>1, <2>2, <3>1, <3>3, <3>7
    <3> QED BY <3>6, <3>8
  <2>6. {flood[j] : j \in DOMAIN flood} = {Row(x, k) : k \in Ks}
    <3> HIDE DEF Ks
    <3> QED BY <2>4, <2>5
  <2>7. \A j \in DOMAIN flood : flood[j].rank = First(x) + j
      BY <2>4 DEF Row
  <2> QED BY <1>1, <2>1, <2>6, <2>7, ShownIs
<1> QED BY <1>4, <1>5

\* Whatever the lists, the page and the limit: the walk with its three counters prints the
\* rows that the ranking defines, each with its rank, and from the highest one down
\* (toptodpub; sorting with lsort -decreasing -real).
THEOREM PageShowsTheRanking == Spec => []RowsAreRanked
<1>1. IInv => RowsAreRanked
  <2> SUFFICES ASSUME IInv, pc = "done"
               PROVE  /\ {page[k] : k \in DOMAIN page} =
                            TopRows(input.nl, input.wc, input.chan, input.ecount)
                      /\ \A k \in DOMAIN page : page[k].rank = page[1].rank + k - 1
      BY DEF RowsAreRanked
  <2>1. page = flood /\ ~Looping
      BY DEF IInv
  <2>2. /\ {flood[j] : j \in DOMAIN flood} =
                TopRows(input.nl, input.wc, input.chan, input.ecount)
        /\ \A j \in DOMAIN flood : flood[j].rank = First(input) + j
      BY <2>1, WalkShows
  <2>3. ASSUME NEW k \in DOMAIN flood PROVE flood[k].rank = flood[1].rank + k - 1
    <3>1. DOMAIN flood = 1 .. Len(flood) /\ Len(flood) \in Nat /\ First(input) \in Int
        BY NumbersAre
    <3>2. 1 \in DOMAIN flood /\ k \in Nat
        BY <3>1
    <3>3. flood[k].rank = First(input) + k /\ flood[1].rank = First(input) + 1
        BY <2>2, <3>2
    <3> QED BY <3>1, <3>2, <3>3
  <2> QED BY <2>1, <2>2, <2>3
<1> QED BY <1>1, Initially, Inductive, PTL DEF Spec
=============================================================================
