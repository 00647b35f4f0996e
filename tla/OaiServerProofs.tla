--------------------------- MODULE OaiServerProofs ---------------------------
(***************************************************************************)
(* Lemmas about the server's lists, for every catalog, page size and       *)
(* cursor: what a sorted list is, what a page of it holds, and what edits  *)
(* do to the place of a record.  The proofs about listings and harvests    *)
(* rest on them.                                                           *)
(***************************************************************************)
EXTENDS OaiServer, FiniteSetTheorems, SequenceTheorems, WellFoundedInduction, TLAPS

-----------------------------------------------------------------------------
(* Finite sets of numbers.                                                 *)

(* A finite set of numbers that is not empty has a greatest one: among the *)
(* sets of those from one of them on there is a smallest.                  *)
LEMMA GreatestExists ==
    ASSUME NEW F \in SUBSET Nat, IsFiniteSet(F), F # {}
    PROVE  \E n \in F : \A m \in F : m =< n
<1> DEFINE From(n) == {m \in F : m >= n}
           Sections == {From(n) : n \in F}
<1>1. Sections \subseteq FiniteSubsetsOf(F) /\ Sections # {}
  <2>1. FiniteSubsetsOf(F) = SUBSET F
    BY FS_FiniteSubsetsOfFinite
  <2>2. Sections \subseteq SUBSET F /\ Sections # {}
    OBVIOUS
  <2> QED BY <2>1, <2>2
<1>2. PICK S \in Sections : \A T \in Sections : <<T, S>> \notin StrictSubsetOrdering(F)
  <2> HIDE DEF Sections
  <2> QED BY <1>1, FS_StrictSubsetOrderingWellFounded, WFMin
<1>3. PICK n \in F : S = From(n)
  OBVIOUS
<1>4. SUFFICES ASSUME NEW m \in F, m > n PROVE FALSE
  BY <1>3
<1>5. From(m) \in Sections /\ From(m) \subseteq From(n) /\ n \in From(n) /\ n \notin From(m)
  <2>1. \A x \in F : x \in Nat
    OBVIOUS
  <2>2. (\A x \in F : x >= m => x >= n) /\ n >= n /\ ~(n >= m)
    BY <1>4, <2>1
  <2>3. From(m) \in Sections
    BY <1>4
  <2>4. From(m) \subseteq From(n)
    BY <2>2
  <2>5. n \in From(n) /\ n \notin From(m)
    BY <2>2
  <2> QED BY <2>3, <2>4, <2>5
<1>6. <<From(m), S>> \in StrictSubsetOrdering(F)
  <2>1. From(m) \in SUBSET F /\ S \in SUBSET F /\ From(m) \subseteq S /\ From(m) # S
    BY <1>3, <1>5
  <2> HIDE DEF From
  <2> QED BY <2>1 DEF StrictSubsetOrdering
<1> QED BY <1>2, <1>5, <1>6

(* And a least one.                                                        *)
LEMMA LeastExists ==
    ASSUME NEW F \in SUBSET Nat, F # {}
    PROVE  \E n \in F : \A m \in F : n =< m
<1>1. PICK b \in F : TRUE
  OBVIOUS
<1> DEFINE G == {m \in F : m =< b}
           H == {b - m : m \in G}
<1>2. H \in SUBSET (0..b) /\ b \in Nat
  OBVIOUS
<1>3. IsFiniteSet(H) /\ H # {} /\ H \in SUBSET Nat
  <2>1. IsFiniteSet(H)
    <3>1. 0 \in Int /\ b \in Int
      BY <1>2
    <3> HIDE DEF H
    <3> QED BY <1>2, <3>1, FS_Interval, FS_Subset
  <2>2. b - b \in H
    BY <1>1, <1>2
  <2> QED BY <1>2, <2>1, <2>2
<1>4. PICK k \in H : \A j \in H : j =< k
  <2> HIDE DEF H
  <2> QED BY <1>3, GreatestExists
<1>5. PICK n \in G : k = b - n
  OBVIOUS
<1>6. \A m \in G : b - m =< b - n
  BY <1>4, <1>5
<1> QED BY <1>2, <1>5, <1>6

-----------------------------------------------------------------------------
(* Ranks.                                                                  *)

(* A rank counts some of the records, fewer than all for one of them.      *)
LEMMA RankType ==
    ASSUME NEW S \in SUBSET Int, IsFiniteSet(S), NEW i \in Int
    PROVE  /\ Rank(S, i) \in Nat /\ Rank(S, i) =< Cardinality(S)
           /\ i \in S => Rank(S, i) < Cardinality(S)
<1> DEFINE B == {j \in S : j < i}
<1>1. /\ IsFiniteSet(B) /\ Cardinality(B) =< Cardinality(S)
      /\ Cardinality(B) = Cardinality(S) => B = S
  BY FS_Subset
<1>2. Cardinality(B) \in Nat /\ Cardinality(S) \in Nat
  BY <1>1, FS_CardinalityType
<1>3. i \in S => B # S
  <2>1. i \notin B
    OBVIOUS
  <2> QED BY <2>1
<1>4. Rank(S, i) = Cardinality(B)
  BY DEF Rank
<1> HIDE DEF B
<1> QED BY <1>1, <1>2, <1>3, <1>4

(* A later record has a higher rank.                                       *)
LEMMA RankAscends ==
    ASSUME NEW S \in SUBSET Int, IsFiniteSet(S), NEW i \in Int, NEW j \in Int, i =< j
    PROVE  /\ Rank(S, i) =< Rank(S, j)
           /\ i \in S /\ i # j => Rank(S, i) < Rank(S, j)
<1> DEFINE B(k) == {x \in S : x < k}
<1>1. IsFiniteSet(B(i)) /\ IsFiniteSet(B(j))
  BY FS_Subset
<1>2. B(i) \in SUBSET B(j)
  <2>1. \A x \in S : x < i => x < j
    OBVIOUS
  <2> QED BY <2>1
<1>3. i \in S /\ i # j => i \in B(j) /\ i \notin B(i)
  OBVIOUS
<1>4. Rank(S, i) = Cardinality(B(i)) /\ Rank(S, j) = Cardinality(B(j))
  BY DEF Rank
<1> HIDE DEF B
<1>5. /\ Cardinality(B(i)) =< Cardinality(B(j))
      /\ Cardinality(B(j)) = Cardinality(B(i)) => B(j) = B(i)
  BY <1>1, <1>2, FS_Subset
<1>6. Cardinality(B(i)) \in Nat /\ Cardinality(B(j)) \in Nat
  BY <1>1, FS_CardinalityType
<1> QED BY <1>3, <1>4, <1>5, <1>6

(* So ranks are in the order of the records.                               *)
LEMMA RankOrders ==
    ASSUME NEW S \in SUBSET Int, IsFiniteSet(S), NEW i \in S, NEW j \in S
    PROVE  Rank(S, i) < Rank(S, j) <=> i < j
<1>1. i \in Int /\ j \in Int /\ Rank(S, i) \in Nat /\ Rank(S, j) \in Nat
  BY RankType
<1>2. CASE i < j
  BY <1>1, <1>2, RankAscends
<1>3. CASE ~(i < j)
  <2>1. j =< i
    BY <1>1, <1>3
  <2>2. Rank(S, j) =< Rank(S, i)
    BY <1>1, <2>1, RankAscends
  <2> QED BY <1>1, <1>3, <2>2
<1> QED BY <1>2, <1>3

(* Records that come to a list push others back, never forward.            *)
LEMMA RankGrows ==
    ASSUME NEW T, IsFiniteSet(T), NEW S \in SUBSET T, NEW i
    PROVE  Rank(S, i) =< Rank(T, i)
<1> DEFINE B == {j \in S : j < i}
           C == {j \in T : j < i}
<1>1. IsFiniteSet(C) /\ B \in SUBSET C
  <2>1. C \in SUBSET T
    OBVIOUS
  <2> QED BY <2>1, FS_Subset
<1>2. Cardinality(B) =< Cardinality(C)
  <2> HIDE DEF B, C
  <2> QED BY <1>1, FS_Subset
<1> QED BY <1>2 DEF Rank

(* Every rank is that of a record: as many ranks as records, and no rank   *)
(* twice.                                                                  *)
LEMMA RankOnto ==
    ASSUME NEW S \in SUBSET Int, IsFiniteSet(S), NEW k \in Nat, k < Cardinality(S)
    PROVE  \E i \in S : Rank(S, i) = k
<1> DEFINE T == 0..Cardinality(S) - 1
           f == [i \in S |-> Rank(S, i)]
<1>1. Cardinality(S) \in Nat
  BY FS_CardinalityType
<1>2. IsFiniteSet(T) /\ Cardinality(T) = Cardinality(S)
  <2>1. 0 \in Int /\ Cardinality(S) - 1 \in Int
    BY <1>1
  <2>2. /\ IsFiniteSet(T)
        /\ Cardinality(T) = IF 0 > Cardinality(S) - 1 THEN 0 ELSE Cardinality(S) - 1 - 0 + 1
    BY <2>1, FS_Interval
  <2> QED BY <1>1, <2>2
<1>3. f \in Injection(S, T)
  <2>1. \A i \in S : Rank(S, i) \in T
    BY <1>1, RankType
  <2>2. ASSUME NEW i \in S, NEW j \in S, Rank(S, i) = Rank(S, j) PROVE i = j
    <3>1. i \in Int /\ j \in Int /\ Rank(S, i) \in Nat
      BY RankType
    <3> QED BY <2>2, <3>1, RankOrders
  <2>3. f \in [S -> T]
    BY <2>1
  <2>4. \A i, j \in S : f[i] = f[j] => i = j
    BY <2>2
  <2> HIDE DEF f, T
  <2> QED BY <2>3, <2>4 DEF Injection, IsInjective
<1>4. f \in Surjection(S, T)
  <2> HIDE DEF f, T
  <2> QED BY <1>2, <1>3, FS_Injection
<1>5. k \in T
  BY <1>1
<1> QED BY <1>4, <1>5 DEF Surjection

-----------------------------------------------------------------------------
(* Sorted lists.                                                           *)

Ascending(list, k) == \A m, n \in 1..k : m < n => list[m] < list[n]

(* InOrder(S) holds each record of S, in ascending order.                  *)
LEMMA InOrderFacts ==
    ASSUME NEW S \in SUBSET Int, IsFiniteSet(S)
    PROVE  /\ InOrder(S) \in [1..Cardinality(S) -> S]
           /\ Ascending(InOrder(S), Cardinality(S))
           /\ \A i \in S : \E n \in 1..Cardinality(S) : InOrder(S)[n] = i
<1> DEFINE k == Cardinality(S)
           byRank == [n \in 1..k |-> CHOOSE i \in S : Rank(S, i) = n - 1]
<1>1. k \in Nat
  BY FS_CardinalityType
<1>2. ASSUME NEW n \in 1..k PROVE byRank[n] \in S /\ Rank(S, byRank[n]) = n - 1
  <2>1. n - 1 \in Nat /\ n - 1 < k
    BY <1>1
  <2>2. \E i \in S : Rank(S, i) = n - 1
    BY <2>1, RankOnto
  <2> QED BY <2>2
<1>3. byRank \in [1..k -> S]
  BY <1>2
<1>4. Ascending(byRank, k)
  <2> SUFFICES ASSUME NEW m \in 1..k, NEW n \in 1..k, m < n PROVE byRank[m] < byRank[n]
    BY DEF Ascending
  <2>1. Rank(S, byRank[m]) = m - 1 /\ Rank(S, byRank[n]) = n - 1
        /\ byRank[m] \in S /\ byRank[n] \in S
    BY <1>2
  <2>2. m - 1 < n - 1
    BY <1>1
  <2> HIDE DEF byRank
  <2> QED BY <2>1, <2>2, RankOrders
<1>5. InOrder(S) \in [1..k -> S] /\ Ascending(InOrder(S), k)
  <2> HIDE DEF byRank
  <2> QED BY <1>3, <1>4 DEF InOrder, Ascending
<1>6. InOrder(S) \in Injection(1..k, S)
  <2>1. ASSUME NEW m \in 1..k, NEW n \in 1..k, InOrder(S)[m] = InOrder(S)[n] PROVE m = n
    <3>1. ~(m < n) /\ ~(n < m)
      <4>1. InOrder(S)[m] \in Int /\ InOrder(S)[n] \in Int
        BY <1>5
      <4> QED BY <1>5, <2>1, <4>1 DEF Ascending
    <3> QED BY <1>1, <3>1
  <2> QED BY <1>5, <2>1 DEF Injection, IsInjective
<1>7. InOrder(S) \in Surjection(1..k, S)
  <2>1. IsFiniteSet(1..k) /\ Cardinality(1..k) = k
    BY <1>1, FS_Interval
  <2> QED BY <1>6, <2>1, FS_Injection
<1> QED BY <1>5, <1>7 DEF Surjection

-----------------------------------------------------------------------------
(* Pages.                                                                  *)

Entries(list) == {list[n] : n \in DOMAIN list}

(* Appending one list to another keeps both their entries.                 *)
LEMMA EntriesOfConcat ==
    ASSUME NEW T, NEW s \in Seq(T), NEW t \in Seq(T)
    PROVE  Entries(s \o t) = Entries(s) \cup Entries(t)
<1>1. /\ Len(s) \in Nat /\ DOMAIN s = 1..Len(s)
      /\ Len(t) \in Nat /\ DOMAIN t = 1..Len(t)
  BY LenProperties
<1>2. /\ s \o t \in Seq(T) /\ Len(s \o t) = Len(s) + Len(t)
      /\ \A i \in 1..Len(s) + Len(t) :
            (s \o t)[i] = IF i =< Len(s) THEN s[i] ELSE t[i - Len(s)]
  BY ConcatProperties
<1>3. DOMAIN (s \o t) = 1..Len(s) + Len(t)
  BY <1>2, LenProperties
<1> DEFINE st == s \o t
<1> HIDE DEF st
<1>4. \A i \in 1..Len(s) + Len(t) : i \in 1..Len(s) \/ i - Len(s) \in 1..Len(t)
  BY <1>1
<1>5. \A i \in 1..Len(s) : i \in 1..Len(s) + Len(t) /\ i =< Len(s)
  BY <1>1
<1>6. \A i \in 1..Len(t) :
         /\ i + Len(s) \in 1..Len(s) + Len(t) /\ ~(i + Len(s) =< Len(s))
         /\ (i + Len(s)) - Len(s) = i
  BY <1>1
<1>7. Entries(st) \subseteq Entries(s) \cup Entries(t)
  <2> SUFFICES ASSUME NEW i \in 1..Len(s) + Len(t)
               PROVE  st[i] \in Entries(s) \cup Entries(t)
    BY <1>3 DEF Entries, st
  <2>1. CASE i =< Len(s)
    BY <1>1, <1>2, <2>1 DEF Entries, st
  <2>2. CASE ~(i =< Len(s))
    <3>1. i - Len(s) \in 1..Len(t)
      BY <1>1, <2>2
    <3>2. st[i] = t[i - Len(s)]
      BY <1>2, <2>2 DEF st
    <3> QED BY <1>1, <3>1, <3>2 DEF Entries
  <2> QED BY <2>1, <2>2
<1>8. Entries(s) \subseteq Entries(st)
  <2> SUFFICES ASSUME NEW i \in 1..Len(s) PROVE s[i] \in Entries(st)
    BY <1>1 DEF Entries
  <2>1. st[i] = s[i] /\ i \in DOMAIN st
    BY <1>2, <1>3, <1>5 DEF st
  <2> QED BY <2>1 DEF Entries
<1>9. Entries(t) \subseteq Entries(st)
  <2> SUFFICES ASSUME NEW i \in 1..Len(t) PROVE t[i] \in Entries(st)
    BY <1>1 DEF Entries
  <2>1. i + Len(s) \in DOMAIN st /\ st[i + Len(s)] = t[(i + Len(s)) - Len(s)]
    BY <1>2, <1>3, <1>6 DEF st
  <2>2. st[i + Len(s)] = t[i]
    BY <1>6, <2>1
  <2> QED BY <2>1, <2>2 DEF Entries
<1> QED BY <1>7, <1>8, <1>9 DEF st

(* If all entries of one list come before those of another one, and both   *)
(* are sorted, so are the two together.                                    *)
LEMMA ConcatAscends ==
    ASSUME NEW T \in SUBSET Int, NEW s \in Seq(T), NEW t \in Seq(T),
           Ascending(s, Len(s)), Ascending(t, Len(t)),
           \A i \in Entries(s), j \in Entries(t) : i < j
    PROVE  Ascending(s \o t, Len(s \o t))
<1> DEFINE st == s \o t
<1>1. /\ Len(s) \in Nat /\ DOMAIN s = 1..Len(s)
      /\ Len(t) \in Nat /\ DOMAIN t = 1..Len(t)
  BY LenProperties
<1>2. /\ Len(st) = Len(s) + Len(t)
      /\ \A i \in 1..Len(s) + Len(t) :
            st[i] = IF i =< Len(s) THEN s[i] ELSE t[i - Len(s)]
  BY ConcatProperties
<1> HIDE DEF st
<1> SUFFICES ASSUME NEW m \in 1..Len(s) + Len(t), NEW n \in 1..Len(s) + Len(t), m < n
             PROVE  st[m] < st[n]
  BY <1>2 DEF Ascending, st
<1>3. CASE n =< Len(s)
  <2>1. m =< Len(s) /\ m \in 1..Len(s) /\ n \in 1..Len(s)
    BY <1>1, <1>3
  <2> QED BY <1>2, <1>3, <2>1 DEF Ascending
<1>4. CASE ~(m =< Len(s))
  <2>1. ~(n =< Len(s)) /\ m - Len(s) \in 1..Len(t) /\ n - Len(s) \in 1..Len(t)
        /\ m - Len(s) < n - Len(s)
    BY <1>1, <1>4
  <2> QED BY <1>2, <1>4, <2>1 DEF Ascending
<1>5. CASE m =< Len(s) /\ ~(n =< Len(s))
  <2>1. m \in 1..Len(s) /\ n - Len(s) \in 1..Len(t)
    BY <1>1, <1>5
  <2>2. s[m] \in Entries(s) /\ t[n - Len(s)] \in Entries(t)
    BY <1>1, <2>1 DEF Entries
  <2> QED BY <1>2, <1>5, <2>2
<1> QED BY <1>3, <1>4, <1>5

(* A page holds the records whose ranks it covers, in order; there is a    *)
(* next page when it does not reach the end of the list.                   *)
LEMMA PageFacts ==
    ASSUME NEW S \in SUBSET Int, IsFiniteSet(S), NEW cursor \in Nat
    PROVE  LET cut == Paginate(S, cursor)
               upto == cursor + PageSize
           IN  /\ cut.page \in Seq(S)
               /\ Entries(cut.page) = {i \in S : cursor =< Rank(S, i) /\ Rank(S, i) < upto}
               /\ Ascending(cut.page, Len(cut.page))
               /\ \/ cut.next = None /\ Cardinality(S) =< upto
                  \/ cut.next = upto /\ cut.next \in Nat /\ cut.next # None
<1> DEFINE upto == cursor + PageSize
           P == {i \in S : Rank(S, i) \in cursor..upto - 1}
           k == Cardinality(P)
           list == InOrder(P)
<1>1. upto \in Nat /\ Cardinality(S) \in Nat
  BY ServerAssumption, FS_CardinalityType
<1>2. P \in SUBSET S /\ P \in SUBSET Int /\ IsFiniteSet(P) /\ k \in Nat
  <2>1. P \in SUBSET S
    OBVIOUS
  <2> HIDE DEF P
  <2> QED BY <2>1, FS_Subset, FS_CardinalityType
<1>3. /\ list \in [1..k -> P] /\ Ascending(list, k)
      /\ \A i \in P : \E n \in 1..k : list[n] = i
  <2> HIDE DEF P
  <2> QED BY <1>2, InOrderFacts
<1>4. list \in Seq(S) /\ Len(list) = k /\ DOMAIN list = 1..k
  <2>1. list \in [1..k -> S]
    <3> HIDE DEF P, k, list
    <3> QED BY <1>2, <1>3
  <2>2. k \in Nat
    BY <1>2
  <2>3. \A n \in Nat : \A f \in [1..n -> S] : f \in Seq(S) /\ Len(f) = n /\ DOMAIN f = 1..n
    OBVIOUS
  <2> HIDE DEF P, k, list
  <2> QED BY <2>1, <2>2, <2>3
<1>5. Entries(list) = P
  <2> HIDE DEF P, k, list
  <2> QED BY <1>3, <1>4 DEF Entries
<1>6. P = {i \in S : cursor =< Rank(S, i) /\ Rank(S, i) < upto}
  <2>1. \A i \in S : Rank(S, i) \in Nat
    BY RankType
  <2>2. \A r \in Nat : r \in cursor..upto - 1 <=> cursor =< r /\ r < upto
    BY <1>1
  <2> HIDE DEF upto
  <2> QED BY <2>1, <2>2
<1>7. /\ Paginate(S, cursor).page = list
      /\ Paginate(S, cursor).next = IF upto >= Cardinality(S) THEN None ELSE upto
  BY DEF Paginate, Slice
<1>8. upto # None
  BY <1>1, NoneAssumption
<1>9. \/ Paginate(S, cursor).next = None /\ Cardinality(S) =< upto
      \/ /\ Paginate(S, cursor).next = upto
         /\ Paginate(S, cursor).next \in Nat /\ Paginate(S, cursor).next # None
  <2> HIDE DEF P, k, list, upto
  <2> QED BY <1>1, <1>7, <1>8
<1> HIDE DEF P, k, list
<1> QED BY <1>3, <1>4, <1>5, <1>6, <1>7, <1>9

-----------------------------------------------------------------------------
(* The catalog.                                                            *)

CatalogType(cat) == cat \in [Standards -> Record \cup {None}]

(* The own records and the standards that have a file.                     *)
Present(cat) == {i \in Ids : i \in Standards => cat[i] # None}

(* There are finitely many records, numbered by integers.                  *)
LEMMA IdsFinite == Ids \in SUBSET Int /\ IsFiniteSet(Ids)
<1>1. Len(OwnStamps) \in Nat /\ NStandards \in Nat
  BY ServerAssumption, LenProperties
<1>2. Own \in SUBSET Int /\ IsFiniteSet(Own)
  <2>1. 0 - Len(OwnStamps) \in Int /\ 0 - 1 \in Int
    BY <1>1
  <2> QED BY <2>1, FS_Interval DEF Own
<1>3. Standards \in SUBSET Int /\ IsFiniteSet(Standards)
  <2>1. 1 \in Int /\ NStandards \in Int
    BY <1>1
  <2> QED BY <2>1, FS_Interval DEF Standards
<1> QED BY <1>2, <1>3, FS_Union DEF Ids

(* So there are in every list of them.                                     *)
LEMMA ListsFinite ==
    ASSUME NEW S \in SUBSET Ids
    PROVE  S \in SUBSET Int /\ IsFiniteSet(S)
BY IdsFinite, FS_Subset

(* A filtered list is one of records the catalog has; when no file is      *)
(* being written and no dates are given, it is all of them.                *)
LEMMA FilterFacts ==
    ASSUME NEW cat, NEW q
    PROVE  /\ filter_records(cat, q) \in SUBSET Present(cat)
           /\ filter_records(cat, q) \in SUBSET Int /\ IsFiniteSet(filter_records(cat, q))
           /\ Parses(cat) /\ q.set \in {None, "ivo_managed"} /\ q.from = None /\ q.until = None
                 => filter_records(cat, q) = Present(cat)
<1>1. all_records(cat) \in SUBSET Present(cat)
  <2>1. Own \cap Standards = {}
    BY ServerAssumption DEF Own, Standards
  <2> QED BY <2>1 DEF all_records, Present, Loaded, Ids
<1>2. filter_records(cat, q) \in SUBSET all_records(cat)
  BY DEF filter_records
<1>3. Parses(cat) => all_records(cat) = Present(cat)
  BY <1>1 DEF all_records, Present, Loaded, Ids, Parses
<1>4. q.set \in {None, "ivo_managed"} /\ q.from = None /\ q.until = None
         => filter_records(cat, q) = all_records(cat)
  BY DEF filter_records, record_in_range
<1>5. Present(cat) \in SUBSET Ids
  BY DEF Present
<1> QED BY <1>1, <1>2, <1>3, <1>4, <1>5, ListsFinite

(* Files are never removed, and deleted records stay deleted.              *)
LEMMA CatalogEdits ==
    ASSUME CatalogType(catalog),
           Maintain \/ \E i \in Standards : StartWriting(i) \/ FinishWriting(i)
    PROVE  /\ CatalogType(catalog')
           /\ \A i \in Standards : catalog[i] # None =>
                 catalog'[i] # None /\ (catalog[i].deleted => catalog'[i].deleted)
<1> DEFINE Kept(i, new) ==
        /\ new \in Record
        /\ catalog[i] # None /\ catalog[i].deleted => new.deleted
        /\ catalog' = [catalog EXCEPT ![i] = new]
<1>1. ASSUME NEW i \in Standards, NEW new, Kept(i, new)
      PROVE  /\ CatalogType(catalog')
             /\ \A j \in Standards : catalog[j] # None =>
                   catalog'[j] # None /\ (catalog[j].deleted => catalog'[j].deleted)
  BY <1>1, NoneAssumption DEF CatalogType
<1>2. ASSUME NEW i \in Standards,
             AddFile(i) \/ MarkDeleted(i) \/ Rewrite(i) \/ StartWriting(i) \/ FinishWriting(i)
      PROVE  \E new : Kept(i, new)
  <2>0. catalog[i] # None => catalog[i] \in Record
    BY DEF CatalogType
  <2>1. CASE AddFile(i)
    <3>1. PICK stamp \in Stamps, content \in Contents :
             catalog' = [catalog EXCEPT ![i] = [stamp |-> stamp, deleted |-> FALSE,
                                                whole |-> TRUE, content |-> content]]
      BY <2>1 DEF AddFile
    <3>2. Kept(i, [stamp |-> stamp, deleted |-> FALSE, whole |-> TRUE, content |-> content])
      BY <2>1, <3>1 DEF AddFile, Record
    <3> QED BY <3>2
  <2>2. CASE MarkDeleted(i)
    <3>1. Kept(i, [catalog[i] EXCEPT !.deleted = TRUE])
      BY <2>0, <2>2 DEF MarkDeleted, Record
    <3> QED BY <3>1
  <2>3. CASE Rewrite(i)
    <3>1. PICK stamp \in Stamps, content \in Contents :
             catalog' = [catalog EXCEPT ![i].stamp = stamp, ![i].content = content]
      BY <2>3 DEF Rewrite
    <3>2. Kept(i, [catalog[i] EXCEPT !.stamp = stamp, !.content = content])
      BY <2>0, <2>3, <3>1 DEF Rewrite, Record
    <3> QED BY <3>2
  <2>4. CASE StartWriting(i)
    <3>1. Kept(i, [catalog[i] EXCEPT !.whole = FALSE])
      BY <2>0, <2>4 DEF StartWriting, Record
    <3> QED BY <3>1
  <2>5. CASE FinishWriting(i)
    <3>1. Kept(i, [catalog[i] EXCEPT !.whole = TRUE])
      BY <2>0, <2>5 DEF FinishWriting, Record
    <3> QED BY <3>1
  <2> QED BY <1>2, <2>1, <2>2, <2>3, <2>4, <2>5
<1> HIDE DEF Kept
<1> QED BY <1>1, <1>2 DEF Maintain

(* What a page of a listing is, and when there is none: while a file is    *)
(* being written or an active record has a datestamp that is none, or when *)
(* a first page would be empty.                                            *)
LEMMA ListFromFacts ==
    ASSUME NEW cat, NEW q, NEW cursor \in Nat
    PROVE  LET reply == ListFrom(cat, q, cursor)
               S == filter_records(cat, q)
               upto == cursor + PageSize
           IN  /\ reply.code = "raise" <=> ~Listable(cat)
               /\ reply.code \in {"ok", "raise", "noRecordsMatch"}
               /\ reply.code = "noRecordsMatch" => S = {}
               /\ reply.code # "ok" => reply.page = <<>> /\ reply.next = None
               /\ reply.code = "ok" =>
                     /\ Listable(cat) /\ Parses(cat)
                     /\ reply.page \in Seq(S)
                     /\ Entries(reply.page) = {i \in S : cursor =< Rank(S, i) /\ Rank(S, i) < upto}
                     /\ Ascending(reply.page, Len(reply.page))
                     /\ \/ reply.next = None /\ Cardinality(S) =< upto
                        \/ reply.next = upto /\ reply.next \in Nat /\ reply.next # None
<1> DEFINE reply == ListFrom(cat, q, cursor)
           S == filter_records(cat, q)
           upto == cursor + PageSize
           cut == Paginate(S, cursor)
<1>1. S \in SUBSET Int /\ IsFiniteSet(S)
  BY FilterFacts
<1>2. /\ cut.page \in Seq(S)
      /\ Entries(cut.page) = {i \in S : cursor =< Rank(S, i) /\ Rank(S, i) < upto}
      /\ Ascending(cut.page, Len(cut.page))
      /\ \/ cut.next = None /\ Cardinality(S) =< upto
         \/ cut.next = upto /\ cut.next \in Nat /\ cut.next # None
  <2> HIDE DEF S
  <2> QED BY <1>1, PageFacts
<1>3. CASE ~Listable(cat)
  <2>1. reply = Error("raise")
    BY <1>3 DEF ListFrom
  <2> QED BY <1>3, <2>1 DEF Error
<1>4. CASE Listable(cat) /\ cut.page = <<>> /\ cursor = 0
  <2>1. reply = Error("noRecordsMatch")
    BY <1>4 DEF ListFrom
  <2>2. S = {}
    <3> SUFFICES ASSUME S # {} PROVE FALSE
      OBVIOUS
    <3>1. Cardinality(S) \in Nat /\ Cardinality(S) # 0
      BY <1>1, FS_CardinalityType, FS_EmptySet
    <3>2. PICK i \in S : Rank(S, i) = 0
      <4> HIDE DEF S
      <4> QED BY <1>1, <3>1, RankOnto
    <3>3. 0 =< 0 /\ 0 < upto
      BY <1>4, ServerAssumption
    <3>4. i \in Entries(cut.page)
      <4> HIDE DEF S, upto, cut
      <4> QED BY <1>2, <1>4, <3>2, <3>3
    <3>5. Entries(cut.page) = {}
      BY <1>4 DEF Entries
    <3> QED BY <3>4, <3>5
  <2> QED BY <1>4, <2>1, <2>2 DEF Error
<1>5. CASE Listable(cat) /\ ~(cut.page = <<>> /\ cursor = 0)
  <2>1. reply = [code |-> "ok", page |-> cut.page, next |-> cut.next]
    BY <1>5 DEF ListFrom
  <2>2. reply.code = "ok" /\ reply.page = cut.page /\ reply.next = cut.next
    BY <2>1
  <2>3. Parses(cat)
    BY <1>5 DEF Listable
  <2> QED BY <1>2, <1>5, <2>2, <2>3
<1> QED BY <1>3, <1>4, <1>5

=============================================================================
