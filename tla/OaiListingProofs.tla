-------------------------- MODULE OaiListingProofs --------------------------
(***************************************************************************)
(* Proofs about paged listings for every number of records, page size,     *)
(* query and edit of the catalog between two pages.                        *)
(***************************************************************************)
EXTENDS OaiListing, OaiServerProofs

-----------------------------------------------------------------------------
(* The invariant.                                                          *)

Undated(q) == q.from = None /\ q.until = None

(* The list that the client's query has in the catalog as it is now.       *)
Listed == filter_records(catalog, client.q)

ListingTypeOK ==
    /\ CatalogType(catalog) /\ CatalogType(start)
    /\ edits \in Nat
    /\ client \in [at : {"idle", "listing", "done", "refused"}, q : Arguments \cup {None},
                   next : Nat \cup {None}, got : Seq(Ids), code : Outcomes]

(* No record disappears, and before the first edit nothing has changed.    *)
CatalogGrows ==
    /\ Present(start) \subseteq Present(catalog)
    /\ edits = 0 => catalog = start /\ Parses(catalog)

(* A listing under way has a cursor, and its query was accepted.           *)
ListingAccepted ==
    /\ client.at \in {"listing", "done"} =>
          client.q \in Arguments /\ validate_list_args(client.q) = "ok"
    /\ client.at = "listing" => client.next \in Nat

(* What was listed is in the catalog.                                      *)
GotPresent == Got \subseteq Present(catalog)

(* What an undated listing has still to give is ahead of its cursor: edits *)
(* push records back only.                                                 *)
RestIsAhead ==
    /\ client.at = "listing" /\ Undated(client.q) =>
          \A i \in Present(start) : i \in Got \/ Rank(Present(catalog), i) >= client.next
    /\ client.at = "done" /\ Undated(client.q) => Present(start) \subseteq Got

(* Without edits the client has what is before its cursor, in order.       *)
ExactSoFar ==
    edits = 0 =>
        /\ client.at = "listing" => Got = {i \in Listed : Rank(Listed, i) < client.next}
        /\ client.at = "done" => Got = Listed
        /\ Ascending(client.got, Len(client.got))

(* The inductive invariant.                                                *)
LInv ==
    /\ ListingTypeOK /\ CatalogGrows /\ ListingAccepted
    /\ GotPresent /\ RestIsAhead /\ ExactSoFar

-----------------------------------------------------------------------------
(* Each step keeps it.                                                     *)

(* A page that starts at the cursor keeps what is listed and what is ahead *)
(* in step, on the first page and on later ones.                           *)
LEMMA PageTaken ==
    ASSUME NEW q \in Arguments, validate_list_args(q) = "ok",
           NEW got \in Seq(Ids), NEW cursor \in Nat,
           CatalogType(catalog), CatalogType(start'), edits \in Nat,
           Present(start') \subseteq Present(catalog),
           edits = 0 => catalog = start' /\ Parses(catalog),
           Entries(got) \subseteq Present(catalog),
           Undated(q) => \A i \in Present(start') :
                            i \in Entries(got) \/ Rank(Present(catalog), i) >= cursor,
           edits = 0 =>
               /\ Entries(got) = {i \in filter_records(catalog, q) :
                                     Rank(filter_records(catalog, q), i) < cursor}
               /\ Ascending(got, Len(got)),
           client' = After(q, got, ListFrom(catalog, q, cursor)),
           UNCHANGED <<catalog, edits>>
    PROVE  LInv'
<1> DEFINE reply == ListFrom(catalog, q, cursor)
           S == filter_records(catalog, q)
           upto == cursor + PageSize
<1>1. /\ reply.code \in {"ok", "raise", "noRecordsMatch"}
      /\ reply.code # "ok" => reply.page = <<>> /\ reply.next = None
      /\ reply.code = "raise" <=> ~Listable(catalog)
      /\ reply.code = "noRecordsMatch" => S = {}
  BY ListFromFacts
<1>2. reply.code = "ok" =>
        /\ Parses(catalog)
        /\ reply.page \in Seq(S)
        /\ Entries(reply.page) = {i \in S : cursor =< Rank(S, i) /\ Rank(S, i) < upto}
        /\ Ascending(reply.page, Len(reply.page))
        /\ \/ reply.next = None /\ Cardinality(S) =< upto
           \/ reply.next = upto /\ reply.next \in Nat /\ reply.next # None
  BY ListFromFacts
<1>3. /\ S \in SUBSET Present(catalog) /\ S \in SUBSET Int /\ IsFiniteSet(S)
      /\ Parses(catalog) /\ Undated(q) => S = Present(catalog)
  <2>1. q.set \in {"ivo_managed", "other", None}
    BY DEF Arguments
  <2>2. q.set # "other"
    BY DEF validate_list_args
  <2>3. q.set \in {None, "ivo_managed"}
    BY <2>1, <2>2
  <2>4. S \in SUBSET Present(catalog) /\ S \in SUBSET Int /\ IsFiniteSet(S)
    BY FilterFacts
  <2>5. Parses(catalog) /\ Undated(q) => S = Present(catalog)
    BY <2>3, FilterFacts DEF Undated
  <2> QED BY <2>4, <2>5
<1>4. \A i \in S : Rank(S, i) \in Nat /\ Rank(S, i) < Cardinality(S)
  <2> HIDE DEF S
  <2> QED BY <1>3, RankType
<1>5. S \subseteq Ids
  BY <1>3 DEF Present
<1>6. reply.page \in Seq(Ids) /\ reply.next \in Nat \cup {None} /\ reply.code \in Outcomes
  <2> HIDE DEF reply, S
  <2>1. Seq(S) \subseteq Seq(Ids)
    BY <1>5
  <2>2. reply.page \in Seq(Ids)
    <3>1. CASE reply.code = "ok"
      BY <1>2, <2>1, <3>1
    <3>2. CASE reply.code # "ok"
      <4>1. <<>> \in Seq(Ids)
        OBVIOUS
      <4> QED BY <1>1, <3>2, <4>1
    <3> QED BY <3>1, <3>2
  <2>3. reply.next \in Nat \cup {None}
    BY <1>1, <1>2
  <2>4. reply.code \in Outcomes
    BY <1>1 DEF Outcomes
  <2> QED BY <2>2, <2>3, <2>4
<1>7. client' = [at |-> IF reply.code # "ok" THEN "refused"
                        ELSE IF reply.next = None THEN "done" ELSE "listing",
                 q |-> q, next |-> reply.next, got |-> got \o reply.page, code |-> reply.code]
  BY DEF After
<1> DEFINE at == IF reply.code # "ok" THEN "refused"
                 ELSE IF reply.next = None THEN "done" ELSE "listing"
<1>8. /\ client'.q = q /\ client'.next = reply.next /\ client'.got = got \o reply.page
      /\ client'.at = at /\ at \in {"listing", "done", "refused"}
      /\ at \in {"listing", "done"} => reply.code = "ok"
      /\ at = "listing" <=> reply.code = "ok" /\ reply.next # None
      /\ at = "done" <=> reply.code = "ok" /\ reply.next = None
  <2> HIDE DEF reply
  <2> QED BY <1>7
<1>9. Got' = Entries(got) \cup Entries(reply.page)
  <2>1. Got' = Entries(got \o reply.page)
    BY <1>7 DEF Got, Entries
  <2> QED BY <1>6, <2>1, EntriesOfConcat
<1>10. Entries(reply.page) \subseteq S
  <2>1. reply.code # "ok" => Entries(reply.page) = {}
    <3>1. Entries(<<>>) = {}
      BY DEF Entries
    <3> HIDE DEF reply
    <3> QED BY <1>1, <3>1
  <2> HIDE DEF reply, S
  <2> QED BY <1>2, <2>1
<1>11. upto \in Nat
  BY ServerAssumption
<1>12. S = filter_records(catalog, q)
  OBVIOUS
<1> HIDE DEF reply, S, upto, at
<1>13. ListingTypeOK'
  <2>1. got \o reply.page \in Seq(Ids)
    BY <1>6
  <2>2. client' = [at |-> at, q |-> q, next |-> reply.next, got |-> got \o reply.page,
                   code |-> reply.code]
    BY <1>7 DEF at
  <2>3. client' \in [at : {"idle", "listing", "done", "refused"}, q : Arguments \cup {None},
                     next : Nat \cup {None}, got : Seq(Ids), code : Outcomes]
    BY <1>6, <1>8, <2>1, <2>2
  <2> QED BY <2>3 DEF ListingTypeOK, CatalogType
<1>14. CatalogGrows'
  BY DEF CatalogGrows, Parses, Present
<1>15. ListingAccepted'
  BY <1>6, <1>7 DEF ListingAccepted
<1>16. GotPresent'
  <2>1. Got' \subseteq Present(catalog)
    BY <1>3, <1>9, <1>10
  <2> QED BY <2>1 DEF GotPresent, Present
<1>17. RestIsAhead'
  <2> SUFFICES ASSUME Undated(q), client'.at \in {"listing", "done"}, NEW i \in Present(start')
               PROVE  \/ i \in Got'
                      \/ client'.at = "listing" /\ Rank(Present(catalog), i) >= client'.next
    <3>1. Undated(client'.q) => Undated(q)
      BY <1>8
    <3>2. Present(catalog)' = Present(catalog) /\ Present(start)' = Present(start')
      BY DEF Present
    <3> QED BY <3>1, <3>2 DEF RestIsAhead, Undated, Rank
  <2>1. reply.code = "ok"
    BY <1>8
  <2>2. S = Present(catalog) /\ i \in S
    BY <1>2, <1>3, <2>1
  <2>3. CASE Rank(S, i) < upto
    BY <1>2, <1>9, <2>1, <2>2, <2>3
  <2>4. CASE ~(Rank(S, i) < upto)
    <3>1. ~(Cardinality(S) =< upto) /\ Rank(S, i) >= upto
      <4>1. Cardinality(S) \in Nat
        BY <1>3, FS_CardinalityType
      <4> QED BY <1>4, <1>11, <2>2, <2>4, <4>1
    <3>2. reply.next = upto /\ reply.next # None
      BY <1>2, <2>1, <3>1
    <3>3. client'.at = "listing" /\ client'.next = upto
      BY <1>7, <2>1, <3>2
    <3> QED BY <2>2, <3>1, <3>3
  <2> QED BY <2>3, <2>4
<1>18. ExactSoFar'
  <2> SUFFICES ASSUME edits = 0
               PROVE  /\ client'.at = "listing" => Got' = {i \in S : Rank(S, i) < client'.next}
                      /\ client'.at = "done" => Got' = S
                      /\ Ascending(client'.got, Len(client'.got))
    <3>1. Listed' = S
      BY <1>8, <1>12 DEF Listed, filter_records, all_records, RecordOf, Loaded
    <3> QED BY <3>1 DEF ExactSoFar, Rank
  <2>1. Entries(got) = {i \in S : Rank(S, i) < cursor} /\ Ascending(got, Len(got))
    BY <1>12
  <2>2. CASE reply.code # "ok"
    <3>1. client'.at = "refused" /\ client'.got = got
      BY <1>1, <1>7, <2>2, ConcatEmptySeq
    <3> QED BY <2>1, <3>1
  <2>3. CASE reply.code = "ok"
    <3>1. Got' = {i \in S : Rank(S, i) < upto}
      <4>1. \A i \in S : Rank(S, i) < upto <=>
                Rank(S, i) < cursor \/ (cursor =< Rank(S, i) /\ Rank(S, i) < upto)
        BY <1>4, ServerAssumption DEF upto
      <4> QED BY <1>2, <1>9, <2>1, <2>3, <4>1
    <3>2. client'.at = "listing" => client'.next = upto
      BY <1>2, <1>7, <2>3
    <3>3. client'.at = "done" => Got' = S
      <4> SUFFICES ASSUME client'.at = "done" PROVE \A i \in S : Rank(S, i) < upto
        BY <3>1
      <4>1. Cardinality(S) =< upto
        BY <1>2, <1>7, <2>3
      <4>2. Cardinality(S) \in Nat
        BY <1>3, FS_CardinalityType
      <4> QED BY <1>4, <1>11, <4>1, <4>2
    <3>4. Ascending(client'.got, Len(client'.got))
      <4>1. \A i \in Entries(got), j \in Entries(reply.page) : i < j
        <5> SUFFICES ASSUME NEW i \in Entries(got), NEW j \in Entries(reply.page) PROVE i < j
          OBVIOUS
        <5>1. i \in S /\ j \in S /\ Rank(S, i) < cursor /\ cursor =< Rank(S, j)
          BY <1>2, <2>1, <2>3
        <5>2. Rank(S, i) < Rank(S, j)
          BY <1>4, <5>1
        <5> QED BY <1>3, <5>1, <5>2, RankOrders
      <4>2. Ascending(got \o reply.page, Len(got \o reply.page))
        <5>1. Ids \in SUBSET Int
          BY IdsFinite
        <5> QED BY <1>2, <1>6, <2>1, <2>3, <4>1, <5>1, ConcatAscends
      <4>3. client'.got = got \o reply.page
        BY <1>7
      <4> QED BY <4>2, <4>3
    <3> QED BY <3>1, <3>2, <3>3, <3>4
  <2> QED BY <2>2, <2>3
<1> QED BY <1>13, <1>14, <1>15, <1>16, <1>17, <1>18 DEF LInv

(* A first page starts at cursor 0, or the request is refused.             *)
LEMMA FirstInv ==
    ASSUME LInv, NEW q \in Queries, First(q)
    PROVE  LInv'
<1>1. /\ client' = After(q, <<>>, ListReply(catalog, q))
      /\ start' = catalog /\ UNCHANGED <<catalog, edits>>
      /\ q \in Arguments
  BY ListingAssumption DEF First
<1>2. /\ <<>> \in Seq(Ids) /\ Entries(<<>>) = {} /\ Ascending(<<>>, Len(<<>>))
  BY DEF Entries, Ascending
<1>3. CASE validate_list_args(q) = "ok"
  <2>1. client' = After(q, <<>>, ListFrom(catalog, q, 0))
    BY <1>1, <1>3 DEF ListReply
  <2>2. \A S \in SUBSET Ids : \A i \in S : Rank(S, i) >= 0 /\ ~(Rank(S, i) < 0)
    <3> SUFFICES ASSUME NEW S \in SUBSET Ids, NEW i \in S PROVE Rank(S, i) \in Nat
      OBVIOUS
    <3> QED BY ListsFinite, RankType
  <2>3. Present(catalog) \in SUBSET Ids
    BY DEF Present
  <2>4. filter_records(catalog, q) \in SUBSET Ids
    BY <2>3, FilterFacts
  <2>5. CatalogType(catalog) /\ edits \in Nat /\ (edits = 0 => Parses(catalog))
    BY DEF LInv, ListingTypeOK, CatalogGrows
  <2>6. /\ CatalogType(start') /\ Present(start') \subseteq Present(catalog)
        /\ edits = 0 => catalog = start'
    BY <1>1, <2>5
  <2>7. \A i \in Present(start') : Rank(Present(catalog), i) >= 0
    BY <1>1, <2>2, <2>3
  <2>8. Entries(<<>>) = {i \in filter_records(catalog, q) :
                           Rank(filter_records(catalog, q), i) < 0}
    BY <1>2, <2>2, <2>4
  <2> QED BY <1>1, <1>2, <1>3, <2>1, <2>5, <2>6, <2>7, <2>8, PageTaken
<1>4. CASE validate_list_args(q) # "ok"
  <2>1. client' = After(q, <<>>, Error(validate_list_args(q)))
    BY <1>1, <1>4 DEF ListReply
  <2>2. client' = [at |-> "refused", q |-> q, next |-> None, got |-> <<>>,
                   code |-> validate_list_args(q)]
    BY <1>4, <2>1 DEF After, Error
  <2>3. validate_list_args(q) \in Outcomes
    BY DEF validate_list_args, validate_from_until, Outcomes
  <2>4. client' \in [at : {"idle", "listing", "done", "refused"}, q : Arguments \cup {None},
                    next : Nat \cup {None}, got : Seq(Ids), code : Outcomes]
    <3>1. q \in Arguments /\ <<>> \in Seq(Ids)
      BY <1>1
    <3> HIDE DEF Arguments
    <3> QED BY <2>2, <2>3, <3>1
  <2>5. ListingTypeOK' /\ CatalogGrows'
    BY <1>1, <2>4 DEF LInv, ListingTypeOK, CatalogGrows, CatalogType, Present, Parses
  <2>6. client'.at = "refused" /\ client'.got = <<>> /\ Got' = {}
    BY <2>2 DEF Got
  <2> QED BY <1>2, <2>5, <2>6
         DEF LInv, ListingAccepted, GotPresent, RestIsAhead, ExactSoFar, Ascending
<1> QED BY <1>3, <1>4

(* A later page starts at the cursor of its token.                         *)
LEMMA ResumeInv ==
    ASSUME LInv, Resume
    PROVE  LInv'
<1>1. /\ client.at = "listing"
      /\ client' = After(client.q, client.got, ListFrom(catalog, client.q, client.next))
      /\ UNCHANGED <<catalog, start, edits>>
  BY DEF Resume, ResumeReply
<1>2. /\ client.q \in Arguments /\ validate_list_args(client.q) = "ok"
      /\ client.next \in Nat /\ client.got \in Seq(Ids)
      /\ CatalogType(catalog) /\ CatalogType(start) /\ edits \in Nat
      /\ Present(start) \subseteq Present(catalog)
      /\ edits = 0 => catalog = start /\ Parses(catalog)
  BY <1>1 DEF LInv, ListingTypeOK, ListingAccepted, CatalogGrows
<1>3. Got = Entries(client.got)
  BY DEF Got, Entries
<1>4. /\ Got \subseteq Present(catalog)
      /\ Undated(client.q) => \A i \in Present(start) :
             i \in Got \/ Rank(Present(catalog), i) >= client.next
      /\ edits = 0 => /\ Got = {i \in filter_records(catalog, client.q) :
                                  Rank(filter_records(catalog, client.q), i) < client.next}
                      /\ Ascending(client.got, Len(client.got))
  BY <1>1 DEF LInv, GotPresent, RestIsAhead, ExactSoFar, Listed
<1>5. start' = start
  BY <1>1
<1> QED BY <1>1, <1>2, <1>3, <1>4, <1>5, PageTaken

(* An edit adds records, so that those ahead of the cursor stay ahead.     *)
LEMMA EditInv ==
    ASSUME LInv, CatalogType(catalog'),
           \A i \in Standards : catalog[i] # None => catalog'[i] # None,
           edits' \in Nat, edits' = 0 => catalog' = catalog /\ edits = 0,
           UNCHANGED <<client, start>>
    PROVE  LInv'
<1>1. Present(catalog) \subseteq Present(catalog')
  BY DEF Present
<1>2. ListingTypeOK'
  BY DEF LInv, ListingTypeOK, CatalogType
<1>3. CatalogGrows'
  <2>1. Present(start)' = Present(start) /\ Present(catalog)' = Present(catalog')
    BY DEF Present
  <2>2. edits' = 0 => Parses(catalog)'
    BY DEF LInv, CatalogGrows, Parses
  <2> QED BY <1>1, <2>1, <2>2 DEF LInv, CatalogGrows
<1>4. ListingAccepted' /\ Got' = Got
  BY DEF LInv, ListingAccepted, Got
<1>5. GotPresent'
  <2>1. Present(catalog)' = Present(catalog')
    BY DEF Present
  <2> QED BY <1>1, <1>4, <2>1 DEF LInv, GotPresent
<1>6. RestIsAhead'
  <2>1. Present(start)' = Present(start) /\ Present(catalog)' = Present(catalog')
    BY DEF Present
  <2>2. ASSUME client.at = "listing", Undated(client.q), NEW i \in Present(start)
        PROVE  i \in Got \/ Rank(Present(catalog'), i) >= client.next
    <3> SUFFICES ASSUME i \notin Got PROVE Rank(Present(catalog'), i) >= client.next
      OBVIOUS
    <3>1. Rank(Present(catalog), i) >= client.next /\ client.next \in Nat
      BY <2>2 DEF LInv, RestIsAhead, ListingAccepted
    <3>2. /\ Present(catalog) \in SUBSET Ids /\ Present(catalog') \in SUBSET Ids
          /\ i \in Ids
      BY DEF Present
    <3>3. /\ Present(catalog) \in SUBSET Int /\ IsFiniteSet(Present(catalog))
          /\ Present(catalog') \in SUBSET Int /\ IsFiniteSet(Present(catalog')) /\ i \in Int
      BY <3>2, ListsFinite, IdsFinite
    <3>4. Rank(Present(catalog), i) =< Rank(Present(catalog'), i)
      BY <1>1, <3>3, RankGrows
    <3>5. Rank(Present(catalog), i) \in Nat /\ Rank(Present(catalog'), i) \in Nat
      BY <3>3, RankType
    <3> QED BY <3>1, <3>4, <3>5
  <2>3. client.at = "done" /\ Undated(client.q) => Present(start) \subseteq Got
    BY DEF LInv, RestIsAhead
  <2> QED BY <1>4, <2>1, <2>2, <2>3 DEF RestIsAhead, Undated, Rank
<1>7. ExactSoFar'
  <2>1. edits' = 0 => Listed' = Listed
    BY DEF Listed, filter_records, all_records, RecordOf, Loaded
  <2> QED BY <1>4, <2>1 DEF LInv, ExactSoFar, Rank, Ascending
<1> QED BY <1>2, <1>3, <1>4, <1>5, <1>6, <1>7 DEF LInv

(* The invariant holds before a listing, and every step keeps it.          *)
LEMMA InitInv == Init => LInv
<1> SUFFICES ASSUME Init PROVE LInv
  OBVIOUS
<1>1. /\ client = [at |-> "idle", q |-> None, next |-> None, got |-> <<>>, code |-> "ok"]
      /\ start = catalog /\ edits = 0
  BY DEF Init, NoListing
<1>2. CatalogType(catalog) /\ Parses(catalog)
  <2>1. catalog \in [Standards -> {rec \in Record : rec.whole} \cup {None}]
    BY DEF Init
  <2>2. ASSUME NEW i \in Standards
        PROVE  catalog[i] \in Record \cup {None} /\ (catalog[i] # None => catalog[i].whole)
    BY <2>1
  <2>3. catalog \in [Standards -> Record \cup {None}]
    BY <2>1
  <2> QED BY <2>2, <2>3 DEF CatalogType, Parses
<1>3. <<>> \in Seq(Ids) /\ Got = {} /\ Ascending(<<>>, Len(<<>>))
  BY <1>1 DEF Got, Ascending
<1>4. ListingTypeOK
  BY <1>1, <1>2, <1>3 DEF ListingTypeOK, Outcomes
<1> QED BY <1>1, <1>2, <1>3, <1>4
       DEF LInv, CatalogGrows, ListingAccepted, GotPresent, RestIsAhead, ExactSoFar

LEMMA NextInv == LInv /\ [Next]_vars => LInv'
<1> SUFFICES ASSUME LInv, [Next]_vars PROVE LInv'
  OBVIOUS
<1>1. CatalogType(catalog) /\ edits \in Nat
  BY DEF LInv, ListingTypeOK
<1>2. CASE Edit
  <2>1. edits' \in Nat /\ edits' # 0 /\ UNCHANGED <<client, start>>
    BY <1>1, <1>2 DEF Edit
  <2>2. /\ CatalogType(catalog')
        /\ \A i \in Standards : catalog[i] # None => catalog'[i] # None
    BY <1>1, <1>2, CatalogEdits DEF Edit
  <2> QED BY <2>1, <2>2, EditInv
<1>3. CASE Close
  <2>1. /\ CatalogType(catalog')
        /\ \A i \in Standards : catalog[i] # None => catalog'[i] # None
    BY <1>1, <1>3, CatalogEdits DEF Close
  <2>2. edits = 0 => catalog' = catalog
    <3> SUFFICES ASSUME edits = 0 PROVE catalog' = catalog
      OBVIOUS
    <3>1. PICK i \in Standards : catalog[i] # None /\ catalog' = [catalog EXCEPT ![i].whole = TRUE]
      BY <1>3 DEF Close, FinishWriting
    <3>2. catalog[i] \in Record /\ catalog[i].whole
      BY <1>1, <3>1 DEF CatalogType, LInv, CatalogGrows, Parses
    <3>3. [catalog[i] EXCEPT !.whole = TRUE] = catalog[i]
      BY <3>2 DEF Record
    <3> QED BY <1>1, <3>1, <3>3 DEF CatalogType
  <2> QED BY <1>1, <1>3, <2>1, <2>2, EditInv DEF Close
<1>4. CASE UNCHANGED vars
  BY <1>1, <1>4, EditInv DEF vars
<1> QED BY <1>2, <1>3, <1>4, FirstInv, ResumeInv DEF Next

(* The invariant holds in every state.                                     *)
THEOREM Invariance == Spec => []LInv
BY InitInv, NextInv, PTL DEF Spec

-----------------------------------------------------------------------------
(* Theorems.                                                               *)

(* The client's listing and the catalog keep their types.                  *)
THEOREM ListingTypeCorrect == Spec => []ListingTypeOK
<1>1. LInv => ListingTypeOK
  BY DEF LInv
<1> QED BY <1>1, Invariance, PTL

(* Whole days follow stamps.                                               *)
LEMMA DayFollows ==
    ASSUME NEW s \in Nat, NEW t \in Nat
    PROVE  /\ s =< t => Day(s) =< Day(t)
           /\ ~(s =< t) => Day(t) =< Day(s)
BY DEF Day

(* For arguments that were accepted, the server's filter and the meaning   *)
(* of the arguments are the same, as long as no file is being written.     *)
LEMMA FilterIsAsked ==
    ASSUME NEW q \in Arguments, validate_list_args(q) = "ok",
           CatalogType(catalog), Parses(catalog)
    PROVE  filter_records(catalog, q) = {i \in Ids : Asked(catalog, q, i)}
<1>1. /\ q.set \in {None, "ivo_managed"} /\ q.set # "other"
      /\ q.from # None => q.from.kind = "day" /\ q.from.at \in Nat
      /\ q.until # None => q.until.kind \in {"day", "seconds"} /\ q.until.at \in Nat
  <2>1. q.set # "other" /\ validate_from_until(q.from, q.until) = "ok"
    BY DEF validate_list_args
  <2>2. /\ q.set \in {"ivo_managed", "other", None}
        /\ q.from \in Bound \cup {None} /\ q.until \in Bound \cup {None}
    BY DEF Arguments
  <2>3. \A bound \in Bound : bound.kind \in {"day", "seconds", "junk", "impossible"} /\ bound.at \in Nat
    BY DEF Bound
  <2>4. /\ q.from # None => q.from.kind \notin {"seconds", "junk", "impossible"}
        /\ q.until # None => q.until.kind \notin {"junk", "impossible"}
    BY <2>1 DEF validate_from_until, Raises, Unparsed
  <2> QED BY <2>1, <2>2, <2>3, <2>4
<1>2. ASSUME NEW i \in Ids, i \in Standards => catalog[i] # None
      PROVE  RecordOf(catalog, i).stamp \in Nat
  <2>1. CASE i \in Standards
    <3>1. catalog[i] \in Record
      BY <1>2, <2>1 DEF CatalogType
    <3> QED BY <2>1, <3>1, ServerAssumption DEF RecordOf, Record
  <2>2. CASE i \notin Standards
    <3>1. Len(OwnStamps) + 1 + i \in 1..Len(OwnStamps)
      BY <2>2, ServerAssumption DEF Ids, Own
    <3>2. OwnStamps[Len(OwnStamps) + 1 + i] \in Nat
      BY <3>1, ServerAssumption, ElementOfSeq
    <3> QED BY <2>2, <3>2 DEF RecordOf
  <2> QED BY <2>1, <2>2
<1>3. ASSUME NEW i \in Ids, i \in Standards => catalog[i] # None
      PROVE  Asked(catalog, q, i) <=>
                LET rec == RecordOf(catalog, i) IN
                rec.deleted \/ record_in_range(rec.stamp, q.from, q.until)
  <2> DEFINE rec == RecordOf(catalog, i)
  <2>1. rec.stamp \in Nat
    BY <1>2, <1>3
  <2>2. q.until # None /\ q.until.kind = "day" =>
          (Day(rec.stamp) =< Day(q.until.at)
              <=> rec.stamp =< q.until.at \/ Day(rec.stamp) = Day(q.until.at))
    <3> SUFFICES ASSUME q.until.at \in Nat
                 PROVE  Day(rec.stamp) =< Day(q.until.at)
                           <=> rec.stamp =< q.until.at \/ Day(rec.stamp) = Day(q.until.at)
      BY <1>1
    <3>1. Day(rec.stamp) \in Int /\ Day(q.until.at) \in Int
      BY <2>1 DEF Day
    <3>2. /\ rec.stamp =< q.until.at => Day(rec.stamp) =< Day(q.until.at)
          /\ ~(rec.stamp =< q.until.at) => Day(q.until.at) =< Day(rec.stamp)
      BY <2>1, DayFollows
    <3> QED BY <3>1, <3>2
  <2>3. q.from # None => (Day(rec.stamp) >= Day(q.from.at) <=> Day(q.from.at) =< Day(rec.stamp))
    BY <1>1, <2>1 DEF Day
  <2> HIDE DEF rec
  <2>4. record_in_range(rec.stamp, q.from, q.until) <=>
          /\ q.from # None => Day(q.from.at) =< Day(rec.stamp)
          /\ q.until # None =>
                \/ rec.stamp =< q.until.at
                \/ q.until.kind = "day" /\ Day(rec.stamp) = Day(q.until.at)
    BY <1>1, <2>2, <2>3 DEF record_in_range
  <2>5. Asked(catalog, q, i) <=>
          \/ rec.deleted
          \/ /\ q.from # None => Day(q.from.at) =< Day(rec.stamp)
             /\ q.until # None =>
                   \/ rec.stamp =< q.until.at
                   \/ q.until.kind = "day" /\ Day(rec.stamp) = Day(q.until.at)
    BY <1>1, <1>3 DEF Asked, rec
  <2> QED BY <2>4, <2>5 DEF rec
<1>4. all_records(catalog) = Present(catalog)
  BY FilterFacts, ServerAssumption DEF Parses, all_records, Present, Loaded, Ids, Own, Standards
<1>5. filter_records(catalog, q) =
        {i \in Present(catalog) : LET rec == RecordOf(catalog, i) IN
                                  rec.deleted \/ record_in_range(rec.stamp, q.from, q.until)}
  BY <1>1, <1>4 DEF filter_records
<1>6. \A i \in Ids : Asked(catalog, q, i) => (i \in Standards => catalog[i] # None)
  BY DEF Asked
<1>7. Present(catalog) = {i \in Ids : i \in Standards => catalog[i] # None}
  BY DEF Present
<1> HIDE DEF Present
<1> QED BY <1>3, <1>5, <1>6, <1>7

(* Without edits a listing has exactly what was asked for, each record     *)
(* once and in order, for every page size and number of records            *)
(* (server.py 106-125, 161-170, 330-353).                                  *)
THEOREM ListingIsExact == Spec => []ExactListing
<1>1. LInv => ExactListing
  <2> SUFFICES ASSUME LInv, client.at = "done", edits = 0
               PROVE  /\ Got = {i \in Ids : Asked(catalog, client.q, i)}
                      /\ \A m, n \in DOMAIN client.got : m < n => client.got[m] < client.got[n]
    BY DEF ExactListing
  <2>1. Got = Listed /\ Ascending(client.got, Len(client.got))
    BY DEF LInv, ExactSoFar
  <2>2. /\ client.q \in Arguments /\ validate_list_args(client.q) = "ok"
        /\ CatalogType(catalog) /\ Parses(catalog) /\ client.got \in Seq(Ids)
    BY DEF LInv, ListingTypeOK, ListingAccepted, CatalogGrows
  <2>3. Listed = {i \in Ids : Asked(catalog, client.q, i)}
    BY <2>2, FilterIsAsked DEF Listed
  <2>4. DOMAIN client.got = 1..Len(client.got)
    BY <2>2, LenProperties
  <2> QED BY <2>1, <2>3, <2>4 DEF Ascending
<1> QED BY <1>1, Invariance, PTL

(* An undated listing misses nothing that was there when it started, for   *)
(* any number of edits between its pages (resumption.py 11-17, server.py   *)
(* 161-170, standards_store.py 81-83).                                     *)
THEOREM NothingIsMissed == Spec => []NothingMissed
<1>1. LInv => NothingMissed
  BY DEF LInv, RestIsAhead, NothingMissed, Undated, Present
<1> QED BY <1>1, Invariance, PTL

(* What a client was given can be fetched ever after (server.py 194,       *)
(* 426-452).                                                               *)
THEOREM ListedIsFetched == Spec => []ListedCanBeFetched
<1>1. LInv => ListedCanBeFetched
  <2> SUFFICES ASSUME LInv, NEW n \in DOMAIN client.got, NEW prefix, NEW twice
               PROVE  GetRecordReply(catalog, client.got[n], twice, prefix) # "idDoesNotExist"
    BY DEF ListedCanBeFetched
  <2>1. client.got[n] \in Present(catalog)
    BY DEF LInv, GotPresent, Got
  <2>2. Parses(catalog) => client.got[n] \in all_records(catalog)
    BY <2>1 DEF Parses, Present, Ids, all_records, Loaded
  <2> QED BY <2>2 DEF GetRecordReply, Lookup, Served
<1> QED BY <1>1, Invariance, PTL

=============================================================================
