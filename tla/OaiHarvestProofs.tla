-------------------------- MODULE OaiHarvestProofs --------------------------
(***************************************************************************)
(* Proofs about the harvest loop of phase 3, for every limit, every answer *)
(* of a foreign endpoint, and every catalog and edit of the own one.       *)
(***************************************************************************)
EXTENDS OaiHarvest, OaiServerProofs

-----------------------------------------------------------------------------
(* Answers.                                                                *)

(* The records of a page at finitely many places have finitely many ids.   *)
LEMMA FiniteIds ==
    ASSUME NEW recs, NEW N, IsFiniteSet(N)
    PROVE  IsFiniteSet({recs[n].id : n \in N})
<1> DEFINE T == {recs[n].id : n \in N}
           f == [n \in N |-> recs[n].id]
<1>1. f \in Surjection(N, T)
  BY DEF Surjection
<1> QED BY <1>1, FS_Surjection

(* The records of a page are at places 1 to some bound.                    *)
FinitePage(recs) == \E b \in Nat : DOMAIN recs \subseteq 1..b

(* A foreign endpoint's pages are sequences.                               *)
LEMMA ForeignPages ==
    ASSUME NEW reply \in ForeignReplies
    PROVE  FinitePage(reply.recs)
BY HarvestAssumption DEF FinitePage

(* Where the list of a request starts.                                     *)
Cursor(token) == IF token = None THEN 0 ELSE token

(* The own server either has a file that is being written or an active     *)
(* record whose datestamp is no date, and answers with something that is   *)
(* no XML, or gives the page of all its records from the cursor on; it has *)
(* records of its own to give.                                             *)
LEMMA OwnAnswers ==
    ASSUME NEW token \in Nat \cup {None}, NEW reply \in OwnReplies(token)
    PROVE  LET S == Present(catalog)
               upto == Cursor(token) + PageSize
           IN  \/ reply = NoXml /\ ~Listable(catalog)
               \/ /\ ~reply.codes /\ ~reply.garbled
                  /\ FinitePage(reply.recs) /\ \E b \in Nat : DOMAIN reply.recs = 1..b
                  /\ \A n \in DOMAIN reply.recs : reply.recs[n].kind # "empty"
                  /\ \A i \in S : Cursor(token) =< Rank(S, i) /\ Rank(S, i) < upto =>
                        \E n \in DOMAIN reply.recs :
                            /\ reply.recs[n].id = i
                            /\ ~RecordOf(catalog, i).deleted => reply.recs[n].kind = "full"
                  /\ \/ reply.token = None /\ Cardinality(S) =< upto
                     \/ reply.token = upto /\ reply.token \in Nat /\ reply.token # None
<1> DEFINE S == Present(catalog)
           c == Cursor(token)
           upto == c + PageSize
           page == ListFrom(catalog, HarvestQuery, c)
           KindOf(i) == IF RecordOf(catalog, i).deleted THEN "deleted" ELSE "full"
           recs == [n \in DOMAIN page.page |-> [id |-> page.page[n], kind |-> KindOf(page.page[n])]]
<1>1. c \in Nat
  BY DEF Cursor
<1>2. validate_list_args(HarvestQuery) = "ok"
  BY NoneAssumption DEF validate_list_args, validate_from_until, HarvestQuery, Raises, Unparsed
<1>3. reply = IF page.code = "raise" THEN NoXml
              ELSE IF page.code # "ok" THEN OaiError
              ELSE Page(recs, page.next)
  BY <1>2 DEF OwnReplies, ListReply, ResumeReply, Cursor
<1>4. Parses(catalog) => filter_records(catalog, HarvestQuery) = S
  BY FilterFacts DEF HarvestQuery
<1>5. S # {}
  <2>1. 0 - 1 \in Own /\ 0 - 1 \notin Standards
    BY ServerAssumption, EmptySeq DEF Own, Standards
  <2> QED BY <2>1 DEF Present, Ids
<1>6. /\ page.code = "raise" <=> ~Listable(catalog)
      /\ page.code \in {"ok", "raise"}
      /\ page.code = "ok" =>
            /\ page.page \in Seq(S)
            /\ Entries(page.page) = {i \in S : c =< Rank(S, i) /\ Rank(S, i) < upto}
            /\ \/ page.next = None /\ Cardinality(S) =< upto
               \/ page.next = upto /\ page.next \in Nat /\ page.next # None
  BY <1>1, <1>4, <1>5, ListFromFacts DEF Listable
<1>7. CASE page.code = "raise"
  BY <1>3, <1>6, <1>7
<1>8. CASE page.code = "ok"
  <2>1. reply = [codes |-> FALSE, garbled |-> FALSE, recs |-> recs, token |-> page.next]
    BY <1>3, <1>8 DEF Page
  <2>2. PICK b \in Nat : DOMAIN page.page = 1..b
    BY <1>6, <1>8, LenProperties
  <2>3. /\ DOMAIN recs = 1..b
        /\ \A n \in 1..b : recs[n].id = page.page[n] /\ recs[n].kind = KindOf(page.page[n])
    BY <2>2
  <2>4. FinitePage(recs)
    BY <2>3 DEF FinitePage
  <2>5. \A n \in DOMAIN recs : recs[n].kind # "empty"
    BY <2>3
  <2>6. ASSUME NEW i \in S, c =< Rank(S, i), Rank(S, i) < upto
        PROVE  \E n \in DOMAIN recs :
                   recs[n].id = i /\ (~RecordOf(catalog, i).deleted => recs[n].kind = "full")
    <3>1. i \in Entries(page.page)
      <4> HIDE DEF S, c, upto, page
      <4> QED BY <1>6, <1>8, <2>6
    <3>2. PICK n \in 1..b : page.page[n] = i
      BY <2>2, <3>1 DEF Entries
    <3> QED BY <2>3, <3>2
  <2>7. /\ ~reply.codes /\ ~reply.garbled /\ reply.recs = recs /\ reply.token = page.next
    BY <2>1
  <2> HIDE DEF recs, page
  <2> QED BY <1>6, <1>8, <2>3, <2>4, <2>5, <2>6, <2>7
<1> HIDE DEF page
<1> QED BY <1>6, <1>7, <1>8

(* So a page of the own server has finitely many records, and its token is *)
(* a cursor, however the catalog looks.                                    *)
LEMMA OwnPages ==
    ASSUME NEW token \in Nat \cup {None}, NEW reply \in OwnReplies(token)
    PROVE  FinitePage(reply.recs) /\ reply.token \in Nat \cup {None}
<1>1. FinitePage(NoXml.recs) /\ NoXml.token = None
  <2>1. DOMAIN NoXml.recs \subseteq 1..0
    BY DEF NoXml
  <2> QED BY <2>1 DEF FinitePage, NoXml
<1> QED BY <1>1, OwnAnswers

-----------------------------------------------------------------------------
(* The invariant.                                                          *)

(* A harvest has these fields.                                             *)
Fields(h) ==
    h = [at |-> h.at, endpoint |-> h.endpoint, mode |-> h.mode, limit |-> h.limit,
         token |-> h.token, pages |-> h.pages, collected |-> h.collected,
         failures |-> h.failures, skipped |-> h.skipped, report |-> h.report]

(* What holds of a harvest at every point of the loop.                     *)
GoodHarvest(h) ==
    /\ Fields(h)
    /\ h.limit \in Nat /\ h.failures \in Nat /\ h.skipped \in BOOLEAN
    /\ IsFiniteSet(h.collected) /\ Cardinality(h.collected) =< h.limit
    /\ h.skipped => h.failures > 0
    /\ h.endpoint = "own" => h.token \in Nat \cup {None}

(* The report counts each document once, and a pipeline's report each      *)
(* failure of the harvest as well.                                         *)
GoodReport(h) ==
    h.at = "done" =>
        \E bad \in 0..Cardinality(h.collected) : h.report = Report(h, bad)

(* The inductive invariant.                                                *)
HInv == GoodHarvest(harvest) /\ GoodReport(harvest)

(* The loop looks at the limit before each record, so that the records it  *)
(* takes of a page keep it: all that were taken before the last one were   *)
(* fewer than the limit.                                                   *)
LEMMA CollectKeepsLimit ==
    ASSUME NEW h, GoodHarvest(h), NEW recs, FinitePage(recs)
    PROVE  LET new == {recs[n].id : n \in {m \in Reached(h, recs) : recs[m].kind = "full"}}
           IN  /\ IsFiniteSet(h.collected \cup new)
               /\ Cardinality(h.collected \cup new) =< h.limit
<1> DEFINE F == {m \in Reached(h, recs) : recs[m].kind = "full"}
           new == {recs[n].id : n \in F}
<1>1. PICK b \in Nat : DOMAIN recs \subseteq 1..b
  BY DEF FinitePage
<1>2. IsFiniteSet(F) /\ F \in SUBSET Nat
  <2>1. IsFiniteSet(1..b)
    <3>1. 1 \in Int /\ b \in Int
      OBVIOUS
    <3> QED BY <3>1, FS_Interval
  <2>2. F \in SUBSET (1..b)
    BY <1>1 DEF Reached
  <2> QED BY <2>1, <2>2, FS_Subset
<1>3. CASE F = {}
  <2>1. new = {}
    BY <1>3
  <2> QED BY <2>1 DEF GoodHarvest
<1>4. CASE F # {}
  <2>1. PICK n \in F : \A m \in F : m =< n
    BY <1>2, <1>4, GreatestExists
  <2> DEFINE P == {k \in 1..n - 1 : recs[k].kind = "full"}
             before == h.collected \cup {recs[m].id : m \in P}
  <2>2. before = Before(h.collected, recs, n) /\ Cardinality(before) < h.limit
    BY DEF Before, Reached
  <2>3. n \in Nat
    BY <1>2
  <2>4. IsFiniteSet(P)
    <3>1. IsFiniteSet(1..n - 1) /\ P \in SUBSET (1..n - 1)
      BY <2>3, FS_Interval
    <3> QED BY <3>1, FS_Subset
  <2>5. IsFiniteSet({recs[m].id : m \in P})
    BY <2>4, FiniteIds
  <2>6. IsFiniteSet(before)
    BY <2>5, FS_Union DEF GoodHarvest
  <2>7. h.collected \cup new \subseteq before \cup {recs[n].id}
    <3>1. \A m \in F : m = n \/ m \in P
      BY <1>1, <1>2, <2>1, <2>3 DEF Reached
    <3> QED BY <3>1
  <2> HIDE DEF before, new
  <2>8. IsFiniteSet(before \cup {recs[n].id})
        /\ Cardinality(before \cup {recs[n].id}) =< h.limit
    <3>1. /\ IsFiniteSet(before \cup {recs[n].id})
          /\ \/ Cardinality(before \cup {recs[n].id}) = Cardinality(before)
             \/ Cardinality(before \cup {recs[n].id}) = Cardinality(before) + 1
      BY <2>6, FS_AddElement
    <3>2. Cardinality(before) \in Nat
      BY <2>6, FS_CardinalityType
    <3>3. h.limit \in Nat
      BY DEF GoodHarvest
    <3> QED BY <2>2, <3>1, <3>2, <3>3
  <2>9. /\ IsFiniteSet(h.collected \cup new)
        /\ Cardinality(h.collected \cup new) =< Cardinality(before \cup {recs[n].id})
    BY <2>7, <2>8, FS_Subset
  <2>10. IsFiniteSet(h.collected \cup new) /\ Cardinality(h.collected \cup new) =< h.limit
    BY <2>8, <2>9, FS_CardinalityType DEF GoodHarvest
  <2> QED BY <2>10 DEF new
<1> QED BY <1>3, <1>4

(* Taking the records of a page leaves a good harvest.                     *)
LEMMA CollectGood ==
    ASSUME NEW h, GoodHarvest(h), NEW recs, FinitePage(recs), NEW token,
           h.endpoint = "own" => token \in Nat \cup {None}
    PROVE  LET g == [Collect(h, recs) EXCEPT !.token = token]
           IN  GoodHarvest(g) /\ g.at = h.at /\ g.mode = h.mode
<1> DEFINE reached == Reached(h, recs)
           empty == {n \in reached : recs[n].kind = "empty"}
           new == {recs[n].id : n \in {m \in reached : recs[m].kind = "full"}}
           g == [Collect(h, recs) EXCEPT !.token = token]
<1>1. IsFiniteSet(empty)
  <2>1. PICK b \in Nat : DOMAIN recs \subseteq 1..b
    BY DEF FinitePage
  <2>2. IsFiniteSet(1..b) /\ empty \in SUBSET (1..b)
    BY <2>1, FS_Interval DEF Reached
  <2> QED BY <2>2, FS_Subset
<1>2. Cardinality(empty) \in Nat /\ (empty # {} => Cardinality(empty) > 0)
  BY <1>1, FS_CardinalityType, FS_EmptySet
<1>3. IsFiniteSet(h.collected \cup new) /\ Cardinality(h.collected \cup new) =< h.limit
  BY CollectKeepsLimit
<1>4. g = [h EXCEPT !.collected = h.collected \cup new,
                    !.failures = h.failures + Cardinality(empty),
                    !.skipped = h.skipped \/ empty # {},
                    !.token = token]
  BY DEF Collect, GoodHarvest, Fields
<1> HIDE DEF empty, new, g
<1>5. g = [at |-> h.at, endpoint |-> h.endpoint, mode |-> h.mode, limit |-> h.limit,
           token |-> token, pages |-> h.pages, collected |-> h.collected \cup new,
           failures |-> h.failures + Cardinality(empty),
           skipped |-> (h.skipped \/ empty # {}), report |-> h.report]
  BY <1>4 DEF GoodHarvest, Fields
<1>6. GoodHarvest(g) /\ g.at = h.at /\ g.mode = h.mode
  BY <1>2, <1>3, <1>5 DEF GoodHarvest, Fields
<1> QED BY <1>6 DEF g

(* Noting a failure leaves a good harvest.                                 *)
LEMMA RefusedGood ==
    ASSUME NEW h, GoodHarvest(h)
    PROVE  GoodHarvest([h EXCEPT !.failures = @ + 1, !.skipped = TRUE])
<1> DEFINE g == [h EXCEPT !.failures = h.failures + 1, !.skipped = TRUE]
<1>1. g = [h EXCEPT !.failures = h.failures + 1, !.skipped = TRUE]
  OBVIOUS
<1> HIDE DEF g
<1>2. g = [at |-> h.at, endpoint |-> h.endpoint, mode |-> h.mode, limit |-> h.limit,
           token |-> h.token, pages |-> h.pages, collected |-> h.collected,
           failures |-> h.failures + 1, skipped |-> TRUE, report |-> h.report]
  BY <1>1 DEF GoodHarvest, Fields
<1>3. GoodHarvest(g)
  BY <1>2 DEF GoodHarvest, Fields
<1> QED BY <1>3 DEF g

(* The report of a finished harvest counts as it should.                   *)
LEMMA FinishedGood ==
    ASSUME NEW h, GoodHarvest(h), NEW g \in Finished(h)
    PROVE  GoodHarvest(g) /\ GoodReport(g)
<1>1. PICK bad \in 0..Cardinality(h.collected) :
        g = [h EXCEPT !.at = "done", !.token = None, !.report = Report(h, bad)]
  BY DEF Finished
<1>2. g = [at |-> "done", endpoint |-> h.endpoint, mode |-> h.mode, limit |-> h.limit,
           token |-> None, pages |-> h.pages, collected |-> h.collected,
           failures |-> h.failures, skipped |-> h.skipped, report |-> Report(h, bad)]
  BY <1>1 DEF GoodHarvest, Fields
<1>3. GoodHarvest(g)
  BY <1>2 DEF GoodHarvest, Fields
<1>4. g.collected = h.collected /\ g.report = Report(h, bad) /\ Report(h, bad) = Report(g, bad)
  BY <1>2 DEF Report
<1> QED BY <1>3, <1>4 DEF GoodReport

-----------------------------------------------------------------------------
(* Each step keeps the invariant.                                          *)

(* A page, a refusal and the end of the loop.                              *)
LEMMA FetchInv ==
    ASSUME HInv, NEW reply, FetchPage(reply), FinitePage(reply.recs),
           harvest.endpoint = "own" => reply.token \in Nat \cup {None}
    PROVE  HInv'
<1> DEFINE h == [harvest EXCEPT !.pages = IF harvest.endpoint = "foreign" THEN @ + 1 ELSE 0]
           refused == [h EXCEPT !.failures = @ + 1, !.skipped = TRUE]
           taken == [Collect(h, reply.recs) EXCEPT !.token = reply.token]
<1>1. /\ GoodHarvest(h)
      /\ h.at = "harvesting" /\ h.endpoint = harvest.endpoint
  BY DEF HInv, GoodHarvest, Fields, FetchPage
<1> HIDE DEF h
<1>2. GoodHarvest(refused)
  BY <1>1, RefusedGood
<1>3. GoodHarvest(taken) /\ taken.at = "harvesting"
  BY <1>1, CollectGood
<1>4. \/ harvest' \in Finished(refused)
      \/ harvest' = taken
      \/ harvest' \in Finished(taken)
  BY DEF FetchPage, h
<1> HIDE DEF refused, taken
<1>5. GoodHarvest(harvest') /\ GoodReport(harvest')
  BY <1>2, <1>3, <1>4, FinishedGood DEF GoodReport
<1> QED BY <1>5 DEF HInv, GoodHarvest, GoodReport, Fields, Report

(* So does every other step.                                               *)
LEMMA NextInv == HInv /\ [Next]_vars => HInv'
<1> SUFFICES ASSUME HInv, [Next]_vars PROVE HInv'
  OBVIOUS
<1>1. ASSUME NEW endpoint \in {"own", "foreign"}, NEW mode \in {"pipeline", "validatevor"},
             NEW limit \in Limits, Start(endpoint, mode, limit)
      PROVE  HInv'
  <2>1. harvest' = [at |-> "harvesting", endpoint |-> endpoint, mode |-> mode, limit |-> limit,
                    token |-> None, pages |-> 0, collected |-> {}, failures |-> 0,
                    skipped |-> FALSE, report |-> None]
    BY <1>1 DEF Start, NoHarvest
  <2>2. limit \in Nat
    BY HarvestAssumption
  <2> QED BY <2>1, <2>2, FS_EmptySet DEF HInv, GoodHarvest, GoodReport, Fields
<1>2. CASE Fetch
  <2>1. ASSUME harvest.endpoint = "own", NEW reply \in OwnReplies(harvest.token), FetchPage(reply)
        PROVE  HInv'
    <3>1. harvest.token \in Nat \cup {None}
      BY <2>1 DEF HInv, GoodHarvest
    <3> QED BY <2>1, <3>1, OwnPages, FetchInv
  <2>2. ASSUME NEW reply \in ForeignReplies, harvest.endpoint = "foreign", FetchPage(reply)
        PROVE  HInv'
    BY <2>2, ForeignPages, FetchInv
  <2> QED BY <1>2, <2>1, <2>2 DEF Fetch
<1>3. CASE RequestRaises
  <2>1. harvest' = [at |-> "failed", endpoint |-> None, mode |-> None, limit |-> 0,
                    token |-> None, pages |-> 0, collected |-> {}, failures |-> 0,
                    skipped |-> FALSE, report |-> None]
    BY <1>3 DEF RequestRaises, NoHarvest
  <2> QED BY <2>1, FS_EmptySet DEF HInv, GoodHarvest, GoodReport, Fields
<1>4. CASE Edit \/ Close \/ UNCHANGED vars
  BY <1>4 DEF Edit, Close, vars, HInv, GoodHarvest, GoodReport, Fields, Report
<1> QED BY <1>1, <1>2, <1>3, <1>4 DEF Next

(* A server that has harvested nothing yet is fine.                        *)
LEMMA InitInv == Init => HInv
<1> SUFFICES ASSUME Init PROVE HInv
  OBVIOUS
<1>1. harvest = [at |-> "idle", endpoint |-> None, mode |-> None, limit |-> 0,
                 token |-> None, pages |-> 0, collected |-> {}, failures |-> 0,
                 skipped |-> FALSE, report |-> None]
  BY DEF Init, NoHarvest
<1> QED BY <1>1, FS_EmptySet DEF HInv, GoodHarvest, GoodReport, Fields

(* The invariant holds in every state.                                     *)
THEOREM Invariance == Spec => []HInv
BY InitInv, NextInv, PTL DEF Spec

-----------------------------------------------------------------------------
(* Theorems.                                                               *)

(* Phase 3 never collects more documents than its limit, whatever number   *)
(* of records a page has and whatever an endpoint answers, and its report  *)
(* counts each of them (phase3.py 81, 100-101, 134-175).                   *)
THEOREM LimitAlwaysKept == Spec => []LimitKept
<1>1. HInv => LimitKept
  <2> SUFFICES ASSUME HInv PROVE LimitKept
    OBVIOUS
  <2>1. Cardinality(harvest.collected) =< harvest.limit
    BY DEF HInv, GoodHarvest
  <2>2. ASSUME Done
        PROVE  /\ harvest.report.npass =< Cardinality(harvest.collected)
               /\ Cardinality(harvest.collected) =< harvest.report.npass + harvest.report.nfail
    <3>1. PICK bad \in 0..Cardinality(harvest.collected) : harvest.report = Report(harvest, bad)
      BY <2>2 DEF HInv, GoodReport, Done
    <3>2. Cardinality(harvest.collected) \in Nat /\ harvest.failures \in Nat
      BY FS_CardinalityType DEF HInv, GoodHarvest
    <3> QED BY <3>1, <3>2 DEF Report
  <2> QED BY <2>1, <2>2 DEF LimitKept
<1> QED BY <1>1, Invariance, PTL

(* A pipeline whose harvest met an error on any of its pages, or skipped a *)
(* record, reports a failure (phase3.py 88-97, 111-113, harvest_runner.py  *)
(* 103).                                                                   *)
THEOREM TroubleAlwaysReported == Spec => []TroubleIsReported
<1>1. HInv => TroubleIsReported
  <2> SUFFICES ASSUME HInv, Done, harvest.mode = "pipeline", harvest.skipped
               PROVE  harvest.report.nfail > 0
    BY DEF TroubleIsReported
  <2>1. PICK bad \in 0..Cardinality(harvest.collected) : harvest.report = Report(harvest, bad)
    BY DEF HInv, GoodReport, Done
  <2>2. Cardinality(harvest.collected) \in Nat /\ harvest.failures \in Nat /\ harvest.failures > 0
    BY FS_CardinalityType DEF HInv, GoodHarvest
  <2> QED BY <2>1, <2>2 DEF Report
<1> QED BY <1>1, Invariance, PTL

-----------------------------------------------------------------------------
(* The harvest of the own registry.                                        *)

(* The records that were active all along.                                 *)
Steady == {i \in Ids : i \notin Standards \/ (start[i] # None /\ ~catalog[i].deleted)}

Below(token, collected) ==
    \A i \in Steady : i \in collected \/ Rank(Present(catalog), i) >= Cursor(token)

(* While it is under way it has noted no failure, and what it has not      *)
(* collected is ahead of its token; at its end, see OwnHarvestComplete.    *)
OwnInv ==
    /\ CatalogType(catalog) /\ CatalogType(start)
    /\ \A i \in Standards : start[i] # None => catalog[i] # None
    /\ harvest.endpoint = "own" /\ harvest.at = "harvesting" =>
          harvest.failures = 0 /\ Below(harvest.token, harvest.collected)
    /\ harvest.endpoint = "own" /\ harvest.at = "done" =>
          /\ harvest.failures > 0 => ~Listable(catalog)
          /\ \/ harvest.failures > 0
             \/ Cardinality(harvest.collected) = harvest.limit
             \/ Steady \subseteq harvest.collected

(* If the limit is not reached by the end of a page, every record of the   *)
(* page was looked at: before the first one that was not, there would have *)
(* been fewer than the limit.                                              *)
LEMMA AllReached ==
    ASSUME NEW h, GoodHarvest(h), NEW recs, NEW b \in Nat, DOMAIN recs = 1..b,
           LET new == {recs[n].id : n \in {m \in Reached(h, recs) : recs[m].kind = "full"}}
           IN  Cardinality(h.collected \cup new) < h.limit
    PROVE  Reached(h, recs) = DOMAIN recs
<1> DEFINE new == {recs[n].id : n \in {m \in Reached(h, recs) : recs[m].kind = "full"}}
           U == (1..b) \ Reached(h, recs)
<1>1. SUFFICES ASSUME U # {} PROVE FALSE
  BY DEF Reached
<1>2. PICK n \in U : \A m \in U : n =< m
  <2>1. U \in SUBSET Nat
    OBVIOUS
  <2> HIDE DEF U
  <2> QED BY <1>1, <2>1, LeastExists
<1>3. \A k \in 1..n - 1 : k \in Reached(h, recs)
  <2> SUFFICES ASSUME NEW k \in 1..n - 1 PROVE k \in Reached(h, recs)
    OBVIOUS
  <2>1. n \in 1..b /\ k \in 1..b /\ ~(n =< k)
    OBVIOUS
  <2> QED BY <1>2, <2>1
<1>4. Before(h.collected, recs, n) \subseteq h.collected \cup new
  BY <1>3 DEF Before
<1>5. /\ IsFiniteSet(h.collected \cup new) /\ Cardinality(h.collected \cup new) < h.limit
  <2>1. FinitePage(recs)
    BY DEF FinitePage
  <2> QED BY <2>1, CollectKeepsLimit
<1>6. /\ IsFiniteSet(Before(h.collected, recs, n))
      /\ Cardinality(Before(h.collected, recs, n)) =< Cardinality(h.collected \cup new)
  <2> HIDE DEF new
  <2> QED BY <1>4, <1>5, FS_Subset
<1>7. Cardinality(Before(h.collected, recs, n)) < h.limit
  <2>1. /\ Cardinality(Before(h.collected, recs, n)) \in Nat
        /\ Cardinality(h.collected \cup new) \in Nat /\ h.limit \in Nat
    <3> HIDE DEF new
    <3> QED BY <1>5, <1>6, FS_CardinalityType DEF GoodHarvest
  <2> HIDE DEF new
  <2> QED BY <1>5, <1>6, <2>1
<1> QED BY <1>7 DEF Reached

(* The fields of a harvest that has taken a page without an empty record.  *)
LEMMA TakenFields ==
    ASSUME NEW h, GoodHarvest(h), NEW recs, NEW token,
           \A n \in DOMAIN recs : recs[n].kind # "empty"
    PROVE  LET g == [Collect(h, recs) EXCEPT !.token = token]
           IN  /\ g.at = h.at /\ g.endpoint = h.endpoint /\ g.limit = h.limit
               /\ g.token = token /\ g.failures = h.failures
               /\ g.collected = h.collected \cup
                     {recs[n].id : n \in {m \in Reached(h, recs) : recs[m].kind = "full"}}
<1> DEFINE empty == {n \in Reached(h, recs) : recs[n].kind = "empty"}
           new == {recs[n].id : n \in {m \in Reached(h, recs) : recs[m].kind = "full"}}
           g == [Collect(h, recs) EXCEPT !.token = token]
<1>1. empty = {} /\ Cardinality(empty) = 0
  <2>1. empty = {}
    BY DEF Reached
  <2> QED BY <2>1, FS_EmptySet
<1>2. g = [h EXCEPT !.collected = h.collected \cup new,
                    !.failures = h.failures + Cardinality(empty),
                    !.skipped = h.skipped \/ empty # {},
                    !.token = token]
  BY DEF Collect, GoodHarvest, Fields
<1> HIDE DEF empty, new, g
<1>3. g = [at |-> h.at, endpoint |-> h.endpoint, mode |-> h.mode, limit |-> h.limit,
           token |-> token, pages |-> h.pages, collected |-> h.collected \cup new,
           failures |-> h.failures + Cardinality(empty),
           skipped |-> (h.skipped \/ empty # {}), report |-> h.report]
  BY <1>2 DEF GoodHarvest, Fields
<1>4. h.failures + Cardinality(empty) = h.failures
  BY <1>1 DEF GoodHarvest
<1>5. /\ g.at = h.at /\ g.endpoint = h.endpoint /\ g.limit = h.limit
      /\ g.token = token /\ g.failures = h.failures
      /\ g.collected = h.collected \cup new
  BY <1>3, <1>4
<1> QED BY <1>5 DEF g, new

(* Ending a harvest changes none of these fields but at and token.         *)
LEMMA FinishedFields ==
    ASSUME NEW h, GoodHarvest(h), NEW g \in Finished(h)
    PROVE  /\ g.at = "done" /\ g.endpoint = h.endpoint /\ g.limit = h.limit
           /\ g.failures = h.failures /\ g.collected = h.collected
<1>1. PICK bad \in 0..Cardinality(h.collected) :
        g = [h EXCEPT !.at = "done", !.token = None, !.report = Report(h, bad)]
  BY DEF Finished
<1> QED BY <1>1 DEF GoodHarvest, Fields

(* A page of the own registry.                                             *)
LEMMA OwnFetchInv ==
    ASSUME HInv, OwnInv, harvest.endpoint = "own",
           NEW reply \in OwnReplies(harvest.token), FetchPage(reply)
    PROVE  OwnInv'
<1> DEFINE h == [harvest EXCEPT !.pages = IF harvest.endpoint = "foreign" THEN @ + 1 ELSE 0]
           refused == [h EXCEPT !.failures = @ + 1, !.skipped = TRUE]
           taken == [Collect(h, reply.recs) EXCEPT !.token = reply.token]
           S == Present(catalog)
           c == Cursor(harvest.token)
           upto == c + PageSize
           new == {reply.recs[n].id :
                      n \in {m \in Reached(h, reply.recs) : reply.recs[m].kind = "full"}}
<1>1. /\ harvest.at = "harvesting" /\ UNCHANGED <<catalog, start>>
      /\ harvest.token \in Nat \cup {None} /\ harvest.failures = 0
      /\ Below(harvest.token, harvest.collected)
      /\ CatalogType(catalog) /\ CatalogType(start)
      /\ \A i \in Standards : start[i] # None => catalog[i] # None
  BY DEF FetchPage, HInv, GoodHarvest, OwnInv
<1>2. /\ GoodHarvest(h) /\ h.at = "harvesting" /\ h.endpoint = "own"
      /\ h.failures = 0 /\ h.limit = harvest.limit /\ h.collected = harvest.collected
  BY <1>1 DEF HInv, GoodHarvest, Fields
<1>3. IF reply.codes \/ reply.garbled THEN harvest' \in Finished(refused)
      ELSE IF reply.token # None /\ Cardinality(taken.collected) < h.limit THEN harvest' = taken
      ELSE harvest' \in Finished(taken)
  BY DEF FetchPage
<1> HIDE DEF h
<1>4. Steady' = Steady /\ Present(catalog)' = S
      /\ CatalogType(catalog)' /\ CatalogType(start)'
      /\ (\A i \in Standards : start[i] # None => catalog[i] # None)'
  BY <1>1 DEF Steady, Present, CatalogType
<1>5. CASE reply = NoXml /\ ~Listable(catalog)
  <2>1. harvest' \in Finished(refused)
    BY <1>3, <1>5 DEF NoXml
  <2>2. GoodHarvest(refused) /\ refused.failures = 1 /\ refused.endpoint = "own"
    <3>1. GoodHarvest(refused)
      BY <1>2, RefusedGood
    <3>2. refused.failures = h.failures + 1 /\ refused.endpoint = h.endpoint
      BY <1>2 DEF GoodHarvest, Fields
    <3> QED BY <1>2, <3>1, <3>2
  <2> HIDE DEF refused
  <2>3. harvest'.at = "done" /\ harvest'.failures = 1
    BY <2>1, <2>2, FinishedFields
  <2>4. ~Listable(catalog)'
    BY <1>1, <1>5 DEF Listable, Parses, Datable
  <2> QED BY <1>4, <2>3, <2>4 DEF OwnInv
<1>6. CASE /\ ~reply.codes /\ ~reply.garbled
           /\ FinitePage(reply.recs) /\ \E b \in Nat : DOMAIN reply.recs = 1..b
           /\ \A n \in DOMAIN reply.recs : reply.recs[n].kind # "empty"
           /\ \A i \in S : c =< Rank(S, i) /\ Rank(S, i) < upto =>
                 \E n \in DOMAIN reply.recs :
                     /\ reply.recs[n].id = i
                     /\ ~RecordOf(catalog, i).deleted => reply.recs[n].kind = "full"
           /\ \/ reply.token = None /\ Cardinality(S) =< upto
              \/ reply.token = upto /\ reply.token \in Nat /\ reply.token # None
  <2>1. /\ taken.at = "harvesting" /\ taken.endpoint = "own" /\ taken.limit = h.limit
        /\ taken.token = reply.token /\ taken.failures = 0
        /\ taken.collected = h.collected \cup new
    BY <1>2, <1>6, TakenFields
  <2>2. GoodHarvest(taken)
    BY <1>2, <1>6, CollectGood
  <2> HIDE DEF taken
  <2>3. \/ /\ harvest' = taken /\ reply.token # None
           /\ Cardinality(taken.collected) < h.limit
        \/ /\ harvest' \in Finished(taken)
           /\ reply.token = None \/ ~(Cardinality(taken.collected) < h.limit)
    BY <1>3, <1>6
  <2>4. Cardinality(taken.collected) \in Nat /\ Cardinality(taken.collected) =< h.limit
        /\ h.limit \in Nat
    BY <2>1, <2>2, FS_CardinalityType DEF GoodHarvest
  <2>5. Steady \subseteq S /\ S \in SUBSET Int /\ IsFiniteSet(S)
    <3>1. S \in SUBSET Ids
      BY DEF Present
    <3>2. Steady \subseteq S
      BY <1>1 DEF Steady, Present
    <3> HIDE DEF S
    <3> QED BY <3>1, <3>2, ListsFinite
  <2>6. ASSUME Cardinality(taken.collected) < h.limit, NEW i \in Steady
        PROVE  i \in taken.collected \/ Rank(S, i) >= upto
    <3>1. i \in S /\ Rank(S, i) \in Nat /\ upto \in Nat /\ c \in Nat
      <4>1. i \in S
        BY <2>5
      <4>2. Rank(S, i) \in Nat
        <5> HIDE DEF S
        <5> QED BY <2>5, <4>1, RankType
      <4>3. upto \in Nat /\ c \in Nat
        BY <1>1, ServerAssumption DEF Cursor
      <4> QED BY <4>1, <4>2, <4>3
    <3>2. CASE i \in harvest.collected
      BY <1>2, <2>1, <3>2
    <3>3. CASE i \notin harvest.collected
      <4>1. Rank(S, i) >= c
        BY <1>1, <3>3 DEF Below
      <4>2. SUFFICES ASSUME Rank(S, i) < upto PROVE i \in taken.collected
        <5> HIDE DEF S, upto
        <5> QED BY <3>1
      <4>3. PICK n \in DOMAIN reply.recs :
               /\ reply.recs[n].id = i
               /\ ~RecordOf(catalog, i).deleted => reply.recs[n].kind = "full"
        <5> HIDE DEF S, c, upto
        <5> QED BY <1>6, <3>1, <4>1, <4>2
      <4>4. ~RecordOf(catalog, i).deleted
        BY DEF Steady, RecordOf
      <4>5. n \in Reached(h, reply.recs)
        <5>1. PICK b \in Nat : DOMAIN reply.recs = 1..b
          BY <1>6
        <5>2. Cardinality(h.collected \cup new) < h.limit
          BY <2>1, <2>6
        <5> QED BY <1>2, <5>1, <5>2, AllReached
      <4> QED BY <2>1, <4>3, <4>4, <4>5
    <3> QED BY <3>2, <3>3
  <2>7. CASE harvest' = taken
    <3>1. reply.token = upto /\ reply.token # None /\ Cardinality(taken.collected) < h.limit
      <4>1. harvest' \notin Finished(taken)
        BY <2>1, <2>2, <2>7, FinishedFields
      <4> QED BY <1>6, <2>3, <4>1
    <3>2. \A i \in Steady : i \in taken.collected \/ Rank(S, i) >= Cursor(taken.token)
      BY <2>1, <2>6, <3>1 DEF Cursor
    <3>3. Below(harvest.token, harvest.collected)'
      BY <1>4, <2>7, <3>2 DEF Below, Cursor, Rank
    <3>4. harvest'.at = "harvesting" /\ harvest'.failures = 0
      BY <2>1, <2>7
    <3> QED BY <1>4, <3>3, <3>4 DEF OwnInv
  <2>8. CASE harvest' \in Finished(taken)
    <3>1. /\ harvest'.at = "done" /\ harvest'.failures = 0
          /\ harvest'.limit = h.limit /\ harvest'.collected = taken.collected
      BY <2>1, <2>2, <2>8, FinishedFields
    <3>2. Cardinality(taken.collected) # h.limit => Steady \subseteq taken.collected
      <4> SUFFICES ASSUME Cardinality(taken.collected) < h.limit, NEW i \in Steady
                   PROVE  i \in taken.collected
        BY <2>4
      <4>1. reply.token = None
        <5>1. harvest' # taken
          BY <2>1, <3>1
        <5> QED BY <2>3, <5>1
      <4>2. Cardinality(S) =< upto
        BY <1>6, <4>1
      <4>3. Rank(S, i) < Cardinality(S) /\ Rank(S, i) \in Nat /\ Cardinality(S) \in Nat
        <5> HIDE DEF S
        <5> QED BY <2>5, RankType, FS_CardinalityType
      <4>4. upto \in Nat
        BY <1>1, ServerAssumption DEF Cursor
      <4> HIDE DEF S, upto
      <4> QED BY <2>6, <4>2, <4>3, <4>4
    <3> QED BY <1>4, <3>1, <3>2 DEF OwnInv
  <2> QED BY <2>3, <2>7, <2>8
<1>7. \/ reply = NoXml /\ ~Listable(catalog)
      \/ /\ ~reply.codes /\ ~reply.garbled
         /\ FinitePage(reply.recs) /\ \E b \in Nat : DOMAIN reply.recs = 1..b
         /\ \A n \in DOMAIN reply.recs : reply.recs[n].kind # "empty"
         /\ \A i \in S : c =< Rank(S, i) /\ Rank(S, i) < upto =>
               \E n \in DOMAIN reply.recs :
                   /\ reply.recs[n].id = i
                   /\ ~RecordOf(catalog, i).deleted => reply.recs[n].kind = "full"
         /\ \/ reply.token = None /\ Cardinality(S) =< upto
            \/ reply.token = upto /\ reply.token \in Nat /\ reply.token # None
  BY <1>1, OwnAnswers
<1> QED BY <1>5, <1>6, <1>7

(* An edit of the catalog while it is harvested.                           *)
LEMMA OwnEditInv ==
    ASSUME OwnInv, harvest.at = "harvesting", harvest.token \in Nat \cup {None} \/ harvest.endpoint # "own",
           CatalogType(catalog'),
           \A i \in Standards : catalog[i] # None =>
              catalog'[i] # None /\ (catalog[i].deleted => catalog'[i].deleted),
           UNCHANGED <<harvest, start>>
    PROVE  OwnInv'
<1>1. /\ Present(catalog) \subseteq Present(catalog') /\ Steady' \subseteq Steady
      /\ Present(catalog)' = Present(catalog')
  BY DEF OwnInv, Present, Steady
<1>2. CatalogType(start) /\ \A i \in Standards : start[i] # None => catalog'[i] # None
  BY DEF OwnInv
<1>3. ASSUME harvest.endpoint = "own"
      PROVE  harvest.failures = 0 /\ Below(harvest.token, harvest.collected)'
  <2> DEFINE c == Cursor(harvest.token)
  <2>1. harvest.failures = 0 /\ c \in Nat
    BY <1>3 DEF OwnInv, Cursor
  <2>2. ASSUME NEW i \in Steady', i \notin harvest.collected
        PROVE  Rank(Present(catalog'), i) >= c
    <3>1. Rank(Present(catalog), i) >= c
      BY <1>1, <1>3, <2>2 DEF OwnInv, Below
    <3>2. /\ Present(catalog) \in SUBSET Ids /\ Present(catalog') \in SUBSET Ids
          /\ i \in Ids
      BY DEF Present, Steady
    <3>3. /\ Present(catalog) \in SUBSET Int /\ IsFiniteSet(Present(catalog))
          /\ Present(catalog') \in SUBSET Int /\ IsFiniteSet(Present(catalog')) /\ i \in Int
      BY <3>2, ListsFinite, IdsFinite
    <3>4. Rank(Present(catalog), i) =< Rank(Present(catalog'), i)
      BY <1>1, <3>3, RankGrows
    <3>5. Rank(Present(catalog), i) \in Nat /\ Rank(Present(catalog'), i) \in Nat
      BY <3>3, RankType
    <3> HIDE DEF c
    <3> QED BY <2>1, <3>1, <3>4, <3>5
  <2>3. Cursor(harvest.token)' = c
    BY DEF Cursor
  <2> HIDE DEF c
  <2> QED BY <1>1, <2>1, <2>2, <2>3 DEF Below, Rank
<1> QED BY <1>2, <1>3 DEF OwnInv, CatalogType

(* Every step of a harvest keeps the invariant.                            *)
LEMMA OwnNextInv == HInv /\ OwnInv /\ [Next]_vars => OwnInv'
<1> SUFFICES ASSUME HInv, OwnInv, [Next]_vars PROVE OwnInv'
  OBVIOUS
<1>1. ASSUME NEW endpoint \in {"own", "foreign"}, NEW mode \in {"pipeline", "validatevor"},
             NEW limit \in Limits, Start(endpoint, mode, limit)
      PROVE  OwnInv'
  <2>1. /\ harvest' = [at |-> "harvesting", endpoint |-> endpoint, mode |-> mode, limit |-> limit,
                       token |-> None, pages |-> 0, collected |-> {}, failures |-> 0,
                       skipped |-> FALSE, report |-> None]
        /\ start' = catalog /\ catalog' = catalog
    BY <1>1 DEF Start, NoHarvest
  <2>2. \A i \in Ids : Rank(Present(catalog), i) >= 0
    <3> SUFFICES ASSUME NEW i \in Ids PROVE Rank(Present(catalog), i) \in Nat
      OBVIOUS
    <3>1. Present(catalog) \in SUBSET Ids /\ i \in Int
      BY IdsFinite DEF Present
    <3> QED BY <3>1, ListsFinite, RankType
  <2>3. Below(None, {})'
    <3>1. Steady' \subseteq Ids /\ Present(catalog)' = Present(catalog)
      BY <2>1 DEF Steady, Present
    <3> QED BY <2>2, <3>1 DEF Below, Cursor, Rank
  <2>4. Below(harvest.token, harvest.collected)'
    BY <2>1, <2>3 DEF Below, Cursor
  <2> QED BY <2>1, <2>4 DEF OwnInv, CatalogType
<1>2. CASE Fetch
  <2>1. ASSUME harvest.endpoint = "own", NEW reply \in OwnReplies(harvest.token), FetchPage(reply)
        PROVE  OwnInv'
    BY <2>1, OwnFetchInv
  <2>2. ASSUME NEW reply \in ForeignReplies, harvest.endpoint = "foreign", FetchPage(reply)
        PROVE  OwnInv'
    <3>1. harvest'.endpoint = "foreign"
      <4> DEFINE h == [harvest EXCEPT !.pages = harvest.pages + 1]
                 refused == [h EXCEPT !.failures = @ + 1, !.skipped = TRUE]
                 taken == [Collect(h, reply.recs) EXCEPT !.token = reply.token]
      <4>1. GoodHarvest(h) /\ h.endpoint = "foreign"
        BY <2>2 DEF HInv, GoodHarvest, Fields
      <4>2. \/ harvest' \in Finished(refused)
            \/ harvest' = taken
            \/ harvest' \in Finished(taken)
        BY <2>2 DEF FetchPage
      <4> HIDE DEF h
      <4>3. GoodHarvest(refused) /\ refused.endpoint = "foreign"
        <5>1. refused.endpoint = h.endpoint
          BY <4>1 DEF GoodHarvest, Fields
        <5> QED BY <4>1, <5>1, RefusedGood
      <4>4. GoodHarvest(taken) /\ taken.endpoint = "foreign"
        <5>1. taken.endpoint = h.endpoint
          BY <4>1 DEF Collect, GoodHarvest, Fields
        <5> QED BY <2>2, <4>1, <5>1, ForeignPages, CollectGood
      <4> HIDE DEF refused, taken
      <4> QED BY <4>2, <4>3, <4>4, FinishedFields
    <3>2. UNCHANGED <<catalog, start>>
      BY <2>2 DEF FetchPage
    <3> QED BY <3>1, <3>2 DEF OwnInv, CatalogType
  <2> QED BY <1>2, <2>1, <2>2 DEF Fetch
<1>3. CASE RequestRaises
  <2>1. harvest'.at = "failed" /\ UNCHANGED <<catalog, start>>
    BY <1>3 DEF RequestRaises, NoHarvest
  <2> QED BY <2>1 DEF OwnInv, CatalogType
<1>4. CASE Edit \/ Close
  <2>1. /\ harvest.at = "harvesting" /\ UNCHANGED <<harvest, start>>
        /\ Maintain \/ \E i \in Standards : StartWriting(i) \/ FinishWriting(i)
    BY <1>4 DEF Edit, Close
  <2>2. /\ CatalogType(catalog')
        /\ \A i \in Standards : catalog[i] # None =>
              catalog'[i] # None /\ (catalog[i].deleted => catalog'[i].deleted)
    BY <2>1, CatalogEdits DEF OwnInv
  <2>3. harvest.token \in Nat \cup {None} \/ harvest.endpoint # "own"
    BY DEF HInv, GoodHarvest
  <2> QED BY <2>1, <2>2, <2>3, OwnEditInv
<1>5. CASE UNCHANGED vars
  BY <1>5 DEF vars, OwnInv, CatalogType, Below, Steady, Present, Cursor, Rank, Listable, Parses, Datable
<1> QED BY <1>1, <1>2, <1>3, <1>4, <1>5 DEF Next

(* Benson's harvest of its own registry is complete or says that it is     *)
(* not, for any number of records, any page size and limit and any number  *)
(* of edits between its pages (phase3.py 81-119, server.py 380-424,        *)
(* standards_store.py 76-115).                                             *)
THEOREM OwnHarvestIsComplete == Spec => []OwnHarvestComplete
<1>1. Init => OwnInv
  <2> SUFFICES ASSUME Init PROVE OwnInv
    OBVIOUS
  <2>1. catalog \in [Standards -> {rec \in Record : rec.whole} \cup {None}]
    BY DEF Init
  <2>2. CatalogType(catalog)
    BY <2>1 DEF CatalogType
  <2> QED BY <2>2 DEF Init, NoHarvest, OwnInv
<1>2. OwnInv /\ HInv => OwnHarvestComplete
  <2> SUFFICES ASSUME OwnInv, HInv, Done, harvest.endpoint = "own"
               PROVE  /\ harvest.failures > 0 =>
                            \E i \in Standards :
                                /\ catalog[i] # None
                                /\ \/ ~catalog[i].whole
                                   \/ catalog[i].content = "misdated" /\ ~catalog[i].deleted
                      /\ \/ harvest.failures > 0
                         \/ Cardinality(harvest.collected) = harvest.limit
                         \/ Steady \subseteq harvest.collected
    BY DEF OwnHarvestComplete, Steady
  <2> QED BY DEF OwnInv, Done, Listable, Parses, Datable
<1> QED BY <1>1, <1>2, OwnNextInv, Invariance, PTL DEF Spec
=============================================================================
