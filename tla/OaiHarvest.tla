----------------------------- MODULE OaiHarvest -----------------------------
(***************************************************************************)
(* Phase 3 of a validation (oai/phase3.py): the ListRecords loop, its      *)
(* record limit, and the report on the harvested documents, once inside    *)
(* the pipeline and once as op=ValidateVOR (service/harvest_runner.py).    *)
(* The endpoint is Benson's own server, whose catalog is edited while it   *)
(* is harvested, or a foreign one that answers anything.                   *)
(***************************************************************************)
EXTENDS OaiServer

CONSTANTS
    Limits,          \* max_records: 5 in the pipeline, 1 with cache=true
    ForeignReplies,  \* what a foreign endpoint answers
    MaxPages,        \* bounds the pages asked of a foreign endpoint
    MaxEdits         \* bounds the edits of the own catalog

ASSUME HarvestAssumption ==
    /\ Limits \subseteq Nat
    /\ \A reply \in ForeignReplies :
          /\ Len(reply.recs) \in Nat
          /\ DOMAIN reply.recs = 1..Len(reply.recs)

VARIABLES
    harvest,         \* the harvest of one execution of phase 3
    start,           \* the catalog when it started
    edits

vars == <<catalog, harvest, start, edits>>

(* The query of the first page; phase 3 gives no dates.                    *)
HarvestQuery == [twice |-> FALSE, prefix |-> "supported", set |-> "ivo_managed",
                 from |-> None, until |-> None]

(* An answer: OAI error codes, a body that is no XML (Benson's own errors  *)
(* are JSON), or records of a kind and perhaps a token.                    *)
Page(records, token) == [codes |-> FALSE, garbled |-> FALSE, recs |-> records, token |-> token]
OaiError == [codes |-> TRUE, garbled |-> FALSE, recs |-> <<>>, token |-> None]
NoXml == [codes |-> FALSE, garbled |-> TRUE, recs |-> <<>>, token |-> None]

(* The one answer of the own server.                                       *)
OwnReplies(token) ==
    LET KindOf(i) == IF RecordOf(catalog, i).deleted THEN "deleted" ELSE "full"
    IN  {IF reply.code = "raise" THEN NoXml
         ELSE IF reply.code # "ok" THEN OaiError
         ELSE Page([n \in DOMAIN reply.page |->
                       [id |-> reply.page[n], kind |-> KindOf(reply.page[n])]],
                   reply.next) :
            reply \in {IF token = None THEN ListReply(catalog, HarvestQuery)
                      ELSE ResumeReply(catalog, HarvestQuery, token)}}

NoHarvest == [at |-> "idle", endpoint |-> None, mode |-> None, limit |-> 0, token |-> None,
              pages |-> 0, collected |-> {}, failures |-> 0, skipped |-> FALSE, report |-> None]

-----------------------------------------------------------------------------
(* The loop.                                                               *)

(* The identifiers collected before the n-th record of a page.             *)
Before(collected, recs, n) ==
    collected \cup {recs[m].id : m \in {k \in 1..n - 1 : recs[k].kind = "full"}}

(* Fault: the limit is looked at between pages only.                       *)
Reached_WholePage(h, recs) == DOMAIN recs

(* The records the loop gets to before the limit.                          *)
Reached(h, recs) ==
    {n \in DOMAIN recs : Cardinality(Before(h.collected, recs, n)) < h.limit}

Collect(h, recs) ==
    LET reached == Reached(h, recs)
        empty == {n \in reached : recs[n].kind = "empty"}
    IN  [h EXCEPT !.collected = @ \cup {recs[n].id : n \in {m \in reached : recs[m].kind = "full"}},
                  !.failures = @ + Cardinality(empty),
                  !.skipped = @ \/ empty # {}]

(* Fault: the failures of the harvest are left out of the merged report.   *)
Report_NoFailures(h, bad) ==
    [nfail |-> bad, npass |-> Cardinality(h.collected) - bad]

(* The counts of the VOResource section: one for each document, bad of     *)
(* them failures, plus, in the pipeline only, a failure for everything the *)
(* harvest noted.                                                          *)
Report(h, bad) ==
    [nfail |-> bad + (IF h.mode = "pipeline" THEN h.failures ELSE 0),
     npass |-> Cardinality(h.collected) - bad]

(* The end of the loop: every document is validated.                       *)
Finished(h) == {[h EXCEPT !.at = "done", !.token = None, !.report = Report(h, bad)] :
                    bad \in 0..Cardinality(h.collected)}

Start(endpoint, mode, limit) ==
    /\ harvest.at = "idle"
    /\ harvest' = [NoHarvest EXCEPT !.at = "harvesting", !.endpoint = endpoint,
                                    !.mode = mode, !.limit = limit]
    /\ start' = catalog
    /\ UNCHANGED <<catalog, edits>>

(* Fault: the token of the first page is used for every later page.        *)
FetchPage_SameToken(reply) ==
    LET h == [harvest EXCEPT !.pages = IF harvest.endpoint = "foreign" THEN @ + 1 ELSE 0]
        refused == [h EXCEPT !.failures = @ + 1, !.skipped = TRUE]
        taken == [Collect(h, reply.recs) EXCEPT !.token = IF @ = None THEN reply.token ELSE @]
        more == reply.token # None /\ Cardinality(taken.collected) < h.limit
    IN
    /\ harvest.at = "harvesting"
    /\ IF reply.codes \/ reply.garbled THEN harvest' \in Finished(refused)
       ELSE IF more THEN harvest' = taken
       ELSE harvest' \in Finished(taken)
    /\ UNCHANGED <<catalog, start, edits>>

(* One turn of the loop: a page is asked for and its records are taken.    *)
FetchPage(reply) ==
    LET h == [harvest EXCEPT !.pages = IF harvest.endpoint = "foreign" THEN @ + 1 ELSE 0]
        refused == [h EXCEPT !.failures = @ + 1, !.skipped = TRUE]
        taken == [Collect(h, reply.recs) EXCEPT !.token = reply.token]
        more == reply.token # None /\ Cardinality(taken.collected) < h.limit
    IN
    /\ harvest.at = "harvesting"
    /\ IF reply.codes \/ reply.garbled THEN harvest' \in Finished(refused)
       ELSE IF more THEN harvest' = taken
       ELSE harvest' \in Finished(taken)
    /\ UNCHANGED <<catalog, start, edits>>

Fetch ==
    \/ harvest.endpoint = "own" /\ \E reply \in OwnReplies(harvest.token) : FetchPage(reply)
    \/ /\ harvest.endpoint = "foreign"
       /\ harvest.pages < MaxPages
       /\ \E reply \in ForeignReplies : FetchPage(reply)

(* A request gets no answer and raises: phase 3 has no report, and what it *)
(* has collected is gone (HarvestJob's Fail).                              *)
RequestRaises ==
    /\ harvest.at = "harvesting"
    /\ harvest' = [NoHarvest EXCEPT !.at = "failed"]
    /\ UNCHANGED <<catalog, start, edits>>

Edit ==
    /\ harvest.at = "harvesting" /\ harvest.endpoint = "own"
    /\ edits < MaxEdits
    /\ edits' = edits + 1
    /\ Maintain \/ \E i \in Standards : StartWriting(i)
    /\ UNCHANGED <<harvest, start>>

Close ==
    /\ harvest.at = "harvesting" /\ harvest.endpoint = "own"
    /\ \E i \in Standards : FinishWriting(i)
    /\ UNCHANGED <<harvest, start, edits>>

Init ==
    /\ catalog \in [Standards -> {rec \in Record : rec.whole} \cup {None}]
    /\ harvest = NoHarvest
    /\ start = catalog
    /\ edits = 0

Next ==
    \/ \E endpoint \in {"own", "foreign"}, mode \in {"pipeline", "validatevor"}, limit \in Limits :
          Start(endpoint, mode, limit)
    \/ Fetch
    \/ RequestRaises
    \/ Edit
    \/ Close

Spec == Init /\ [][Next]_vars
(* Every request of the loop is answered, unless it times out and raises,  *)
(* which ends the loop.                                                    *)
FairSpec == Spec /\ WF_vars(Fetch)

-----------------------------------------------------------------------------
(* Properties.                                                             *)

Done == harvest.at = "done"

(* Never more documents than the limit, which the loop has to watch inside *)
(* a page too, and every one of them is counted once in the report         *)
(* (phase3.py 81, 100-101, 134-175).                                       *)
LimitKept ==
    /\ Cardinality(harvest.collected) =< harvest.limit
    /\ Done => /\ harvest.report.npass =< Cardinality(harvest.collected)
               /\ Cardinality(harvest.collected) =< harvest.report.npass + harvest.report.nfail

(* A pipeline whose harvest met an error, a body that is no XML or a       *)
(* record without metadata never reports a clean VOResource phase, on      *)
(* whatever page it happened (phase3.py 88-97, 111-113, harvest_runner.py  *)
(* 103).                                                                   *)
TroubleIsReported ==
    Done /\ harvest.mode = "pipeline" /\ harvest.skipped => harvest.report.nfail > 0

(* Benson's harvest of Benson's own registry is never short without saying *)
(* so.  It notes a failure only when a file was being written or an active *)
(* record has a datestamp that is none, and when it notes none and the     *)
(* limit did not cut it, it has every record that was active all along,    *)
(* whatever maintainers did to the catalog between two pages (phase3.py    *)
(* 81-119, server.py 380-424, standards_store.py 76-115, dates.py 98-100). *)
OwnHarvestComplete ==
    Done /\ harvest.endpoint = "own" =>
        /\ harvest.failures > 0 =>
              \E i \in Standards :
                  /\ catalog[i] # None
                  /\ ~catalog[i].whole \/ (catalog[i].content = "misdated" /\ ~catalog[i].deleted)
        /\ \/ harvest.failures > 0
           \/ Cardinality(harvest.collected) = harvest.limit
           \/ {i \in Ids : \/ i \notin Standards
                           \/ start[i] # None /\ ~catalog[i].deleted}
                 \subseteq harvest.collected

(* The harvest of Benson's own registry ends: its tokens run out, however  *)
(* the catalog is edited meanwhile (phase3.py 81, 96-97, 116-117).         *)
OwnHarvestEnds ==
    (harvest.at = "harvesting" /\ harvest.endpoint = "own")
        ~> (harvest.at \in {"done", "failed"})
=============================================================================
