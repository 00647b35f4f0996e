------------------------------ MODULE OaiProbes ------------------------------
(***************************************************************************)
(* Phase 1 of a validation (oai/phase1.py): the probes of                  *)
(* oai/phase1_tests_data.py are sent one by one and each answer is judged  *)
(* by the error codes in it (oai/xmlutil.py).  The endpoint is Benson's    *)
(* own server, whose catalog is edited meanwhile (by edits that are seen   *)
(* whole), one that gives every request the same answer, or one that was   *)
(* Benson's until it broke down and gives the same answer since.  The next *)
(* phase, the specification and its properties are in OaiProfile.          *)
(***************************************************************************)
EXTENDS OaiServer

CONSTANTS
    OwnValid,        \* the registry's own records that satisfy the schemas
    IdentifyValid,   \* what Identify shows of the settings satisfies them
    Answers,         \* what an endpoint that always answers the same may answer
    Breakdowns,      \* and what one that broke down may answer
    MaxEdits         \* bounds the edits of the own catalog

VARIABLES
    probe,           \* the state of one build_oai_validation
    edits

pvars == <<catalog, probe, edits>>

Codes == {"badArgument", "badResumptionToken", "badVerb", "cannotDisseminateFormat",
          "idDoesNotExist", "noRecordsMatch", "noSetHierarchy"}

(* valid: the schemas find nothing wrong (xml/xsd_validate.py).            *)
Answer == [http_ok : BOOLEAN, xml : BOOLEAN, valid : BOOLEAN, codes : SUBSET Codes]

(* The days of the probes' dates, as stamps (see Stamps).                  *)
D1969 == 0
D1999 == 4
D2000 == 6
D2001 == 8
D2002 == 10

ASSUME ProbesAssumption ==
    /\ OwnValid \subseteq Own /\ IdentifyValid \in BOOLEAN
    /\ Answers \cup Breakdowns \subseteq Answer
    /\ D1969 < Epoch /\ Epoch =< D1999
    /\ \E n \in DOMAIN OwnStamps : OwnStamps[n] >= D2001

-----------------------------------------------------------------------------
(* The cases.  No expected codes: an error must not be returned, except,   *)
(* where there are some, the optional ones.                                *)

NoArgs == [twice |-> FALSE, prefix |-> None, set |-> None, from |-> None, until |-> None]
OaiDc == [NoArgs EXCEPT !.prefix = "supported"]
On(day) == [kind |-> "day", at |-> day]
AtSecond(day) == [kind |-> "seconds", at |-> day]
RandomDate == [kind |-> "junk", at |-> 0]
WrongId == 0

Ask(verb, args) ==
    [verb |-> verb, extra |-> FALSE, junkToken |-> FALSE, id |-> None, args |-> args]
Case(request, expect) ==
    [request |-> request, expect |-> expect, ignore |-> {}, optional |-> {}]

Between(from, until) == [OaiDc EXCEPT !.from = from, !.until = until]
Wrong == [Between(RandomDate, RandomDate) EXCEPT !.set = "other"]
JunkToken(verb) ==
    [Case([Ask(verb, NoArgs) EXCEPT !.junkToken = TRUE], {"badResumptionToken"})
        EXCEPT !.ignore = {"badArgument"}]
Optional(request, codes) == [Case(request, {}) EXCEPT !.optional = codes]
NoMatch == {"noRecordsMatch", "badArgument"}
NoId == {"idDoesNotExist", "badArgument"}

(* OAI_PHASE1_CASES.                                                       *)
Cases == <<
    Case(Ask("Identify", NoArgs), {}),
    Case([Ask("Identify", NoArgs) EXCEPT !.extra = TRUE], {"badArgument"}),
    Case(Ask("ListMetadataFormats", NoArgs), {}),
    Case(Ask("ListSets", NoArgs), {}),
    Case(Ask("ListIdentifiers", OaiDc), {}),
    Case(Ask("ListIdentifiers", [OaiDc EXCEPT !.set = "ivo_managed"]), {}),
    Optional(Ask("ListIdentifiers", Between(On(D2000), On(D2000))), NoMatch),
    Case(Ask("ListIdentifiers", Wrong), {"badArgument", "noSetHierarchy"}),
    Case(Ask("ListIdentifiers", Between(On(D2001), AtSecond(D2002))), NoMatch),
    Case(Ask("ListIdentifiers", Between(On(D2000), On(D1999))), NoMatch),
    Case(Ask("ListIdentifiers", NoArgs), {"badArgument"}),
    Case(Ask("ListIdentifiers", [NoArgs EXCEPT !.prefix = "unsupported"]),
         {"cannotDisseminateFormat", "badArgument"}),
    Case(Ask("ListIdentifiers", [OaiDc EXCEPT !.twice = TRUE]), {"badArgument"}),
    JunkToken("ListIdentifiers"),
    Case(Ask("ListIdentifiers", Between(On(D2001), None)), {}),
    Optional(Ask("ListIdentifiers", Between(AtSecond(D2001), None)), {"badArgument"}),
    Case(Ask("ListIdentifiers", Between(RandomDate, None)), {"badArgument"}),    \* a year
    Case([Ask("ListMetadataFormats", NoArgs) EXCEPT !.id = WrongId], NoId),
    Case(Ask("GetRecord", OaiDc), {"badArgument"}),
    Case([Ask("GetRecord", OaiDc) EXCEPT !.id = WrongId], NoId),                 \* two of these
    Optional(Ask("ListRecords", Between(On(D2000), On(D2000))), NoMatch),
    Case(Ask("ListRecords", Wrong), {"badArgument", "noSetHierarchy"}),
    Case(Ask("ListRecords", NoArgs), {"badArgument"}),
    Case(Ask("ListRecords", Between(On(D2001), AtSecond(D2002))), NoMatch),
    Case(Ask("ListRecords", Between(None, AtSecond(D1969))), NoMatch),
    Case(Ask("ListRecords", OaiDc), {}),
    JunkToken("ListRecords"),
    Case(Ask("IllegalVerb", NoArgs), {"badVerb"}) >>

(* Fault: an answer without an error is fine when one is expected.         *)
acceptable_NoneIsFine(case, codes) ==
    IF case.expect # {} THEN codes \subseteq case.expect \cup case.ignore
    ELSE IF case.optional # {} THEN codes \subseteq case.optional \cup case.ignore
    ELSE codes = {}

(* _error_codes_acceptable; its last test in each branch follows from the  *)
(* one before.                                                             *)
acceptable(case, codes) ==
    IF case.expect # {} THEN codes # {} /\ codes \subseteq case.expect \cup case.ignore
    ELSE IF case.optional # {} THEN codes \subseteq case.optional \cup case.ignore
    ELSE codes = {}

-----------------------------------------------------------------------------
(* The loop of build_oai_validation.                                       *)

(* What a page shows of a record satisfies the schemas: of a deleted one   *)
(* its header with its datestamp, of the others the resource too.          *)
RecordValid(i) ==
    IF i \notin Standards THEN i \in OwnValid
    ELSE catalog[i].content = "sound" \/ (catalog[i].content = "invalid" /\ catalog[i].deleted)

(* Identify shows the least datestamp, as text.                            *)
EarliestValid ==
    \A i \in all_records(catalog) :
        RecordOf(catalog, i).content = "misdated" =>
            \E j \in all_records(catalog) :
                RecordOf(catalog, j).stamp < RecordOf(catalog, i).stamp

(* validate_oai_response_envelope, of an answer without an error: the      *)
(* envelope and the records embedded in it.                                *)
OwnAnswerValid(request) ==
    CASE request.verb = "Identify" -> IdentifyValid /\ EarliestValid
      [] request.verb = "ListRecords" ->
            LET page == ListReply(catalog, request.args).page IN
            \A n \in DOMAIN page : RecordValid(page[n])
      [] OTHER -> TRUE

OwnAnswer(request) ==
    LET code == dispatch(catalog, request) IN
    [http_ok |-> code # "raise", xml |-> code # "raise",
     valid |-> code # "ok" \/ OwnAnswerValid(request), codes |-> {code} \cap Codes]

(* What the endpoint answers: fixed is the answer it always gives, or None *)
(* for the own server.                                                     *)
AnswerTo(request) == IF probe.fixed = None THEN OwnAnswer(request) ELSE probe.fixed

Passes(case, answer) == answer.http_ok /\ answer.xml /\ acceptable(case, answer.codes)

(* probe_test: the statuses of a testQuery's tests.                        *)
probe_test(ok) == IF ok THEN {"pass"} ELSE {"fail"}

(* own: the endpoint is Benson's server, at the beginning at least;        *)
(* queries are the testQuery elements of the report, by the statuses of    *)
(* their tests.                                                            *)
NoReport == [next |-> 0, own |-> FALSE, fixed |-> None, queries |-> <<>>]

Begin(fixed) ==
    /\ probe.next = 0
    /\ probe' = [probe EXCEPT !.next = 1, !.own = fixed = None, !.fixed = fixed]
    /\ UNCHANGED <<catalog, edits>>

SendProbe ==
    /\ probe.next \in DOMAIN Cases
    /\ LET case == Cases[probe.next]
           ok == Passes(case, AnswerTo(case.request))
       IN  probe' = [probe EXCEPT !.next = @ + 1, !.queries = Append(@, probe_test(ok))]
    /\ UNCHANGED <<catalog, edits>>

Edit ==
    /\ probe.next # 0 /\ probe.fixed = None
    /\ edits < MaxEdits
    /\ edits' = edits + 1
    /\ Maintain
    /\ UNCHANGED probe

(* The endpoint breaks down.                                               *)
BreakDown(answer) ==
    /\ probe.next # 0 /\ probe.fixed = None
    /\ probe' = [probe EXCEPT !.fixed = answer]
    /\ UNCHANGED <<catalog, edits>>
=============================================================================
