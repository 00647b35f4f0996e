----------------------------- MODULE OaiProfile -----------------------------
(***************************************************************************)
(* The first two phases of a validation and the counts taken from their    *)
(* report: after the probes of OaiProbes, phase 2 (oai/phase2.py) sends    *)
(* four queries to the same endpoint.  The policy of registration and the  *)
(* page count the failing testQuery elements (http/validation_report.py).  *)
(*                                                                         *)
(* The stylesheet of phase 2 imports one that is not shipped, so its       *)
(* transformation raises and the verdict is the one without it.            *)
(***************************************************************************)
EXTENDS OaiProbes

VARIABLE
    profile          \* the state of one build_ivoa_harvest_validation

vars == <<catalog, probe, edits, profile>>

(* IVOA_CHECKS.                                                            *)
IVOA_CHECKS == <<
    Ask("Identify", NoArgs), Ask("ListMetadataFormats", NoArgs), Ask("ListSets", NoArgs),
    Ask("ListRecords", [OaiDc EXCEPT !.set = "ivo_managed"]) >>

ri_test(ok) == IF ok THEN {"pass"} ELSE {"fail"}

(* Fault: the HTTP status of the answer is ignored.                        *)
Verdict_NoStatus(answer, builtin_schemas) ==
    /\ answer.xml
    /\ builtin_schemas => answer.valid
    /\ answer.codes = {}

(* The tests of one query: an HTTP error, a body that is no XML, a         *)
(* violation of the schemas when they are asked for, an OAI error.         *)
Verdict(answer, builtin_schemas) ==
    /\ answer.http_ok /\ answer.xml
    /\ builtin_schemas => answer.valid
    /\ answer.codes = {}

SendQuery ==
    /\ probe.next = Len(Cases) + 1
    /\ profile.next \in DOMAIN IVOA_CHECKS
    /\ LET ok == Verdict(AnswerTo(IVOA_CHECKS[profile.next]), profile.builtin_schemas)
       IN  profile' = [profile EXCEPT !.next = @ + 1, !.queries = Append(@, ri_test(ok))]
    /\ UNCHANGED pvars

Init ==
    /\ catalog \in [Standards -> {rec \in Record : rec.whole} \cup {None}]
    /\ probe = NoReport
    /\ edits = 0
    /\ profile \in [next : {1}, builtin_schemas : BOOLEAN, queries : {<<>>}]

Done == profile.next = Len(IVOA_CHECKS) + 1

Phase1 ==
    \/ \E fixed \in Answers \cup {None} : Begin(fixed)
    \/ SendProbe
    \/ ~Done /\ (Edit \/ \E answer \in Breakdowns : BreakDown(answer))
Next == (Phase1 /\ UNCHANGED profile) \/ SendQuery
Spec == Init /\ [][Next]_vars

-----------------------------------------------------------------------------
(* The counts of the merged report.                                        *)

(* _Query.status.                                                          *)
query_status(tests) ==
    IF "fail" \in tests THEN "fail" ELSE IF "warn" \in tests THEN "warn" ELSE "pass"

(* _Section.fail_count.                                                    *)
fail_count(queries) == Cardinality({n \in DOMAIN queries : query_status(queries[n]) = "fail"})

(* validation_result_counts, of the sections that are there.               *)
nfail == fail_count(probe.queries) + fail_count(profile.queries)

-----------------------------------------------------------------------------
(* Properties.                                                             *)

(* The catalog holds what the server must fail on: an active record whose  *)
(* datestamp is none, or, when the schemas are asked for, anything they    *)
(* reject in what may be shown.                                            *)
Flawed ==
    \/ \E i \in Standards :
          /\ catalog[i] # None
          /\ \/ catalog[i].content = "misdated" /\ ~catalog[i].deleted
             \/ profile.builtin_schemas /\ ~RecordValid(i)
    \/ profile.builtin_schemas /\ ~(IdentifyValid /\ Own \subseteq OwnValid)

(* Benson's own server fails none of Benson's own probes and profile       *)
(* checks while its catalog is not flawed, whatever records it holds then  *)
(* and held before and however it is edited between two requests; the      *)
(* tests send the probes to the shipped catalog only                       *)
(* (phase1_tests_data.py 32-174, phase2.py 18-23, 129-151, server.py       *)
(* 244-287, 455-483, xsd_validate.py 80-117).                              *)
SelfConformance ==
    [][probe.own /\ probe.fixed = None /\ nfail' # nfail => Flawed]_vars

(* The probes tell servers from things that are none: an endpoint that     *)
(* gives every request the same answer, be it no error, any set of error   *)
(* codes, no XML or an HTTP error, never has a report without a failure    *)
(* (phase1.py 109-135).                                                    *)
ConstantAnswerFails == Done /\ ~probe.own => nfail > 0

(* An endpoint that breaks down in the middle of a validation, even before *)
(* its very last request, never gets a report without a failure, unless    *)
(* what it answers since is a good answer to everything that was still to  *)
(* come (phase1.py 109-135, phase2.py 114-172, validation_report.py        *)
(* 138-149).                                                               *)
BreakdownShows ==
    Done /\ probe.own /\ probe.fixed # None =>
        \/ nfail > 0
        \/ /\ probe.fixed.http_ok /\ probe.fixed.xml /\ probe.fixed.codes = {}
           /\ profile.builtin_schemas => probe.fixed.valid
=============================================================================
