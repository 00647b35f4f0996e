--------------------------- MODULE PublisherCheck ---------------------------
(***************************************************************************)
(* The command "benson check-publishers" in full, on the publishers file   *)
(* of PublisherFile: what it asks the listed endpoints, what status an     *)
(* answer comes to (registry/publishers_check.py), what is written back    *)
(* and the exit code (main.py).  The probes of one check are under way     *)
(* together and are answered in any order.                                 *)
(***************************************************************************)
EXTENDS PublisherFile

CONSTANT
    Serves           \* per endpoint what it may answer to Identify, at any time

VARIABLE
    report           \* per check what it has found out and how it ended

cvars == <<path, tmp, content, proc, checks, acked, report>>

(* no_answer is an httpx.HTTPError; raises is any other exception, such as *)
(* an httpx.InvalidURL.  resource_id and oai_id are the identifiers of the *)
(* vg:Registry resource and of Identify itself.                            *)
Answer == [kind : {"no_answer", "raises", "reply"}, http_ok : BOOLEAN, xml : BOOLEAN,
           error : BOOLEAN, registry : BOOLEAN,
           resource_id : Ids \cup {None}, oai_id : Ids \cup {None}]

Status == {"ok", "identifier_mismatch", "no_registry", "invalid_response", "unreachable"}

(* exit is "dry" for --dry-run, which ends with 0 whatever was found.      *)
Report == [listed : SUBSET Ids, status : [Ids -> Status \cup {None}],
           exit : {"running", "zero", "one", "dry", "traceback"}]

Unread == [listed |-> {}, status |-> [id \in Ids |-> None], exit |-> "running"]

ASSUME ServesAssumption ==
    /\ Serves \in [Endpoints -> SUBSET Answer]
    /\ None \notin Ids \cup Status

-----------------------------------------------------------------------------
(* One probe.                                                              *)

(* extract_identify_state                                                  *)
live_id(answer) ==
    IF answer.registry /\ answer.resource_id # None THEN answer.resource_id ELSE answer.oai_id

(* Fault: the identifier of the answer is not compared.                    *)
_check_one_AnyIdentifier(pub, answer) ==
    IF answer.kind = "no_answer" \/ ~answer.http_ok THEN "unreachable"
    ELSE IF ~answer.xml \/ answer.error THEN "invalid_response"
    ELSE IF ~answer.registry \/ live_id(answer) = None THEN "no_registry"
    ELSE "ok"

(* The status an answer comes to.                                          *)
_check_one(pub, answer) ==
    IF answer.kind = "no_answer" \/ ~answer.http_ok THEN "unreachable"
    ELSE IF ~answer.xml \/ answer.error THEN "invalid_response"
    ELSE IF ~answer.registry \/ live_id(answer) = None THEN "no_registry"
    ELSE IF live_id(answer) # pub.id THEN "identifier_mismatch"
    ELSE "ok"

-----------------------------------------------------------------------------
(* The command.                                                            *)

Of(c) == report[proc[c].check]
Pending(c) == {r \in proc[c].doc : Of(c).status[r.id] = None}
Probed(c) == proc[c].at = "probing" /\ Pending(c) = {}
EndsWith(c, exit) == report' = [report EXCEPT ![proc[c].check].exit = exit]

(* check_publishers loads the rows; a file that is no JSON raises.         *)
LoadRows(c) ==
    /\ Load(c)
    /\ report' = [report EXCEPT ![checks + 1] =
                     IF Readable THEN [@ EXCEPT !.listed = IdsOf(Read)]
                     ELSE [@ EXCEPT !.exit = "traceback"]]

(* The answer of one probe.                                                *)
Probe(c) ==
    /\ proc[c].at = "probing"
    /\ \E pub \in Pending(c) : \E answer \in Serves[pub.endpoint] :
          /\ answer.kind # "raises"
          /\ report' = [report EXCEPT ![proc[c].check].status[pub.id] = _check_one(pub, answer)]
    /\ UNCHANGED vars

(* A probe raises something else: gather gives up, and with it the check.  *)
ProbeRaises(c) ==
    /\ \E pub \in Pending(c) : \E answer \in Serves[pub.endpoint] : answer.kind = "raises"
    /\ EndWithoutAnnotating(c)
    /\ EndsWith(c, "traceback")

DryRun(c) ==
    /\ Probed(c)
    /\ EndWithoutAnnotating(c)
    /\ EndsWith(c, "dry")

(* Fault: the file is read outside of the store's section.                 *)
Annotate_Unlocked(c) ==
    /\ Probed(c)
    /\ IF Readable
       THEN /\ StartWrite(c, Stamp(Read, proc[c].probed, proc[c].check), "idle")
            /\ UNCHANGED report
       ELSE Becomes(c, Idle) /\ EndsWith(c, "traceback")
    /\ NoFileChange /\ UNCHANGED <<checks, acked>>

(* Fault: the answers that are in are written back.                        *)
Annotate_Partial(c) ==
    /\ proc[c].at = "probing"
    /\ AnnotateChecks(c)
    /\ IF Readable THEN UNCHANGED report ELSE EndsWith(c, "traceback")

Annotate(c) ==
    /\ Probed(c)
    /\ AnnotateChecks(c)
    /\ IF Readable THEN UNCHANGED report ELSE EndsWith(c, "traceback")

(* Fault: the exit code is that of one good answer.                        *)
exit_code_AnyOk(found) ==
    IF \E id \in found.listed : found.status[id] = "ok" THEN "zero" ELSE "one"

(* main.py 125.                                                            *)
exit_code(found) ==
    IF \A id \in found.listed : found.status[id] = "ok" THEN "zero" ELSE "one"

(* annotate_checks returns, or os.replace raised, and the command ends.    *)
Finish(c) ==
    /\ ReplaceFile(c)
    /\ EndsWith(c, IF tmp = None THEN "traceback" ELSE exit_code(Of(c)))

CheckedInit ==
    /\ Init
    /\ report = [k \in 1..MaxChecks |-> Unread]

Command(c) ==
    \/ LoadRows(c) \/ Probe(c) \/ ProbeRaises(c) \/ DryRun(c) \/ Annotate(c) \/ Finish(c)
    \/ UNCHANGED report /\ (OpenTmp(c) \/ WriteTmp(c) \/ Crash(c))

CheckedNext ==
    \/ UNCHANGED report /\ (Serve \/ Write(Server))
    \/ \E c \in Checkers : Command(c)

CheckedSpec == CheckedInit /\ [][CheckedNext]_cvars

-----------------------------------------------------------------------------
(* Properties.                                                             *)

(* The status that a row of the file shows, 0 being the registration's.    *)
Shows(r, status) == r.check # 0 /\ report[r.check].status[r.id] = status

(* The command does to the file what PublisherFile says of it, so that all *)
(* that is proved of the file holds of it (publishers_check.py 171-186,    *)
(* main.py 94-105).                                                        *)
IsPublisherFile == Spec

(* A row that a check has stamped as ok, possibly long ago and with other  *)
(* checks, registrations and crashes since, is of an endpoint that serves  *)
(* a registry under the row's identifier: the check catches "entries whose *)
(* services have gone stale, become unreachable, changed identity"         *)
(* (README.md 77; publishers_check.py 59-168, publishers_store.py 180-199).*)
OkIsEarned ==
    \A r \in Read : Shows(r, "ok") =>
        \E answer \in Serves[r.endpoint] :
            answer.registry /\ ~answer.error /\ live_id(answer) = r.id

(* "Any non-ok publisher causes a non-zero exit code unless --dry-run is   *)
(* used" (README.md 91), and 0 says more: the status of every publisher    *)
(* that was listed is in the file, where the main page shows it.           *)
ExitZeroMeansOk ==
    \A k \in 1..checks : report[k].exit = "zero" =>
        \A id \in report[k].listed :
            /\ report[k].status[id] = "ok"
            /\ \E r \in Read : r.id = id /\ r.check # 0

(* The results of a check are written back all together or not at all,     *)
(* though a probe may raise, a process may crash and another check may     *)
(* write before or after: no publisher that it listed is left with the     *)
(* stamp of its registration beside one that it has stamped                *)
(* (publishers_check.py 186, main.py 103, publishers_store.py 183-199).    *)
AnnotatedTogether ==
    \A r \in Read : r.check # 0 =>
        \A id \in report[r.check].listed :
            /\ report[r.check].status[id] # None
            /\ \E s \in Read : s.id = id /\ s.check # 0
=============================================================================
