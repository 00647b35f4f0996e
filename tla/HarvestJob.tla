----------------------------- MODULE HarvestJob -----------------------------
(***************************************************************************)
(* Validation sessions of the Benson server: the in-memory HarvestRun      *)
(* records (session/store.py), the background job of a run                 *)
(* (service/validation_job.py), the three-phase pipeline                   *)
(* (service/harvest_runner.py), the HTTP operations on a run               *)
(* (http/harvest.py, http/validator.py) and registration from a finished   *)
(* run (registry/registration.py, registry/registration_policy.py).        *)
(*                                                                         *)
(* The server is one asyncio loop, so code between two awaits that really  *)
(* suspend is one action.  Only the HTTP requests to the endpoint under    *)
(* test suspend: every asyncio.Lock section on these paths has no await in *)
(* it and is never contended.  An execution of pipeline code (a background *)
(* worker, or a request that runs the pipeline itself) is a member of      *)
(* Execs; the finite set bounds how many are started.                      *)
(***************************************************************************)
EXTENDS Integers, Sequences, FiniteSets

CONSTANTS
    Runs,            \* run ids (uuid4: a new one each time)
    Execs,           \* executions of pipeline code, each used once
    Endpoints,       \* normalized endpoint URLs
    Ids,             \* IVOA identifiers
    Tallies,         \* [nfail, nwarn] counts a phase's report can have
    Texts,           \* what str(exc) of a failing phase can be
    MaxFailures, MaxWarnings, RequireBuiltin,      \* registration settings
    None

ASSUME ConstantsAssumption ==
    /\ Tallies \subseteq [nfail : Nat, nwarn : Nat]
    /\ MaxFailures \in Nat
    /\ MaxWarnings \in Nat
    /\ RequireBuiltin \in BOOLEAN
    /\ None \notin Runs \cup Execs \cup Endpoints \cup Ids \cup Texts

VARIABLES
    run,             \* HarvestSessionStore._runs
    exec,            \* the coroutines that run pipeline code
    publishers       \* the rows of the publishers registry

vars == <<run, exec, publishers>>

-----------------------------------------------------------------------------
(* Data.  A report section remembers which execution built it (by).        *)

Phases == <<"oai", "ivoa", "vor">>
Section == [by : Execs, tally : Tallies]
Report == [oai : Section, ivoa : Section, vor : Section]
Row == [phase : {"start", "oai", "ivoa", "vor", "done"},
        status : {"running", "completed", "canceled", "error"}]

HarvestRun ==
    [endpoint : Endpoints, cache : BOOLEAN, builtin : BOOLEAN,
     canceled : BOOLEAN, error : Texts \cup {None},
     oai : Section \cup {None}, ivoa : Section \cup {None},
     vor : Section \cup {None}, merged : Report \cup {None},
     identify : Ids \cup {None}, rows : Seq(Row), task : Execs \cup {None}]

(* A coroutine: the worker of a job, a request that runs the whole         *)
(* pipeline (sync), or a request that runs one phase of it.  oai and ivoa  *)
(* are its local oai_root and ivoa_root.                                   *)
Kinds == {"worker", "sync", "validateoai", "validateivoa", "validatevor"}
Exec == [kind : Kinds, run : Runs, cancel : BOOLEAN,
         at : {"spawned", "oai", "ivoa", "vor", "finished", "failed", "canceled"},
         oai : Section \cup {None}, ivoa : Section \cup {None}]

Publisher == [id : Ids, endpoint : Endpoints, run : Runs,
              check : {"ok", "identifier_mismatch"}]

(* Fault: the error field starts as an empty text and not as None.         *)
NewRun_EmptyError(ep, cache, builtin) ==
    [endpoint |-> ep, cache |-> cache, builtin |-> builtin,
     canceled |-> FALSE, error |-> "",
     oai |-> None, ivoa |-> None, vor |-> None, merged |-> None,
     identify |-> None, rows |-> <<>>, task |-> None]

new_run_from_query(ep, cache, builtin) ==
    [endpoint |-> ep, cache |-> cache, builtin |-> builtin,
     canceled |-> FALSE, error |-> None,
     oai |-> None, ivoa |-> None, vor |-> None, merged |-> None,
     identify |-> None, rows |-> <<>>, task |-> None]

(* None is no run, coroutine, section or report.                           *)
ASSUME NoneAssumption == None \notin HarvestRun \cup Exec \cup Section \cup Report

NewExec(kind, r, at) ==
    [kind |-> kind, run |-> r, cancel |-> FALSE, at |-> at,
     oai |-> None, ivoa |-> None]

Truthy(text) == text \notin {None, ""}

-----------------------------------------------------------------------------
(* What the handlers read.                                                 *)

Known(r) == run[r] # None
AllDone == {"finished", "failed", "canceled"}
Ended(e) == exec[e] # None /\ exec[e].at \in AllDone
Started(e) == exec[e] # None
Live(e) == Started(e) /\ exec[e].at \notin AllDone

(* Fault: a task that was created but has not run yet is overlooked.       *)
Active_NotYetRunning(h) == h.task # None /\ Live(h.task) /\ exec[h.task].at # "spawned"
Active(h) == h.task # None /\ Live(h.task)

job_state(r) ==
    LET h == run[r] IN
    CASE h.canceled -> "canceled"
      [] ~h.canceled /\ Truthy(h.error) -> "error"
      [] ~h.canceled /\ ~Truthy(h.error) /\ h.merged # None -> "complete"
      [] ~h.canceled /\ ~Truthy(h.error) /\ h.merged = None /\ Active(h) -> "running"
      [] ~h.canceled /\ ~Truthy(h.error) /\ h.merged = None /\ h.task # None /\ ~Active(h)
            -> "complete"
      [] OTHER -> "pending"

Settled(r) == Known(r) /\ job_state(r) \in {"complete", "error", "canceled"}

(* validation_result_counts of the merged document: the sections' counts.  *)
nfail(m) == m.oai.tally.nfail + m.ivoa.tally.nfail + m.vor.tally.nfail
nwarn(m) == m.oai.tally.nwarn + m.ivoa.tally.nwarn + m.vor.tally.nwarn

(* Fault: the recorded error is not consulted.                             *)
eligible_IgnoresError(h) ==
    /\ h.merged # None
    /\ RequireBuiltin => h.builtin
    /\ nfail(h.merged) =< MaxFailures
    /\ nwarn(h.merged) =< MaxWarnings

eligible_for_registration(h) ==
    /\ h.merged # None
    /\ ~Truthy(h.error)
    /\ RequireBuiltin => h.builtin
    /\ nfail(h.merged) =< MaxFailures
    /\ nwarn(h.merged) =< MaxWarnings

result_status(r) ==
    CASE ~Known(r) -> 404
      [] Known(r) /\ Truthy(run[r].error) /\ run[r].merged = None -> 500
      [] Known(r) /\ ~Truthy(run[r].error) /\ run[r].merged = None -> 409
      [] OTHER -> 200

-----------------------------------------------------------------------------
(* The stepper and the percentage of the status payload.                   *)

HasRow(h, phase, status) ==
    \E i \in DOMAIN h.rows : h.rows[i] = [phase |-> phase, status |-> status]

(* The phase of the last "running" row of a pipeline phase.                *)
IsActive(h, phase) ==
    \E i \in DOMAIN h.rows :
        /\ h.rows[i] = [phase |-> phase, status |-> "running"]
        /\ \A j \in i + 1 .. Len(h.rows) :
              h.rows[j].status = "running" => h.rows[j].phase \notin {"oai", "ivoa", "vor"}

NoActive(h) == \A n \in 1..3 : ~IsActive(h, Phases[n])

ErrorAt(h) ==
    LET latest == IF h.rows = <<>> THEN "" ELSE h.rows[Len(h.rows)].phase IN
    CHOOSE p \in {"oai", "ivoa", "vor"} :
        \/ IsActive(h, p)
        \/ NoActive(h) /\ p = (IF latest \in {"oai", "ivoa", "vor"} THEN latest ELSE "oai")

phase_step_states(r) ==
    LET h == run[r]
        state == job_state(r)
        Complete(p) == state = "complete" \/ HasRow(h, p, "completed")
        Fresh == state \in {"pending", "running"} /\ NoActive(h)
                 /\ \A n \in 1..3 : ~HasRow(h, Phases[n], "completed")
        StepOf(p) ==
            IF Complete(p) THEN "complete"
            ELSE IF state = "error" /\ p = ErrorAt(h) THEN "error"
            ELSE IF IsActive(h, p) \/ (p = "oai" /\ Fresh) THEN "active"
            ELSE "pending"
    IN  [n \in 1..3 |-> StepOf(Phases[n])]

(* int(done/3*100 + 15 if a step is active), clamped to 5..99.             *)
progress_percent(r) ==
    LET steps == phase_step_states(r)
        done == Cardinality({n \in 1..3 : steps[n] = "complete"})
        active == IF \E n \in 1..3 : steps[n] = "active" THEN 45 ELSE 0
        pct == (100 * done + active) \div 3
    IN  IF job_state(r) = "complete" THEN 100
        ELSE IF pct < 5 THEN 5 ELSE IF pct > 99 THEN 99 ELSE pct

-----------------------------------------------------------------------------
(* HTTP operations.  Without a runid the harvest handler first creates the *)
(* run; with one, the query's endpoint, cache and builtinSchemas are       *)
(* ignored.  Each operation is given h, the run the handler works on.      *)

Sessions(r) ==
    IF Known(r) THEN {run[r]}
    ELSE {new_run_from_query(ep, cache, builtin) :
              ep \in Endpoints, cache \in BOOLEAN, builtin \in BOOLEAN}

Gate(h, op) == h.canceled => op \in {"omitted", "startsession", "getstatus", "cancel"}

(* op=StartSession and op=GetStatus; every refused operation on a new run. *)
OpenSession(r, h) ==
    /\ run' = [run EXCEPT ![r] = h]
    /\ UNCHANGED <<exec, publishers>>

(* Fault: a new worker starts with a clean error field.                    *)
Spawn_ClearsError(r, h, e) ==
    IF Active(h)
    THEN /\ run' = [run EXCEPT ![r] = h]
         /\ UNCHANGED exec
    ELSE /\ ~Started(e)
         /\ exec' = [exec EXCEPT ![e] = NewExec("worker", r, "spawned")]
         /\ run' = [run EXCEPT ![r] = [h EXCEPT !.task = e, !.error = None]]

Spawn(r, h, e) ==
    IF Active(h)
    THEN /\ run' = [run EXCEPT ![r] = h]
         /\ UNCHANGED exec
    ELSE /\ ~Started(e)
         /\ exec' = [exec EXCEPT ![e] = NewExec("worker", r, "spawned")]
         /\ run' = [run EXCEPT ![r] = [h EXCEPT !.task = e]]

(* POST /validator/jobs and the form: a new run with cache=true, spawned.  *)
_start_job(r, ep, builtin, e) ==
    /\ ~Known(r)
    /\ Spawn(r, new_run_from_query(ep, TRUE, builtin), e)
    /\ UNCHANGED publishers

(* op=Validate (or no op) on a run created with cache=true.                *)
ValidateCached(r, h, op, e) ==
    /\ Gate(h, op)
    /\ h.cache
    /\ Spawn(r, h, e)
    /\ UNCHANGED publishers

AddRows(h, rows) == [h EXCEPT !.rows = @ \o rows]
R(phase, status) == [phase |-> phase, status |-> status]

(* op=Validate on any other run: the request itself runs the pipeline.     *)
ValidateSync(r, h, op, e) ==
    /\ Gate(h, op)
    /\ ~h.cache
    /\ ~Started(e)
    /\ exec' = [exec EXCEPT ![e] = NewExec("sync", r, "oai")]
    /\ run' = [run EXCEPT ![r] = AddRows(h, <<R("oai", "running")>>)]
    /\ UNCHANGED publishers

PhaseOf == [validateoai |-> "oai", validateivoa |-> "ivoa", validatevor |-> "vor"]

(* Fault: the single phases report their progress like the job does.       *)
ValidatePhase_AddsRow(r, h, op, e) ==
    /\ Gate(h, op)
    /\ ~Started(e)
    /\ run' = [run EXCEPT ![r] = AddRows(h, <<R(PhaseOf[op], "running")>>)]
    /\ exec' = [exec EXCEPT ![e] = NewExec(op, r, PhaseOf[op])]
    /\ UNCHANGED publishers

(* op=ValidateOAI, ValidateIVOA, ValidateVOR: one phase, no status rows.   *)
ValidatePhase(r, h, op, e) ==
    /\ Gate(h, op)
    /\ ~Started(e)
    /\ run' = [run EXCEPT ![r] = h]
    /\ exec' = [exec EXCEPT ![e] = NewExec(op, r, PhaseOf[op])]
    /\ UNCHANGED publishers

(* Fault: a run that has a job is not marked, its task is only stopped.    *)
Cancel_TaskOnly(r, h) ==
    /\ run' = [run EXCEPT ![r] = [h EXCEPT !.canceled = ~Active(h)]]
    /\ exec' = IF Active(h) THEN [exec EXCEPT ![h.task].cancel = TRUE] ELSE exec
    /\ UNCHANGED publishers

(* op=Cancel: marks the run and asks the job's task, if any, to stop.      *)
Cancel(r, h) ==
    /\ run' = [run EXCEPT ![r] = [h EXCEPT !.canceled = TRUE]]
    /\ exec' = IF Active(h) THEN [exec EXCEPT ![h.task].cancel = TRUE] ELSE exec
    /\ UNCHANGED publishers

(* Fault: only the identifier is looked up, not the endpoint.              *)
Register_IdOnly(r, route, oid) ==
    /\ Known(r)
    /\ route = "harvest" => Gate(run[r], "register")
    /\ eligible_for_registration(run[r])
    /\ \A p \in publishers : p.id # oid
    /\ publishers' = publishers \cup
          {[id |-> oid, endpoint |-> run[r].endpoint, run |-> r, check |-> "ok"]}
    /\ UNCHANGED <<run, exec>>

(* register_publisher over its three routes; only the harvest route is     *)
(* closed to canceled runs.  live is the identifier Identify last gave.    *)
Register(r, route, oid) ==
    /\ Known(r)
    /\ route = "harvest" => Gate(run[r], "register")
    /\ eligible_for_registration(run[r])
    /\ \A p \in publishers : p.id # oid /\ p.endpoint # run[r].endpoint
    /\ LET live == IF run[r].identify = None THEN oid ELSE run[r].identify
       IN  publishers' = publishers \cup
             {[id |-> oid, endpoint |-> run[r].endpoint, run |-> r,
               check |-> IF live = oid THEN "ok" ELSE "identifier_mismatch"]}
    /\ UNCHANGED <<run, exec>>

-----------------------------------------------------------------------------
(* The pipeline.  Each action runs from the end of one phase's requests to *)
(* the start of the next one's.  A coroutine that was asked to stop is     *)
(* resumed with CancelledError, whatever its requests returned.            *)

(* Fault: an answer that is already in is processed in spite of Cancel.    *)
At_IgnoresCancel(e, stage) == Started(e) /\ exec[e].at = stage

At(e, stage) == Started(e) /\ exec[e].at = stage /\ ~exec[e].cancel
Pipeline(e) == exec[e].kind \in {"worker", "sync"}
SetRun(e, h) == run' = [run EXCEPT ![exec[e].run] = h]
RunOf(e) == run[exec[e].run]

(* Fault: a failed execution keeps the run's progress_lock for ever.       *)
Begin_LockKept(e) ==
    /\ At(e, "spawned")
    /\ \A f \in Execs : Started(f) /\ exec[f].run = exec[e].run => exec[f].at # "failed"
    /\ exec' = [exec EXCEPT ![e].at = "oai"]
    /\ SetRun(e, AddRows(RunOf(e), <<R("start", "running"), R("oai", "running")>>))
    /\ UNCHANGED publishers

Begin(e) ==
    /\ At(e, "spawned")
    /\ exec' = [exec EXCEPT ![e].at = "oai"]
    /\ SetRun(e, AddRows(RunOf(e), <<R("start", "running"), R("oai", "running")>>))
    /\ UNCHANGED publishers

(* Fault: phase 1 ends without its "completed" row.                        *)
FinishOAI_NoRow(e, tally) ==
    LET section == [by |-> e, tally |-> tally]
        h == [RunOf(e) EXCEPT !.oai = section]
    IN
    /\ At(e, "oai")
    /\ exec' = [exec EXCEPT ![e].at = IF Pipeline(e) THEN "ivoa" ELSE "finished",
                            ![e].oai = section]
    /\ SetRun(e, IF Pipeline(e) THEN AddRows(h, <<R("ivoa", "running")>>) ELSE h)
    /\ UNCHANGED publishers

FinishOAI(e, tally) ==
    LET section == [by |-> e, tally |-> tally]
        h == [RunOf(e) EXCEPT !.oai = section]
    IN
    /\ At(e, "oai")
    /\ IF Pipeline(e)
       THEN /\ exec' = [exec EXCEPT ![e].at = "ivoa", ![e].oai = section]
            /\ SetRun(e, AddRows(h, <<R("oai", "completed"), R("ivoa", "running")>>))
       ELSE /\ exec' = [exec EXCEPT ![e].at = "finished"]
            /\ SetRun(e, h)
    /\ UNCHANGED publishers

FinishIVOA(e, tally, oid) ==
    LET section == [by |-> e, tally |-> tally]
        h == [RunOf(e) EXCEPT !.ivoa = section]
    IN
    /\ At(e, "ivoa")
    /\ IF Pipeline(e)
       THEN /\ exec' = [exec EXCEPT ![e].at = "vor", ![e].ivoa = section]
            /\ SetRun(e, AddRows([h EXCEPT !.identify = oid],
                                 <<R("ivoa", "completed"), R("vor", "running")>>))
       ELSE /\ exec' = [exec EXCEPT ![e].at = "finished"]
            /\ SetRun(e, h)
    /\ UNCHANGED publishers

(* Fault: the merged document is built from the fields of the run.         *)
Merged_FromRun(e, vor) == [oai |-> RunOf(e).oai, ivoa |-> RunOf(e).ivoa, vor |-> vor]

(* The merged document is a copy of the coroutine's own three roots.       *)
Merged(e, vor) == [oai |-> exec[e].oai, ivoa |-> exec[e].ivoa, vor |-> vor]

FinishVOR(e, tally) ==
    LET section == [by |-> e, tally |-> tally]
        h == [RunOf(e) EXCEPT !.vor = section]
        done == IF exec[e].kind = "worker" THEN <<R("done", "completed")>> ELSE <<>>
    IN
    /\ At(e, "vor")
    /\ exec' = [exec EXCEPT ![e].at = "finished"]
    /\ IF Pipeline(e)
       THEN SetRun(e, AddRows([h EXCEPT !.merged = Merged(e, section)],
                              <<R("vor", "completed")>> \o done))
       ELSE SetRun(e, h)
    /\ UNCHANGED publishers

(* A phase raises.  The worker records str(exc); a request answers 500.    *)
Fail(e, text) ==
    /\ Started(e) /\ exec[e].at \in {"oai", "ivoa", "vor"} /\ ~exec[e].cancel
    /\ exec' = [exec EXCEPT ![e].at = "failed"]
    /\ IF exec[e].kind = "worker"
       THEN SetRun(e, AddRows([RunOf(e) EXCEPT !.error = text], <<R("done", "error")>>))
       ELSE UNCHANGED run
    /\ UNCHANGED publishers

(* Fault: a task that never began is not woken up.                         *)
Interrupted_OnlyBegun(e) ==
    /\ Live(e) /\ exec[e].cancel /\ exec[e].at # "spawned"
    /\ exec' = [exec EXCEPT ![e].at = "canceled"]
    /\ SetRun(e, AddRows(RunOf(e), <<R("done", "canceled")>>))
    /\ UNCHANGED publishers

(* CancelledError is delivered; a task that never began adds no row.       *)
Interrupted(e) ==
    /\ Live(e) /\ exec[e].cancel
    /\ exec' = [exec EXCEPT ![e].at = "canceled"]
    /\ IF exec[e].at = "spawned" THEN UNCHANGED run
       ELSE SetRun(e, AddRows(RunOf(e), <<R("done", "canceled")>>))
    /\ UNCHANGED publishers

-----------------------------------------------------------------------------
Init ==
    /\ run = [r \in Runs |-> None]
    /\ exec = [e \in Execs |-> None]
    /\ publishers = {}

Request ==
    \E r \in Runs :
        \/ \E h \in Sessions(r) : OpenSession(r, h) \/ Cancel(r, h)
        \/ \E h \in Sessions(r), e \in Execs, op \in {"validate", "omitted"} :
              ValidateCached(r, h, op, e) \/ ValidateSync(r, h, op, e)
        \/ \E h \in Sessions(r), e \in Execs,
              op \in DOMAIN PhaseOf :
              ValidatePhase(r, h, op, e)
        \/ \E ep \in Endpoints, builtin \in BOOLEAN, e \in Execs :
              _start_job(r, ep, builtin, e)
        \/ \E route \in {"harvest", "validator", "publishers"}, oid \in Ids :
              Register(r, route, oid)

Step(e) ==
    \/ Begin(e)
    \/ \E tally \in Tallies : FinishOAI(e, tally) \/ FinishVOR(e, tally)
    \/ \E tally \in Tallies, oid \in Ids \cup {None} : FinishIVOA(e, tally, oid)
    \/ \E text \in Texts : Fail(e, text)
    \/ Interrupted(e)

Next == Request \/ \E e \in Execs : Step(e)

Spec == Init /\ [][Next]_vars

(* The event loop runs a task it was given and delivers a cancellation.    *)
(* Nothing is owed by clients, nor by endpoints: a phase has no limit of   *)
(* its own on its pages (phase3.py 81), and the timeout of the HTTP client *)
(* is per operation on the socket, so that a phase need never end.         *)
FairSpec == Spec /\ \A e \in Execs : WF_vars(Begin(e)) /\ WF_vars(Interrupted(e))

-----------------------------------------------------------------------------
(* Properties.                                                             *)

(* Every run, coroutine and publisher has the fields and values its class  *)
(* declares.                                                               *)
TypeOK ==
    /\ run \in [Runs -> HarvestRun \cup {None}]
    /\ exec \in [Execs -> Exec \cup {None}]
    /\ publishers \subseteq Publisher

(* A report never mixes executions: whatever other requests or reruns      *)
(* overwrote run.oai_validation, ivoa_validation or vor_validation in the  *)
(* meantime, the three sections of merged_validation come from one         *)
(* execution of the whole pipeline on this very run (harvest_runner.py     *)
(* 113-124).                                                               *)
MergedFromOneExecution ==
    \A r \in Runs : Known(r) /\ run[r].merged # None =>
        LET m == run[r].merged IN
        /\ m.oai.by = m.ivoa.by /\ m.ivoa.by = m.vor.by
        /\ Started(m.vor.by)
        /\ exec[m.vor.by].run = r /\ Pipeline(m.vor.by)
        /\ exec[m.vor.by].at = "finished"

(* However often Validate is repeated, a run has at most one live worker,  *)
(* and it is the one Cancel can reach (validation_job.py 125-126).         *)
OneWorkerPerRun ==
    \A e \in Execs : Live(e) /\ exec[e].kind = "worker" =>
        /\ Known(exec[e].run)
        /\ run[exec[e].run].task = e

(* A worker that Cancel reached never publishes its report, even when the  *)
(* answer of its last request was already in: no merged_validation comes   *)
(* from a coroutine asked to stop (harvest.py 155-159).                    *)
CanceledWorkerNeverReports ==
    \A r \in Runs : Known(r) /\ run[r].merged # None =>
        ~exec[run[r].merged.vor.by].cancel

(* A run one of whose workers failed is never published, even if another   *)
(* request validated the same run without an error before or after         *)
(* (registration_policy.py 36-37): the failure is never forgotten.         *)
FailedRunNotRegistrable ==
    \A e \in Execs :
        Started(e) /\ exec[e].kind = "worker" /\ exec[e].at = "failed"
            => ~eligible_for_registration(run[exec[e].run])

(* Every published row stems from a known run with a complete report, the  *)
(* same endpoint and, when the settings ask for them, built-in schemas;    *)
(* no two rows share an identifier or an endpoint (registration.py 30-73). *)
PublishedOnceFromReport ==
    /\ \A p \in publishers :
          /\ Known(p.run) /\ run[p.run].merged # None
          /\ run[p.run].endpoint = p.endpoint
          /\ RequireBuiltin => run[p.run].builtin
    /\ \A p, q \in publishers : p.id = q.id \/ p.endpoint = q.endpoint => p = q

(* The stepper shows finished phases, then at most one active or failed    *)
(* phase, then pending ones, also when several executions of one run add   *)
(* their status rows in any interleaving (validation_job.py 62-101).       *)
StepperIsPrefix ==
    \A r \in Runs : Known(r) =>
        LET s == phase_step_states(r) IN
        \A m, n \in 1..3 : m < n =>
            /\ s[n] # "pending" => s[m] = "complete"
            /\ s[m] \in {"active", "error"} => s[n] = "pending"

(* What the page's poller stops on is final: a run it was told is          *)
(* complete, failed or canceled never shows as pending or running again,   *)
(* and one it was told is canceled stays so (validator-watch.js 85-116).   *)
NoResurrection ==
    [][\A r \in Runs : Settled(r) =>
          /\ Settled(r)'
          /\ job_state(r) = "canceled" => job_state(r)' = "canceled"]_vars

(* What clients rely on, JobStatus, is what sessions, workers and requests *)
(* together do: a job's state moves along its edges only, and a run that   *)
(* is reported as complete has a report (validation_job.py 32-43,          *)
(* validator.py 155-158).                                                  *)
Status == INSTANCE JobStatus WITH
    state <- [r \in Runs |-> IF Known(r) THEN job_state(r) ELSE "unknown"],
    report <- [r \in Runs |-> Known(r) /\ run[r].merged # None]

KeepsJobStatus == Status!JobSpec

(* The progress bar of a running job never goes back, whatever             *)
(* single-phase requests are made on the same run, as long as no second    *)
(* pipeline has worked on it (validation_job.py 104-115).                  *)
ProgressNeverFalls ==
    [][\A r \in Runs :
          /\ Known(r) /\ job_state(r) = "running" /\ job_state(r)' \in {"running", "complete"}
          /\ \A e, f \in Execs :
                (Started(e) /\ Pipeline(e) /\ exec[e].run = r)'
                    /\ (Started(f) /\ Pipeline(f) /\ exec[f].run = r)' => e = f
          => progress_percent(r)' >= progress_percent(r)]_vars

(* For ever in one phase with its endpoint, and never asked to stop.       *)
LeftToEndpoint(e) ==
    \E p \in {"oai", "ivoa", "vor"} : <>[]At(e, p)

(* A job that shows as running ends in a state the poller stops on, unless *)
(* its own worker is left to its endpoint for ever: no other job, request, *)
(* failure or lock of the server holds it up (validation_job.py 118-147,   *)
(* harvest_runner.py 63-124).                                              *)
RunningSettles ==
    \A r \in Runs :
        \/ (Known(r) /\ job_state(r) = "running") ~> Settled(r)
        \/ \E e \in Execs : LeftToEndpoint(e) /\ <>[](Known(r) /\ run[r].task = e)

(* A coroutine ends unless it is left to its endpoint for ever.  One that  *)
(* Cancel reached ends whatever its endpoint does, at any stage, so that   *)
(* its task is not left hanging (harvest.py 155-159, validation_job.py     *)
(* 125-147).                                                               *)
ExecutionsEnd == \A e \in Execs : (Started(e) ~> Ended(e)) \/ LeftToEndpoint(e)

-----------------------------------------------------------------------------
(* What the documentation says and the code does not do.                   *)

(* A job whose worker failed without a report answers the result request   *)
(* with 500, "Validation or internal failure"                              *)
(* (docs/regvalidate-functional-contract.md 80; validator.py 155-158).    *)
FailureIsAnswered500 ==
    \A r \in Runs :
        Known(r) /\ run[r].task # None /\ run[r].merged = None =>
            (Started(run[r].task) /\ exec[run[r].task].at = "failed"
                => result_status(r) = 500)

(* Cancel interrupts the run: no report is built for it afterwards         *)
(* (docs/regvalidate-functional-contract.md 70; harvest.py 100, 155-159).  *)
CancelInterrupts ==
    [][\A r \in Runs : Known(r) /\ run[r].canceled => run'[r].merged = run[r].merged]_vars
=============================================================================
