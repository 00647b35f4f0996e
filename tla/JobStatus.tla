------------------------------ MODULE JobStatus ------------------------------
(***************************************************************************)
(* What a client of the server can rely on about the jobs of its runs: the *)
(* state that GET /validator/jobs/{run_id} reports                         *)
(* (service/validation_job.py, job_state) and whether there is a report    *)
(* for the result route.  HarvestJob shows that sessions, workers and      *)
(* requests keep to it; WatchPage is a client that uses nothing else.      *)
(***************************************************************************)

CONSTANT
    Runs             \* run ids

VARIABLES
    state,           \* per run the reported state, or "unknown" (404)
    report           \* per run: is there a merged report?

jvars == <<state, report>>

Becomes(r, new) == state' = [state EXCEPT ![r] = new]
Ends == {"complete", "error", "canceled"}

JobInit ==
    /\ state = [r \in Runs |-> "unknown"]
    /\ report = [r \in Runs |-> FALSE]

(* A session is opened, with a job or without, or created by its Cancel.   *)
Create(r) ==
    /\ state[r] = "unknown"
    /\ \E new \in {"pending", "running", "canceled"} : Becomes(r, new)
    /\ UNCHANGED report

(* Validate starts a job on a session that has none.                       *)
Start(r) ==
    /\ state[r] = "pending"
    /\ Becomes(r, "running")
    /\ UNCHANGED report

(* The pipeline ends.  The report of a run that was canceled, or one of    *)
(* whose jobs failed, does not change what the run is reported as.         *)
Complete(r) ==
    /\ state[r] # "unknown"
    /\ Becomes(r, IF state[r] \in Ends THEN state[r] ELSE "complete")
    /\ report' = [report EXCEPT ![r] = TRUE]

(* A job fails: the first one, or one that was started again.              *)
Fail(r) ==
    /\ state[r] \in {"running", "complete"}
    /\ Becomes(r, "error")
    /\ UNCHANGED report

Cancel(r) ==
    /\ state[r] # "unknown"
    /\ Becomes(r, "canceled")
    /\ UNCHANGED report

JobStep(r) == Create(r) \/ Start(r) \/ Complete(r) \/ Fail(r) \/ Cancel(r)
JobNext == \E r \in Runs : JobStep(r)

JobSpec == JobInit /\ [][JobNext]_jvars
=============================================================================
