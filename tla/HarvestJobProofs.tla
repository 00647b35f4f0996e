-------------------------- MODULE HarvestJobProofs --------------------------
(***************************************************************************)
(* Proofs about HarvestJob for every set of runs, executions, endpoints,   *)
(* identifiers, report counts and exception texts.                         *)
(***************************************************************************)
EXTENDS HarvestJob, TLAPS

-----------------------------------------------------------------------------
(* Lemmas on the data.                                                     *)

(* Appending status rows to a run yields a run that differs in its rows.   *)
LEMMA AddRowsType ==
    ASSUME NEW h \in HarvestRun, NEW rows \in Seq(Row)
    PROVE  /\ AddRows(h, rows) \in HarvestRun
           /\ AddRows(h, rows).task = h.task
           /\ AddRows(h, rows).merged = h.merged
           /\ AddRows(h, rows).error = h.error
<1>1. h.rows \o rows \in Seq(Row)
  BY DEF HarvestRun
<1>2. AddRows(h, rows) \in HarvestRun
  BY <1>1 DEF AddRows, HarvestRun
<1>3. /\ AddRows(h, rows).task = h.task
      /\ AddRows(h, rows).merged = h.merged
      /\ AddRows(h, rows).error = h.error
  BY DEF AddRows, HarvestRun
<1> QED BY <1>2, <1>3

(* A run created from a query is a run with nothing validated yet.         *)
LEMMA NewRunType ==
    ASSUME NEW ep \in Endpoints, NEW cache \in BOOLEAN, NEW builtin \in BOOLEAN
    PROVE  /\ new_run_from_query(ep, cache, builtin) \in HarvestRun
           /\ new_run_from_query(ep, cache, builtin).merged = None
           /\ new_run_from_query(ep, cache, builtin).task = None
           /\ new_run_from_query(ep, cache, builtin).error = None
BY DEF new_run_from_query, HarvestRun

(* The run a handler works on is a run: the known one, or a fresh one.     *)
LEMMA SessionType ==
    ASSUME TypeOK, NEW r \in Runs, NEW h \in Sessions(r)
    PROVE  /\ h \in HarvestRun
           /\ Known(r) => h = run[r]
           /\ ~Known(r) => h.merged = None /\ h.task = None /\ h.error = None
<1>1. CASE Known(r)
  BY <1>1 DEF Sessions, TypeOK, Known
<1>2. CASE ~Known(r)
  BY <1>2, NewRunType DEF Sessions
<1> QED BY <1>1, <1>2

(* A new execution is an execution.                                        *)
LEMMA NewExecType ==
    ASSUME NEW kind \in Kinds, NEW r \in Runs, NEW at \in {"spawned", "oai", "ivoa", "vor"}
    PROVE  NewExec(kind, r, at) \in Exec
BY DEF NewExec, Exec

(* The phase of a single-phase operation is a phase.                       *)
LEMMA PhaseOfType ==
    ASSUME NEW op \in DOMAIN PhaseOf
    PROVE  op \in Kinds /\ op \notin {"worker", "sync"} /\ PhaseOf[op] \in {"oai", "ivoa", "vor"}
BY DEF PhaseOf, Kinds

(* A coroutine that has begun belongs to a known run of the right type.    *)
LEMMA StartedType ==
    ASSUME TypeOK, NEW e \in Execs, Started(e)
    PROVE  exec[e] \in Exec /\ exec[e].run \in Runs
BY DEF TypeOK, Started, Exec

-----------------------------------------------------------------------------
(* Type correctness.                                                       *)

(* Spawning a worker keeps the runs and the executions well typed.         *)
LEMMA SpawnType ==
    ASSUME TypeOK, NEW r \in Runs, NEW h \in HarvestRun, NEW e \in Execs, Spawn(r, h, e)
    PROVE  run' \in [Runs -> HarvestRun \cup {None}] /\ exec' \in [Execs -> Exec \cup {None}]
<1>1. CASE Active(h)
  BY <1>1 DEF Spawn, TypeOK
<1>2. CASE ~Active(h)
  <2>1. NewExec("worker", r, "spawned") \in Exec
    BY NewExecType DEF Kinds
  <2>2. [h EXCEPT !.task = e] \in HarvestRun
    BY DEF HarvestRun
  <2> QED BY <1>2, <2>1, <2>2 DEF Spawn, TypeOK
<1> QED BY <1>1, <1>2

(* The status rows the pipeline adds are status rows.                      *)
LEMMA RowTypes ==
    /\ <<R("start", "running"), R("oai", "running")>> \in Seq(Row)
    /\ <<R("oai", "running")>> \in Seq(Row)
    /\ <<R("oai", "completed"), R("ivoa", "running")>> \in Seq(Row)
    /\ <<R("ivoa", "completed"), R("vor", "running")>> \in Seq(Row)
    /\ <<R("vor", "completed")>> \o <<R("done", "completed")>> \in Seq(Row)
    /\ <<R("vor", "completed")>> \o <<>> \in Seq(Row)
    /\ <<R("done", "error")>> \in Seq(Row)
    /\ <<R("done", "canceled")>> \in Seq(Row)
BY DEF R, Row

(* Setting the run of an execution keeps the table of runs well typed.     *)
LEMMA SetRunType ==
    ASSUME TypeOK, NEW e \in Execs, Started(e), NEW h \in HarvestRun, SetRun(e, h)
    PROVE  run' \in [Runs -> HarvestRun \cup {None}]
BY StartedType DEF SetRun, TypeOK

(* Every started execution works on a known run.                           *)
RunsKnown == \A e \in Execs : Started(e) => Known(exec[e].run)

(* The run of a started execution is a run.                                *)
LEMMA RunOfType ==
    ASSUME TypeOK, RunsKnown, NEW e \in Execs, Started(e)
    PROVE  RunOf(e) \in HarvestRun
BY StartedType DEF TypeOK, RunsKnown, Known, RunOf

(* Every HTTP operation keeps the types.                                   *)
LEMMA RequestType ==
    ASSUME TypeOK, Request
    PROVE  TypeOK'
<1> PICK r \in Runs :
      \/ \E h \in Sessions(r) : OpenSession(r, h) \/ Cancel(r, h)
      \/ \E h \in Sessions(r), e \in Execs, op \in {"validate", "omitted"} :
            ValidateCached(r, h, op, e) \/ ValidateSync(r, h, op, e)
      \/ \E h \in Sessions(r), e \in Execs, op \in DOMAIN PhaseOf : ValidatePhase(r, h, op, e)
      \/ \E ep \in Endpoints, builtin \in BOOLEAN, e \in Execs : _start_job(r, ep, builtin, e)
      \/ \E route \in {"harvest", "validator", "publishers"}, oid \in Ids : Register(r, route, oid)
  BY DEF Request
<1>1. ASSUME NEW h \in Sessions(r), OpenSession(r, h) PROVE TypeOK'
  BY <1>1, SessionType DEF OpenSession, TypeOK
<1>2. ASSUME NEW h \in Sessions(r), Cancel(r, h) PROVE TypeOK'
  <2>0. h \in HarvestRun
    BY SessionType
  <2>1. h \in HarvestRun /\ [h EXCEPT !.canceled = TRUE] \in HarvestRun
    BY <2>0 DEF HarvestRun
  <2>2. run' \in [Runs -> HarvestRun \cup {None}]
    BY <1>2, <2>1 DEF Cancel, TypeOK
  <2>3. exec' \in [Execs -> Exec \cup {None}]
    <3>1. CASE Active(h)
      <4>1. h.task \in Execs /\ Started(h.task)
        BY <3>1, <2>1 DEF Active, Live, HarvestRun
      <4>2. [exec[h.task] EXCEPT !.cancel = TRUE] \in Exec
        BY <4>1, StartedType DEF Exec
      <4> QED BY <1>2, <3>1, <4>1, <4>2 DEF Cancel, TypeOK
    <3> QED BY <1>2, <3>1 DEF Cancel, TypeOK
  <2> QED BY <1>2, <2>2, <2>3 DEF Cancel, TypeOK
<1>3. ASSUME NEW h \in Sessions(r), NEW e \in Execs, NEW op, ValidateCached(r, h, op, e)
      PROVE TypeOK'
  BY <1>3, SessionType, SpawnType DEF ValidateCached, TypeOK
<1>4. ASSUME NEW h \in Sessions(r), NEW e \in Execs, NEW op, ValidateSync(r, h, op, e)
      PROVE TypeOK'
  <2>1. AddRows(h, <<R("oai", "running")>>) \in HarvestRun
    BY SessionType, RowTypes, AddRowsType
  <2>2. NewExec("sync", r, "oai") \in Exec
    BY NewExecType DEF Kinds
  <2> QED BY <1>4, <2>1, <2>2 DEF ValidateSync, TypeOK
<1>5. ASSUME NEW h \in Sessions(r), NEW e \in Execs, NEW op \in DOMAIN PhaseOf,
             ValidatePhase(r, h, op, e)
      PROVE TypeOK'
  <2>1. NewExec(op, r, PhaseOf[op]) \in Exec
    BY NewExecType, PhaseOfType
  <2> QED BY <1>5, <2>1, SessionType DEF ValidatePhase, TypeOK
<1>6. ASSUME NEW ep \in Endpoints, NEW builtin \in BOOLEAN, NEW e \in Execs,
             _start_job(r, ep, builtin, e)
      PROVE TypeOK'
  <2>1. new_run_from_query(ep, TRUE, builtin) \in HarvestRun
    BY NewRunType
  <2> QED BY <1>6, <2>1, SpawnType DEF _start_job, TypeOK
<1>7. ASSUME NEW route, NEW oid \in Ids, Register(r, route, oid) PROVE TypeOK'
  <2>1. run[r] \in HarvestRun
    BY <1>7 DEF Register, Known, TypeOK
  <2>2. \A p \in publishers' \ publishers : p \in Publisher
    BY <1>7, <2>1 DEF Register, Publisher, HarvestRun
  <2> QED BY <1>7, <2>2 DEF Register, TypeOK
<1> QED BY <1>1, <1>2, <1>3, <1>4, <1>5, <1>6, <1>7

(* A pipeline past phase 1, or 2, holds the section it built itself.       *)
LocalsOK ==
    \A e \in Execs : Started(e) /\ Pipeline(e) =>
        /\ exec[e].at \in {"ivoa", "vor"} => exec[e].oai \in Section /\ exec[e].oai.by = e
        /\ exec[e].at = "vor" => exec[e].ivoa \in Section /\ exec[e].ivoa.by = e

(* Every step of a coroutine keeps the types.                              *)
LEMMA StepType ==
    ASSUME TypeOK, RunsKnown, LocalsOK, NEW e \in Execs, Step(e)
    PROVE  TypeOK'
<1>0. Started(e)
  BY DEF Step, Begin, FinishOAI, FinishIVOA, FinishVOR, Fail, Interrupted, At, Live
<1> DEFINE h == RunOf(e)
<1>1. exec[e] \in Exec /\ h \in HarvestRun
  BY <1>0, StartedType, RunOfType
<1> HIDE DEF h
<1>2. ASSUME Begin(e) PROVE TypeOK'
  <2>1. AddRows(h, <<R("start", "running"), R("oai", "running")>>) \in HarvestRun
    BY <1>1, RowTypes, AddRowsType
  <2>2. [exec[e] EXCEPT !.at = "oai"] \in Exec
    BY <1>1 DEF Exec
  <2>3. run' \in [Runs -> HarvestRun \cup {None}]
    BY <1>0, <1>2, <2>1, SetRunType DEF Begin, h
  <2> QED BY <1>2, <2>2, <2>3 DEF Begin, TypeOK
<1>3. ASSUME NEW tally \in Tallies, FinishOAI(e, tally) PROVE TypeOK'
  <2> DEFINE section == [by |-> e, tally |-> tally]
             g == [h EXCEPT !.oai = section]
  <2>1. section \in Section
    BY DEF Section
  <2>2. g \in HarvestRun
    BY <1>1, <2>1 DEF HarvestRun
  <2>3. AddRows(g, <<R("oai", "completed"), R("ivoa", "running")>>) \in HarvestRun
    BY <2>2, RowTypes, AddRowsType
  <2>4. /\ [exec[e] EXCEPT !.at = "ivoa", !.oai = section] \in Exec
        /\ [exec[e] EXCEPT !.at = "finished"] \in Exec
    BY <1>1, <2>1 DEF Exec
  <2>5. run' \in [Runs -> HarvestRun \cup {None}]
    <3>1. SetRun(e, g) \/ SetRun(e, AddRows(g, <<R("oai", "completed"), R("ivoa", "running")>>))
      BY <1>3 DEF FinishOAI, h
    <3> HIDE DEF g
    <3> QED BY <1>0, <2>2, <2>3, <3>1, SetRunType
  <2>6. exec' \in [Execs -> Exec \cup {None}]
    <3>1. \/ exec' = [exec EXCEPT ![e] = [exec[e] EXCEPT !.at = "ivoa", !.oai = section]]
          \/ exec' = [exec EXCEPT ![e] = [exec[e] EXCEPT !.at = "finished"]]
      BY <1>1, <1>3 DEF FinishOAI, TypeOK, Exec
    <3> QED BY <2>4, <3>1 DEF TypeOK
  <2> QED BY <1>3, <2>5, <2>6 DEF FinishOAI, TypeOK
<1>4. ASSUME NEW tally \in Tallies, NEW oid \in Ids \cup {None}, FinishIVOA(e, tally, oid)
      PROVE TypeOK'
  <2> DEFINE section == [by |-> e, tally |-> tally]
             g == [h EXCEPT !.ivoa = section]
             k == [g EXCEPT !.identify = oid]
  <2>1. section \in Section
    BY DEF Section
  <2>2. g \in HarvestRun
    BY <1>1, <2>1 DEF HarvestRun
  <2>3. k \in HarvestRun
    BY <2>2 DEF HarvestRun
  <2>4. AddRows(k, <<R("ivoa", "completed"), R("vor", "running")>>) \in HarvestRun
    BY <2>3, RowTypes, AddRowsType
  <2>5. /\ [exec[e] EXCEPT !.at = "vor", !.ivoa = section] \in Exec
        /\ [exec[e] EXCEPT !.at = "finished"] \in Exec
    BY <1>1, <2>1 DEF Exec
  <2>6. run' \in [Runs -> HarvestRun \cup {None}]
    <3>1. SetRun(e, g) \/ SetRun(e, AddRows(k, <<R("ivoa", "completed"), R("vor", "running")>>))
      BY <1>4 DEF FinishIVOA, h
    <3> HIDE DEF g, k
    <3> QED BY <1>0, <2>2, <2>4, <3>1, SetRunType
  <2>7. exec' \in [Execs -> Exec \cup {None}]
    <3>1. \/ exec' = [exec EXCEPT ![e] = [exec[e] EXCEPT !.at = "vor", !.ivoa = section]]
          \/ exec' = [exec EXCEPT ![e] = [exec[e] EXCEPT !.at = "finished"]]
      BY <1>1, <1>4 DEF FinishIVOA, TypeOK, Exec
    <3> QED BY <2>5, <3>1 DEF TypeOK
  <2> QED BY <1>4, <2>6, <2>7 DEF FinishIVOA, TypeOK
<1>5. ASSUME NEW tally \in Tallies, FinishVOR(e, tally) PROVE TypeOK'
  <2> DEFINE section == [by |-> e, tally |-> tally]
             g == [h EXCEPT !.vor = section]
             k == [g EXCEPT !.merged = Merged(e, section)]
  <2>1. section \in Section
    BY DEF Section
  <2>2. g \in HarvestRun
    BY <1>1, <2>1 DEF HarvestRun
  <2>3. Pipeline(e) => k \in HarvestRun
    <3>1. Pipeline(e) => Merged(e, section) \in Report
      BY <1>0, <1>5, <2>1 DEF FinishVOR, At, LocalsOK, Merged, Report
    <3> QED BY <2>2, <3>1 DEF HarvestRun
  <2>4. [exec[e] EXCEPT !.at = "finished"] \in Exec
    BY <1>1 DEF Exec
  <2>5. run' \in [Runs -> HarvestRun \cup {None}]
    <3>1. \/ SetRun(e, g)
          \/ Pipeline(e) /\ SetRun(e, AddRows(k, <<R("vor", "completed")>> \o <<R("done", "completed")>>))
          \/ Pipeline(e) /\ SetRun(e, AddRows(k, <<R("vor", "completed")>> \o <<>>))
      BY <1>5 DEF FinishVOR, h
    <3> HIDE DEF g, k
    <3>2. CASE SetRun(e, g)
      BY <1>0, <2>2, <3>2, SetRunType
    <3>3. CASE Pipeline(e) /\ SetRun(e, AddRows(k, <<R("vor", "completed")>> \o <<R("done", "completed")>>))
      <4>1. AddRows(k, <<R("vor", "completed")>> \o <<R("done", "completed")>>) \in HarvestRun
        BY <2>3, <3>3, RowTypes, AddRowsType
      <4> QED BY <1>0, <3>3, <4>1, SetRunType
    <3>4. CASE Pipeline(e) /\ SetRun(e, AddRows(k, <<R("vor", "completed")>> \o <<>>))
      <4>1. AddRows(k, <<R("vor", "completed")>> \o <<>>) \in HarvestRun
        BY <2>3, <3>4, RowTypes, AddRowsType
      <4> QED BY <1>0, <3>4, <4>1, SetRunType
    <3> QED BY <3>1, <3>2, <3>3, <3>4
  <2> QED BY <1>5, <2>4, <2>5 DEF FinishVOR, TypeOK
<1>6. ASSUME NEW text \in Texts, Fail(e, text) PROVE TypeOK'
  <2>1. [h EXCEPT !.error = text] \in HarvestRun
    BY <1>1 DEF HarvestRun
  <2>2. AddRows([h EXCEPT !.error = text], <<R("done", "error")>>) \in HarvestRun
    BY <2>1, RowTypes, AddRowsType
  <2>3. [exec[e] EXCEPT !.at = "failed"] \in Exec
    BY <1>1 DEF Exec
  <2>4. run' \in [Runs -> HarvestRun \cup {None}]
    <3>1. CASE exec[e].kind = "worker"
      BY <1>0, <1>6, <2>2, <3>1, SetRunType DEF Fail, h
    <3>2. CASE exec[e].kind # "worker"
      BY <1>6, <3>2 DEF Fail, TypeOK
    <3> QED BY <3>1, <3>2
  <2> QED BY <1>6, <2>3, <2>4 DEF Fail, TypeOK
<1>7. ASSUME Interrupted(e) PROVE TypeOK'
  <2>1. AddRows(h, <<R("done", "canceled")>>) \in HarvestRun
    BY <1>1, RowTypes, AddRowsType
  <2>2. [exec[e] EXCEPT !.at = "canceled"] \in Exec
    BY <1>1 DEF Exec
  <2>3. run' \in [Runs -> HarvestRun \cup {None}]
    <3>1. CASE exec[e].at = "spawned"
      BY <1>7, <3>1 DEF Interrupted, TypeOK
    <3>2. CASE exec[e].at # "spawned"
      BY <1>0, <1>7, <2>1, <3>2, SetRunType DEF Interrupted, h
    <3> QED BY <3>1, <3>2
  <2> QED BY <1>7, <2>2, <2>3 DEF Interrupted, TypeOK
<1> QED BY <1>2, <1>3, <1>4, <1>5, <1>6, <1>7 DEF Step

-----------------------------------------------------------------------------
(* What a request leaves alone.                                            *)

(* Executions keep everything but the request to stop, which only reaches  *)
(* live ones.                                                              *)
ExecsKept ==
    \A f \in Execs : Started(f) =>
        /\ Started(f)'
        /\ exec'[f].kind = exec[f].kind /\ exec'[f].run = exec[f].run
        /\ exec'[f].at = exec[f].at
        /\ exec'[f].oai = exec[f].oai /\ exec'[f].ivoa = exec[f].ivoa
        /\ exec'[f].cancel = exec[f].cancel \/ Live(f)

(* Known runs keep their report and their error; new ones have neither.    *)
RunsKept ==
    \A r \in Runs : Known(r)' =>
        /\ Known(r) => run'[r].merged = run[r].merged /\ run'[r].error = run[r].error
        /\ ~Known(r) => run'[r].merged = None

RunsStay == \A r \in Runs : Known(r) => Known(r)'

(* A run with a live task keeps it.                                        *)
TasksKept == \A r \in Runs : Known(r) /\ Active(run[r]) => run'[r].task = run[r].task

(* A new execution is at its beginning, and a new worker is its run's task.*)
FreshExecs ==
    \A f \in Execs : ~Started(f) /\ Started(f)' =>
        /\ exec'[f].run \in Runs /\ Known(exec[f].run)'
        /\ ~exec'[f].cancel
        /\ exec'[f].at \in {"spawned", "oai", "ivoa", "vor"}
        /\ exec'[f].kind \in {"worker", "sync"} => exec'[f].at \in {"spawned", "oai"}
        /\ exec'[f].kind = "worker" => run'[exec'[f].run].task = f
        /\ exec'[f].kind = "worker" /\ Known(exec'[f].run) => ~Active(run[exec'[f].run])

RequestFrame == ExecsKept /\ RunsKept /\ RunsStay /\ TasksKept /\ FreshExecs

(* Spawning touches only the task of its run and the execution it uses.    *)
LEMMA SpawnFrame ==
    ASSUME TypeOK, NEW r \in Runs, NEW h \in HarvestRun, NEW e \in Execs, Spawn(r, h, e),
           Known(r) => h = run[r],
           ~Known(r) => h.merged = None /\ h.task = None /\ h.error = None
    PROVE  RequestFrame
<1> USE NoneAssumption
<1>1. CASE Active(h)
  BY <1>1 DEF Spawn, TypeOK, RequestFrame, ExecsKept, RunsKept, RunsStay, TasksKept, FreshExecs,
              Known, Started, Active, Live
<1>2. CASE ~Active(h)
  <2> DEFINE g == [h EXCEPT !.task = e]
             x == NewExec("worker", r, "spawned")
  <2>1. /\ g \in HarvestRun /\ g.merged = h.merged /\ g.error = h.error /\ g.task = e
    BY DEF HarvestRun
  <2>2. /\ x \in Exec /\ x.kind = "worker" /\ x.run = r /\ ~x.cancel /\ x.at = "spawned"
    BY NewExecType DEF Kinds, NewExec
  <2>3. ~Started(e) /\ run' = [run EXCEPT ![r] = g] /\ exec' = [exec EXCEPT ![e] = x]
    BY <1>2 DEF Spawn
  <2> HIDE DEF g, x
  <2>4. /\ run'[r] = g /\ \A s \in Runs : s # r => run'[s] = run[s]
        /\ exec'[e] = x /\ \A f \in Execs : f # e => exec'[f] = exec[f]
        /\ Known(r)' /\ Started(e)'
    BY <2>1, <2>2, <2>3 DEF TypeOK, Known, Started
  <2>5. ExecsKept
    BY <2>3, <2>4 DEF ExecsKept, Started
  <2>6. RunsKept /\ RunsStay
    BY <2>1, <2>4 DEF RunsKept, RunsStay, Known
  <2>7. TasksKept
    BY <1>2, <2>4 DEF TasksKept
  <2>8. FreshExecs
    BY <1>2, <2>1, <2>2, <2>4 DEF FreshExecs, Started, Known
  <2> QED BY <2>5, <2>6, <2>7, <2>8 DEF RequestFrame
<1> QED BY <1>1, <1>2

(* HTTP operations keep what every step must keep (see Keeps).             *)
LEMMA RequestKeeps ==
    ASSUME TypeOK, Request
    PROVE  RequestFrame
<1> USE NoneAssumption
<1> PICK r \in Runs :
      \/ \E h \in Sessions(r) : OpenSession(r, h) \/ Cancel(r, h)
      \/ \E h \in Sessions(r), e \in Execs, op \in {"validate", "omitted"} :
            ValidateCached(r, h, op, e) \/ ValidateSync(r, h, op, e)
      \/ \E h \in Sessions(r), e \in Execs, op \in DOMAIN PhaseOf : ValidatePhase(r, h, op, e)
      \/ \E ep \in Endpoints, builtin \in BOOLEAN, e \in Execs : _start_job(r, ep, builtin, e)
      \/ \E route \in {"harvest", "validator", "publishers"}, oid \in Ids : Register(r, route, oid)
  BY DEF Request
<1>1. ASSUME NEW h \in Sessions(r), OpenSession(r, h) PROVE RequestFrame
  BY <1>1, SessionType DEF OpenSession, TypeOK, RequestFrame, ExecsKept, RunsKept, RunsStay,
                           TasksKept, FreshExecs, Known, Started
<1>2. ASSUME NEW h \in Sessions(r), Cancel(r, h) PROVE RequestFrame
  <2> DEFINE g == [h EXCEPT !.canceled = TRUE]
  <2>0. h \in HarvestRun
    BY SessionType
  <2>1. /\ h \in HarvestRun /\ g \in HarvestRun /\ g.merged = h.merged /\ g.error = h.error
        /\ g.task = h.task
    BY <2>0 DEF HarvestRun
  <2>2. /\ run'[r] = g /\ \A s \in Runs : s # r => run'[s] = run[s]
        /\ Known(r)'
    BY <1>2, <2>1 DEF Cancel, TypeOK, Known
  <2> HIDE DEF g
  <2>3. RunsKept /\ RunsStay /\ TasksKept
    BY <2>1, <2>2, SessionType DEF RunsKept, RunsStay, TasksKept, Known, Active
  <2>4. ExecsKept /\ FreshExecs
    <3>1. CASE Active(h)
      <4>1. h.task \in Execs /\ Live(h.task) /\ exec[h.task] \in Exec
        BY <2>1, <3>1, StartedType DEF Active, Live, HarvestRun
      <4> DEFINE x == [exec[h.task] EXCEPT !.cancel = TRUE]
      <4>2. /\ x \in Exec /\ x.kind = exec[h.task].kind /\ x.run = exec[h.task].run
            /\ x.at = exec[h.task].at /\ x.oai = exec[h.task].oai /\ x.ivoa = exec[h.task].ivoa
        BY <4>1 DEF Exec
      <4>3. exec'[h.task] = x /\ \A f \in Execs : f # h.task => exec'[f] = exec[f]
        BY <1>2, <3>1, <4>1 DEF Cancel, TypeOK
      <4> HIDE DEF x
      <4> QED BY <4>1, <4>2, <4>3 DEF ExecsKept, FreshExecs, Started, Live
    <3>2. CASE ~Active(h)
      BY <1>2, <3>2 DEF Cancel, ExecsKept, FreshExecs, Started
    <3> QED BY <3>1, <3>2
  <2> QED BY <2>3, <2>4 DEF RequestFrame
<1>3. ASSUME NEW h \in Sessions(r), NEW e \in Execs, NEW op, ValidateCached(r, h, op, e)
      PROVE RequestFrame
  BY <1>3, SessionType, SpawnFrame DEF ValidateCached
<1>4. ASSUME NEW h \in Sessions(r), NEW e \in Execs, NEW op, ValidateSync(r, h, op, e)
      PROVE RequestFrame
  <2> DEFINE g == AddRows(h, <<R("oai", "running")>>)
             x == NewExec("sync", r, "oai")
  <2>1. g \in HarvestRun /\ g.merged = h.merged /\ g.error = h.error /\ g.task = h.task
    BY SessionType, RowTypes, AddRowsType
  <2>2. x \in Exec /\ x.kind = "sync" /\ x.run = r /\ ~x.cancel /\ x.at = "oai"
    BY NewExecType DEF Kinds, NewExec
  <2>3. ~Started(e) /\ run' = [run EXCEPT ![r] = g] /\ exec' = [exec EXCEPT ![e] = x]
    BY <1>4 DEF ValidateSync
  <2> HIDE DEF g, x
  <2> QED BY <2>1, <2>2, <2>3, SessionType
          DEF TypeOK, RequestFrame, ExecsKept, RunsKept, RunsStay, TasksKept, FreshExecs,
              Known, Started
<1>5. ASSUME NEW h \in Sessions(r), NEW e \in Execs, NEW op \in DOMAIN PhaseOf,
             ValidatePhase(r, h, op, e)
      PROVE RequestFrame
  <2> DEFINE x == NewExec(op, r, PhaseOf[op])
  <2>1. /\ x \in Exec /\ x.kind = op /\ x.run = r /\ ~x.cancel
        /\ x.at \in {"oai", "ivoa", "vor"} /\ op \notin {"worker", "sync"}
    BY NewExecType, PhaseOfType DEF NewExec
  <2>2. ~Started(e) /\ run' = [run EXCEPT ![r] = h] /\ exec' = [exec EXCEPT ![e] = x]
    BY <1>5 DEF ValidatePhase
  <2> HIDE DEF x
  <2> QED BY <2>1, <2>2, SessionType
          DEF TypeOK, RequestFrame, ExecsKept, RunsKept, RunsStay, TasksKept, FreshExecs,
              Known, Started
<1>6. ASSUME NEW ep \in Endpoints, NEW builtin \in BOOLEAN, NEW e \in Execs,
             _start_job(r, ep, builtin, e)
      PROVE RequestFrame
  BY <1>6, NewRunType, SpawnFrame DEF _start_job
<1>7. ASSUME NEW route, NEW oid \in Ids, Register(r, route, oid) PROVE RequestFrame
  BY <1>7 DEF Register, RequestFrame, ExecsKept, RunsKept, RunsStay, TasksKept, FreshExecs,
              Known, Started, Active, Live
<1> QED BY <1>1, <1>2, <1>3, <1>4, <1>5, <1>6, <1>7

-----------------------------------------------------------------------------
(* What a step of one execution does.                                      *)

(* Execution e alone moves on, and its run keeps its task.                 *)
OnlyExec(e) ==
    /\ \A f \in Execs : f # e => exec'[f] = exec[f]
    /\ Live(e) /\ Started(e)'
    /\ exec'[e].kind = exec[e].kind /\ exec'[e].run = exec[e].run
    /\ exec'[e].cancel = exec[e].cancel
    /\ exec'[e].at = "finished" => ~exec[e].cancel
    /\ \A r \in Runs : Known(r) => Known(r)' /\ run'[r].task = run[r].task

(* A report only appears when a pipeline that nobody stopped ends, and it  *)
(* consists of that pipeline's own sections.                               *)
ReportFrom(e) ==
    \A r \in Runs : Known(r)' =>
        /\ Known(r)
        /\ \/ run'[r].merged = run[r].merged
           \/ /\ r = exec[e].run /\ Pipeline(e) /\ exec[e].at = "vor"
              /\ exec'[e].at = "finished"
              /\ run'[r].merged.oai = exec[e].oai /\ run'[r].merged.ivoa = exec[e].ivoa
              /\ run'[r].merged.vor.by = e

(* An error is only overwritten by an exception's text, and a worker that  *)
(* fails leaves one.                                                       *)
ErrorFrom(e) ==
    /\ \A r \in Runs : Known(r) =>
          run'[r].error = run[r].error \/ run'[r].error \in Texts
    /\ exec'[e].kind = "worker" /\ exec'[e].at = "failed" => run'[exec[e].run].error \in Texts

(* The sections the execution holds are those it built.                    *)
LocalsFrom(e) ==
    Pipeline(e) =>
        /\ exec'[e].at \in {"oai", "ivoa", "vor", "finished", "failed", "canceled"}
        /\ exec'[e].at \in {"ivoa", "vor"} => exec'[e].oai \in Section /\ exec'[e].oai.by = e
        /\ exec'[e].at = "vor" => exec'[e].ivoa \in Section /\ exec'[e].ivoa.by = e

StepFrame(e) == OnlyExec(e) /\ ReportFrom(e) /\ ErrorFrom(e) /\ LocalsFrom(e)

(* Setting fields of the run of e leaves every other run as it is.         *)
LEMMA SetRunFrame ==
    ASSUME TypeOK, NEW e \in Execs, Started(e), NEW h \in HarvestRun, SetRun(e, h), RunsKnown
    PROVE  /\ run'[exec[e].run] = h
           /\ \A r \in Runs : r # exec[e].run => run'[r] = run[r]
           /\ \A r \in Runs : Known(r)' <=> Known(r)
BY StartedType, NoneAssumption DEF SetRun, TypeOK, RunsKnown, Known

(* A step that neither reports nor fails.                                  *)
LEMMA QuietStep ==
    ASSUME NEW e \in Execs,
           \A s \in Runs : Known(s)' <=> Known(s),
           \A s \in Runs : Known(s) => /\ run'[s].merged = run[s].merged
                                      /\ run'[s].error = run[s].error,
           exec'[e].at # "failed"
    PROVE  ReportFrom(e) /\ ErrorFrom(e)
BY DEF ReportFrom, ErrorFrom

(* The steps of a coroutine keep it as well.                               *)
LEMMA StepKeeps ==
    ASSUME TypeOK, RunsKnown, LocalsOK, NEW e \in Execs, Step(e)
    PROVE  StepFrame(e)
<1> USE NoneAssumption
<1> DEFINE h == RunOf(e)
           r == exec[e].run
<1>0. Started(e)
  BY DEF Step, Begin, FinishOAI, FinishIVOA, FinishVOR, Fail, Interrupted, At, Live
<1>1. exec[e] \in Exec /\ h \in HarvestRun /\ r \in Runs /\ h = run[r] /\ Known(r)
  BY <1>0, StartedType, RunOfType DEF RunOf, RunsKnown
<1> HIDE DEF h, r
<1>2. ASSUME Begin(e) PROVE StepFrame(e)
  <2> DEFINE g == AddRows(h, <<R("start", "running"), R("oai", "running")>>)
  <2>1. g \in HarvestRun /\ g.task = h.task /\ g.merged = h.merged /\ g.error = h.error
    BY <1>1, RowTypes, AddRowsType
  <2>2. SetRun(e, g)
    BY <1>2 DEF Begin, h
  <2> HIDE DEF g
  <2>3. /\ run'[r] = g /\ \A s \in Runs : s # r => run'[s] = run[s]
        /\ \A s \in Runs : Known(s)' <=> Known(s)
    BY <1>0, <2>1, <2>2, SetRunFrame DEF r
  <2>4. /\ \A f \in Execs : f # e => exec'[f] = exec[f]
        /\ exec'[e] = [exec[e] EXCEPT !.at = "oai"]
    BY <1>2, <1>1 DEF Begin, TypeOK
  <2>5. OnlyExec(e)
    BY <1>1, <1>2, <2>1, <2>3, <2>4 DEF OnlyExec, Begin, At, Live, AllDone, Started, Exec, r
  <2>6. ReportFrom(e) /\ ErrorFrom(e)
    BY <1>1, <2>1, <2>3, <2>4 DEF ReportFrom, ErrorFrom, Exec
  <2>7. LocalsFrom(e)
    BY <1>1, <2>4 DEF LocalsFrom, Exec
  <2> QED BY <2>5, <2>6, <2>7 DEF StepFrame
<1>3. ASSUME NEW tally \in Tallies, FinishOAI(e, tally) PROVE StepFrame(e)
  <2> DEFINE section == [by |-> e, tally |-> tally]
             g == [h EXCEPT !.oai = section]
             k == AddRows(g, <<R("oai", "completed"), R("ivoa", "running")>>)
  <2>0. section \in Section /\ section.by = e
    BY DEF Section
  <2>1. g \in HarvestRun /\ g.task = h.task /\ g.merged = h.merged /\ g.error = h.error
    BY <1>1, <2>0 DEF HarvestRun
  <2>2. k \in HarvestRun /\ k.task = h.task /\ k.merged = h.merged /\ k.error = h.error
    BY <2>1, RowTypes, AddRowsType
  <2>3. SetRun(e, g) \/ SetRun(e, k)
    BY <1>3 DEF FinishOAI, h
  <2>4. /\ \A f \in Execs : f # e => exec'[f] = exec[f]
        /\ \/ exec'[e] = [exec[e] EXCEPT !.at = "ivoa", !.oai = section]
           \/ ~Pipeline(e) /\ exec'[e] = [exec[e] EXCEPT !.at = "finished"]
    BY <1>1, <1>3 DEF FinishOAI, TypeOK, Exec
  <2> HIDE DEF g, k, section
  <2>5. /\ run'[r] \in {g, k} /\ \A s \in Runs : s # r => run'[s] = run[s]
        /\ \A s \in Runs : Known(s)' <=> Known(s)
    BY <1>0, <2>1, <2>2, <2>3, SetRunFrame DEF r
  <2>6. OnlyExec(e)
    <3>1. Live(e)
      BY <1>3 DEF At, Live, AllDone, Started, Interrupted, FinishOAI
    <3>2. /\ exec'[e] \in Exec
          /\ exec'[e].kind = exec[e].kind /\ exec'[e].run = exec[e].run
          /\ exec'[e].cancel = exec[e].cancel
      <4>1. CASE exec'[e] = [exec[e] EXCEPT !.at = "ivoa", !.oai = section]
        BY <1>1, <2>0, <4>1 DEF Exec
      <4>2. CASE exec'[e] = [exec[e] EXCEPT !.at = "finished"]
        BY <1>1, <4>2 DEF Exec
      <4> QED BY <2>4, <4>1, <4>2
    <3>3. exec'[e].at = "finished" => ~exec[e].cancel
      BY <1>1, <1>3 DEF FinishOAI, At, Exec
    <3>4. \A s \in Runs : Known(s) => Known(s)' /\ run'[s].task = run[s].task
      BY <1>1, <2>1, <2>2, <2>5
    <3> QED BY <3>1, <3>2, <3>3, <3>4, <2>4 DEF OnlyExec, Started
  <2>7. ReportFrom(e) /\ ErrorFrom(e)
    <3>1. exec'[e].at # "failed"
      BY <1>1, <2>4 DEF Exec
    <3>2. \A s \in Runs : Known(s) => /\ run'[s].merged = run[s].merged
                                     /\ run'[s].error = run[s].error
      BY <1>1, <2>1, <2>2, <2>5
    <3> QED BY <2>5, <3>1, <3>2, QuietStep
  <2>8. LocalsFrom(e)
    BY <1>1, <2>0, <2>4 DEF LocalsFrom, Exec
  <2> QED BY <2>6, <2>7, <2>8 DEF StepFrame
<1>4. ASSUME NEW tally \in Tallies, NEW oid \in Ids \cup {None}, FinishIVOA(e, tally, oid)
      PROVE StepFrame(e)
  <2> DEFINE section == [by |-> e, tally |-> tally]
             g == [h EXCEPT !.ivoa = section]
             i == [g EXCEPT !.identify = oid]
             k == AddRows(i, <<R("ivoa", "completed"), R("vor", "running")>>)
  <2>0. section \in Section /\ section.by = e
    BY DEF Section
  <2>1. g \in HarvestRun /\ g.task = h.task /\ g.merged = h.merged /\ g.error = h.error
    BY <1>1, <2>0 DEF HarvestRun
  <2>2. i \in HarvestRun /\ i.task = h.task /\ i.merged = h.merged /\ i.error = h.error
    <3> HIDE DEF g
    <3> QED BY <2>1 DEF HarvestRun
  <2>3. k \in HarvestRun /\ k.task = h.task /\ k.merged = h.merged /\ k.error = h.error
    BY <2>2, RowTypes, AddRowsType
  <2>4. SetRun(e, g) \/ SetRun(e, k)
    BY <1>4 DEF FinishIVOA, h
  <2>5. /\ \A f \in Execs : f # e => exec'[f] = exec[f]
        /\ \/ exec'[e] = [exec[e] EXCEPT !.at = "vor", !.ivoa = section]
           \/ ~Pipeline(e) /\ exec'[e] = [exec[e] EXCEPT !.at = "finished"]
    BY <1>1, <1>4 DEF FinishIVOA, TypeOK, Exec
  <2>6. exec[e].at = "ivoa" /\ ~exec[e].cancel
    BY <1>4 DEF FinishIVOA, At
  <2> HIDE DEF g, i, k, section
  <2>7. /\ run'[r] \in {g, k} /\ \A s \in Runs : s # r => run'[s] = run[s]
        /\ \A s \in Runs : Known(s)' <=> Known(s)
    BY <1>0, <2>1, <2>3, <2>4, SetRunFrame DEF r
  <2>8. OnlyExec(e)
    <3>1. Live(e)
      BY <1>0, <2>6 DEF At, Live, AllDone, Started, Interrupted, FinishOAI
    <3>2. /\ exec'[e] \in Exec
          /\ exec'[e].kind = exec[e].kind /\ exec'[e].run = exec[e].run
          /\ exec'[e].cancel = exec[e].cancel
      <4>1. CASE exec'[e] = [exec[e] EXCEPT !.at = "vor", !.ivoa = section]
        BY <1>1, <2>0, <4>1 DEF Exec
      <4>2. CASE exec'[e] = [exec[e] EXCEPT !.at = "finished"]
        BY <1>1, <4>2 DEF Exec
      <4> QED BY <2>5, <4>1, <4>2
    <3>3. exec'[e].at = "finished" => ~exec[e].cancel
      BY <1>1, <2>6 DEF FinishOAI, At, Exec
    <3>4. \A s \in Runs : Known(s) => Known(s)' /\ run'[s].task = run[s].task
      BY <1>1, <2>1, <2>3, <2>7
    <3> QED BY <3>1, <3>2, <3>3, <3>4, <2>5 DEF OnlyExec, Started
  <2>9. ReportFrom(e) /\ ErrorFrom(e)
    <3>1. exec'[e].at # "failed"
      BY <1>1, <2>5 DEF Exec
    <3>2. \A s \in Runs : Known(s) => /\ run'[s].merged = run[s].merged
                                     /\ run'[s].error = run[s].error
      BY <1>1, <2>1, <2>3, <2>7
    <3> QED BY <2>7, <3>1, <3>2, QuietStep
  <2>10. LocalsFrom(e)
    <3>1. CASE exec'[e] = [exec[e] EXCEPT !.at = "vor", !.ivoa = section]
      <4>1. exec'[e].at = "vor" /\ exec'[e].ivoa = section /\ exec'[e].oai = exec[e].oai
        BY <1>1, <3>1 DEF Exec
      <4>2. Pipeline(e) => exec[e].oai \in Section /\ exec[e].oai.by = e
        BY <1>0, <2>6 DEF LocalsOK
      <4> QED BY <2>0, <4>1, <4>2 DEF LocalsFrom
    <3>2. CASE ~Pipeline(e)
      BY <3>2 DEF LocalsFrom
    <3> QED BY <2>5, <3>1, <3>2
  <2> QED BY <2>8, <2>9, <2>10 DEF StepFrame
<1>5. ASSUME NEW tally \in Tallies, FinishVOR(e, tally) PROVE StepFrame(e)
  <2> DEFINE section == [by |-> e, tally |-> tally]
             g == [h EXCEPT !.vor = section]
             i == [g EXCEPT !.merged = Merged(e, section)]
             k == AddRows(i, <<R("vor", "completed")>> \o <<R("done", "completed")>>)
             l == AddRows(i, <<R("vor", "completed")>> \o <<>>)
  <2>0. section \in Section /\ section.by = e
    BY DEF Section
  <2>1. g \in HarvestRun /\ g.task = h.task /\ g.merged = h.merged /\ g.error = h.error
    BY <1>1, <2>0 DEF HarvestRun
  <2>2. exec[e].at = "vor" /\ ~exec[e].cancel
    BY <1>5 DEF FinishVOR, At
  <2>3. Pipeline(e) => /\ i \in HarvestRun /\ i.task = h.task /\ i.error = h.error
                       /\ i.merged = Merged(e, section)
    <3>1. Pipeline(e) => Merged(e, section) \in Report
      BY <1>0, <2>0, <2>2 DEF LocalsOK, Merged, Report
    <3> QED BY <2>1, <3>1 DEF HarvestRun
  <2>4. Pipeline(e) => /\ k \in HarvestRun /\ k.task = h.task /\ k.error = h.error
                       /\ k.merged = Merged(e, section)
    BY <2>3, RowTypes, AddRowsType
  <2>5. Pipeline(e) => /\ l \in HarvestRun /\ l.task = h.task /\ l.error = h.error
                       /\ l.merged = Merged(e, section)
    BY <2>3, RowTypes, AddRowsType
  <2>6. SetRun(e, g) \/ (Pipeline(e) /\ (SetRun(e, k) \/ SetRun(e, l)))
    BY <1>5 DEF FinishVOR, h
  <2>7. /\ \A f \in Execs : f # e => exec'[f] = exec[f]
        /\ exec'[e] = [exec[e] EXCEPT !.at = "finished"]
    BY <1>1, <1>5 DEF FinishVOR, TypeOK
  <2> DEFINE m == Merged(e, section)
  <2>8. m.oai = exec[e].oai /\ m.ivoa = exec[e].ivoa /\ m.vor.by = e
    BY <2>0 DEF Merged
  <2> HIDE DEF g, i, k, l, m, section
  <2>9. /\ run'[r] = g \/ (Pipeline(e) /\ run'[r] \in {k, l})
        /\ \A s \in Runs : s # r => run'[s] = run[s]
        /\ \A s \in Runs : Known(s)' <=> Known(s)
    BY <1>0, <2>1, <2>4, <2>5, <2>6, SetRunFrame DEF r
  <2>10. OnlyExec(e)
    BY <1>0, <1>1, <2>1, <2>2, <2>4, <2>5, <2>7, <2>9 DEF OnlyExec, Live, AllDone, Started, Exec
  <2>11. ReportFrom(e)
    BY <1>1, <2>1, <2>2, <2>4, <2>5, <2>7, <2>8, <2>9 DEF ReportFrom, Exec, r, m
  <2>12. ErrorFrom(e) /\ LocalsFrom(e)
    BY <1>1, <2>1, <2>4, <2>5, <2>7, <2>9 DEF ErrorFrom, LocalsFrom, Exec
  <2> QED BY <2>10, <2>11, <2>12 DEF StepFrame
<1>6. ASSUME NEW text \in Texts, Fail(e, text) PROVE StepFrame(e)
  <2> DEFINE g == [h EXCEPT !.error = text]
             k == AddRows(g, <<R("done", "error")>>)
  <2>1. g \in HarvestRun /\ g.task = h.task /\ g.merged = h.merged /\ g.error = text
    BY <1>1 DEF HarvestRun
  <2>2. k \in HarvestRun /\ k.task = h.task /\ k.merged = h.merged /\ k.error = text
    BY <2>1, RowTypes, AddRowsType
  <2>3. IF exec[e].kind = "worker" THEN SetRun(e, k) ELSE run' = run
    BY <1>6 DEF Fail, h
  <2>4. /\ \A f \in Execs : f # e => exec'[f] = exec[f]
        /\ exec'[e] = [exec[e] EXCEPT !.at = "failed"]
    BY <1>1, <1>6 DEF Fail, TypeOK
  <2>5. exec[e].at \in {"oai", "ivoa", "vor"} /\ ~exec[e].cancel
    BY <1>6 DEF Fail
  <2> HIDE DEF g, k
  <2>6. /\ IF exec[e].kind = "worker" THEN run'[r] = k ELSE run'[r] = run[r]
        /\ \A s \in Runs : s # r => run'[s] = run[s]
        /\ \A s \in Runs : Known(s)' <=> Known(s)
    BY <1>0, <2>2, <2>3, SetRunFrame DEF r, Known
  <2>7. OnlyExec(e)
    BY <1>0, <1>1, <2>2, <2>4, <2>5, <2>6 DEF OnlyExec, Live, AllDone, Started, Exec
  <2>8. ReportFrom(e) /\ ErrorFrom(e) /\ LocalsFrom(e)
    BY <1>1, <2>2, <2>4, <2>6 DEF ReportFrom, ErrorFrom, LocalsFrom, Exec, r
  <2> QED BY <2>7, <2>8 DEF StepFrame
<1>7. ASSUME Interrupted(e) PROVE StepFrame(e)
  <2> DEFINE g == AddRows(h, <<R("done", "canceled")>>)
  <2>1. g \in HarvestRun /\ g.task = h.task /\ g.merged = h.merged /\ g.error = h.error
    BY <1>1, RowTypes, AddRowsType
  <2>2. run' = run \/ SetRun(e, g)
    BY <1>7 DEF Interrupted, h
  <2>3. /\ \A f \in Execs : f # e => exec'[f] = exec[f]
        /\ exec'[e] = [exec[e] EXCEPT !.at = "canceled"]
    BY <1>1, <1>7 DEF Interrupted, TypeOK
  <2> HIDE DEF g
  <2>4. /\ run'[r] = g \/ run'[r] = run[r]
        /\ \A s \in Runs : s # r => run'[s] = run[s]
        /\ \A s \in Runs : Known(s)' <=> Known(s)
    BY <1>0, <2>1, <2>2, SetRunFrame DEF r, Known
  <2>5. OnlyExec(e)
    <3>1. Live(e)
      BY <1>7 DEF At, Live, AllDone, Started, Interrupted, FinishOAI
    <3>2. /\ exec'[e] \in Exec
          /\ exec'[e].kind = exec[e].kind /\ exec'[e].run = exec[e].run
          /\ exec'[e].cancel = exec[e].cancel
      BY <1>1, <2>3 DEF Exec
    <3>3. exec'[e].at = "finished" => ~exec[e].cancel
      BY <1>1, <2>3 DEF FinishOAI, At, Exec
    <3>4. \A s \in Runs : Known(s) => Known(s)' /\ run'[s].task = run[s].task
      BY <1>1, <2>1, <2>4
    <3> QED BY <3>1, <3>2, <3>3, <3>4, <2>3 DEF OnlyExec, Started
  <2>6. ReportFrom(e) /\ ErrorFrom(e) /\ LocalsFrom(e)
    BY <1>1, <2>1, <2>3, <2>4 DEF ReportFrom, ErrorFrom, LocalsFrom, Exec
  <2> QED BY <2>5, <2>6 DEF StepFrame
<1> QED BY <1>2, <1>3, <1>4, <1>5, <1>6, <1>7 DEF Step

-----------------------------------------------------------------------------
(* The inductive invariant.                                                *)

(* An execution that ended by itself was never asked to stop.              *)
FinishedNotStopped ==
    \A e \in Execs : Started(e) /\ exec[e].at = "finished" => ~exec[e].cancel

(* Reports and workers are as they should be because executions hold only  *)
(* their own sections, belong to known runs and are not stopped once over. *)
IInv ==
    /\ TypeOK
    /\ RunsKnown
    /\ LocalsOK
    /\ FinishedNotStopped
    /\ MergedFromOneExecution
    /\ OneWorkerPerRun

(* The inductive invariant holds initially.                                *)
LEMMA InitInv == Init => IInv
<1> SUFFICES ASSUME Init PROVE IInv
  OBVIOUS
<1>1. TypeOK
  BY DEF Init, TypeOK
<1>2. \A e \in Execs : ~Started(e)
  BY DEF Init, Started
<1>3. \A r \in Runs : ~Known(r)
  BY DEF Init, Known
<1> QED BY <1>1, <1>2, <1>3 DEF IInv, RunsKnown, LocalsOK, FinishedNotStopped,
                                MergedFromOneExecution, OneWorkerPerRun, Live

(* HTTP operations preserve the inductive invariant.                       *)
LEMMA RequestInv ==
    ASSUME IInv, Request
    PROVE  IInv'
<1> USE DEF IInv
<1>1. TypeOK'
  BY RequestType
<1>2. ExecsKept /\ RunsKept /\ RunsStay /\ TasksKept /\ FreshExecs
  BY RequestKeeps DEF RequestFrame
<1>3. \A f \in Execs : Started(f) => exec[f].run \in Runs
  BY StartedType
<1>4. RunsKnown'
  BY <1>2, <1>3 DEF RunsKnown, ExecsKept, FreshExecs, RunsStay, Known
<1>5. LocalsOK'
  BY <1>2 DEF LocalsOK, ExecsKept, FreshExecs, Pipeline
<1>6. FinishedNotStopped'
  BY <1>2 DEF FinishedNotStopped, ExecsKept, FreshExecs, Live, AllDone
<1>7. MergedFromOneExecution'
  <2> SUFFICES ASSUME NEW r \in Runs, Known(r)', run'[r].merged # None,
                      NEW b, b = run'[r].merged.vor.by
               PROVE  /\ run'[r].merged.oai.by = b /\ run'[r].merged.ivoa.by = b
                      /\ exec'[b] # None
                      /\ exec'[b].run = r /\ exec'[b].kind \in {"worker", "sync"}
                      /\ exec'[b].at = "finished"
    BY DEF MergedFromOneExecution, Started, Pipeline
  <2>1. Known(r) /\ run[r].merged = run'[r].merged
    BY <1>2 DEF RunsKept
  <2>2. b \in Execs
    BY <2>1 DEF TypeOK, Known, HarvestRun, Report, Section
  <2> QED BY <1>2, <2>1, <2>2 DEF MergedFromOneExecution, ExecsKept, Pipeline, Started
<1>8. OneWorkerPerRun'
  <2> SUFFICES ASSUME NEW e \in Execs, Live(e)', exec'[e].kind = "worker"
               PROVE  Known(exec[e].run)' /\ run'[exec'[e].run].task = e
    BY DEF OneWorkerPerRun
  <2>1. Started(e)'
    BY DEF Live
  <2>2. CASE ~Started(e)
    BY <1>2, <2>1, <2>2 DEF FreshExecs
  <2>3. CASE Started(e)
    <3>1. Live(e) /\ exec[e].kind = "worker" /\ exec'[e].run = exec[e].run
      BY <1>2, <2>3 DEF ExecsKept, Live
    <3>2. Known(exec[e].run) /\ run[exec[e].run].task = e /\ exec[e].run \in Runs
      BY <1>3, <2>3, <3>1 DEF OneWorkerPerRun
    <3>3. e # None
      BY ConstantsAssumption
    <3>4. Active(run[exec[e].run])
      BY <3>1, <3>2, <3>3 DEF Active
    <3> QED BY <1>2, <3>1, <3>2, <3>4 DEF TasksKept, RunsStay, Known
  <2> QED BY <2>2, <2>3
<1> QED BY <1>1, <1>4, <1>5, <1>6, <1>7, <1>8

(* The steps of a coroutine preserve the inductive invariant.              *)
LEMMA StepInv ==
    ASSUME IInv, NEW e \in Execs, Step(e)
    PROVE  IInv'
<1> USE DEF IInv
<1>1. TypeOK'
  BY StepType
<1>2. OnlyExec(e) /\ ReportFrom(e) /\ LocalsFrom(e)
  BY StepKeeps DEF StepFrame
<1>3. \A f \in Execs : Started(f) => exec[f].run \in Runs
  BY StartedType
<1>4. \A f \in Execs : Started(f)' => /\ Started(f)
                                     /\ exec'[f].run = exec[f].run
                                     /\ exec'[f].kind = exec[f].kind
                                     /\ exec'[f].cancel = exec[f].cancel
  BY <1>2 DEF OnlyExec, Started, Live
<1>5. RunsKnown'
  BY <1>2, <1>3, <1>4 DEF RunsKnown, OnlyExec, Known
<1>6. LocalsOK'
  BY <1>2, <1>4 DEF LocalsOK, OnlyExec, LocalsFrom, Pipeline, Started
<1>7. FinishedNotStopped'
  BY <1>2, <1>4 DEF FinishedNotStopped, OnlyExec, Started
<1>8. MergedFromOneExecution'
  <2> SUFFICES ASSUME NEW r \in Runs, Known(r)', run'[r].merged # None,
                      NEW b, b = run'[r].merged.vor.by
               PROVE  /\ run'[r].merged.oai.by = b /\ run'[r].merged.ivoa.by = b
                      /\ exec'[b] # None
                      /\ exec'[b].run = r /\ exec'[b].kind \in {"worker", "sync"}
                      /\ exec'[b].at = "finished"
    BY DEF MergedFromOneExecution, Started, Pipeline
  <2>1. Known(r)
    BY <1>2 DEF ReportFrom
  <2>2. CASE run'[r].merged = run[r].merged
    <3>1. b \in Execs
      BY <2>1, <2>2 DEF TypeOK, Known, HarvestRun, Report, Section
    <3>2. /\ run[r].merged.oai.by = b /\ run[r].merged.ivoa.by = b
          /\ exec[b] # None
          /\ exec[b].run = r /\ exec[b].kind \in {"worker", "sync"}
          /\ exec[b].at = "finished"
      BY <2>1, <2>2 DEF MergedFromOneExecution, Pipeline, Started
    <3>3. b # e
      BY <1>2, <3>2 DEF OnlyExec, Live, AllDone
    <3>4. exec'[b] = exec[b]
      BY <1>2, <3>1, <3>3 DEF OnlyExec
    <3> QED BY <2>2, <3>2, <3>4
  <2>3. CASE run'[r].merged # run[r].merged
    <3>1. /\ r = exec[e].run /\ Pipeline(e) /\ exec[e].at = "vor"
          /\ exec'[e].at = "finished"
          /\ run'[r].merged.oai = exec[e].oai /\ run'[r].merged.ivoa = exec[e].ivoa
          /\ run'[r].merged.vor.by = e
      BY <1>2, <2>3 DEF ReportFrom
    <3>2. Started(e) /\ Started(e)' /\ exec'[e].run = r /\ exec'[e].kind = exec[e].kind
      BY <1>2, <3>1 DEF OnlyExec, Live
    <3>3. exec[e].oai.by = e /\ exec[e].ivoa.by = e
      BY <3>1, <3>2 DEF LocalsOK
    <3> QED BY <3>1, <3>2, <3>3 DEF Pipeline, Started
  <2> QED BY <2>2, <2>3
<1>9. OneWorkerPerRun'
  <2> SUFFICES ASSUME NEW f \in Execs, Live(f)', exec'[f].kind = "worker"
               PROVE  Known(exec[f].run)' /\ run'[exec'[f].run].task = f
    BY DEF OneWorkerPerRun
  <2>1. Live(f) /\ exec[f].kind = "worker" /\ exec'[f].run = exec[f].run
    BY <1>2, <1>4 DEF OnlyExec, Live, Started
  <2>2. Known(exec[f].run) /\ run[exec[f].run].task = f /\ exec[f].run \in Runs
    BY <1>3, <2>1 DEF OneWorkerPerRun, Live
  <2> QED BY <1>2, <2>1, <2>2 DEF OnlyExec, Known
<1> QED BY <1>1, <1>5, <1>6, <1>7, <1>8, <1>9

(* Every step, stuttering included, preserves the inductive invariant.     *)
LEMMA NextInv == IInv /\ [Next]_vars => IInv'
<1> SUFFICES ASSUME IInv, [Next]_vars PROVE IInv'
  OBVIOUS
<1>1. CASE Request
  BY <1>1, RequestInv
<1>2. ASSUME NEW e \in Execs, Step(e) PROVE IInv'
  BY <1>2, StepInv
<1>3. CASE UNCHANGED vars
  BY <1>3 DEF vars, IInv, TypeOK, RunsKnown, LocalsOK, FinishedNotStopped,
              MergedFromOneExecution, OneWorkerPerRun, Known, Started, Live, Pipeline
<1> QED BY <1>1, <1>2, <1>3 DEF Next

(* The inductive invariant holds in every reachable state.                 *)
THEOREM Invariance == Spec => []IInv
BY InitInv, NextInv, PTL DEF Spec

-----------------------------------------------------------------------------
(* The theorems.                                                           *)

(* Every variable keeps the type its class declares.                       *)
THEOREM TypeCorrect == Spec => []TypeOK
BY Invariance, PTL DEF IInv

(* The three sections of a report come from one execution on its run.      *)
THEOREM ReportsAreOneExecution == Spec => []MergedFromOneExecution
BY Invariance, PTL DEF IInv

(* A run never has two live workers.                                       *)
THEOREM OneWorker == Spec => []OneWorkerPerRun
BY Invariance, PTL DEF IInv

(* No report comes from a worker that was asked to stop.                   *)
THEOREM CanceledNeverReports == Spec => []CanceledWorkerNeverReports
<1>1. IInv => CanceledWorkerNeverReports
  <2> SUFFICES ASSUME IInv, NEW r \in Runs, Known(r), run[r].merged # None
               PROVE  ~exec[run[r].merged.vor.by].cancel
    BY DEF CanceledWorkerNeverReports
  <2>1. run[r].merged.vor.by \in Execs
    BY DEF IInv, TypeOK, Known, HarvestRun, Report, Section
  <2> QED BY <2>1 DEF IInv, MergedFromOneExecution, FinishedNotStopped
<1> QED BY <1>1, Invariance, PTL

(* A worker that failed leaves the text of its exception in its run, and   *)
(* nothing ever clears it.                                                 *)
FailedLeavesError ==
    \A e \in Execs :
        Started(e) /\ exec[e].kind = "worker" /\ exec[e].at = "failed"
            => run[exec[e].run].error \in Texts

(* A failed worker leaves its error on its run, and no later step clears it. *)
LEMMA FailedLeavesErrorNext ==
    IInv /\ FailedLeavesError /\ [Next]_vars => FailedLeavesError'
<1> SUFFICES ASSUME IInv, FailedLeavesError, [Next]_vars,
                    NEW e \in Execs, Started(e)', exec'[e].kind = "worker", exec'[e].at = "failed"
             PROVE  run'[exec'[e].run].error \in Texts
  BY DEF FailedLeavesError
<1>0. \A f \in Execs : Started(f) => exec[f].run \in Runs /\ Known(exec[f].run)
  BY StartedType DEF IInv, RunsKnown
<1>1. CASE Request
  <2>1. ExecsKept /\ RunsKept /\ RunsStay /\ FreshExecs
    BY <1>1, RequestKeeps DEF IInv, RequestFrame
  <2>2. Started(e)
    BY <2>1 DEF FreshExecs
  <2>3. /\ exec[e].kind = "worker" /\ exec[e].at = "failed" /\ exec'[e].run = exec[e].run
    BY <2>1, <2>2 DEF ExecsKept
  <2>4. run'[exec[e].run].error = run[exec[e].run].error
    BY <1>0, <2>1, <2>2 DEF RunsKept, RunsStay
  <2> QED BY <2>2, <2>3, <2>4 DEF FailedLeavesError
<1>2. ASSUME NEW f \in Execs, Step(f) PROVE run'[exec'[e].run].error \in Texts
  <2>1. OnlyExec(f) /\ ErrorFrom(f)
    BY <1>2, StepKeeps DEF IInv, StepFrame
  <2>2. CASE e = f
    BY <2>1, <2>2 DEF OnlyExec, ErrorFrom
  <2>3. CASE e # f
    <3>1. exec'[e] = exec[e] /\ Started(e)
      BY <2>1, <2>3 DEF OnlyExec, Started
    <3> QED BY <1>0, <2>1, <3>1 DEF ErrorFrom, FailedLeavesError
  <2> QED BY <2>2, <2>3
<1>3. CASE UNCHANGED vars
  BY <1>3 DEF vars, FailedLeavesError, Started
<1> QED BY <1>1, <1>2, <1>3 DEF Next

(* If no exception's text is empty, a run one of whose workers failed is   *)
(* never eligible for registration.  The assumption is needed: the run     *)
(* JobEmptyError shows what an empty text does.                            *)
THEOREM FailedNeverRegistrable ==
    ASSUME "" \notin Texts
    PROVE  Spec => []FailedRunNotRegistrable
<1>1. Init => FailedLeavesError
  BY DEF Init, FailedLeavesError, Started
<1>2. FailedLeavesError => FailedRunNotRegistrable
  BY ConstantsAssumption
     DEF FailedLeavesError, FailedRunNotRegistrable, eligible_for_registration, Truthy
<1> QED BY <1>1, <1>2, FailedLeavesErrorNext, Invariance, PTL DEF Spec

-----------------------------------------------------------------------------
(* What a published row says of its run is never taken from it.            *)

(* The run g, that h has become, is of the same endpoint and schemas, and  *)
(* a report it had is still there or was replaced by another one.          *)
KeepsClaims(h, g) ==
    /\ g \in HarvestRun
    /\ g.endpoint = h.endpoint /\ g.builtin = h.builtin
    /\ h.merged # None => g.merged # None

ClaimsKept == \A r \in Runs : Known(r) => Known(r)' /\ KeepsClaims(run[r], run'[r])

(* Each run stays what it is or is replaced by one with its claims.        *)
LEMMA OneRunReplaced ==
    ASSUME TypeOK, NEW r \in Runs, NEW g \in HarvestRun, run' = [run EXCEPT ![r] = g],
           Known(r) => KeepsClaims(run[r], g)
    PROVE  ClaimsKept
<1> SUFFICES ASSUME NEW s \in Runs, Known(s)
             PROVE  Known(s)' /\ KeepsClaims(run[s], run'[s])
  BY DEF ClaimsKept
<1>1. CASE s = r
  BY <1>1, NoneAssumption DEF TypeOK, Known
<1>2. CASE s # r
  BY <1>2 DEF TypeOK, Known, KeepsClaims
<1> QED BY <1>1, <1>2

(* Adding status rows takes no claim away.                                 *)
LEMMA RowsKeepClaims ==
    ASSUME NEW h \in HarvestRun, NEW g \in HarvestRun, KeepsClaims(h, g), NEW rows \in Seq(Row)
    PROVE  KeepsClaims(h, AddRows(g, rows))
<1>1. /\ AddRows(g, rows) \in HarvestRun
      /\ AddRows(g, rows).merged = g.merged
  BY AddRowsType
<1>2. AddRows(g, rows).endpoint = g.endpoint /\ AddRows(g, rows).builtin = g.builtin
  BY DEF AddRows, HarvestRun
<1> QED BY <1>1, <1>2 DEF KeepsClaims

(* Whether or not a worker is spawned, the run keeps its claims.           *)
LEMMA SpawnKeepsClaims ==
    ASSUME TypeOK, NEW r \in Runs, NEW h \in HarvestRun, NEW e \in Execs, Spawn(r, h, e),
           Known(r) => h = run[r]
    PROVE  ClaimsKept
<1>1. CASE Active(h)
  <2>1. run' = [run EXCEPT ![r] = h]
    BY <1>1 DEF Spawn
  <2> QED BY <2>1, OneRunReplaced DEF KeepsClaims
<1>2. CASE ~Active(h)
  <2> DEFINE g == [h EXCEPT !.task = e]
  <2>1. run' = [run EXCEPT ![r] = g]
    BY <1>2 DEF Spawn
  <2>2. KeepsClaims(h, g)
    BY DEF KeepsClaims, HarvestRun
  <2>3. g \in HarvestRun
    BY <2>2 DEF KeepsClaims
  <2> HIDE DEF g
  <2> QED BY <2>1, <2>2, <2>3, OneRunReplaced
<1> QED BY <1>1, <1>2

(* No operation takes a claim of a run away.                               *)
LEMMA RequestKeepsClaims ==
    ASSUME TypeOK, Request
    PROVE  ClaimsKept
<1> PICK r \in Runs :
      \/ \E h \in Sessions(r) : OpenSession(r, h) \/ Cancel(r, h)
      \/ \E h \in Sessions(r), e \in Execs, op \in {"validate", "omitted"} :
            ValidateCached(r, h, op, e) \/ ValidateSync(r, h, op, e)
      \/ \E h \in Sessions(r), e \in Execs, op \in DOMAIN PhaseOf : ValidatePhase(r, h, op, e)
      \/ \E ep \in Endpoints, builtin \in BOOLEAN, e \in Execs : _start_job(r, ep, builtin, e)
      \/ \E route \in {"harvest", "validator", "publishers"}, oid \in Ids : Register(r, route, oid)
  BY DEF Request
<1>0. \A h \in Sessions(r) : h \in HarvestRun /\ (Known(r) => h = run[r]) /\ KeepsClaims(h, h)
  BY SessionType DEF KeepsClaims
<1>1. ASSUME NEW h \in Sessions(r), OpenSession(r, h) PROVE ClaimsKept
  <2>1. run' = [run EXCEPT ![r] = h]
    BY <1>1 DEF OpenSession
  <2> QED BY <1>0, <2>1, OneRunReplaced
<1>2. ASSUME NEW h \in Sessions(r), Cancel(r, h) PROVE ClaimsKept
  <2> DEFINE g == [h EXCEPT !.canceled = TRUE]
  <2>1. KeepsClaims(h, g) /\ g \in HarvestRun
    BY <1>0 DEF KeepsClaims, HarvestRun
  <2>2. run' = [run EXCEPT ![r] = g]
    BY <1>2 DEF Cancel
  <2> HIDE DEF g
  <2> QED BY <1>0, <2>1, <2>2, OneRunReplaced
<1>3. ASSUME NEW h \in Sessions(r), NEW e \in Execs, NEW op, ValidateCached(r, h, op, e)
      PROVE ClaimsKept
  BY <1>0, <1>3, SpawnKeepsClaims DEF ValidateCached
<1>4. ASSUME NEW h \in Sessions(r), NEW e \in Execs, NEW op, ValidateSync(r, h, op, e)
      PROVE ClaimsKept
  <2> DEFINE g == AddRows(h, <<R("oai", "running")>>)
  <2>1. KeepsClaims(h, g)
    BY <1>0, RowTypes, RowsKeepClaims
  <2>2. g \in HarvestRun
    BY <2>1 DEF KeepsClaims
  <2>3. run' = [run EXCEPT ![r] = g]
    BY <1>4 DEF ValidateSync
  <2> HIDE DEF g
  <2> QED BY <1>0, <2>1, <2>2, <2>3, OneRunReplaced
<1>5. ASSUME NEW h \in Sessions(r), NEW e \in Execs, NEW op, ValidatePhase(r, h, op, e)
      PROVE ClaimsKept
  <2>1. run' = [run EXCEPT ![r] = h]
    BY <1>5 DEF ValidatePhase
  <2> QED BY <1>0, <2>1, OneRunReplaced
<1>6. ASSUME NEW ep \in Endpoints, NEW builtin \in BOOLEAN, NEW e \in Execs,
             _start_job(r, ep, builtin, e)
      PROVE ClaimsKept
  <2>1. ~Known(r) /\ Spawn(r, new_run_from_query(ep, TRUE, builtin), e)
    BY <1>6 DEF _start_job
  <2>2. new_run_from_query(ep, TRUE, builtin) \in HarvestRun
    BY NewRunType
  <2> QED BY <2>1, <2>2, SpawnKeepsClaims
<1>7. ASSUME NEW route, NEW oid, Register(r, route, oid) PROVE ClaimsKept
  BY <1>7 DEF Register, ClaimsKept, KeepsClaims, Known, TypeOK
<1> QED BY <1>1, <1>2, <1>3, <1>4, <1>5, <1>6, <1>7

(* A step of a coroutine that sets a run of the same claims keeps them all.*)
LEMMA SetRunKeepsClaims ==
    ASSUME TypeOK, RunsKnown, NEW e \in Execs, Started(e), NEW g, SetRun(e, g),
           KeepsClaims(RunOf(e), g)
    PROVE  ClaimsKept
<1>1. exec[e].run \in Runs /\ g \in HarvestRun
  BY StartedType DEF KeepsClaims
<1> QED BY <1>1, OneRunReplaced DEF SetRun, RunOf

(* No step of a coroutine takes a claim of a run away.                     *)
LEMMA StepKeepsClaims ==
    ASSUME TypeOK, RunsKnown, LocalsOK, NEW e \in Execs, Step(e)
    PROVE  ClaimsKept
<1> USE NoneAssumption
<1> DEFINE h == RunOf(e)
<1>0. Started(e)
  BY DEF Step, Begin, FinishOAI, FinishIVOA, FinishVOR, Fail, Interrupted, At, Live
<1>1. h \in HarvestRun /\ KeepsClaims(h, h)
  BY <1>0, RunOfType DEF KeepsClaims
<1>2. ASSUME UNCHANGED run PROVE ClaimsKept
  BY <1>2 DEF ClaimsKept, KeepsClaims, Known, TypeOK
<1> HIDE DEF h
<1>3. ASSUME Begin(e) PROVE ClaimsKept
  <2>1. KeepsClaims(h, AddRows(h, <<R("start", "running"), R("oai", "running")>>))
    BY <1>1, RowTypes, RowsKeepClaims
  <2> QED BY <1>0, <1>3, <2>1, SetRunKeepsClaims DEF Begin, h
<1>4. ASSUME NEW tally \in Tallies, FinishOAI(e, tally) PROVE ClaimsKept
  <2> DEFINE g == [h EXCEPT !.oai = [by |-> e, tally |-> tally]]
             k == AddRows(g, <<R("oai", "completed"), R("ivoa", "running")>>)
  <2>1. KeepsClaims(h, g) /\ g \in HarvestRun
    BY <1>1 DEF KeepsClaims, HarvestRun, Section
  <2>2. SetRun(e, g) \/ SetRun(e, k)
    BY <1>4 DEF FinishOAI, h
  <2> HIDE DEF g
  <2>3. KeepsClaims(h, k)
    BY <1>1, <2>1, RowTypes, RowsKeepClaims
  <2> HIDE DEF k
  <2> QED BY <1>0, <2>1, <2>2, <2>3, SetRunKeepsClaims DEF h
<1>5. ASSUME NEW tally \in Tallies, NEW oid \in Ids \cup {None}, FinishIVOA(e, tally, oid)
      PROVE ClaimsKept
  <2> DEFINE g == [h EXCEPT !.ivoa = [by |-> e, tally |-> tally]]
             i == [g EXCEPT !.identify = oid]
             k == AddRows(i, <<R("ivoa", "completed"), R("vor", "running")>>)
  <2>1. SetRun(e, g) \/ SetRun(e, k)
    BY <1>5 DEF FinishIVOA, h
  <2>2. KeepsClaims(h, g) /\ g \in HarvestRun
    BY <1>1 DEF KeepsClaims, HarvestRun, Section
  <2> HIDE DEF g
  <2>3. KeepsClaims(h, i) /\ i \in HarvestRun
    BY <2>2 DEF KeepsClaims, HarvestRun
  <2> HIDE DEF i
  <2>4. KeepsClaims(h, k)
    BY <1>1, <2>3, RowTypes, RowsKeepClaims
  <2> HIDE DEF k
  <2> QED BY <1>0, <2>1, <2>2, <2>4, SetRunKeepsClaims DEF h
<1>6. ASSUME NEW tally \in Tallies, FinishVOR(e, tally) PROVE ClaimsKept
  <2> DEFINE section == [by |-> e, tally |-> tally]
             g == [h EXCEPT !.vor = section]
             done == IF exec[e].kind = "worker" THEN <<R("done", "completed")>> ELSE <<>>
             rows == <<R("vor", "completed")>> \o done
             m == [g EXCEPT !.merged = Merged(e, section)]
             k == AddRows(m, rows)
  <2>0. section \in Section
    BY DEF Section
  <2>1. /\ Pipeline(e) => SetRun(e, k)
        /\ ~Pipeline(e) => SetRun(e, g)
    BY <1>6 DEF FinishVOR, h
  <2>2. KeepsClaims(h, g) /\ g \in HarvestRun
    BY <1>1, <2>0 DEF KeepsClaims, HarvestRun
  <2>3. CASE Pipeline(e)
    <3>1. exec[e].oai \in Section /\ exec[e].ivoa \in Section
      BY <1>0, <1>6, <2>3 DEF LocalsOK, FinishVOR, At
    <3>2. Merged(e, section) \in Report
      BY <2>0, <3>1 DEF Merged, Report
    <3> HIDE DEF section, g
    <3>3. KeepsClaims(h, m) /\ m \in HarvestRun
      BY <2>2, <3>2 DEF KeepsClaims, HarvestRun
    <3> HIDE DEF m
    <3>4. rows \in Seq(Row)
      BY RowTypes
    <3> HIDE DEF rows
    <3>5. KeepsClaims(h, k)
      BY <1>1, <3>3, <3>4, RowsKeepClaims
    <3> HIDE DEF k
    <3> QED BY <1>0, <2>1, <2>3, <3>5, SetRunKeepsClaims DEF h
  <2>4. CASE ~Pipeline(e)
    <3> HIDE DEF g
    <3> QED BY <1>0, <2>1, <2>2, <2>4, SetRunKeepsClaims DEF h
  <2> QED BY <2>3, <2>4
<1>7. ASSUME NEW text \in Texts, Fail(e, text) PROVE ClaimsKept
  <2> DEFINE g == [h EXCEPT !.error = text]
             k == AddRows(g, <<R("done", "error")>>)
  <2>1. UNCHANGED run \/ SetRun(e, k)
    BY <1>7 DEF Fail, h
  <2>2. KeepsClaims(h, g) /\ g \in HarvestRun
    BY <1>1 DEF KeepsClaims, HarvestRun
  <2> HIDE DEF g
  <2>3. KeepsClaims(h, k)
    BY <1>1, <2>2, RowTypes, RowsKeepClaims
  <2> HIDE DEF k
  <2> QED BY <1>0, <1>2, <2>1, <2>3, SetRunKeepsClaims DEF h
<1>8. ASSUME Interrupted(e) PROVE ClaimsKept
  <2>1. KeepsClaims(h, AddRows(h, <<R("done", "canceled")>>))
    BY <1>1, RowTypes, RowsKeepClaims
  <2>2. UNCHANGED run \/ SetRun(e, AddRows(h, <<R("done", "canceled")>>))
    BY <1>8 DEF Interrupted, h
  <2> QED BY <1>0, <1>2, <2>1, <2>2, SetRunKeepsClaims DEF h
<1> QED BY <1>3, <1>4, <1>5, <1>6, <1>7, <1>8 DEF Step

-----------------------------------------------------------------------------
(* Registration.                                                           *)

(* A row that is added stems from an eligible run, and its identifier and  *)
(* endpoint were listed nowhere.                                           *)
LEMMA RegisterPublishes ==
    ASSUME PublishedOnceFromReport, NEW r \in Runs, NEW route, NEW oid,
           Register(r, route, oid)
    PROVE  PublishedOnceFromReport'
<1> DEFINE live == IF run[r].identify = None THEN oid ELSE run[r].identify
           p == [id |-> oid, endpoint |-> run[r].endpoint, run |-> r,
                 check |-> IF live = oid THEN "ok" ELSE "identifier_mismatch"]
<1>0. publishers' = publishers \cup {p}
  BY DEF Register
<1>1. p.id = oid /\ p.endpoint = run[r].endpoint /\ p.run = r
  OBVIOUS
<1> HIDE DEF p
<1>2. /\ run' = run
      /\ Known(r) /\ run[r].merged # None /\ (RequireBuiltin => run[r].builtin)
      /\ \A q \in publishers : q.id # p.id /\ q.endpoint # p.endpoint
  BY <1>1 DEF Register, eligible_for_registration
<1> QED BY <1>0, <1>1, <1>2 DEF PublishedOnceFromReport, Known

(* A step that adds no row leaves every row with the run it stems from.    *)
LEMMA RowsStayPublished ==
    ASSUME TypeOK, PublishedOnceFromReport, ClaimsKept, UNCHANGED publishers
    PROVE  PublishedOnceFromReport'
<1>1. \A p \in publishers : p.run \in Runs
  BY DEF TypeOK, Publisher
<1> QED BY <1>1 DEF PublishedOnceFromReport, ClaimsKept, KeepsClaims, Known

(* Every step keeps what is published true.                                *)
LEMMA PublishedNext == IInv /\ PublishedOnceFromReport /\ [Next]_vars => PublishedOnceFromReport'
<1> SUFFICES ASSUME IInv, PublishedOnceFromReport, [Next]_vars PROVE PublishedOnceFromReport'
  OBVIOUS
<1>0. TypeOK /\ RunsKnown /\ LocalsOK
  BY DEF IInv
<1>1. CASE Request
  <2>1. ClaimsKept
    BY <1>0, <1>1, RequestKeepsClaims
  <2>2. \/ UNCHANGED publishers
        \/ \E r \in Runs, route \in {"harvest", "validator", "publishers"}, oid \in Ids :
              Register(r, route, oid)
    BY <1>1 DEF Request, OpenSession, Cancel, ValidateCached, ValidateSync, ValidatePhase, _start_job
  <2> QED BY <1>0, <2>1, <2>2, RegisterPublishes, RowsStayPublished
<1>2. ASSUME NEW e \in Execs, Step(e) PROVE PublishedOnceFromReport'
  <2>1. ClaimsKept
    BY <1>0, <1>2, StepKeepsClaims
  <2>2. UNCHANGED publishers
    BY <1>2 DEF Step, Begin, FinishOAI, FinishIVOA, FinishVOR, Fail, Interrupted
  <2> QED BY <1>0, <2>1, <2>2, RowsStayPublished
<1>3. CASE UNCHANGED vars
  BY <1>3 DEF vars, PublishedOnceFromReport, Known
<1> QED BY <1>1, <1>2, <1>3 DEF Next

(* Every row of the publishers registry, over whichever route it came in   *)
(* and whatever was done to its run since, stems from a run of the row's   *)
(* endpoint that has a report; no two rows share identifier or endpoint    *)
(* (registration.py 30-73).                                                *)
THEOREM PublishedIsReported == Spec => []PublishedOnceFromReport
<1>1. Init => PublishedOnceFromReport
  BY DEF Init, PublishedOnceFromReport
<1> QED BY <1>1, PublishedNext, Invariance, PTL DEF Spec
=============================================================================
