--------------------------- MODULE JobStatusProofs ---------------------------
(***************************************************************************)
(* What clients are told about jobs, for every value of the constants.     *)
(* First, HarvestJob implements JobStatus if no exception has an empty     *)
(* text: the reported state moves along the edges of JobStatus only.       *)
(* Second, whatever executions add their status rows to a run, its stepper *)
(* is in order, and its percentage does not fall.                          *)
(***************************************************************************)
EXTENDS HarvestJobProofs, SequenceTheorems, FiniteSetTheorems

-----------------------------------------------------------------------------
(* What a step does to the fields that job_state reads.                    *)

OnlyRun(r) == \A s \in Runs : s # r => run'[s] = run[s]

(* The task of r is a worker of r that the request has just created.       *)
NewTask(r) ==
    /\ exec'[run'[r].task] # None /\ exec[run'[r].task] = None
    /\ exec'[run'[r].task].kind = "worker" /\ exec'[run'[r].task].run = r

(* A request cancels a run or gives it a new task, never both.             *)
RequestFields(r) ==
    /\ Known(r)' /\ OnlyRun(r)
    /\ ~Known(r) => run'[r].error = None
    /\ Known(r) => run'[r].canceled \in {run[r].canceled, TRUE}
    /\ \/ Known(r) /\ run'[r].task = run[r].task
       \/ ~Known(r) /\ run'[r].task = None
       \/ /\ Known(r) => run'[r].canceled = run[r].canceled
          /\ run'[r].task # None
          /\ NewTask(r)

(* A coroutine that a request asks to stop belongs to a run that says so.  *)
StopsOf(r) ==
    \A f \in Execs : Started(f) /\ exec'[f].cancel =>
        exec[f].cancel \/ (exec[f].run = r /\ run'[r].canceled)

(* A task is a worker of its run.                                          *)
TaskIsWorker ==
    \A r \in Runs : Known(r) /\ run[r].task # None =>
        LET e == run[r].task IN
        Started(e) /\ exec[e].kind = "worker" /\ exec[e].run = r

(* New status rows leave the other fields of a run alone.                  *)
LEMMA AddRowsFields ==
    ASSUME NEW h \in HarvestRun, NEW rows
    PROVE  AddRows(h, rows).canceled = h.canceled
BY DEF AddRows, HarvestRun

(* Spawning a worker does what RequestFields says.                         *)
LEMMA SpawnFields ==
    ASSUME TypeOK, NEW r \in Runs, NEW h \in HarvestRun, NEW e \in Execs, Spawn(r, h, e),
           Known(r) => h = run[r],
           ~Known(r) => h.task = None /\ h.error = None
    PROVE  RequestFields(r) /\ StopsOf(r)
<1> USE NoneAssumption
<1>1. CASE Active(h)
  BY <1>1 DEF Spawn, TypeOK, RequestFields, OnlyRun, StopsOf, Known, Active
<1>2. CASE ~Active(h)
  <2> DEFINE g == [h EXCEPT !.task = e]
             x == NewExec("worker", r, "spawned")
  <2>1. g \in HarvestRun /\ g.canceled = h.canceled /\ g.error = h.error /\ g.task = e
    BY DEF HarvestRun
  <2>2. x \in Exec /\ x.kind = "worker" /\ x.run = r /\ ~x.cancel
    BY NewExecType DEF Kinds, NewExec
  <2>3. ~Started(e) /\ run' = [run EXCEPT ![r] = g] /\ exec' = [exec EXCEPT ![e] = x]
    BY <1>2 DEF Spawn
  <2> HIDE DEF g, x
  <2>4. /\ run'[r] = g /\ OnlyRun(r) /\ Known(r)'
        /\ exec'[e] = x /\ \A f \in Execs : f # e => exec'[f] = exec[f]
        /\ Started(e)'
    BY <2>1, <2>2, <2>3 DEF TypeOK, Known, Started, OnlyRun
  <2>5. e # None
    BY ConstantsAssumption
  <2>6. RequestFields(r)
    BY <2>1, <2>2, <2>3, <2>4, <2>5 DEF RequestFields, NewTask, Started, Known
  <2>7. StopsOf(r)
    BY <2>3, <2>4 DEF StopsOf
  <2> QED BY <2>6, <2>7
<1> QED BY <1>1, <1>2

(* Every request does.                                                     *)
LEMMA RequestOnFields ==
    ASSUME TypeOK, TaskIsWorker, Request
    PROVE  \E r \in Runs : RequestFields(r) /\ StopsOf(r)
<1> USE NoneAssumption
<1> PICK r \in Runs :
      \/ \E h \in Sessions(r) : OpenSession(r, h) \/ Cancel(r, h)
      \/ \E h \in Sessions(r), e \in Execs, op \in {"validate", "omitted"} :
            ValidateCached(r, h, op, e) \/ ValidateSync(r, h, op, e)
      \/ \E h \in Sessions(r), e \in Execs, op \in DOMAIN PhaseOf : ValidatePhase(r, h, op, e)
      \/ \E ep \in Endpoints, builtin \in BOOLEAN, e \in Execs : _start_job(r, ep, builtin, e)
      \/ \E route \in {"harvest", "validator", "publishers"}, oid \in Ids : Register(r, route, oid)
  BY DEF Request
<1>1. ASSUME NEW h \in Sessions(r), OpenSession(r, h) PROVE RequestFields(r) /\ StopsOf(r)
  <2>1. run' = [run EXCEPT ![r] = h] /\ exec' = exec
    BY <1>1 DEF OpenSession
  <2> QED BY <2>1, SessionType DEF TypeOK, RequestFields, OnlyRun, StopsOf, Known
<1>2. ASSUME NEW h \in Sessions(r), Cancel(r, h) PROVE RequestFields(r) /\ StopsOf(r)
  <2> DEFINE g == [h EXCEPT !.canceled = TRUE]
  <2>1. h \in HarvestRun /\ (Known(r) => h = run[r])
        /\ (~Known(r) => h.task = None /\ h.error = None)
    BY SessionType
  <2>2. g \in HarvestRun /\ g.canceled = TRUE /\ g.error = h.error /\ g.task = h.task
    BY <2>1 DEF HarvestRun
  <2>3. run' = [run EXCEPT ![r] = g]
    BY <1>2 DEF Cancel
  <2> HIDE DEF g
  <2>4. run'[r] = g /\ OnlyRun(r) /\ Known(r)'
    BY <2>2, <2>3 DEF TypeOK, Known, OnlyRun
  <2>5. RequestFields(r)
    BY <2>1, <2>2, <2>4 DEF RequestFields
  <2>6. CASE Active(h)
    <3>1. h.task \in Execs /\ Known(r) /\ run[r].task = h.task /\ h.task # None
      BY <2>1, <2>6 DEF Active, HarvestRun
    <3>2. exec[h.task].run = r /\ exec[h.task] \in Exec
      BY <3>1, StartedType DEF TaskIsWorker
    <3>3. \A f \in Execs : f # h.task => exec'[f] = exec[f]
      BY <1>2, <2>6 DEF Cancel, TypeOK
    <3> QED BY <2>2, <2>4, <2>5, <3>2, <3>3 DEF StopsOf
  <2>7. CASE ~Active(h)
    BY <1>2, <2>5, <2>7 DEF Cancel, StopsOf
  <2> QED BY <2>6, <2>7
<1>3. ASSUME NEW h \in Sessions(r), NEW e \in Execs, NEW op, ValidateCached(r, h, op, e)
      PROVE RequestFields(r) /\ StopsOf(r)
  BY <1>3, SessionType, SpawnFields DEF ValidateCached
<1>4. ASSUME NEW h \in Sessions(r), NEW e \in Execs, NEW op, ValidateSync(r, h, op, e)
      PROVE RequestFields(r) /\ StopsOf(r)
  <2> DEFINE g == AddRows(h, <<R("oai", "running")>>)
             x == NewExec("sync", r, "oai")
  <2>1. h \in HarvestRun /\ (Known(r) => h = run[r])
        /\ (~Known(r) => h.task = None /\ h.error = None)
    BY SessionType
  <2>2. /\ g \in HarvestRun /\ g.error = h.error /\ g.task = h.task
        /\ g.canceled = h.canceled
    BY <2>1, RowTypes, AddRowsType, AddRowsFields
  <2>3. ~Started(e) /\ run' = [run EXCEPT ![r] = g] /\ exec' = [exec EXCEPT ![e] = x]
    BY <1>4 DEF ValidateSync
  <2> HIDE DEF g, x
  <2> QED BY <2>1, <2>2, <2>3 DEF TypeOK, RequestFields, OnlyRun, StopsOf, Known, Started
<1>5. ASSUME NEW h \in Sessions(r), NEW e \in Execs, NEW op \in DOMAIN PhaseOf,
             ValidatePhase(r, h, op, e)
      PROVE RequestFields(r) /\ StopsOf(r)
  <2> DEFINE x == NewExec(op, r, PhaseOf[op])
  <2>1. ~Started(e) /\ run' = [run EXCEPT ![r] = h] /\ exec' = [exec EXCEPT ![e] = x]
    BY <1>5 DEF ValidatePhase
  <2> HIDE DEF x
  <2> QED BY <2>1, SessionType DEF TypeOK, RequestFields, OnlyRun, StopsOf, Known, Started
<1>6. ASSUME NEW ep \in Endpoints, NEW builtin \in BOOLEAN, NEW e \in Execs,
             _start_job(r, ep, builtin, e)
      PROVE RequestFields(r) /\ StopsOf(r)
  BY <1>6, NewRunType, SpawnFields DEF _start_job
<1>7. ASSUME NEW route, NEW oid \in Ids, Register(r, route, oid)
      PROVE RequestFields(r) /\ StopsOf(r)
  BY <1>7 DEF Register, RequestFields, OnlyRun, StopsOf, Known
<1> QED BY <1>1, <1>2, <1>3, <1>4, <1>5, <1>6, <1>7

(* A coroutine leaves the canceled flag alone; it either reports or leaves *)
(* the text of an exception, and only a worker does the latter.            *)
StepFields(e) ==
    LET r == exec[e].run IN
    /\ r \in Runs /\ Known(r) /\ run'[r] # None /\ OnlyRun(r)
    /\ run'[r].canceled = run[r].canceled
    /\ \/ run'[r].error = run[r].error
       \/ exec[e].kind = "worker" /\ run'[r].merged = run[r].merged
    /\ Pipeline(e) /\ exec'[e].at = "finished" => run'[r].merged # None
    /\ exec'[e].at = "canceled" => exec[e].cancel

(* Every step of a coroutine does what StepFields says.                    *)
LEMMA StepOnFields ==
    ASSUME TypeOK, RunsKnown, LocalsOK, NEW e \in Execs, Step(e)
    PROVE  StepFields(e)
<1> USE NoneAssumption
<1> DEFINE h == RunOf(e)
           r == exec[e].run
<1>0. Started(e)
  BY DEF Step, Begin, FinishOAI, FinishIVOA, FinishVOR, Fail, Interrupted, At, Live
<1>1. exec[e] \in Exec /\ h \in HarvestRun /\ r \in Runs /\ h = run[r] /\ Known(r)
  BY <1>0, StartedType, RunOfType DEF RunOf, RunsKnown
<1>2. ASSUME NEW g \in HarvestRun, SetRun(e, g) \/ (g = h /\ run' = run),
             g.canceled = h.canceled,
             g.error = h.error \/ (exec[e].kind = "worker" /\ g.merged = h.merged),
             Pipeline(e) /\ exec'[e].at = "finished" => g.merged # None,
             exec'[e].at = "canceled" => exec[e].cancel
      PROVE  StepFields(e)
  <2>1. run'[r] = g /\ OnlyRun(r)
    <3>1. CASE SetRun(e, g)
      BY <1>0, <3>1, SetRunFrame DEF OnlyRun
    <3>2. CASE g = h /\ run' = run
      BY <1>1, <3>2 DEF OnlyRun
    <3> QED BY <1>2, <3>1, <3>2
  <2>2. run'[r] # None
    BY <2>1
  <2> QED BY <1>1, <1>2, <2>1, <2>2 DEF StepFields
<1> HIDE DEF h, r
<1>3. ASSUME Begin(e) PROVE StepFields(e)
  <2> DEFINE g == AddRows(h, <<R("start", "running"), R("oai", "running")>>)
  <2>1. g \in HarvestRun /\ g.canceled = h.canceled /\ g.error = h.error
    BY <1>1, RowTypes, AddRowsType, AddRowsFields
  <2>2. SetRun(e, g) /\ exec'[e] = [exec[e] EXCEPT !.at = "oai"]
    BY <1>3 DEF Begin, TypeOK, h
  <2> HIDE DEF g
  <2>3. exec'[e].at = "oai"
    BY <1>1, <2>2 DEF Exec
  <2> QED BY <1>2, <2>1, <2>2, <2>3
<1>4. ASSUME NEW tally \in Tallies, FinishOAI(e, tally) PROVE StepFields(e)
  <2> DEFINE section == [by |-> e, tally |-> tally]
             g == [h EXCEPT !.oai = section]
             k == AddRows(g, <<R("oai", "completed"), R("ivoa", "running")>>)
  <2>1. section \in Section
    BY DEF Section
  <2>2. g \in HarvestRun /\ g.canceled = h.canceled /\ g.error = h.error
    BY <1>1, <2>1 DEF HarvestRun
  <2>3. k \in HarvestRun /\ k.canceled = h.canceled /\ k.error = h.error
    BY <2>2, RowTypes, AddRowsType, AddRowsFields
  <2>4. /\ SetRun(e, g) \/ SetRun(e, k)
        /\ \/ exec'[e] = [exec[e] EXCEPT !.at = "ivoa", !.oai = section]
           \/ ~Pipeline(e) /\ exec'[e] = [exec[e] EXCEPT !.at = "finished"]
    BY <1>1, <1>4 DEF FinishOAI, TypeOK, Exec, h
  <2> HIDE DEF g, k, section
  <2>5. exec'[e].at \in {"ivoa", "finished"} /\ (Pipeline(e) => exec'[e].at = "ivoa")
    BY <1>1, <2>4 DEF Exec
  <2> QED BY <1>2, <2>2, <2>3, <2>4, <2>5
<1>5. ASSUME NEW tally \in Tallies, NEW oid \in Ids \cup {None}, FinishIVOA(e, tally, oid)
      PROVE StepFields(e)
  <2> DEFINE section == [by |-> e, tally |-> tally]
             g == [h EXCEPT !.ivoa = section]
             i == [g EXCEPT !.identify = oid]
             k == AddRows(i, <<R("ivoa", "completed"), R("vor", "running")>>)
  <2>1. section \in Section
    BY DEF Section
  <2>2. g \in HarvestRun /\ g.canceled = h.canceled /\ g.error = h.error
    BY <1>1, <2>1 DEF HarvestRun
  <2>3. i \in HarvestRun /\ i.canceled = h.canceled /\ i.error = h.error
    <3> HIDE DEF g
    <3> QED BY <2>2 DEF HarvestRun
  <2>4. k \in HarvestRun /\ k.canceled = h.canceled /\ k.error = h.error
    BY <2>3, RowTypes, AddRowsType, AddRowsFields
  <2>5. /\ SetRun(e, g) \/ SetRun(e, k)
        /\ \/ exec'[e] = [exec[e] EXCEPT !.at = "vor", !.ivoa = section]
           \/ ~Pipeline(e) /\ exec'[e] = [exec[e] EXCEPT !.at = "finished"]
    BY <1>1, <1>5 DEF FinishIVOA, TypeOK, Exec, h
  <2> HIDE DEF g, i, k, section
  <2>6. exec'[e].at \in {"vor", "finished"} /\ (Pipeline(e) => exec'[e].at = "vor")
    BY <1>1, <2>5 DEF Exec
  <2> QED BY <1>2, <2>2, <2>4, <2>5, <2>6
<1>6. ASSUME NEW tally \in Tallies, FinishVOR(e, tally) PROVE StepFields(e)
  <2> DEFINE section == [by |-> e, tally |-> tally]
             g == [h EXCEPT !.vor = section]
             i == [g EXCEPT !.merged = Merged(e, section)]
             k == AddRows(i, <<R("vor", "completed")>> \o <<R("done", "completed")>>)
             l == AddRows(i, <<R("vor", "completed")>> \o <<>>)
  <2>1. section \in Section
    BY DEF Section
  <2>2. exec[e].at = "vor"
    BY <1>6 DEF FinishVOR, At
  <2>3. g \in HarvestRun /\ g.canceled = h.canceled /\ g.error = h.error
    BY <1>1, <2>1 DEF HarvestRun
  <2>4. Pipeline(e) => /\ i \in HarvestRun /\ i.canceled = h.canceled /\ i.error = h.error
                       /\ i.merged # None
    <3>1. Pipeline(e) => Merged(e, section) \in Report
      BY <1>0, <2>1, <2>2 DEF LocalsOK, Merged, Report
    <3> HIDE DEF g
    <3> QED BY <2>3, <3>1 DEF HarvestRun
  <2>5. Pipeline(e) => /\ k \in HarvestRun /\ k.canceled = h.canceled /\ k.error = h.error
                       /\ k.merged # None
    BY <2>4, RowTypes, AddRowsType, AddRowsFields
  <2>6. Pipeline(e) => /\ l \in HarvestRun /\ l.canceled = h.canceled /\ l.error = h.error
                       /\ l.merged # None
    BY <2>4, RowTypes, AddRowsType, AddRowsFields
  <2>7. /\ IF Pipeline(e) THEN SetRun(e, k) \/ SetRun(e, l) ELSE SetRun(e, g)
        /\ exec'[e] = [exec[e] EXCEPT !.at = "finished"]
    BY <1>1, <1>6 DEF FinishVOR, TypeOK, h
  <2> HIDE DEF g, i, k, l, section
  <2>8. exec'[e].at = "finished"
    BY <1>1, <2>7 DEF Exec
  <2> QED BY <1>2, <2>3, <2>5, <2>6, <2>7, <2>8
<1>7. ASSUME NEW text \in Texts, Fail(e, text) PROVE StepFields(e)
  <2> DEFINE g == [h EXCEPT !.error = text]
             k == AddRows(g, <<R("done", "error")>>)
  <2>1. g \in HarvestRun /\ g.canceled = h.canceled /\ g.merged = h.merged
    BY <1>1 DEF HarvestRun
  <2>2. k \in HarvestRun /\ k.canceled = h.canceled /\ k.merged = h.merged
    BY <2>1, RowTypes, AddRowsType, AddRowsFields
  <2>3. /\ IF exec[e].kind = "worker" THEN SetRun(e, k) ELSE run' = run
        /\ exec'[e] = [exec[e] EXCEPT !.at = "failed"]
    BY <1>1, <1>7 DEF Fail, TypeOK, h
  <2> HIDE DEF g, k
  <2>4. exec'[e].at = "failed"
    BY <1>1, <2>3 DEF Exec
  <2> QED BY <1>1, <1>2, <2>2, <2>3, <2>4
<1>8. ASSUME Interrupted(e) PROVE StepFields(e)
  <2> DEFINE g == AddRows(h, <<R("done", "canceled")>>)
  <2>1. g \in HarvestRun /\ g.canceled = h.canceled /\ g.error = h.error
    BY <1>1, RowTypes, AddRowsType, AddRowsFields
  <2>2. /\ run' = run \/ SetRun(e, g)
        /\ exec'[e] = [exec[e] EXCEPT !.at = "canceled"] /\ exec[e].cancel
    BY <1>1, <1>8 DEF Interrupted, TypeOK, h
  <2> HIDE DEF g
  <2>3. exec'[e].at = "canceled"
    BY <1>1, <2>2 DEF Exec
  <2> QED BY <1>1, <1>2, <2>1, <2>2, <2>3
<1> QED BY <1>3, <1>4, <1>5, <1>6, <1>7, <1>8 DEF Step

-----------------------------------------------------------------------------
(* The invariant that ties the task of a run to the run's other fields.    *)

(* A worker that ended by itself, or was asked to stop, shows in its run.  *)
WorkersEndVisibly ==
    \A e \in Execs : Started(e) /\ exec[e].kind = "worker" =>
        /\ run[exec[e].run].task # None
        /\ exec[e].at = "finished" => run[exec[e].run].merged # None

StopsShow ==
    \A e \in Execs : Started(e) /\ (exec[e].cancel \/ exec[e].at = "canceled") =>
        run[exec[e].run].canceled

JobInv == TaskIsWorker /\ WorkersEndVisibly /\ StopsShow

(* Requests preserve it.                                                   *)
LEMMA RequestJobInv ==
    ASSUME IInv, JobInv, Request
    PROVE  JobInv'
<1>1. ExecsKept /\ RunsKept /\ RunsStay /\ FreshExecs
  BY RequestKeeps DEF IInv, RequestFrame
<1>2. PICK r \in Runs : RequestFields(r) /\ StopsOf(r)
  BY RequestOnFields DEF IInv, JobInv
<1>3. \A f \in Execs : Started(f) => exec[f].run \in Runs /\ Known(exec[f].run)
  BY StartedType DEF IInv, RunsKnown
<1>4. \A s \in Runs : Known(s) => Known(s)' /\ run'[s].merged = run[s].merged
  BY <1>1 DEF RunsKept, RunsStay
<1>5. TaskIsWorker'
  <2> SUFFICES ASSUME NEW s \in Runs, Known(s)', run'[s].task # None,
                      NEW e, e = run'[s].task
               PROVE  exec'[e] # None /\ exec'[e].kind = "worker" /\ exec'[e].run = s
    BY DEF TaskIsWorker, Started
  <2>1. CASE Known(s) /\ run[s].task = e
    <3>1. e \in Execs /\ Started(e) /\ exec[e].kind = "worker" /\ exec[e].run = s
      BY <2>1 DEF IInv, TypeOK, HarvestRun, Known, JobInv, TaskIsWorker
    <3> QED BY <1>1, <3>1 DEF ExecsKept, Started
  <2>2. CASE s = r /\ NewTask(r)
    BY <2>2 DEF NewTask
  <2> QED BY <1>2, <2>1, <2>2 DEF RequestFields, OnlyRun, Known
<1>6. WorkersEndVisibly'
  <2> SUFFICES ASSUME NEW e \in Execs, Started(e)', exec'[e].kind = "worker"
               PROVE  /\ run'[exec'[e].run].task # None
                      /\ exec'[e].at = "finished" => run'[exec'[e].run].merged # None
    BY DEF WorkersEndVisibly
  <2>1. CASE ~Started(e)
    BY <1>1, <2>1, ConstantsAssumption DEF FreshExecs
  <2>2. CASE Started(e)
    <3>1. /\ exec[e].kind = "worker" /\ exec'[e].run = exec[e].run
          /\ exec'[e].at = exec[e].at
      BY <1>1, <2>2 DEF ExecsKept
    <3>2. /\ run[exec[e].run].task # None
          /\ exec[e].at = "finished" => run[exec[e].run].merged # None
      BY <2>2, <3>1 DEF JobInv, WorkersEndVisibly
    <3>3. run'[exec[e].run].task # None
      BY <1>2, <1>3, <2>2, <3>2 DEF RequestFields, OnlyRun
    <3> QED BY <1>3, <1>4, <2>2, <3>1, <3>2, <3>3
  <2> QED BY <2>1, <2>2
<1>7. StopsShow'
  <2> SUFFICES ASSUME NEW e \in Execs, Started(e)', exec'[e].cancel \/ exec'[e].at = "canceled"
               PROVE  run'[exec'[e].run].canceled
    BY DEF StopsShow
  <2>1. CASE ~Started(e)
    BY <1>1, <2>1 DEF FreshExecs
  <2>2. CASE Started(e)
    <3>1. exec'[e].run = exec[e].run /\ exec'[e].at = exec[e].at
      BY <1>1, <2>2 DEF ExecsKept
    <3>2. \/ exec[e].cancel \/ exec[e].at = "canceled"
          \/ exec[e].run = r /\ run'[r].canceled
      BY <1>2, <2>2, <3>1 DEF StopsOf
    <3>3. CASE exec[e].cancel \/ exec[e].at = "canceled"
      <4>1. run[exec[e].run].canceled
        BY <2>2, <3>3 DEF JobInv, StopsShow
      <4> QED BY <1>2, <1>3, <2>2, <3>1, <4>1 DEF RequestFields, OnlyRun
    <3> QED BY <3>1, <3>2, <3>3
  <2> QED BY <2>1, <2>2
<1> QED BY <1>5, <1>6, <1>7 DEF JobInv

(* Steps of coroutines preserve it.                                        *)
LEMMA StepJobInv ==
    ASSUME IInv, JobInv, NEW e \in Execs, Step(e)
    PROVE  JobInv'
<1> DEFINE r == exec[e].run
<1>1. OnlyExec(e) /\ ReportFrom(e)
  BY StepKeeps DEF IInv, StepFrame
<1>2. /\ OnlyRun(r) /\ run'[r].canceled = run[r].canceled
      /\ Pipeline(e) /\ exec'[e].at = "finished" => run'[r].merged # None
      /\ exec'[e].at = "canceled" => exec[e].cancel
  BY StepOnFields DEF IInv, StepFields
<1>3. \A f \in Execs : Started(f) => exec[f].run \in Runs /\ Known(exec[f].run)
  BY StartedType DEF IInv, RunsKnown
<1>4. \A f \in Execs : Started(f)' => /\ Started(f)
                                      /\ exec'[f].run = exec[f].run
                                      /\ exec'[f].kind = exec[f].kind
                                      /\ exec'[f].cancel = exec[f].cancel
                                      /\ f # e => exec'[f].at = exec[f].at
  BY <1>1 DEF OnlyExec, Started, Live
<1>5. \A s \in Runs : Known(s)' => /\ Known(s) /\ run'[s].task = run[s].task
                                   /\ run[s].merged # None => run'[s].merged # None
                                   /\ run'[s].canceled = run[s].canceled
  BY <1>1, <1>2 DEF OnlyExec, ReportFrom, OnlyRun
<1>6. \A s \in Runs : Known(s) => Known(s)'
  BY <1>1 DEF OnlyExec
<1> HIDE DEF r
<1>7. TaskIsWorker'
  <2> SUFFICES ASSUME NEW s \in Runs, Known(s)', run'[s].task # None,
                      NEW f, f = run'[s].task
               PROVE  exec'[f] # None /\ exec'[f].kind = "worker" /\ exec'[f].run = s
    BY DEF TaskIsWorker, Started
  <2>1. f \in Execs /\ Started(f) /\ exec[f].kind = "worker" /\ exec[f].run = s
    BY <1>5 DEF IInv, TypeOK, HarvestRun, Known, JobInv, TaskIsWorker
  <2> QED BY <1>1, <2>1 DEF OnlyExec, Started
<1>8. WorkersEndVisibly'
  <2> SUFFICES ASSUME NEW f \in Execs, Started(f)', exec'[f].kind = "worker"
               PROVE  /\ run'[exec'[f].run].task # None
                      /\ exec'[f].at = "finished" => run'[exec'[f].run].merged # None
    BY DEF WorkersEndVisibly
  <2>1. /\ exec[f].kind = "worker" /\ Started(f) /\ exec'[f].run = exec[f].run
        /\ run[exec[f].run].task # None
        /\ exec[f].at = "finished" => run[exec[f].run].merged # None
    BY <1>4 DEF JobInv, WorkersEndVisibly, Started
  <2>2. f = e /\ exec'[f].at = "finished" => run'[exec[f].run].merged # None
    BY <1>2, <2>1 DEF Pipeline, r
  <2>3. exec[f].run \in Runs /\ Known(exec[f].run) /\ run'[exec[f].run] # None
    BY <1>3, <1>6, <2>1 DEF Known
  <2>4. run'[exec[f].run].task = run[exec[f].run].task
    BY <1>5, <2>3 DEF Known
  <2>5. ASSUME exec'[f].at = "finished" PROVE run'[exec[f].run].merged # None
    <3>1. CASE f = e
      BY <2>2, <2>5, <3>1
    <3>2. CASE f # e
      <4>1. run[exec[f].run].merged # None
        BY <1>4, <2>1, <2>5, <3>2 DEF Started
      <4> QED BY <1>5, <2>3, <4>1 DEF Known
    <3> QED BY <3>1, <3>2
  <2> QED BY <2>1, <2>4, <2>5
<1>9. StopsShow'
  <2> SUFFICES ASSUME NEW f \in Execs, Started(f)', exec'[f].cancel \/ exec'[f].at = "canceled"
               PROVE  run'[exec'[f].run].canceled
    BY DEF StopsShow
  <2>1. Started(f) /\ exec'[f].run = exec[f].run /\ (exec[f].cancel \/ exec[f].at = "canceled")
    BY <1>2, <1>4 DEF Started
  <2>2. run[exec[f].run].canceled
    BY <2>1 DEF JobInv, StopsShow
  <2> QED BY <1>3, <1>5, <1>6, <2>1, <2>2
<1> QED BY <1>7, <1>8, <1>9 DEF JobInv

(* The state of a run in terms of its own fields, without a look at the    *)
(* execution of its task.                                                  *)
StateOf(h) ==
    IF h.canceled THEN "canceled"
    ELSE IF h.error # None THEN "error"
    ELSE IF h.merged # None THEN "complete"
    ELSE IF h.task # None THEN "running"
    ELSE "pending"

Shown(h) == IF h = None THEN "unknown" ELSE StateOf(h)
Reported(h) == h # None /\ h.merged # None

(* What is reported is what the fields show.                               *)
Faithful == \A r \in Runs : Known(r) => job_state(r) = StateOf(run[r])

AllInv == IInv /\ JobInv /\ FailedLeavesError

(* All of the invariants hold in every reachable state.                    *)
LEMMA AllInvariant == Spec => []AllInv
<1>1. Init => JobInv /\ FailedLeavesError
  BY DEF Init, JobInv, TaskIsWorker, WorkersEndVisibly, StopsShow, FailedLeavesError,
         Started, Known
<1>2. IInv /\ JobInv /\ [Next]_vars => JobInv'
  <2> SUFFICES ASSUME IInv, JobInv, [Next]_vars PROVE JobInv'
    OBVIOUS
  <2>1. CASE UNCHANGED vars
    BY <2>1 DEF vars, JobInv, TaskIsWorker, WorkersEndVisibly, StopsShow, Started, Known
  <2> QED BY <2>1, RequestJobInv, StepJobInv DEF Next
<1> QED BY <1>1, <1>2, InitInv, NextInv, FailedLeavesErrorNext, PTL DEF Spec, AllInv

(* The reported state is the one of the fields.                            *)
LEMMA StateIsOfFields ==
    ASSUME "" \notin Texts
    PROVE  AllInv => Faithful
<1> SUFFICES ASSUME AllInv, NEW r \in Runs, Known(r) PROVE job_state(r) = StateOf(run[r])
  BY DEF Faithful
<1> DEFINE h == run[r]
<1>1. h \in HarvestRun
  BY DEF AllInv, IInv, TypeOK, Known
<1>2. Truthy(h.error) <=> h.error # None
  BY <1>1 DEF Truthy, HarvestRun
<1>3. ASSUME h.task # None, ~Active(h), ~h.canceled, h.error = None PROVE h.merged # None
  <2> DEFINE e == h.task
  <2>1. e \in Execs /\ Started(e) /\ exec[e].kind = "worker" /\ exec[e].run = r
    BY <1>1, <1>3 DEF AllInv, JobInv, TaskIsWorker, HarvestRun
  <2>2. exec[e].at \in {"finished", "failed", "canceled"}
    BY <1>3, <2>1 DEF Active, Live, AllDone
  <2>3. exec[e].at # "canceled"
    BY <1>3, <2>1 DEF AllInv, JobInv, StopsShow
  <2>4. exec[e].at # "failed"
    BY <1>3, <2>1, ConstantsAssumption DEF AllInv, FailedLeavesError
  <2> QED BY <2>1, <2>2, <2>3, <2>4 DEF AllInv, JobInv, WorkersEndVisibly
<1>4. h.canceled \in BOOLEAN
  BY <1>1 DEF HarvestRun
<1>5. Active(h) => h.task # None
  BY DEF Active
<1> QED BY <1>2, <1>3, <1>4, <1>5 DEF job_state, StateOf

-----------------------------------------------------------------------------
(* The edges of JobStatus in terms of a run before and after a step.       *)

Same(h, g) == Shown(g) = Shown(h) /\ Reported(g) = Reported(h)

Created(h, g) ==
    /\ h = None /\ ~Reported(g)
    /\ Shown(g) \in {"pending", "running", "canceled"}

Begun(h, g) ==
    Shown(h) = "pending" /\ Shown(g) = "running" /\ Reported(g) = Reported(h)

Completed(h, g) ==
    /\ h # None /\ Reported(g)
    /\ Shown(g) = IF Shown(h) \in {"complete", "error", "canceled"} THEN Shown(h) ELSE "complete"

Failed(h, g) ==
    Shown(h) \in {"running", "complete"} /\ Shown(g) = "error" /\ Reported(g) = Reported(h)

Stopped(h, g) == h # None /\ Shown(g) = "canceled" /\ Reported(g) = Reported(h)

Edge(h, g) ==
    Created(h, g) \/ Begun(h, g) \/ Completed(h, g) \/ Failed(h, g) \/ Stopped(h, g)

(* What a request may do to the fields of a run is one of the edges.       *)
LEMMA RequestEdge ==
    ASSUME NEW h, NEW g, g # None,
           h = None => g.error = None /\ g.merged = None,
           h # None => /\ g.error = h.error /\ g.merged = h.merged
                       /\ g.canceled \in {h.canceled, TRUE},
           \/ h # None /\ g.task = h.task
           \/ h = None /\ g.task = None
           \/ g.task # None /\ (h # None => g.canceled = h.canceled)
    PROVE  Same(h, g) \/ Edge(h, g)
<1>1. CASE h = None
  BY <1>1 DEF Edge, Created, Shown, StateOf, Reported
<1>2. CASE h # None /\ g.canceled # h.canceled
  BY <1>2 DEF Edge, Stopped, Shown, StateOf, Reported
<1>3. CASE h # None /\ g.canceled = h.canceled
  BY <1>3 DEF Edge, Begun, Same, Shown, StateOf, Reported
<1> QED BY <1>1, <1>2, <1>3

(* So is what the step of a coroutine may do.                              *)
LEMMA StepEdge ==
    ASSUME NEW h, NEW g, h # None, g # None,
           g.canceled = h.canceled, g.task = h.task,
           \/ g.error = h.error /\ (g.merged = h.merged \/ g.merged # None)
           \/ g.error # None /\ h.task # None /\ g.merged = h.merged
    PROVE  Same(h, g) \/ Edge(h, g)
<1>1. CASE g.error = h.error /\ g.merged = h.merged
  BY <1>1 DEF Same, Shown, StateOf, Reported
<1>2. CASE g.error = h.error /\ g.merged # None
  BY <1>2 DEF Edge, Completed, Shown, StateOf, Reported
<1>3. CASE g.error # None /\ h.task # None /\ g.merged = h.merged
  BY <1>3 DEF Edge, Failed, Same, Shown, StateOf, Reported
<1> QED BY <1>1, <1>2, <1>3

(* One step changes at most one run, along an edge.                        *)
LEMMA OneEdge ==
    ASSUME AllInv, [Next]_vars
    PROVE  \/ \A s \in Runs : Same(run[s], run'[s])
           \/ \E r \in Runs : OnlyRun(r) /\ Edge(run[r], run'[r])
<1>0. IInv /\ JobInv
  BY DEF AllInv
<1>1. CASE UNCHANGED vars
  BY <1>1 DEF vars, Same
<1>2. CASE Request
  <2>1. PICK r \in Runs : RequestFields(r) /\ StopsOf(r)
    BY <1>0, <1>2, RequestOnFields DEF IInv, JobInv
  <2>2. RunsKept
    BY <1>0, <1>2, RequestKeeps DEF IInv, RequestFrame
  <2> DEFINE h == run[r]
             g == run'[r]
  <2>3. g # None
    BY <2>1 DEF RequestFields, Known
  <2>4. h = None => g.error = None /\ g.merged = None
    BY <2>1, <2>2, <2>3 DEF RequestFields, RunsKept, Known
  <2>5. h # None => /\ g.error = h.error /\ g.merged = h.merged
                    /\ g.canceled \in {h.canceled, TRUE}
    BY <2>1, <2>2, <2>3 DEF RequestFields, RunsKept, Known
  <2>6. \/ h # None /\ g.task = h.task
        \/ h = None /\ g.task = None
        \/ g.task # None /\ (h # None => g.canceled = h.canceled)
    BY <2>1 DEF RequestFields, Known
  <2>7. OnlyRun(r)
    BY <2>1 DEF RequestFields
  <2> HIDE DEF h, g
  <2>8. Same(h, g) \/ Edge(h, g)
    BY <2>3, <2>4, <2>5, <2>6, RequestEdge
  <2> QED BY <2>7, <2>8 DEF OnlyRun, Same, h, g
<1>3. ASSUME NEW e \in Execs, Step(e)
      PROVE  \/ \A s \in Runs : Same(run[s], run'[s])
             \/ \E r \in Runs : OnlyRun(r) /\ Edge(run[r], run'[r])
  <2>1. OnlyExec(e) /\ ReportFrom(e) /\ ErrorFrom(e)
    BY <1>0, <1>3, StepKeeps DEF IInv, StepFrame
  <2>2. StepFields(e)
    BY <1>0, <1>3, StepOnFields DEF IInv
  <2>3. Started(e)
    BY <1>3 DEF Step, Begin, FinishOAI, FinishIVOA, FinishVOR, Fail, Interrupted, At, Live
  <2> DEFINE r == exec[e].run
             h == run[r]
             g == run'[r]
  <2>4. r \in Runs /\ h # None /\ g # None /\ OnlyRun(r) /\ g.canceled = h.canceled
    BY <2>2 DEF StepFields, Known
  <2>5. g.task = h.task
    BY <2>1, <2>4 DEF OnlyExec, Known
  <2>6. g.error = h.error \/ g.error # None
    BY <2>1, <2>4, ConstantsAssumption DEF ErrorFrom, Known
  <2>7. \/ g.error = h.error
        \/ h.task # None /\ g.merged = h.merged
    BY <1>0, <2>2, <2>3 DEF StepFields, JobInv, WorkersEndVisibly
  <2>8. g.merged = h.merged \/ g.merged # None
    BY <2>1, <2>2, <2>4 DEF ReportFrom, StepFields, Known
  <2> HIDE DEF r, h, g
  <2>9. Same(h, g) \/ Edge(h, g)
    BY <2>4, <2>5, <2>6, <2>7, <2>8, StepEdge
  <2> QED BY <2>4, <2>9 DEF OnlyRun, Same, h, g
<1> QED BY <1>1, <1>2, <1>3 DEF Next

-----------------------------------------------------------------------------
(* The refinement.                                                         *)

JobState == [r \in Runs |-> IF Known(r) THEN job_state(r) ELSE "unknown"]
JobReport == [r \in Runs |-> Known(r) /\ run[r].merged # None]

(* The mapping in terms of the fields alone.                               *)
LEMMA MappingIsOfFields ==
    Faithful => /\ JobState = [r \in Runs |-> Shown(run[r])]
                /\ JobReport = [r \in Runs |-> Reported(run[r])]
BY DEF Faithful, JobState, JobReport, Shown, Reported, Known

(* The invariants hold, and what is reported is what the fields show.      *)
LEMMA FaithfulInvariant ==
    ASSUME "" \notin Texts
    PROVE  Spec => [](AllInv /\ Faithful)
<1> QED BY StateIsOfFields, AllInvariant, PTL

(* Every step is a step of JobStatus or changes nothing that is reported.  *)
LEMMA StatusStep ==
    ASSUME AllInv, Faithful, Faithful', [Next]_vars
    PROVE  [Status!JobNext]_(Status!jvars)
<1>1. /\ JobState = [r \in Runs |-> Shown(run[r])]
      /\ JobReport = [r \in Runs |-> Reported(run[r])]
  BY MappingIsOfFields
<1>2. /\ JobState' = [r \in Runs |-> Shown(run'[r])]
      /\ JobReport' = [r \in Runs |-> Reported(run'[r])]
  BY DEF Faithful, JobState, JobReport, Shown, Reported, Known
<1>3. CASE \A s \in Runs : Same(run[s], run'[s])
  <2>1. JobState' = JobState /\ JobReport' = JobReport
    BY <1>1, <1>2, <1>3 DEF Same
  <2> QED BY <2>1 DEF JobState, JobReport, Status!jvars
<1>4. ASSUME NEW r \in Runs, OnlyRun(r), Edge(run[r], run'[r]) PROVE Status!JobNext
  <2> DEFINE h == run[r]
             g == run'[r]
  <2>1. /\ JobState' = [JobState EXCEPT ![r] = Shown(g)]
        /\ JobReport' = [JobReport EXCEPT ![r] = Reported(g)]
        /\ JobState[r] = Shown(h) /\ JobReport[r] = Reported(h)
    BY <1>1, <1>2, <1>4 DEF OnlyRun
  <2>2. Edge(h, g)
    BY <1>4
  <2>3. Shown(h) = "unknown" <=> h = None
    BY DEF Shown, StateOf
  <2> HIDE DEF h, g
  <2>4. Status!JobStep(r)
    <3>1. Reported(g) = Reported(h) => JobReport' = JobReport
      BY <1>1, <2>1
    <3>2. CASE Created(h, g)
      <4>1. Status!Create(r)
        BY <2>1, <2>3, <3>1, <3>2
        DEF Created, Reported, JobState, JobReport, Status!Create, Status!Becomes
      <4> QED BY <4>1 DEF Status!JobStep
    <3>3. CASE Begun(h, g)
      <4>1. Status!Start(r)
        BY <2>1, <3>1, <3>3 DEF Begun, JobState, JobReport, Status!Start, Status!Becomes
      <4> QED BY <4>1 DEF Status!JobStep
    <3>4. CASE Completed(h, g)
      <4>1. Reported(g) = TRUE
        BY <3>4 DEF Completed, Reported
      <4>2. Status!Complete(r)
        BY <2>1, <2>3, <3>4, <4>1
        DEF Completed, JobState, JobReport, Status!Complete, Status!Becomes, Status!Ends
      <4> QED BY <4>2 DEF Status!JobStep
    <3>5. CASE Failed(h, g)
      <4>1. Status!Fail(r)
        BY <2>1, <3>1, <3>5 DEF Failed, JobState, JobReport, Status!Fail, Status!Becomes
      <4> QED BY <4>1 DEF Status!JobStep
    <3>6. CASE Stopped(h, g)
      <4>1. Status!Cancel(r)
        BY <2>1, <2>3, <3>1, <3>6 DEF Stopped, JobState, JobReport, Status!Cancel, Status!Becomes
      <4> QED BY <4>1 DEF Status!JobStep
    <3> QED BY <2>2, <3>2, <3>3, <3>4, <3>5, <3>6 DEF Edge
  <2> QED BY <2>4 DEF Status!JobNext
<1> QED BY <1>3, <1>4, OneEdge

(* In the beginning no run is known.                                       *)
LEMMA StatusInit == Init => Status!JobInit
BY DEF Init, Status!JobInit, Known

(* What clients rely on, JobStatus, is what sessions, workers and requests *)
(* do, whatever the numbers of runs, executions and endpoints: the         *)
(* refinement that run JobSafety checks.  It takes that no exception has   *)
(* an empty text, the flaw that run JobEmptyError shows.                   *)
THEOREM JobImplementsStatus ==
    ASSUME "" \notin Texts
    PROVE  Spec => KeepsJobStatus
<1>1. AllInv /\ Faithful /\ (AllInv /\ Faithful)' /\ [Next]_vars
        => [Status!JobNext]_(Status!jvars)
  BY StatusStep
<1> QED BY <1>1, StatusInit, FaithfulInvariant, PTL DEF Spec, KeepsJobStatus, Status!JobSpec

(* No run that is reported as ended comes back, and a canceled run stays   *)
(* canceled (validation_job.py 32-43): a consequence of the edges.         *)
THEOREM EndsAreFinal ==
    ASSUME "" \notin Texts
    PROVE  Spec => NoResurrection
<1>1. ASSUME AllInv, Faithful, Faithful', [Next]_vars, NEW r \in Runs, Settled(r)
      PROVE  Settled(r)' /\ (job_state(r) = "canceled" => job_state(r)' = "canceled")
  <2>1. run[r] # None /\ job_state(r) = Shown(run[r])
    BY <1>1 DEF Settled, Faithful, Shown, Known
  <2>2. Shown(run[r]) \in {"complete", "error", "canceled"}
    BY <1>1, <2>1 DEF Settled
  <2>3. Same(run[r], run'[r]) \/ Edge(run[r], run'[r])
    BY <1>1, OneEdge DEF OnlyRun, Same
  <2>4. /\ Shown(run'[r]) \in {"complete", "error", "canceled"}
        /\ Shown(run[r]) = "canceled" => Shown(run'[r]) = "canceled"
    BY <2>1, <2>2, <2>3 DEF Same, Edge, Created, Begun, Completed, Failed, Stopped
  <2>5. run'[r] # None
    BY <2>4 DEF Shown
  <2>6. job_state(r)' = Shown(run'[r])
    BY <1>1, <2>5 DEF Faithful, Shown, Known
  <2> QED BY <2>1, <2>4, <2>5, <2>6 DEF Settled, Known
<1>2. AllInv /\ Faithful /\ (AllInv /\ Faithful)' /\ [Next]_vars
        => [\A r \in Runs : Settled(r) =>
              /\ Settled(r)'
              /\ job_state(r) = "canceled" => job_state(r)' = "canceled"]_vars
  BY <1>1
<1> QED BY <1>2, FaithfulInvariant, PTL DEF Spec, NoResurrection

-----------------------------------------------------------------------------
(* Status rows.                                                            *)

PipelinePhases == {"oai", "ivoa", "vor"}

(* Which of the rows marks the active phase.                               *)
Marks(rows, i, phase) ==
    /\ rows[i] = R(phase, "running")
    /\ \A j \in i + 1 .. Len(rows) :
          rows[j].status = "running" => rows[j].phase \notin PipelinePhases

ActiveIn(rows, phase) == \E i \in DOMAIN rows : Marks(rows, i, phase)
RowIn(rows, phase, status) == \E i \in DOMAIN rows : rows[i] = R(phase, status)

(* Every row of the pipeline comes after those that the stepper expects    *)
(* before it, and one of them marks the active phase.                      *)
InOrderOfPhases(rows) ==
    /\ RowIn(rows, "ivoa", "running") \/ RowIn(rows, "ivoa", "completed")
          => RowIn(rows, "oai", "completed")
    /\ RowIn(rows, "vor", "running") \/ RowIn(rows, "vor", "completed")
          => RowIn(rows, "ivoa", "completed")
    /\ (\E i \in DOMAIN rows : rows[i].phase \in PipelinePhases)
          => \E phase \in PipelinePhases : ActiveIn(rows, phase)

(* The stepper's own words for these.                                      *)
LEMMA RowsOfRun ==
    ASSUME NEW h
    PROVE  /\ \A phase, status : HasRow(h, phase, status) <=> RowIn(h.rows, phase, status)
           /\ \A phase : IsActive(h, phase) <=> ActiveIn(h.rows, phase)
           /\ NoActive(h) <=> \A phase \in PipelinePhases : ~ActiveIn(h.rows, phase)
<1>1. \A phase, status : HasRow(h, phase, status) <=> RowIn(h.rows, phase, status)
  BY DEF HasRow, RowIn, R
<1>2. \A phase : IsActive(h, phase) <=> ActiveIn(h.rows, phase)
  BY DEF IsActive, ActiveIn, Marks, R, PipelinePhases
<1>3. NoActive(h) <=> \A phase \in PipelinePhases : ~IsActive(h, phase)
  <2>1. NoActive(h) <=> /\ ~IsActive(h, Phases[1]) /\ ~IsActive(h, Phases[2])
                        /\ ~IsActive(h, Phases[3])
    BY DEF NoActive
  <2>2. Phases[1] = "oai" /\ Phases[2] = "ivoa" /\ Phases[3] = "vor"
    BY DEF Phases
  <2> QED BY <2>1, <2>2 DEF PipelinePhases
<1> QED BY <1>1, <1>2, <1>3

(* What one more row adds.                                                 *)
LEMMA OneRowMore ==
    ASSUME NEW rows \in Seq(Row), NEW row \in Row
    PROVE  LET more == Append(rows, row) IN
           /\ more \in Seq(Row)
           /\ \A phase, status :
                 RowIn(more, phase, status) <=> RowIn(rows, phase, status) \/ row = R(phase, status)
           /\ row.status = "running" /\ row.phase \in PipelinePhases =>
                 \A phase \in PipelinePhases : ActiveIn(more, phase) <=> phase = row.phase
           /\ ~(row.status = "running" /\ row.phase \in PipelinePhases) =>
                 \A phase \in PipelinePhases : ActiveIn(more, phase) <=> ActiveIn(rows, phase)
<1> DEFINE more == Append(rows, row)
           n == Len(rows) + 1
<1>1. /\ more \in Seq(Row) /\ Len(more) = n /\ more[n] = row
      /\ \A i \in 1..Len(rows) : more[i] = rows[i]
  BY AppendProperties
<1>2. Len(rows) \in Nat /\ DOMAIN rows = 1..Len(rows) /\ DOMAIN more = 1..n
  BY <1>1
<1>3. 1..n = (1..Len(rows)) \cup {n} /\ n \notin 1..Len(rows)
  BY <1>2
<1> HIDE DEF more
<1>4. ASSUME NEW phase, NEW status
      PROVE  RowIn(more, phase, status) <=> RowIn(rows, phase, status) \/ row = R(phase, status)
  BY <1>1, <1>2, <1>3 DEF RowIn
<1>5. ASSUME NEW phase \in PipelinePhases
      PROVE  Marks(more, n, phase) <=> row = R(phase, "running")
  <2>1. n + 1 .. Len(more) = {}
    BY <1>1, <1>2
  <2> QED BY <1>1, <2>1 DEF Marks
<1>6. ASSUME NEW phase, NEW i \in 1..Len(rows)
      PROVE  Marks(more, i, phase) <=>
                /\ Marks(rows, i, phase)
                /\ row.status = "running" => row.phase \notin PipelinePhases
  <2>1. i + 1 .. Len(more) = (i + 1 .. Len(rows)) \cup {n}
    BY <1>1, <1>2
  <2>2. \A j \in i + 1 .. Len(rows) : more[j] = rows[j]
    BY <1>1, <1>2
  <2> QED BY <1>1, <2>1, <2>2 DEF Marks
<1>7. ASSUME row.status = "running", row.phase \in PipelinePhases, NEW phase \in PipelinePhases
      PROVE  ActiveIn(more, phase) <=> phase = row.phase
  <2>1. ActiveIn(more, phase) <=> Marks(more, n, phase)
    BY <1>2, <1>3, <1>6, <1>7 DEF ActiveIn
  <2>2. row = R(row.phase, "running")
    BY <1>7 DEF R, Row
  <2>3. \A p : R(phase, "running") = R(p, "running") => p = phase
    BY DEF R
  <2> QED BY <1>5, <2>1, <2>2, <2>3
<1>8. ASSUME ~(row.status = "running" /\ row.phase \in PipelinePhases),
             NEW phase \in PipelinePhases
      PROVE  ActiveIn(more, phase) <=> ActiveIn(rows, phase)
  <2>1. ~Marks(more, n, phase)
    BY <1>5, <1>8 DEF R
  <2> QED BY <1>2, <1>3, <1>6, <1>8, <2>1 DEF ActiveIn
<1> QED BY <1>1, <1>4, <1>7, <1>8 DEF more

(* A row may follow when its phase has been announced and those before it  *)
(* are completed.                                                          *)
MayFollow(rows, row) ==
    /\ row.phase = "ivoa" => RowIn(rows, "oai", "completed")
    /\ row.phase = "vor" => RowIn(rows, "ivoa", "completed")
    /\ row.phase \in PipelinePhases =>
          row.status = "running" \/ RowIn(rows, row.phase, "running")

(* A row that may follow keeps the order, and no row is lost.              *)
LEMMA OrderKept ==
    ASSUME NEW rows \in Seq(Row), NEW row \in Row, InOrderOfPhases(rows), MayFollow(rows, row)
    PROVE  LET more == Append(rows, row) IN
           /\ more \in Seq(Row) /\ InOrderOfPhases(more)
           /\ RowIn(more, row.phase, row.status)
           /\ \A phase, status : RowIn(rows, phase, status) => RowIn(more, phase, status)
<1> DEFINE more == Append(rows, row)
<1>1. /\ more \in Seq(Row)
      /\ \A phase, status :
            RowIn(more, phase, status) <=> RowIn(rows, phase, status) \/ row = R(phase, status)
      /\ row.status = "running" /\ row.phase \in PipelinePhases =>
            \A phase \in PipelinePhases : ActiveIn(more, phase) <=> phase = row.phase
      /\ ~(row.status = "running" /\ row.phase \in PipelinePhases) =>
            \A phase \in PipelinePhases : ActiveIn(more, phase) <=> ActiveIn(rows, phase)
  BY OneRowMore
<1>2. row = R(row.phase, row.status)
  BY DEF Row, R
<1>3. \A phase, status : row = R(phase, status) => row.phase = phase /\ row.status = status
  BY DEF R
<1>4. /\ Len(more) = Len(rows) + 1 /\ more[Len(rows) + 1] = row
      /\ \A i \in 1..Len(rows) : more[i] = rows[i]
      /\ DOMAIN more = 1..Len(rows) + 1 /\ DOMAIN rows = 1..Len(rows) /\ Len(rows) \in Nat
  BY AppendProperties
<1> HIDE DEF more
<1>5. ASSUME NEW i \in DOMAIN more, more[i].phase \in PipelinePhases
      PROVE  \E phase \in PipelinePhases : ActiveIn(more, phase)
  <2>1. CASE row.status = "running" /\ row.phase \in PipelinePhases
    BY <1>1, <2>1
  <2>2. CASE ~(row.status = "running" /\ row.phase \in PipelinePhases)
    <3>1. \E k \in DOMAIN rows : rows[k].phase \in PipelinePhases
      <4>1. CASE i \in 1..Len(rows)
        BY <1>4, <1>5, <4>1
      <4>2. CASE i = Len(rows) + 1
        <5>1. RowIn(rows, row.phase, "running") /\ row.phase \in PipelinePhases
          BY <1>4, <1>5, <2>2, <4>2 DEF MayFollow
        <5> QED BY <5>1 DEF RowIn, R
      <4> QED BY <1>4, <4>1, <4>2
    <3>2. \E phase \in PipelinePhases : ActiveIn(rows, phase)
      BY <3>1 DEF InOrderOfPhases
    <3> QED BY <1>1, <2>2, <3>2
  <2> QED BY <2>1, <2>2
<1>6. /\ RowIn(more, "ivoa", "running") \/ RowIn(more, "ivoa", "completed")
            => RowIn(more, "oai", "completed")
      /\ RowIn(more, "vor", "running") \/ RowIn(more, "vor", "completed")
            => RowIn(more, "ivoa", "completed")
  BY <1>1, <1>3 DEF InOrderOfPhases, MayFollow
<1>7. InOrderOfPhases(more)
  BY <1>5, <1>6 DEF InOrderOfPhases
<1>8. /\ RowIn(more, row.phase, row.status)
      /\ \A phase, status : RowIn(rows, phase, status) => RowIn(more, phase, status)
  BY <1>1, <1>2
<1> QED BY <1>1, <1>7, <1>8 DEF more

(* Two more rows are one more row, twice.                                  *)
LEMMA TwoRows ==
    ASSUME NEW rows \in Seq(Row), NEW a \in Row, NEW b \in Row
    PROVE  /\ rows \o <<a>> = Append(rows, a)
           /\ rows \o <<a, b>> = Append(Append(rows, a), b)
           /\ <<a>> \o <<b>> = <<a, b>> /\ <<a>> \o <<>> = <<a>>
<1>1. rows \o <<a>> = Append(rows, a)
  BY AppendIsConcat
<1>2. Append(rows, a) \in Seq(Row)
  OBVIOUS
<1>3. Append(Append(rows, a), b) = (rows \o <<a>>) \o <<b>>
  BY <1>1, <1>2, AppendIsConcat
<1>4. <<a>> \in Seq(Row) /\ <<b>> \in Seq(Row)
  OBVIOUS
<1>5. (rows \o <<a>>) \o <<b>> = rows \o (<<a>> \o <<b>>)
  BY <1>4, ConcatAssociative
<1>6. <<a>> \o <<b>> = <<a, b>> /\ <<a>> \o <<>> = <<a>>
  <2>1. <<a>> \o <<b>> = Append(<<a>>, b)
    BY <1>4, AppendIsConcat
  <2>2. Append(<<a>>, b) = <<a, b>>
    <3> DEFINE one == <<a>>
               two == <<a, b>>
    <3>1. one \in Seq(Row) /\ Len(one) = 1 /\ one[1] = a
      OBVIOUS
    <3>2. two \in Seq(Row) /\ Len(two) = 2 /\ two[1] = a /\ two[2] = b
      OBVIOUS
    <3> HIDE DEF one, two
    <3>3. /\ Append(one, b) \in Seq(Row) /\ Len(Append(one, b)) = 2
          /\ Append(one, b)[1] = a /\ Append(one, b)[2] = b
      <4>1. /\ Append(one, b) \in Seq(Row) /\ Len(Append(one, b)) = Len(one) + 1
            /\ \A i \in 1..Len(one) : Append(one, b)[i] = one[i]
            /\ Append(one, b)[Len(one) + 1] = b
        <5>1. one \in Seq(Row)
          BY <3>1
        <5> QED BY <5>1, AppendProperties
      <4> QED BY <3>1, <4>1
    <3>4. \A i \in 1..2 : Append(one, b)[i] = two[i]
      BY <3>2, <3>3
    <3>5. Append(one, b) = two
      BY <3>2, <3>3, <3>4, SeqEqual
    <3> QED BY <3>5, Zenon DEF one, two
  <2>3. <<a>> \o <<>> = <<a>>
    BY <1>4, ConcatEmptySeq
  <2> QED BY <2>1, <2>2, <2>3
<1> QED BY <1>1, <1>3, <1>5, <1>6

(* The rows of each action of the pipeline may follow.                     *)
LEMMA PipelineRows ==
    ASSUME NEW rows \in Seq(Row), InOrderOfPhases(rows),
           NEW new,
           \/ new = <<>> \/ new = <<R("done", "error")>> \/ new = <<R("done", "canceled")>>
           \/ new = <<R("start", "running"), R("oai", "running")>>
           \/ new = <<R("oai", "running")>>
           \/ /\ RowIn(rows, "oai", "running")
              /\ new = <<R("oai", "completed"), R("ivoa", "running")>>
           \/ /\ RowIn(rows, "ivoa", "running")
              /\ new = <<R("ivoa", "completed"), R("vor", "running")>>
           \/ /\ RowIn(rows, "vor", "running")
              /\ new \in {<<R("vor", "completed")>>,
                          <<R("vor", "completed"), R("done", "completed")>>}
    PROVE  /\ rows \o new \in Seq(Row) /\ InOrderOfPhases(rows \o new)
           /\ \A i \in DOMAIN new : RowIn(rows \o new, new[i].phase, new[i].status)
           /\ \A phase, status : RowIn(rows, phase, status) => RowIn(rows \o new, phase, status)
<1> DEFINE Good(more) ==
        /\ more \in Seq(Row) /\ InOrderOfPhases(more)
        /\ \A phase, status : RowIn(rows, phase, status) => RowIn(more, phase, status)
<1>1. \A phase \in {"start", "oai", "ivoa", "vor", "done"},
         status \in {"running", "completed", "canceled", "error"} :
            /\ R(phase, status) \in Row
            /\ R(phase, status).phase = phase /\ R(phase, status).status = status
  BY DEF R, Row
<1>2. ASSUME NEW more, Good(more), NEW row \in Row, MayFollow(more, row)
      PROVE  /\ Good(Append(more, row)) /\ RowIn(Append(more, row), row.phase, row.status)
             /\ \A phase, status : RowIn(more, phase, status) => RowIn(Append(more, row), phase, status)
  BY <1>2, OrderKept
<1>3. CASE new = <<>>
  <2>1. rows \o new = rows
    BY <1>3
  <2> QED BY <1>3, <2>1
<1>4. ASSUME NEW row \in Row, new = <<row>>, MayFollow(rows, row)
      PROVE  Good(rows \o new) /\ \A i \in DOMAIN new : RowIn(rows \o new, new[i].phase, new[i].status)
  <2>1. rows \o new = Append(rows, row)
    BY <1>4, TwoRows
  <2>2. Good(rows)
    OBVIOUS
  <2>3. Good(Append(rows, row)) /\ RowIn(Append(rows, row), row.phase, row.status)
    BY <1>2, <1>4, <2>2
  <2> HIDE DEF Good
  <2>4. DOMAIN new = {1} /\ new[1] = row
    BY <1>4
  <2> QED BY <2>1, <2>3, <2>4
<1>5. ASSUME NEW a \in Row, NEW b \in Row, new = <<a, b>>, MayFollow(rows, a),
             MayFollow(Append(rows, a), b)
      PROVE  Good(rows \o new) /\ \A i \in DOMAIN new : RowIn(rows \o new, new[i].phase, new[i].status)
  <2>1. rows \o new = Append(Append(rows, a), b)
    BY <1>5, TwoRows
  <2>2. Good(rows)
    OBVIOUS
  <2>3. Good(Append(rows, a)) /\ RowIn(Append(rows, a), a.phase, a.status)
    BY <1>2, <1>5, <2>2
  <2>4. /\ Good(Append(Append(rows, a), b)) /\ RowIn(Append(Append(rows, a), b), b.phase, b.status)
        /\ RowIn(Append(Append(rows, a), b), a.phase, a.status)
    BY <1>2, <1>5, <2>3
  <2> HIDE DEF Good
  <2>5. DOMAIN new = {1, 2} /\ new[1] = a /\ new[2] = b
    BY <1>5
  <2> QED BY <2>1, <2>4, <2>5
<1>6. \A more : \A phase \in {"start", "done"},
                    status \in {"running", "completed", "canceled", "error"} :
         MayFollow(more, R(phase, status))
  BY <1>1 DEF MayFollow, PipelinePhases
<1>7. \A more : MayFollow(more, R("oai", "running"))
  BY <1>1 DEF MayFollow
<1>8. \A row \in Row : Good(Append(rows, row)) \/ ~MayFollow(rows, row)
  <2>1. Good(rows)
    OBVIOUS
  <2> QED BY <1>2, <2>1
<1>9. \A row \in Row : MayFollow(rows, row) => RowIn(Append(rows, row), row.phase, row.status)
  <2>1. Good(rows)
    OBVIOUS
  <2> QED BY <1>2, <2>1
<1>10. RowIn(rows, "oai", "running") =>
          /\ MayFollow(rows, R("oai", "completed"))
          /\ MayFollow(Append(rows, R("oai", "completed")), R("ivoa", "running"))
  BY <1>1, <1>9 DEF MayFollow
<1>11. RowIn(rows, "ivoa", "running") =>
          /\ MayFollow(rows, R("ivoa", "completed"))
          /\ MayFollow(Append(rows, R("ivoa", "completed")), R("vor", "running"))
  <2>1. RowIn(rows, "ivoa", "running") => MayFollow(rows, R("ivoa", "completed"))
    BY <1>1 DEF MayFollow, InOrderOfPhases
  <2> QED BY <1>1, <1>9, <2>1 DEF MayFollow
<1>12. RowIn(rows, "vor", "running") => MayFollow(rows, R("vor", "completed"))
  BY <1>1 DEF MayFollow, InOrderOfPhases
<1> HIDE DEF Good
<1>13. CASE \/ new = <<R("done", "error")>> \/ new = <<R("done", "canceled")>>
            \/ new = <<R("oai", "running")>>
            \/ RowIn(rows, "vor", "running") /\ new = <<R("vor", "completed")>>
  BY <1>1, <1>4, <1>6, <1>7, <1>12, <1>13 DEF Good
<1>14. CASE \/ new = <<R("start", "running"), R("oai", "running")>>
            \/ /\ RowIn(rows, "oai", "running")
               /\ new = <<R("oai", "completed"), R("ivoa", "running")>>
            \/ /\ RowIn(rows, "ivoa", "running")
               /\ new = <<R("ivoa", "completed"), R("vor", "running")>>
            \/ /\ RowIn(rows, "vor", "running")
               /\ new = <<R("vor", "completed"), R("done", "completed")>>
  BY <1>1, <1>5, <1>6, <1>7, <1>10, <1>11, <1>12, <1>14 DEF Good
<1> QED BY <1>3, <1>13, <1>14

-----------------------------------------------------------------------------
(* What requests and coroutines add to the rows of a run.                  *)

RowsOf(h) == IF h = None THEN <<>> ELSE h.rows

(* A request adds no row, and a pipeline that it starts has to begin yet,  *)
(* or it runs the pipeline itself and says that phase 1 has begun.         *)
RequestRows(r) ==
    /\ Known(r)' /\ OnlyRun(r)
    /\ \A f \in Execs : ~Started(f) /\ Started(f)' =>
          (exec'[f].at = "spawned" => exec'[f].kind = "worker")
    /\ \/ /\ RowsOf(run'[r]) = RowsOf(run[r])
          /\ \A f \in Execs :
                ~Started(f) /\ Started(f)' /\ exec'[f].kind \in {"worker", "sync"} =>
                    exec'[f].at = "spawned" /\ exec'[f].run = r
       \/ /\ RowsOf(run'[r]) = RowsOf(run[r]) \o <<R("oai", "running")>>
          /\ \E f \in Execs :
                /\ ~Started(f) /\ Started(f)' /\ exec'[f].run = r
                /\ exec'[f].kind = "sync" /\ exec'[f].at = "oai"
                /\ \A g \in Execs : g # f => exec'[g] = exec[g]

(* A session that a handler works on has the rows of its run.              *)
LEMMA SessionRows ==
    ASSUME TypeOK, NEW r \in Runs, NEW h \in Sessions(r)
    PROVE  h \in HarvestRun /\ h # None /\ RowsOf(run[r]) = h.rows
<1>1. h \in HarvestRun /\ h # None /\ (Known(r) => h = run[r])
  BY SessionType, NoneAssumption
<1>2. CASE Known(r)
  BY <1>1, <1>2 DEF RowsOf, Known
<1>3. CASE ~Known(r)
  <2>1. \A ep, cache, builtin : new_run_from_query(ep, cache, builtin).rows = <<>>
    BY DEF new_run_from_query
  <2>2. h.rows = <<>>
    BY <1>3, <2>1 DEF Sessions
  <2> QED BY <1>1, <1>3, <2>2 DEF RowsOf, Known
<1> QED BY <1>2, <1>3

(* Spawning a worker adds no row.                                          *)
LEMMA SpawnRows ==
    ASSUME TypeOK, NEW r \in Runs, NEW h \in HarvestRun, RowsOf(run[r]) = h.rows,
           NEW e \in Execs, Spawn(r, h, e)
    PROVE  RequestRows(r)
<1> USE NoneAssumption
<1>1. CASE Active(h)
  BY <1>1 DEF Spawn, TypeOK, RequestRows, OnlyRun, Known, RowsOf, Started
<1>2. CASE ~Active(h)
  <2> DEFINE g == [h EXCEPT !.task = e]
             x == NewExec("worker", r, "spawned")
  <2>1. g \in HarvestRun /\ g.rows = h.rows
    BY DEF HarvestRun
  <2>2. x.at = "spawned" /\ x.run = r /\ x.kind = "worker"
    BY DEF NewExec
  <2>3. ~Started(e) /\ run' = [run EXCEPT ![r] = g] /\ exec' = [exec EXCEPT ![e] = x]
    BY <1>2 DEF Spawn
  <2> HIDE DEF g, x
  <2>4. /\ run'[r] = g /\ OnlyRun(r) /\ Known(r)'
        /\ exec'[e] = x /\ \A f \in Execs : f # e => exec'[f] = exec[f]
    BY <2>1, <2>3 DEF TypeOK, Known, OnlyRun
  <2> QED BY <2>1, <2>2, <2>4 DEF RequestRows, RowsOf, Started
<1> QED BY <1>1, <1>2

(* Every request does what RequestRows says.                               *)
LEMMA RequestOnRows ==
    ASSUME TypeOK, Request
    PROVE  \E r \in Runs : RequestRows(r)
<1> USE NoneAssumption
<1> PICK r \in Runs :
      \/ \E h \in Sessions(r) : OpenSession(r, h) \/ Cancel(r, h)
      \/ \E h \in Sessions(r), e \in Execs, op \in {"validate", "omitted"} :
            ValidateCached(r, h, op, e) \/ ValidateSync(r, h, op, e)
      \/ \E h \in Sessions(r), e \in Execs, op \in DOMAIN PhaseOf : ValidatePhase(r, h, op, e)
      \/ \E ep \in Endpoints, builtin \in BOOLEAN, e \in Execs : _start_job(r, ep, builtin, e)
      \/ \E route \in {"harvest", "validator", "publishers"}, oid \in Ids : Register(r, route, oid)
  BY DEF Request
<1>1. ASSUME NEW h \in Sessions(r), OpenSession(r, h) PROVE RequestRows(r)
  BY <1>1, SessionRows DEF OpenSession, TypeOK, RequestRows, OnlyRun, Known, RowsOf, Started
<1>2. ASSUME NEW h \in Sessions(r), Cancel(r, h) PROVE RequestRows(r)
  <2> DEFINE g == [h EXCEPT !.canceled = TRUE]
  <2>1. g \in HarvestRun /\ g.rows = RowsOf(run[r])
    <3>1. h \in HarvestRun /\ h.rows = RowsOf(run[r])
      BY SessionRows
    <3> QED BY <3>1 DEF HarvestRun
  <2>2. run' = [run EXCEPT ![r] = g]
    BY <1>2 DEF Cancel
  <2> HIDE DEF g
  <2>3. run'[r] = g /\ OnlyRun(r) /\ Known(r)'
    BY <2>1, <2>2 DEF TypeOK, Known, OnlyRun
  <2>4. \A f \in Execs : Started(f)' => Started(f)
    <3>1. CASE Active(h)
      <4>1. h.task \in Execs /\ Started(h.task)
        BY <3>1, SessionRows DEF Active, Live, HarvestRun
      <4>2. \A f \in Execs : f # h.task => exec'[f] = exec[f]
        BY <1>2, <3>1 DEF Cancel, TypeOK
      <4> QED BY <4>1, <4>2 DEF Started
    <3> QED BY <1>2, <3>1 DEF Cancel, Started
  <2> QED BY <2>1, <2>3, <2>4 DEF RequestRows, RowsOf
<1>3. ASSUME NEW h \in Sessions(r), NEW e \in Execs, NEW op, ValidateCached(r, h, op, e)
      PROVE RequestRows(r)
  BY <1>3, SessionRows, SpawnRows DEF ValidateCached
<1>4. ASSUME NEW h \in Sessions(r), NEW e \in Execs, NEW op, ValidateSync(r, h, op, e)
      PROVE RequestRows(r)
  <2> DEFINE g == AddRows(h, <<R("oai", "running")>>)
             x == NewExec("sync", r, "oai")
  <2>1. g \in HarvestRun /\ g.rows = RowsOf(run[r]) \o <<R("oai", "running")>>
    <3>1. h \in HarvestRun /\ h.rows = RowsOf(run[r])
      BY SessionRows
    <3>2. g \in HarvestRun
      BY <3>1, RowTypes, AddRowsType
    <3>3. g.rows = h.rows \o <<R("oai", "running")>>
      BY <3>1 DEF AddRows, HarvestRun
    <3> QED BY <3>1, <3>2, <3>3
  <2>2. x.at = "oai" /\ x.run = r /\ x.kind = "sync" /\ x # None
    BY NewExecType DEF NewExec, Kinds
  <2>3. ~Started(e) /\ run' = [run EXCEPT ![r] = g] /\ exec' = [exec EXCEPT ![e] = x]
    BY <1>4 DEF ValidateSync
  <2> HIDE DEF g, x
  <2>4. /\ run'[r] = g /\ OnlyRun(r) /\ Known(r)'
        /\ exec'[e] = x /\ \A f \in Execs : f # e => exec'[f] = exec[f]
    BY <2>1, <2>3 DEF TypeOK, Known, OnlyRun
  <2> QED BY <2>1, <2>2, <2>3, <2>4 DEF RequestRows, RowsOf, Started, Known
<1>5. ASSUME NEW h \in Sessions(r), NEW e \in Execs, NEW op \in DOMAIN PhaseOf,
             ValidatePhase(r, h, op, e)
      PROVE RequestRows(r)
  <2> DEFINE x == NewExec(op, r, PhaseOf[op])
  <2>1. run' = [run EXCEPT ![r] = h] /\ exec' = [exec EXCEPT ![e] = x]
    BY <1>5 DEF ValidatePhase
  <2>2. x.kind \notin {"worker", "sync"} /\ x.at # "spawned"
    BY PhaseOfType DEF NewExec
  <2> HIDE DEF x
  <2>3. /\ run'[r] = h /\ OnlyRun(r) /\ Known(r)'
        /\ exec'[e] = x /\ \A f \in Execs : f # e => exec'[f] = exec[f]
    BY <2>1, SessionRows DEF TypeOK, Known, OnlyRun
  <2> QED BY <2>2, <2>3, SessionRows DEF RequestRows, RowsOf, Started
<1>6. ASSUME NEW ep \in Endpoints, NEW builtin \in BOOLEAN, NEW e \in Execs,
             _start_job(r, ep, builtin, e)
      PROVE RequestRows(r)
  <2>1. /\ new_run_from_query(ep, TRUE, builtin) \in HarvestRun
        /\ new_run_from_query(ep, TRUE, builtin).rows = <<>>
        /\ RowsOf(run[r]) = <<>>
    BY <1>6, NewRunType DEF new_run_from_query, _start_job, RowsOf, Known
  <2>2. Spawn(r, new_run_from_query(ep, TRUE, builtin), e)
    BY <1>6 DEF _start_job
  <2> DEFINE h == new_run_from_query(ep, TRUE, builtin)
  <2>3. h \in HarvestRun /\ RowsOf(run[r]) = h.rows
    BY <2>1
  <2> HIDE DEF h
  <2>4. Spawn(r, h, e)
    BY <2>2 DEF h
  <2> QED BY <2>3, <2>4, SpawnRows
<1>7. ASSUME NEW route, NEW oid \in Ids, Register(r, route, oid)
      PROVE RequestRows(r)
  BY <1>7 DEF Register, RequestRows, OnlyRun, Known, Started
<1> QED BY <1>1, <1>2, <1>3, <1>4, <1>5, <1>6, <1>7

(* A coroutine announces its next phase, and what it has completed.        *)
StepRows(e) ==
    LET r == exec[e].run
        from == exec[e].at
        to == exec'[e].at
        Adds(new) == run'[r].rows = run[r].rows \o new
    IN
    /\ r \in Runs /\ run[r] # None /\ run'[r] # None /\ OnlyRun(r)
    /\ \/ /\ to \in AllDone
          /\ Adds(<<>>) \/ Adds(<<R("done", "error")>>) \/ Adds(<<R("done", "canceled")>>)
       \/ /\ from = "spawned" /\ to = "oai"
          /\ Adds(<<R("start", "running"), R("oai", "running")>>)
       \/ /\ Pipeline(e) /\ from = "oai" /\ to = "ivoa"
          /\ Adds(<<R("oai", "completed"), R("ivoa", "running")>>)
       \/ /\ Pipeline(e) /\ from = "ivoa" /\ to = "vor"
          /\ Adds(<<R("ivoa", "completed"), R("vor", "running")>>)
       \/ /\ Pipeline(e) /\ from = "vor" /\ to = "finished"
          /\ \/ Adds(<<R("vor", "completed")>>)
             \/ Adds(<<R("vor", "completed"), R("done", "completed")>>)

(* The rows of a run to which rows are added.                              *)
LEMMA RowsAdded ==
    ASSUME NEW h \in HarvestRun, NEW new \in Seq(Row)
    PROVE  AddRows(h, new).rows = h.rows \o new
BY DEF AddRows, HarvestRun

(* Every step of a coroutine does what StepRows says.                      *)
LEMMA StepOnRows ==
    ASSUME TypeOK, RunsKnown, LocalsOK, NEW e \in Execs, Step(e)
    PROVE  StepRows(e)
<1> USE NoneAssumption
<1> DEFINE h == RunOf(e)
           r == exec[e].run
<1>0. Started(e)
  BY DEF Step, Begin, FinishOAI, FinishIVOA, FinishVOR, Fail, Interrupted, At, Live
<1>1. exec[e] \in Exec /\ h \in HarvestRun /\ r \in Runs /\ h = run[r] /\ run[r] # None
  BY <1>0, StartedType, RunOfType DEF RunOf, RunsKnown, Known
<1>2. ASSUME NEW g \in HarvestRun, SetRun(e, g) \/ (g = h /\ run' = run)
      PROVE  run'[r] = g /\ run'[r] # None /\ OnlyRun(r)
  <2>1. run'[r] = g /\ OnlyRun(r)
    <3>1. CASE SetRun(e, g)
      BY <1>0, <3>1, SetRunFrame DEF OnlyRun
    <3>2. CASE g = h /\ run' = run
      BY <1>1, <3>2 DEF OnlyRun
    <3> QED BY <1>2, <3>1, <3>2
  <2> QED BY <2>1
<1>3. h.rows \o <<>> = h.rows
  BY <1>1 DEF HarvestRun
<1> HIDE DEF h, r
<1>4. ASSUME Begin(e) PROVE StepRows(e)
  <2> DEFINE new == <<R("start", "running"), R("oai", "running")>>
             g == AddRows(h, new)
  <2>1. g \in HarvestRun /\ g.rows = h.rows \o new
    BY <1>1, RowTypes, AddRowsType, RowsAdded
  <2>2. SetRun(e, g) /\ exec'[e] = [exec[e] EXCEPT !.at = "oai"] /\ exec[e].at = "spawned"
    BY <1>4 DEF Begin, At, TypeOK, h
  <2> HIDE DEF g
  <2>3. exec'[e].at = "oai"
    BY <1>1, <2>2 DEF Exec
  <2>4. run'[r] = g /\ run'[r] # None /\ OnlyRun(r)
    BY <1>2, <2>1, <2>2
  <2> QED BY <1>1, <2>1, <2>2, <2>3, <2>4 DEF StepRows, r
<1>5. ASSUME NEW tally \in Tallies, FinishOAI(e, tally) PROVE StepRows(e)
  <2> DEFINE section == [by |-> e, tally |-> tally]
             new == <<R("oai", "completed"), R("ivoa", "running")>>
             g == [h EXCEPT !.oai = section]
             k == AddRows(g, new)
  <2>1. section \in Section
    BY DEF Section
  <2>2. g \in HarvestRun /\ g.rows = h.rows
    BY <1>1, <2>1 DEF HarvestRun
  <2>3. k \in HarvestRun /\ k.rows = h.rows \o new
    BY <2>2, RowTypes, AddRowsType, RowsAdded
  <2>4. /\ exec[e].at = "oai"
        /\ \/ Pipeline(e) /\ SetRun(e, k) /\ exec'[e] = [exec[e] EXCEPT !.at = "ivoa", !.oai = section]
           \/ SetRun(e, g) /\ exec'[e] = [exec[e] EXCEPT !.at = "finished"]
    BY <1>1, <1>5 DEF FinishOAI, At, TypeOK, Exec, h
  <2> HIDE DEF g, k, section
  <2>5. CASE Pipeline(e) /\ SetRun(e, k) /\ exec'[e] = [exec[e] EXCEPT !.at = "ivoa", !.oai = section]
    <3>1. exec'[e].at = "ivoa"
      BY <1>1, <2>5 DEF Exec
    <3>2. run'[r] = k /\ run'[r] # None /\ OnlyRun(r)
      BY <1>2, <2>3, <2>5
    <3> QED BY <1>1, <2>3, <2>4, <2>5, <3>1, <3>2 DEF StepRows, r
  <2>6. CASE SetRun(e, g) /\ exec'[e] = [exec[e] EXCEPT !.at = "finished"]
    <3>1. exec'[e].at = "finished"
      BY <1>1, <2>6 DEF Exec
    <3>2. run'[r] = g /\ run'[r] # None /\ OnlyRun(r)
      BY <1>2, <2>2, <2>6
    <3> QED BY <1>1, <1>3, <2>2, <3>1, <3>2 DEF StepRows, AllDone, r
  <2> QED BY <2>4, <2>5, <2>6
<1>6. ASSUME NEW tally \in Tallies, NEW oid \in Ids \cup {None}, FinishIVOA(e, tally, oid)
      PROVE StepRows(e)
  <2> DEFINE section == [by |-> e, tally |-> tally]
             new == <<R("ivoa", "completed"), R("vor", "running")>>
             g == [h EXCEPT !.ivoa = section]
             i == [g EXCEPT !.identify = oid]
             k == AddRows(i, new)
  <2>1. section \in Section
    BY DEF Section
  <2>2. g \in HarvestRun /\ g.rows = h.rows
    BY <1>1, <2>1 DEF HarvestRun
  <2>3. i \in HarvestRun /\ i.rows = h.rows
    <3> HIDE DEF g
    <3> QED BY <2>2 DEF HarvestRun
  <2>4. k \in HarvestRun /\ k.rows = h.rows \o new
    <3> HIDE DEF i
    <3> QED BY <2>3, RowTypes, AddRowsType, RowsAdded
  <2>5. /\ exec[e].at = "ivoa"
        /\ \/ Pipeline(e) /\ SetRun(e, k) /\ exec'[e] = [exec[e] EXCEPT !.at = "vor", !.ivoa = section]
           \/ SetRun(e, g) /\ exec'[e] = [exec[e] EXCEPT !.at = "finished"]
    BY <1>1, <1>6 DEF FinishIVOA, At, TypeOK, Exec, h
  <2> HIDE DEF g, i, k, section
  <2>6. CASE Pipeline(e) /\ SetRun(e, k) /\ exec'[e] = [exec[e] EXCEPT !.at = "vor", !.ivoa = section]
    <3>1. exec'[e].at = "vor"
      BY <1>1, <2>6 DEF Exec
    <3>2. run'[r] = k /\ run'[r] # None /\ OnlyRun(r)
      BY <1>2, <2>4, <2>6
    <3> QED BY <1>1, <2>4, <2>5, <2>6, <3>1, <3>2 DEF StepRows, r
  <2>7. CASE SetRun(e, g) /\ exec'[e] = [exec[e] EXCEPT !.at = "finished"]
    <3>1. exec'[e].at = "finished"
      BY <1>1, <2>7 DEF Exec
    <3>2. run'[r] = g /\ run'[r] # None /\ OnlyRun(r)
      BY <1>2, <2>2, <2>7
    <3> QED BY <1>1, <1>3, <2>2, <3>1, <3>2 DEF StepRows, AllDone, r
  <2> QED BY <2>5, <2>6, <2>7
<1>7. ASSUME NEW tally \in Tallies, FinishVOR(e, tally) PROVE StepRows(e)
  <2> DEFINE section == [by |-> e, tally |-> tally]
             one == <<R("vor", "completed")>>
             both == <<R("vor", "completed"), R("done", "completed")>>
             g == [h EXCEPT !.vor = section]
             i == [g EXCEPT !.merged = Merged(e, section)]
             k == AddRows(i, <<R("vor", "completed")>> \o <<R("done", "completed")>>)
             l == AddRows(i, <<R("vor", "completed")>> \o <<>>)
  <2>1. section \in Section
    BY DEF Section
  <2>2. exec[e].at = "vor"
    BY <1>7 DEF FinishVOR, At
  <2>3. g \in HarvestRun /\ g.rows = h.rows
    BY <1>1, <2>1 DEF HarvestRun
  <2>4. Pipeline(e) => i \in HarvestRun /\ i.rows = h.rows
    <3>1. Pipeline(e) => Merged(e, section) \in Report
      BY <1>0, <2>1, <2>2 DEF LocalsOK, Merged, Report
    <3> HIDE DEF g
    <3> QED BY <2>3, <3>1 DEF HarvestRun
  <2>5. /\ <<R("vor", "completed")>> \o <<R("done", "completed")>> = both
        /\ <<R("vor", "completed")>> \o <<>> = one
    <3>1. R("vor", "completed") \in Row /\ R("done", "completed") \in Row
      BY DEF R, Row
    <3>2. h.rows \in Seq(Row)
      BY <1>1 DEF HarvestRun
    <3> QED BY <3>1, <3>2, TwoRows
  <2>6. Pipeline(e) => k \in HarvestRun /\ k.rows = h.rows \o both
    <3> HIDE DEF i
    <3>1. /\ <<R("vor", "completed")>> \o <<R("done", "completed")>> \in Seq(Row)
          /\ Pipeline(e) => i \in HarvestRun /\ i.rows = h.rows
      BY <2>4, RowTypes
    <3>2. Pipeline(e) => /\ k \in HarvestRun
                         /\ k.rows = i.rows \o (<<R("vor", "completed")>> \o <<R("done", "completed")>>)
      BY <3>1, AddRowsType, RowsAdded
    <3> QED BY <2>5, <3>1, <3>2
  <2>7. Pipeline(e) => l \in HarvestRun /\ l.rows = h.rows \o one
    <3> HIDE DEF i
    <3>1. /\ <<R("vor", "completed")>> \o <<>> \in Seq(Row)
          /\ Pipeline(e) => i \in HarvestRun /\ i.rows = h.rows
      BY <2>4, RowTypes
    <3>2. Pipeline(e) => /\ l \in HarvestRun
                         /\ l.rows = i.rows \o (<<R("vor", "completed")>> \o <<>>)
      BY <3>1, AddRowsType, RowsAdded
    <3> QED BY <2>5, <3>1, <3>2
  <2>8. /\ IF Pipeline(e) THEN SetRun(e, k) \/ SetRun(e, l) ELSE SetRun(e, g)
        /\ exec'[e] = [exec[e] EXCEPT !.at = "finished"]
    BY <1>1, <1>7 DEF FinishVOR, TypeOK, h
  <2> HIDE DEF g, i, k, l, section
  <2>9. exec'[e].at = "finished"
    BY <1>1, <2>8 DEF Exec
  <2>10. CASE Pipeline(e) /\ SetRun(e, k)
    <3>1. run'[r] = k /\ run'[r] # None /\ OnlyRun(r)
      BY <1>2, <2>6, <2>10
    <3> QED BY <1>1, <2>2, <2>6, <2>9, <2>10, <3>1 DEF StepRows, r
  <2>11. CASE Pipeline(e) /\ SetRun(e, l)
    <3>1. run'[r] = l /\ run'[r] # None /\ OnlyRun(r)
      BY <1>2, <2>7, <2>11
    <3> QED BY <1>1, <2>2, <2>7, <2>9, <2>11, <3>1 DEF StepRows, r
  <2>12. CASE ~Pipeline(e) /\ SetRun(e, g)
    <3>1. run'[r] = g /\ run'[r] # None /\ OnlyRun(r)
      BY <1>2, <2>3, <2>12
    <3> QED BY <1>1, <1>3, <2>3, <2>9, <3>1 DEF StepRows, AllDone, r
  <2> QED BY <2>8, <2>10, <2>11, <2>12
<1>8. ASSUME NEW text \in Texts, Fail(e, text) PROVE StepRows(e)
  <2> DEFINE g == [h EXCEPT !.error = text]
             k == AddRows(g, <<R("done", "error")>>)
  <2>1. g \in HarvestRun /\ g.rows = h.rows
    BY <1>1 DEF HarvestRun
  <2>2. k \in HarvestRun /\ k.rows = h.rows \o <<R("done", "error")>>
    <3> HIDE DEF g
    <3> QED BY <2>1, RowTypes, AddRowsType, RowsAdded
  <2>3. /\ IF exec[e].kind = "worker" THEN SetRun(e, k) ELSE run' = run
        /\ exec'[e] = [exec[e] EXCEPT !.at = "failed"]
    BY <1>1, <1>8 DEF Fail, TypeOK, h
  <2> HIDE DEF g, k
  <2>4. exec'[e].at = "failed"
    BY <1>1, <2>3 DEF Exec
  <2>5. CASE SetRun(e, k)
    <3>1. run'[r] = k /\ run'[r] # None /\ OnlyRun(r)
      BY <1>2, <2>2, <2>5
    <3> QED BY <1>1, <2>2, <2>4, <3>1 DEF StepRows, AllDone, r
  <2>6. CASE run' = run
    <3>1. run'[r] = h /\ run'[r] # None /\ OnlyRun(r)
      BY <1>1, <1>2, <2>6
    <3> QED BY <1>1, <1>3, <2>4, <3>1 DEF StepRows, AllDone, r
  <2> QED BY <2>3, <2>5, <2>6
<1>9. ASSUME Interrupted(e) PROVE StepRows(e)
  <2> DEFINE g == AddRows(h, <<R("done", "canceled")>>)
  <2>1. g \in HarvestRun /\ g.rows = h.rows \o <<R("done", "canceled")>>
    BY <1>1, RowTypes, AddRowsType, RowsAdded
  <2>2. /\ run' = run \/ SetRun(e, g)
        /\ exec'[e] = [exec[e] EXCEPT !.at = "canceled"]
    BY <1>1, <1>9 DEF Interrupted, TypeOK, h
  <2> HIDE DEF g
  <2>3. exec'[e].at = "canceled"
    BY <1>1, <2>2 DEF Exec
  <2>4. CASE SetRun(e, g)
    <3>1. run'[r] = g /\ run'[r] # None /\ OnlyRun(r)
      BY <1>2, <2>1, <2>4
    <3> QED BY <1>1, <2>1, <2>3, <3>1 DEF StepRows, AllDone, r
  <2>5. CASE run' = run
    <3>1. run'[r] = h /\ run'[r] # None /\ OnlyRun(r)
      BY <1>1, <1>2, <2>5
    <3> QED BY <1>1, <1>3, <2>3, <3>1 DEF StepRows, AllDone, r
  <2> QED BY <2>2, <2>4, <2>5
<1> QED BY <1>4, <1>5, <1>6, <1>7, <1>8, <1>9 DEF Step

-----------------------------------------------------------------------------
(* The order of the rows.                                                  *)

(* A pipeline that works on a phase has announced it.                      *)
Announced ==
    \A e \in Execs : Started(e) /\ Pipeline(e) /\ exec[e].at \in PipelinePhases =>
        RowIn(RowsOf(run[exec[e].run]), exec[e].at, "running")

PhasesInOrder == \A r \in Runs : InOrderOfPhases(RowsOf(run[r]))

(* The rows of a run are status rows.                                      *)
LEMMA RowsType ==
    ASSUME TypeOK, NEW r \in Runs
    PROVE  RowsOf(run[r]) \in Seq(Row) /\ (Known(r) => RowsOf(run[r]) = run[r].rows)
<1>1. CASE Known(r)
  <2>1. run[r] \in HarvestRun
    BY <1>1 DEF TypeOK, Known
  <2> QED BY <1>1, <2>1 DEF RowsOf, Known, HarvestRun
<1>2. CASE ~Known(r)
  BY <1>2 DEF RowsOf, Known
<1> QED BY <1>1, <1>2

(* A run without rows is in order.                                         *)
LEMMA NoRowsInOrder == InOrderOfPhases(<<>>) /\ \A phase, status : ~RowIn(<<>>, phase, status)
BY DEF InOrderOfPhases, RowIn

(* Requests preserve it.                                                   *)
LEMMA RequestInOrder ==
    ASSUME IInv, Announced, PhasesInOrder, Request
    PROVE  Announced' /\ PhasesInOrder'
<1>1. PICK r \in Runs : RequestRows(r)
  BY RequestOnRows DEF IInv
<1>2. ExecsKept
  BY RequestKeeps DEF IInv, RequestFrame
<1> DEFINE rows == RowsOf(run[r])
           more == RowsOf(run'[r])
<1>3. rows \in Seq(Row) /\ InOrderOfPhases(rows)
  BY RowsType DEF IInv, PhasesInOrder
<1>4. \A s \in Runs : s # r => run'[s] = run[s]
  BY <1>1 DEF RequestRows, OnlyRun
<1>5. \A f \in Execs : Started(f) => exec[f].run \in Runs
  BY StartedType DEF IInv
<1> HIDE DEF rows, more
<1>6. ASSUME InOrderOfPhases(more),
             \A phase, status : RowIn(rows, phase, status) => RowIn(more, phase, status),
             \A f \in Execs : ~Started(f) /\ Started(f)' /\ exec'[f].kind \in {"worker", "sync"} =>
                /\ exec'[f].run = r
                /\ exec'[f].at = "spawned" \/ RowIn(more, exec'[f].at, "running")
      PROVE  Announced' /\ PhasesInOrder'
  <2>1. PhasesInOrder'
    <3> SUFFICES ASSUME NEW s \in Runs PROVE InOrderOfPhases(RowsOf(run'[s]))
      BY DEF PhasesInOrder
    <3> QED BY <1>4, <1>6 DEF PhasesInOrder, more
  <2>2. Announced'
    <3> SUFFICES ASSUME NEW f \in Execs, exec'[f] # None, exec'[f].kind \in {"worker", "sync"},
                        exec'[f].at \in PipelinePhases
                 PROVE  RowIn(RowsOf(run'[exec'[f].run]), exec'[f].at, "running")
      BY DEF Announced, Started, Pipeline
    <3>1. CASE Started(f)
      <4>1. exec'[f].run = exec[f].run /\ exec'[f].at = exec[f].at /\ exec[f].kind = exec'[f].kind
        BY <1>2, <3>1 DEF ExecsKept
      <4>2. RowIn(RowsOf(run[exec[f].run]), exec[f].at, "running") /\ exec[f].run \in Runs
        BY <1>5, <3>1, <4>1 DEF Announced, Pipeline
      <4> QED BY <1>4, <1>6, <4>1, <4>2 DEF rows, more
    <3>2. CASE ~Started(f)
      <4>1. exec'[f].at # "spawned"
        BY DEF PipelinePhases
      <4> QED BY <1>6, <3>2, <4>1 DEF Started, more
    <3> QED BY <3>1, <3>2
  <2> QED BY <2>1, <2>2
<1>7. CASE /\ more = rows
           /\ \A f \in Execs :
                 ~Started(f) /\ Started(f)' /\ exec'[f].kind \in {"worker", "sync"} =>
                     exec'[f].at = "spawned" /\ exec'[f].run = r
  BY <1>3, <1>6, <1>7
<1>8. CASE /\ more = rows \o <<R("oai", "running")>>
           /\ \E f \in Execs :
                 /\ ~Started(f) /\ Started(f)' /\ exec'[f].run = r
                 /\ exec'[f].kind = "sync" /\ exec'[f].at = "oai"
                 /\ \A g \in Execs : g # f => exec'[g] = exec[g]
  <2> DEFINE row == R("oai", "running")
             new == <<row>>
  <2>1. row.phase = "oai" /\ row.status = "running"
    BY DEF R
  <2>2. DOMAIN new = {1} /\ new[1] = row
    OBVIOUS
  <2>3. new = <<R("oai", "running")>>
    OBVIOUS
  <2> HIDE DEF row, new
  <2>4. /\ InOrderOfPhases(rows \o new)
        /\ \A i \in DOMAIN new : RowIn(rows \o new, new[i].phase, new[i].status)
        /\ \A phase, status : RowIn(rows, phase, status) => RowIn(rows \o new, phase, status)
    BY <1>3, <2>3, PipelineRows
  <2>5. more = rows \o new
    BY <1>8, <2>3
  <2>6. RowIn(more, "oai", "running")
    BY <2>1, <2>2, <2>4, <2>5
  <2> QED BY <1>6, <1>8, <2>4, <2>5, <2>6 DEF Started
<1> QED BY <1>1, <1>7, <1>8 DEF RequestRows, rows, more

(* The steps of a coroutine as well.                                       *)
LEMMA StepInOrder ==
    ASSUME IInv, Announced, PhasesInOrder, NEW e \in Execs, Step(e)
    PROVE  Announced' /\ PhasesInOrder'
<1>1. StepRows(e)
  BY StepOnRows DEF IInv
<1>2. OnlyExec(e)
  BY StepKeeps DEF IInv, StepFrame
<1> DEFINE r == exec[e].run
           rows == RowsOf(run[r])
           more == RowsOf(run'[r])
           to == exec'[e].at
<1>3. r \in Runs /\ OnlyRun(r) /\ rows = run[r].rows /\ more = run'[r].rows
  BY <1>1 DEF StepRows, RowsOf
<1>4. rows \in Seq(Row) /\ InOrderOfPhases(rows)
  BY <1>3, RowsType DEF IInv, PhasesInOrder
<1>5. Started(e) /\ (Pipeline(e) /\ exec[e].at \in PipelinePhases => RowIn(rows, exec[e].at, "running"))
  BY <1>2 DEF OnlyExec, Live, Announced
<1>6. \A f \in Execs : Started(f) => exec[f].run \in Runs
  BY StartedType DEF IInv
<1> HIDE DEF r, rows, more
<1>7. ASSUME InOrderOfPhases(more),
             \A phase, status : RowIn(rows, phase, status) => RowIn(more, phase, status),
             to \notin AllDone => RowIn(more, to, "running")
      PROVE  Announced' /\ PhasesInOrder'
  <2>1. PhasesInOrder'
    <3> SUFFICES ASSUME NEW s \in Runs PROVE InOrderOfPhases(RowsOf(run'[s]))
      BY DEF PhasesInOrder
    <3> QED BY <1>3, <1>7 DEF PhasesInOrder, OnlyRun, more
  <2>2. Announced'
    <3> SUFFICES ASSUME NEW f \in Execs, exec'[f] # None, exec'[f].kind \in {"worker", "sync"},
                        exec'[f].at \in PipelinePhases
                 PROVE  RowIn(RowsOf(run'[exec'[f].run]), exec'[f].at, "running")
      BY DEF Announced, Started, Pipeline
    <3>1. CASE f = e
      <4>1. exec'[f].run = r /\ to \notin AllDone
        BY <1>2, <3>1 DEF OnlyExec, r, AllDone, PipelinePhases
      <4> QED BY <1>7, <3>1, <4>1 DEF more
    <3>2. CASE f # e
      <4>1. exec'[f] = exec[f]
        BY <1>2, <3>2 DEF OnlyExec
      <4>2. RowIn(RowsOf(run[exec[f].run]), exec[f].at, "running") /\ exec[f].run \in Runs
        BY <1>6, <4>1 DEF Announced, Pipeline, Started
      <4> QED BY <1>3, <1>7, <4>1, <4>2 DEF rows, more, OnlyRun
    <3> QED BY <3>1, <3>2
  <2> QED BY <2>1, <2>2
<1>8. ASSUME NEW new, more = rows \o new,
             \/ new = <<>> \/ new = <<R("done", "error")>> \/ new = <<R("done", "canceled")>>
             \/ new = <<R("start", "running"), R("oai", "running")>>
             \/ /\ RowIn(rows, "oai", "running")
                /\ new = <<R("oai", "completed"), R("ivoa", "running")>>
             \/ /\ RowIn(rows, "ivoa", "running")
                /\ new = <<R("ivoa", "completed"), R("vor", "running")>>
             \/ /\ RowIn(rows, "vor", "running")
                /\ new \in {<<R("vor", "completed")>>,
                            <<R("vor", "completed"), R("done", "completed")>>},
             \/ to \in AllDone
             \/ \E i \in DOMAIN new : new[i] = R(to, "running")
      PROVE  Announced' /\ PhasesInOrder'
  <2>1. /\ InOrderOfPhases(rows \o new)
        /\ \A i \in DOMAIN new : RowIn(rows \o new, new[i].phase, new[i].status)
        /\ \A phase, status : RowIn(rows, phase, status) => RowIn(rows \o new, phase, status)
    BY <1>4, <1>8, PipelineRows
  <2>2. R(to, "running").phase = to /\ R(to, "running").status = "running"
    BY DEF R
  <2>3. to \notin AllDone => RowIn(more, to, "running")
    BY <1>8, <2>1, <2>2
  <2> QED BY <1>7, <1>8, <2>1, <2>3
<1>9. \A a, b : LET two == <<a, b>> IN \E i \in DOMAIN two : two[i] = b
  <2> SUFFICES ASSUME NEW a, NEW b PROVE LET two == <<a, b>> IN 2 \in DOMAIN two /\ two[2] = b
    OBVIOUS
  <2> QED OBVIOUS
<1> DEFINE Adds(new) == more = rows \o new
<1>10. \/ /\ to \in AllDone
          /\ Adds(<<>>) \/ Adds(<<R("done", "error")>>) \/ Adds(<<R("done", "canceled")>>)
       \/ to = "oai" /\ Adds(<<R("start", "running"), R("oai", "running")>>)
       \/ /\ Pipeline(e) /\ exec[e].at = "oai" /\ to = "ivoa"
          /\ Adds(<<R("oai", "completed"), R("ivoa", "running")>>)
       \/ /\ Pipeline(e) /\ exec[e].at = "ivoa" /\ to = "vor"
          /\ Adds(<<R("ivoa", "completed"), R("vor", "running")>>)
       \/ /\ Pipeline(e) /\ exec[e].at = "vor" /\ to = "finished"
          /\ \/ Adds(<<R("vor", "completed")>>)
             \/ Adds(<<R("vor", "completed"), R("done", "completed")>>)
  BY <1>1, <1>3 DEF StepRows, r
<1> HIDE DEF to
<1>11. CASE /\ to \in AllDone
            /\ Adds(<<>>) \/ Adds(<<R("done", "error")>>) \/ Adds(<<R("done", "canceled")>>)
  BY <1>8, <1>11
<1>12. CASE to = "oai" /\ Adds(<<R("start", "running"), R("oai", "running")>>)
  BY <1>8, <1>9, <1>12
<1>13. CASE /\ Pipeline(e) /\ exec[e].at = "oai" /\ to = "ivoa"
            /\ Adds(<<R("oai", "completed"), R("ivoa", "running")>>)
  <2>1. RowIn(rows, "oai", "running")
    BY <1>5, <1>13 DEF PipelinePhases
  <2> QED BY <1>8, <1>9, <1>13, <2>1
<1>14. CASE /\ Pipeline(e) /\ exec[e].at = "ivoa" /\ to = "vor"
            /\ Adds(<<R("ivoa", "completed"), R("vor", "running")>>)
  <2>1. RowIn(rows, "ivoa", "running")
    BY <1>5, <1>14 DEF PipelinePhases
  <2> QED BY <1>8, <1>9, <1>14, <2>1
<1>15. CASE /\ Pipeline(e) /\ exec[e].at = "vor" /\ to = "finished"
            /\ \/ Adds(<<R("vor", "completed")>>)
               \/ Adds(<<R("vor", "completed"), R("done", "completed")>>)
  <2>1. RowIn(rows, "vor", "running") /\ to \in AllDone
    BY <1>5, <1>15 DEF PipelinePhases, AllDone
  <2> QED BY <1>8, <1>15, <2>1
<1> QED BY <1>10, <1>11, <1>12, <1>13, <1>14, <1>15

(* A failed job shows its failure at the first phase or at an active one.  *)
LEMMA ErrorAtPhase ==
    ASSUME NEW h, h.rows \in Seq(Row), InOrderOfPhases(h.rows)
    PROVE  ErrorAt(h) = "oai" \/ (ErrorAt(h) \in PipelinePhases /\ ActiveIn(h.rows, ErrorAt(h)))
<1> DEFINE latest == IF h.rows = <<>> THEN "" ELSE h.rows[Len(h.rows)].phase
           Here(p) == \/ IsActive(h, p)
                      \/ NoActive(h) /\ p = (IF latest \in {"oai", "ivoa", "vor"} THEN latest ELSE "oai")
<1>1. ErrorAt(h) = CHOOSE p \in PipelinePhases : Here(p)
  BY DEF ErrorAt, PipelinePhases
<1>2. /\ \A p : IsActive(h, p) <=> ActiveIn(h.rows, p)
      /\ NoActive(h) <=> \A p \in PipelinePhases : ~ActiveIn(h.rows, p)
  BY RowsOfRun
<1>3. NoActive(h) => latest \notin PipelinePhases
  <2> SUFFICES ASSUME latest \in PipelinePhases PROVE ~NoActive(h)
    OBVIOUS
  <2>1. h.rows # <<>>
    BY DEF PipelinePhases
  <2>2. Len(h.rows) \in DOMAIN h.rows
    BY <2>1
  <2>3. h.rows[Len(h.rows)].phase \in PipelinePhases
    BY <2>1
  <2>4. \E i \in DOMAIN h.rows : h.rows[i].phase \in PipelinePhases
    BY <2>2, <2>3
  <2> QED BY <1>2, <2>4 DEF InOrderOfPhases
<1> HIDE DEF latest
<1>4. \A p \in PipelinePhases : Here(p) => p = "oai" \/ ActiveIn(h.rows, p)
  BY <1>2, <1>3 DEF PipelinePhases
<1>5. \E p \in PipelinePhases : Here(p)
  <2>1. CASE NoActive(h)
    BY <1>3, <2>1 DEF PipelinePhases
  <2>2. CASE ~NoActive(h)
    BY <1>2, <2>2
  <2> QED BY <2>1, <2>2
<1> HIDE DEF Here
<1>6. ErrorAt(h) \in PipelinePhases /\ Here(ErrorAt(h))
  BY <1>1, <1>5
<1> QED BY <1>4, <1>6

(* Rows in order make a stepper in order.                                  *)
LEMMA StepsInOrder ==
    ASSUME NEW r \in Runs, run[r].rows \in Seq(Row), InOrderOfPhases(run[r].rows)
    PROVE  LET s == phase_step_states(r) IN
           \A m, n \in 1..3 : m < n =>
               /\ s[n] # "pending" => s[m] = "complete"
               /\ s[m] \in {"active", "error"} => s[n] = "pending"
<1> DEFINE h == run[r]
           state == job_state(r)
           Complete(p) == state = "complete" \/ HasRow(h, p, "completed")
           Fresh == state \in {"pending", "running"} /\ NoActive(h)
                    /\ \A n \in 1..3 : ~HasRow(h, Phases[n], "completed")
           StepOf(p) ==
               IF Complete(p) THEN "complete"
               ELSE IF state = "error" /\ p = ErrorAt(h) THEN "error"
               ELSE IF IsActive(h, p) \/ (p = "oai" /\ Fresh) THEN "active"
               ELSE "pending"
           s == phase_step_states(r)
<1>1. s = [n \in 1..3 |-> StepOf(Phases[n])]
  BY DEF phase_step_states
<1>2. Phases[1] = "oai" /\ Phases[2] = "ivoa" /\ Phases[3] = "vor"
  BY DEF Phases
<1>3. /\ \A p, status : HasRow(h, p, status) <=> RowIn(h.rows, p, status)
      /\ \A p : IsActive(h, p) <=> ActiveIn(h.rows, p)
  BY RowsOfRun
<1>4. ErrorAt(h) = "oai" \/ IsActive(h, ErrorAt(h))
  BY <1>3, ErrorAtPhase
<1>5. \A p : IsActive(h, p) => HasRow(h, p, "running")
  BY <1>3 DEF ActiveIn, Marks, RowIn
<1>6. /\ HasRow(h, "ivoa", "running") \/ HasRow(h, "ivoa", "completed")
            => HasRow(h, "oai", "completed")
      /\ HasRow(h, "vor", "running") \/ HasRow(h, "vor", "completed")
            => HasRow(h, "ivoa", "completed")
  BY <1>3 DEF InOrderOfPhases
<1> HIDE DEF h, state, Fresh
<1>7. StepOf("ivoa") # "pending" => StepOf("oai") = "complete"
  BY <1>4, <1>5, <1>6
<1>8. StepOf("vor") # "pending" => StepOf("ivoa") = "complete" /\ StepOf("oai") = "complete"
  BY <1>4, <1>5, <1>6
<1> HIDE DEF StepOf
<1>9. s[1] = StepOf("oai") /\ s[2] = StepOf("ivoa") /\ s[3] = StepOf("vor")
  BY <1>1, <1>2
<1> HIDE DEF s
<1>10. \A m, n \in 1..3 : m < n => (s[n] # "pending" => s[m] = "complete")
  <2> SUFFICES ASSUME NEW m \in 1..3, NEW n \in 1..3, m < n, s[n] # "pending"
               PROVE  s[m] = "complete"
    OBVIOUS
  <2>1. (m = 1 /\ n = 2) \/ (m = 1 /\ n = 3) \/ (m = 2 /\ n = 3)
    OBVIOUS
  <2> QED BY <1>7, <1>8, <1>9, <2>1
<1>11. \A m, n \in 1..3 : m < n => (s[m] \in {"active", "error"} => s[n] = "pending")
  BY <1>10
<1> QED BY <1>10, <1>11 DEF s

(* The stepper of every run is in order, however many executions add their *)
(* rows to it, for any number of runs and executions                       *)
(* (validation_job.py 62-101).                                             *)
THEOREM StepperIsInOrder == Spec => []StepperIsPrefix
<1>1. Init => Announced /\ PhasesInOrder
  BY NoRowsInOrder DEF Init, Announced, PhasesInOrder, RowsOf, Started
<1>2. IInv /\ Announced /\ PhasesInOrder /\ [Next]_vars => Announced' /\ PhasesInOrder'
  <2> SUFFICES ASSUME IInv, Announced, PhasesInOrder, [Next]_vars PROVE Announced' /\ PhasesInOrder'
    OBVIOUS
  <2>1. CASE UNCHANGED vars
    BY <2>1 DEF vars, Announced, PhasesInOrder, RowsOf, Started, Pipeline
  <2> QED BY <2>1, RequestInOrder, StepInOrder DEF Next
<1>3. IInv /\ PhasesInOrder => StepperIsPrefix
  <2> SUFFICES ASSUME IInv, PhasesInOrder, NEW r \in Runs, Known(r)
               PROVE  LET s == phase_step_states(r) IN
                      \A m, n \in 1..3 : m < n =>
                          /\ s[n] # "pending" => s[m] = "complete"
                          /\ s[m] \in {"active", "error"} => s[n] = "pending"
    BY DEF StepperIsPrefix
  <2>1. run[r].rows \in Seq(Row) /\ InOrderOfPhases(run[r].rows)
    BY RowsType DEF IInv, PhasesInOrder
  <2> QED BY <2>1, StepsInOrder
<1> QED BY <1>1, <1>2, <1>3, Invariance, PTL DEF Spec

-----------------------------------------------------------------------------
(* The percentage.                                                         *)

WorksOn(e, r) == Started(e) /\ Pipeline(e) /\ exec[e].run = r
Sole(e, r) == WorksOn(e, r) /\ \A f \in Execs : WorksOn(f, r) => f = e

(* The rows of a run on which one pipeline has come to a phase.            *)
CompletedBefore(at) ==
    CASE at = "ivoa" -> {"oai"} [] at = "vor" -> {"oai", "ivoa"} [] OTHER -> {}
Planned(rows, at) ==
    \A phase \in PipelinePhases :
        /\ RowIn(rows, phase, "completed") <=> phase \in CompletedBefore(at)
        /\ ActiveIn(rows, phase) <=> phase = at

RowsPlanned ==
    \A r \in Runs :
        /\ (\A e \in Execs : ~WorksOn(e, r)) => Planned(RowsOf(run[r]), "spawned")
        /\ \A e \in Execs : Sole(e, r) /\ Live(e) => Planned(RowsOf(run[r]), exec[e].at)

(* Only workers are created before they begin.                             *)
SpawnedWorks == \A e \in Execs : Started(e) /\ exec[e].at = "spawned" => exec[e].kind = "worker"

(* It is also as planned for a pipeline that has not begun.                *)
LEMMA NoRowsPlanned == Planned(<<>>, "spawned")
BY DEF Planned, RowIn, ActiveIn, CompletedBefore, PipelinePhases

(* One row more takes a pipeline to the next phase, or is of no phase.     *)
LEMMA PlannedOneMore ==
    ASSUME NEW rows \in Seq(Row), NEW at, Planned(rows, at)
    PROVE  /\ at = "spawned" => Planned(Append(rows, R("oai", "running")), "oai")
           /\ \A status \in {"running", "completed", "canceled", "error"} :
                 /\ Planned(Append(rows, R("start", status)), at)
                 /\ Planned(Append(rows, R("done", status)), at)
<1>1. \A phase \in {"start", "oai", "ivoa", "vor", "done"},
         status \in {"running", "completed", "canceled", "error"} :
            /\ R(phase, status) \in Row
            /\ R(phase, status).phase = phase /\ R(phase, status).status = status
            /\ \A p, s : R(phase, status) = R(p, s) => p = phase /\ s = status
  BY DEF R, Row
<1>2. at = "spawned" => Planned(Append(rows, R("oai", "running")), "oai")
  <2> DEFINE row == R("oai", "running")
             more == Append(rows, row)
  <2>1. row \in Row /\ row.phase = "oai" /\ row.status = "running"
        /\ \A p, s : row = R(p, s) => p = "oai" /\ s = "running"
    BY <1>1
  <2> HIDE DEF row
  <2>2. /\ \A phase, status :
              RowIn(more, phase, status) <=> RowIn(rows, phase, status) \/ row = R(phase, status)
        /\ row.status = "running" /\ row.phase \in PipelinePhases =>
              \A phase \in PipelinePhases : ActiveIn(more, phase) <=> phase = row.phase
    BY <2>1, OneRowMore
  <2> HIDE DEF more
  <2>3. at = "spawned" => Planned(more, "oai")
    BY <2>1, <2>2 DEF Planned, CompletedBefore, PipelinePhases
  <2> QED BY <2>3 DEF more, row
<1>3. ASSUME NEW row \in Row, row.phase \notin PipelinePhases,
             \A p, s : row = R(p, s) => p = row.phase
      PROVE  Planned(Append(rows, row), at)
  <2> DEFINE more == Append(rows, row)
  <2>1. /\ \A phase, status :
              RowIn(more, phase, status) <=> RowIn(rows, phase, status) \/ row = R(phase, status)
        /\ ~(row.status = "running" /\ row.phase \in PipelinePhases) =>
              \A phase \in PipelinePhases : ActiveIn(more, phase) <=> ActiveIn(rows, phase)
    BY OneRowMore
  <2> HIDE DEF more
  <2>2. Planned(more, at)
    BY <1>3, <2>1 DEF Planned
  <2> QED BY <2>2 DEF more
<1>4. "start" \notin PipelinePhases /\ "done" \notin PipelinePhases
  BY DEF PipelinePhases
<1> QED BY <1>1, <1>2, <1>3, <1>4

(* So are two, the completed phase and the next one.                       *)
LEMMA PlannedNextPhase ==
    ASSUME NEW rows \in Seq(Row), NEW from \in {"oai", "ivoa"},
           NEW to, to = IF from = "oai" THEN "ivoa" ELSE "vor", Planned(rows, from)
    PROVE  Planned(Append(Append(rows, R(from, "completed")), R(to, "running")), to)
<1> DEFINE a == R(from, "completed")
           b == R(to, "running")
           more == Append(rows, a)
           most == Append(more, b)
<1>1. /\ a \in Row /\ a.phase = from /\ a.status = "completed"
      /\ \A p, s : a = R(p, s) <=> p = from /\ s = "completed"
  BY DEF R, Row
<1>2. /\ b \in Row /\ b.phase = to /\ b.status = "running" /\ to \in PipelinePhases
      /\ \A p, s : b = R(p, s) <=> p = to /\ s = "running"
  BY DEF R, Row, PipelinePhases
<1> HIDE DEF a, b
<1>3. /\ more \in Seq(Row)
      /\ \A phase, status :
            RowIn(more, phase, status) <=> RowIn(rows, phase, status) \/ a = R(phase, status)
  BY <1>1, OneRowMore
<1> HIDE DEF more
<1>4. /\ \A phase, status :
            RowIn(most, phase, status) <=> RowIn(more, phase, status) \/ b = R(phase, status)
      /\ \A phase \in PipelinePhases : ActiveIn(most, phase) <=> phase = b.phase
  BY <1>2, <1>3, OneRowMore
<1> HIDE DEF most
<1>5. CompletedBefore(to) = CompletedBefore(from) \cup {from}
  BY DEF CompletedBefore
<1>6. Planned(most, to)
  BY <1>1, <1>2, <1>3, <1>4, <1>5 DEF Planned
<1> QED BY <1>6 DEF most, more, a, b

(* What the steps of a pipeline do to planned rows.                        *)
LEMMA PlannedRows ==
    ASSUME NEW rows \in Seq(Row), NEW at, Planned(rows, at)
    PROVE  /\ Planned(rows \o <<>>, at)
           /\ Planned(rows \o <<R("done", "error")>>, at)
           /\ Planned(rows \o <<R("done", "canceled")>>, at)
           /\ at = "spawned" =>
                 /\ Planned(rows \o <<R("oai", "running")>>, "oai")
                 /\ Planned(rows \o <<R("start", "running"), R("oai", "running")>>, "oai")
           /\ at = "oai" => Planned(rows \o <<R("oai", "completed"), R("ivoa", "running")>>, "ivoa")
           /\ at = "ivoa" => Planned(rows \o <<R("ivoa", "completed"), R("vor", "running")>>, "vor")
<1>1. \A phase \in {"start", "oai", "ivoa", "vor", "done"},
         status \in {"running", "completed", "canceled", "error"} : R(phase, status) \in Row
  BY DEF R, Row
<1>2. \A row \in Row : rows \o <<row>> = Append(rows, row)
  BY TwoRows
<1>3. \A a, b \in Row : rows \o <<a, b>> = Append(Append(rows, a), b)
  BY TwoRows
<1>4. Planned(rows \o <<>>, at)
  <2>1. rows \o <<>> = rows
    BY ConcatEmptySeq
  <2> QED BY <2>1
<1>5. /\ Planned(rows \o <<R("done", "error")>>, at)
      /\ Planned(rows \o <<R("done", "canceled")>>, at)
      /\ at = "spawned" => Planned(rows \o <<R("oai", "running")>>, "oai")
  BY <1>1, <1>2, PlannedOneMore
<1>6. ASSUME at = "spawned"
      PROVE  Planned(rows \o <<R("start", "running"), R("oai", "running")>>, "oai")
  <2> DEFINE more == Append(rows, R("start", "running"))
  <2>1. more \in Seq(Row) /\ Planned(more, "spawned")
    BY <1>1, <1>6, PlannedOneMore, AppendProperties
  <2> HIDE DEF more
  <2>2. Planned(Append(more, R("oai", "running")), "oai")
    BY <2>1, PlannedOneMore
  <2>3. rows \o <<R("start", "running"), R("oai", "running")>> = Append(more, R("oai", "running"))
    BY <1>1, <1>3 DEF more
  <2> QED BY <2>2, <2>3
<1>7. ASSUME at = "oai"
      PROVE  Planned(rows \o <<R("oai", "completed"), R("ivoa", "running")>>, "ivoa")
  <2>1. Planned(Append(Append(rows, R("oai", "completed")), R("ivoa", "running")), "ivoa")
    BY <1>7, PlannedNextPhase
  <2> QED BY <1>1, <1>3, <2>1
<1>8. ASSUME at = "ivoa"
      PROVE  Planned(rows \o <<R("ivoa", "completed"), R("vor", "running")>>, "vor")
  <2>1. Planned(Append(Append(rows, R("ivoa", "completed")), R("vor", "running")), "vor")
    BY <1>8, PlannedNextPhase
  <2> QED BY <1>1, <1>3, <2>1
<1> QED BY <1>4, <1>5, <1>6, <1>7, <1>8

PlanInv == RowsPlanned /\ SpawnedWorks

(* Requests preserve it.                                                   *)
LEMMA RequestPlanned ==
    ASSUME IInv, PlanInv, Request
    PROVE  PlanInv'
<1>1. PICK r \in Runs : RequestRows(r)
  BY RequestOnRows DEF IInv
<1>2. ExecsKept
  BY RequestKeeps DEF IInv, RequestFrame
<1>3. SpawnedWorks'
  <2> SUFFICES ASSUME NEW f \in Execs, exec'[f] # None, exec'[f].at = "spawned"
               PROVE  exec'[f].kind = "worker"
    BY DEF SpawnedWorks, Started
  <2> QED BY <1>1, <1>2 DEF PlanInv, SpawnedWorks, Started, ExecsKept, RequestRows
<1>4. ASSUME NEW f \in Execs, NEW s \in Runs
      PROVE  /\ WorksOn(f, s) => WorksOn(f, s)'
             /\ WorksOn(f, s)' => WorksOn(f, s) \/ (~Started(f) /\ s = r)
             /\ Started(f) => exec'[f].at = exec[f].at /\ (Live(f)' => Live(f))
  BY <1>1, <1>2 DEF WorksOn, Pipeline, Started, ExecsKept, RequestRows, Live
<1> DEFINE rows == RowsOf(run[r])
           more == RowsOf(run'[r])
<1>5. rows \in Seq(Row)
  BY RowsType DEF IInv
<1>6. \A s \in Runs : s # r => run'[s] = run[s]
  BY <1>1 DEF RequestRows, OnlyRun
<1>7. (\A f \in Execs : ~WorksOn(f, r)) => Planned(rows, "spawned")
  BY DEF PlanInv, RowsPlanned
<1> HIDE DEF rows, more
<1>8. CASE /\ more = rows
           /\ \A f \in Execs :
                 ~Started(f) /\ Started(f)' /\ exec'[f].kind \in {"worker", "sync"} =>
                     exec'[f].at = "spawned" /\ exec'[f].run = r
  <2> SUFFICES ASSUME NEW s \in Runs
               PROVE  /\ (\A f \in Execs : ~WorksOn(f, s)') => Planned(RowsOf(run'[s]), "spawned")
                      /\ \A f \in Execs : Sole(f, s)' /\ Live(f)' =>
                            Planned(RowsOf(run'[s]), exec'[f].at)
    BY <1>3 DEF PlanInv, RowsPlanned
  <2>1. RowsOf(run'[s]) = RowsOf(run[s])
    BY <1>6, <1>8 DEF rows, more
  <2>2. (\A f \in Execs : ~WorksOn(f, s)') => Planned(RowsOf(run'[s]), "spawned")
    BY <1>4, <2>1 DEF PlanInv, RowsPlanned
  <2>3. ASSUME NEW f \in Execs, Sole(f, s)', Live(f)'
        PROVE  Planned(RowsOf(run'[s]), exec'[f].at)
    <3>1. CASE Started(f)
      <4>1. Sole(f, s) /\ Live(f)
        BY <1>4, <2>3, <3>1 DEF Sole
      <4> QED BY <1>4, <2>1, <3>1, <4>1 DEF PlanInv, RowsPlanned
    <3>2. CASE ~Started(f)
      <4>1. s = r /\ exec'[f].at = "spawned"
        BY <1>4, <1>8, <2>3, <3>2 DEF Sole, WorksOn, Pipeline
      <4>2. \A g \in Execs : ~WorksOn(g, r)
        BY <1>4, <2>3, <3>2, <4>1 DEF Sole, WorksOn
      <4> QED BY <1>7, <2>1, <4>1, <4>2 DEF rows
    <3> QED BY <3>1, <3>2
  <2> QED BY <2>2, <2>3
<1>9. CASE /\ more = rows \o <<R("oai", "running")>>
           /\ \E f \in Execs :
                 /\ ~Started(f) /\ Started(f)' /\ exec'[f].run = r
                 /\ exec'[f].kind = "sync" /\ exec'[f].at = "oai"
                 /\ \A g \in Execs : g # f => exec'[g] = exec[g]
  <2>1. PICK f \in Execs :
           /\ ~Started(f) /\ Started(f)' /\ exec'[f].run = r
           /\ exec'[f].kind = "sync" /\ exec'[f].at = "oai"
           /\ \A g \in Execs : g # f => exec'[g] = exec[g]
    BY <1>9
  <2>2. WorksOn(f, r)' /\ \A s \in Runs : ~WorksOn(f, s)
    BY <2>1 DEF WorksOn, Pipeline
  <2> SUFFICES ASSUME NEW s \in Runs
               PROVE  /\ (\A g \in Execs : ~WorksOn(g, s)') => Planned(RowsOf(run'[s]), "spawned")
                      /\ \A g \in Execs : Sole(g, s)' /\ Live(g)' =>
                            Planned(RowsOf(run'[s]), exec'[g].at)
    BY <1>3 DEF PlanInv, RowsPlanned
  <2>3. CASE s = r
    <3>1. ASSUME NEW g \in Execs, Sole(g, s)' PROVE Planned(RowsOf(run'[s]), exec'[g].at)
      <4>1. g = f
        BY <2>2, <2>3, <3>1 DEF Sole
      <4>2. \A k \in Execs : ~WorksOn(k, r)
        BY <1>4, <2>2, <2>3, <3>1, <4>1 DEF Sole
      <4>3. Planned(rows \o <<R("oai", "running")>>, "oai")
        BY <1>5, <1>7, <4>2, PlannedRows
      <4> QED BY <1>9, <2>1, <2>3, <4>1, <4>3 DEF more
    <3> QED BY <2>2, <2>3, <3>1
  <2>4. CASE s # r
    <3>1. RowsOf(run'[s]) = RowsOf(run[s])
      BY <1>6, <2>4
    <3>2. ASSUME NEW g \in Execs, Sole(g, s)', Live(g)' PROVE Planned(RowsOf(run'[s]), exec'[g].at)
      <4>1. Started(g)
        BY <1>4, <2>4, <3>2 DEF Sole, WorksOn
      <4>2. Sole(g, s) /\ Live(g)
        BY <1>4, <3>2, <4>1 DEF Sole, WorksOn
      <4> QED BY <1>4, <3>1, <4>1, <4>2 DEF PlanInv, RowsPlanned
    <3> QED BY <1>4, <3>1, <3>2 DEF PlanInv, RowsPlanned
  <2> QED BY <2>3, <2>4
<1> QED BY <1>1, <1>8, <1>9 DEF RequestRows, rows, more

(* The steps of a coroutine as well.                                       *)
LEMMA StepPlanned ==
    ASSUME IInv, PlanInv, NEW e \in Execs, Step(e)
    PROVE  PlanInv'
<1>1. StepRows(e)
  BY StepOnRows DEF IInv
<1>2. OnlyExec(e)
  BY StepKeeps DEF IInv, StepFrame
<1> DEFINE r == exec[e].run
           rows == RowsOf(run[r])
           more == RowsOf(run'[r])
           to == exec'[e].at
           from == exec[e].at
<1>3. r \in Runs /\ OnlyRun(r) /\ rows = run[r].rows /\ more = run'[r].rows
  BY <1>1 DEF StepRows, RowsOf
<1>4. rows \in Seq(Row)
  BY <1>3, RowsType DEF IInv
<1>5. ASSUME NEW f \in Execs, NEW s
      PROVE  WorksOn(f, s)' <=> WorksOn(f, s)
  <2>1. CASE f = e
    BY <1>2, <2>1 DEF OnlyExec, WorksOn, Pipeline, Started, Live
  <2>2. CASE f # e
    BY <1>2, <2>2 DEF OnlyExec, WorksOn, Pipeline, Started
  <2> QED BY <2>1, <2>2
<1>6. ASSUME NEW f \in Execs, f # e PROVE exec'[f] = exec[f] /\ (Live(f)' <=> Live(f))
  BY <1>2, <1>6 DEF OnlyExec, Live, Started
<1>7. Started(e) /\ Live(e)
  BY <1>2 DEF OnlyExec, Live
<1> DEFINE Adds(new) == more = rows \o new
<1>8. \/ /\ to \in AllDone
         /\ Adds(<<>>) \/ Adds(<<R("done", "error")>>) \/ Adds(<<R("done", "canceled")>>)
      \/ from = "spawned" /\ to = "oai" /\ Adds(<<R("start", "running"), R("oai", "running")>>)
      \/ Pipeline(e) /\ from = "oai" /\ to = "ivoa" /\ Adds(<<R("oai", "completed"), R("ivoa", "running")>>)
      \/ Pipeline(e) /\ from = "ivoa" /\ to = "vor" /\ Adds(<<R("ivoa", "completed"), R("vor", "running")>>)
      \/ Pipeline(e) /\ from = "vor" /\ to = "finished"
  BY <1>1, <1>3 DEF StepRows, r
<1>9. SpawnedWorks'
  <2> SUFFICES ASSUME NEW f \in Execs, exec'[f] # None, exec'[f].at = "spawned"
               PROVE  exec'[f].kind = "worker"
    BY DEF SpawnedWorks, Started
  <2>1. f # e
    BY <1>8 DEF AllDone
  <2> QED BY <1>6, <2>1 DEF PlanInv, SpawnedWorks, Started
<1>10. from = "spawned" => Pipeline(e)
  BY <1>7 DEF PlanInv, SpawnedWorks, Pipeline
<1> HIDE DEF r, rows, more, to, from
<1>11. ASSUME NEW at, Planned(rows, at), ~Pipeline(e) PROVE Planned(more, at)
  BY <1>4, <1>8, <1>10, <1>11, PlannedRows
<1>12. ASSUME Planned(rows, from), to \notin AllDone PROVE Planned(more, to)
  BY <1>4, <1>8, <1>12, PlannedRows DEF AllDone
<1> SUFFICES ASSUME NEW s \in Runs
             PROVE  /\ (\A f \in Execs : ~WorksOn(f, s)') => Planned(RowsOf(run'[s]), "spawned")
                    /\ \A f \in Execs : Sole(f, s)' /\ Live(f)' =>
                          Planned(RowsOf(run'[s]), exec'[f].at)
  BY <1>9 DEF PlanInv, RowsPlanned
<1>13. \A f \in Execs : Sole(f, s)' => Sole(f, s)
  BY <1>5 DEF Sole
<1>14. CASE s # r
  <2>1. RowsOf(run'[s]) = RowsOf(run[s])
    BY <1>3, <1>14 DEF OnlyRun
  <2>2. ASSUME NEW f \in Execs, Sole(f, s)', Live(f)' PROVE Planned(RowsOf(run'[s]), exec'[f].at)
    <3>1. Sole(f, s)
      BY <1>13, <2>2
    <3>2. f # e
      BY <1>14, <3>1 DEF Sole, WorksOn, r
    <3> QED BY <1>6, <2>1, <2>2, <3>1, <3>2 DEF PlanInv, RowsPlanned
  <2> QED BY <1>5, <2>1, <2>2 DEF PlanInv, RowsPlanned
<1>15. CASE s = r
  <2>1. ASSUME \A f \in Execs : ~WorksOn(f, s)' PROVE Planned(more, "spawned")
    <3>1. \A f \in Execs : ~WorksOn(f, r)
      BY <1>5, <1>15, <2>1
    <3>2. ~Pipeline(e)
      BY <1>7, <3>1 DEF WorksOn, r
    <3>3. Planned(rows, "spawned")
      BY <1>3, <3>1 DEF PlanInv, RowsPlanned, rows
    <3> QED BY <1>11, <3>2, <3>3
  <2>2. ASSUME NEW f \in Execs, Sole(f, s)', Live(f)' PROVE Planned(more, exec'[f].at)
    <3>1. Sole(f, r)
      BY <1>13, <1>15, <2>2
    <3>2. CASE f = e
      <4>1. Planned(rows, from) /\ to \notin AllDone
        BY <1>3, <1>7, <2>2, <3>1, <3>2 DEF PlanInv, RowsPlanned, rows, from, to, Live
      <4> QED BY <1>12, <3>2, <4>1 DEF to
    <3>3. CASE f # e
      <4>1. ~Pipeline(e)
        BY <1>7, <3>1, <3>3 DEF Sole, WorksOn, r
      <4>2. Planned(rows, exec[f].at)
        BY <1>3, <1>6, <2>2, <3>1, <3>3 DEF PlanInv, RowsPlanned, rows
      <4> QED BY <1>6, <1>11, <3>3, <4>1, <4>2
    <3> QED BY <3>2, <3>3
  <2> QED BY <1>15, <2>1, <2>2 DEF more
<1> QED BY <1>14, <1>15

(* The percentage of a running job whose pipeline has come to a phase.     *)
Percent(at) == CASE at = "ivoa" -> 48 [] at = "vor" -> 81 [] OTHER -> 15

(* A running job as planned has the percentage of its phase: no error and  *)
(* no report, so the stepper follows from the rows alone.                  *)
LEMMA PlannedPercent ==
    ASSUME NEW r \in Runs, NEW at \in {"spawned", "oai", "ivoa", "vor"},
           job_state(r) = "running", Planned(run[r].rows, at)
    PROVE  progress_percent(r) = Percent(at)
<1> DEFINE h == run[r]
           state == job_state(r)
           Complete(p) == state = "complete" \/ HasRow(h, p, "completed")
           Fresh == state \in {"pending", "running"} /\ NoActive(h)
                    /\ \A n \in 1..3 : ~HasRow(h, Phases[n], "completed")
           StepOf(p) ==
               IF Complete(p) THEN "complete"
               ELSE IF state = "error" /\ p = ErrorAt(h) THEN "error"
               ELSE IF IsActive(h, p) \/ (p = "oai" /\ Fresh) THEN "active"
               ELSE "pending"
           s == phase_step_states(r)
<1>1. s = [n \in 1..3 |-> StepOf(Phases[n])]
  BY DEF phase_step_states
<1>2. Phases[1] = "oai" /\ Phases[2] = "ivoa" /\ Phases[3] = "vor"
  BY DEF Phases
<1>3. /\ \A p \in PipelinePhases : HasRow(h, p, "completed") <=> p \in CompletedBefore(at)
      /\ \A p \in PipelinePhases : IsActive(h, p) <=> p = at
      /\ NoActive(h) <=> at \notin PipelinePhases
  BY RowsOfRun DEF Planned
<1>4. Fresh <=> at = "spawned"
  <2>1. \A n \in 1..3 : Phases[n] \in PipelinePhases
    <3> SUFFICES ASSUME NEW n \in 1..3 PROVE Phases[n] \in PipelinePhases
      OBVIOUS
    <3>1. n = 1 \/ n = 2 \/ n = 3
      OBVIOUS
    <3> QED BY <1>2, <3>1 DEF PipelinePhases
  <2>2. at = "spawned" => \A n \in 1..3 : ~HasRow(h, Phases[n], "completed")
    BY <1>3, <2>1 DEF CompletedBefore
  <2> QED BY <1>3, <2>2 DEF PipelinePhases
<1>5. /\ HasRow(h, "oai", "completed") <=> at \in {"ivoa", "vor"}
      /\ HasRow(h, "ivoa", "completed") <=> at = "vor"
      /\ ~HasRow(h, "vor", "completed")
      /\ IsActive(h, "oai") <=> at = "oai"
      /\ IsActive(h, "ivoa") <=> at = "ivoa"
      /\ IsActive(h, "vor") <=> at = "vor"
  BY <1>3 DEF PipelinePhases, CompletedBefore
<1>6. state = "running"
  OBVIOUS
<1> HIDE DEF h, state, Fresh
<1>7. /\ StepOf("oai") = IF at \in {"ivoa", "vor"} THEN "complete" ELSE "active"
      /\ StepOf("ivoa") = IF at = "vor" THEN "complete" ELSE IF at = "ivoa" THEN "active" ELSE "pending"
      /\ StepOf("vor") = IF at = "vor" THEN "active" ELSE "pending"
  BY <1>4, <1>5, <1>6
<1> HIDE DEF StepOf
<1>8. s[1] = StepOf("oai") /\ s[2] = StepOf("ivoa") /\ s[3] = StepOf("vor")
  BY <1>1, <1>2
<1> HIDE DEF s
<1> DEFINE Done == {n \in 1..3 : s[n] = "complete"}
           done == Cardinality(Done)
           active == IF \E n \in 1..3 : s[n] = "active" THEN 45 ELSE 0
           pct == (100 * done + active) \div 3
<1>9. \A n \in 1..3 : n = 1 \/ n = 2 \/ n = 3
  OBVIOUS
<1>10. active = 45
  <2>1. s[1] = "active" \/ s[2] = "active" \/ s[3] = "active"
    BY <1>7, <1>8
  <2> QED BY <2>1
<1>11. done = IF at = "vor" THEN 2 ELSE IF at = "ivoa" THEN 1 ELSE 0
  <2>1. CASE at = "vor"
    <3>1. Done = 1..2
      BY <1>7, <1>8, <1>9, <2>1
    <3>2. 1 \in Int /\ 2 \in Int
      OBVIOUS
    <3>3. Cardinality(1..2) = IF 1 > 2 THEN 0 ELSE 2 - 1 + 1
      BY <3>2, FS_Interval
    <3> QED BY <2>1, <3>1, <3>3
  <2>2. CASE at = "ivoa"
    <3>1. Done = {1}
      BY <1>7, <1>8, <1>9, <2>2
    <3> QED BY <2>2, <3>1, FS_Singleton
  <2>3. CASE at \in {"spawned", "oai"}
    <3>1. Done = {}
      BY <1>7, <1>8, <1>9, <2>3
    <3> QED BY <2>3, <3>1, FS_EmptySet
  <2> QED BY <2>1, <2>2, <2>3
<1>12. progress_percent(r) = IF state = "complete" THEN 100
                             ELSE IF pct < 5 THEN 5 ELSE IF pct > 99 THEN 99 ELSE pct
  BY DEF progress_percent, s, state
<1> HIDE DEF done, active
<1>13. pct = Percent(at)
  <2>1. CASE at = "vor"
    <3>1. pct = 245 \div 3
      BY <1>10, <1>11, <2>1
    <3> QED BY <2>1, <3>1 DEF Percent
  <2>2. CASE at = "ivoa"
    <3>1. pct = 145 \div 3
      BY <1>10, <1>11, <2>2
    <3> QED BY <2>2, <3>1 DEF Percent
  <2>3. CASE at \in {"spawned", "oai"}
    <3>1. pct = 45 \div 3
      BY <1>10, <1>11, <2>3
    <3> QED BY <2>3, <3>1 DEF Percent
  <2> QED BY <2>1, <2>2, <2>3
<1> HIDE DEF pct
<1> QED BY <1>6, <1>12, <1>13 DEF Percent

(* The percentage that a client of a single pipeline is told.              *)
Measured ==
    \A r \in Runs : Known(r) =>
        /\ job_state(r) = "complete" => progress_percent(r) = 100
        /\ \A e \in Execs :
              job_state(r) = "running" /\ Sole(e, r) /\ Live(e) =>
                  progress_percent(r) = Percent(exec[e].at)

(* Running is what has a live worker of its own.                           *)
RunningLives ==
    \A r \in Runs : Known(r) /\ job_state(r) = "running" =>
        run[r].task \in Execs /\ WorksOn(run[r].task, r) /\ Live(run[r].task)

(* Both follow from the invariants.                                        *)
LEMMA PlannedMeasured == IInv /\ JobInv /\ PlanInv => Measured /\ RunningLives
<1> SUFFICES ASSUME IInv, JobInv, PlanInv PROVE Measured /\ RunningLives
  OBVIOUS
<1>1. Measured
  <2> SUFFICES ASSUME NEW r \in Runs, Known(r)
               PROVE  /\ job_state(r) = "complete" => progress_percent(r) = 100
                      /\ \A e \in Execs :
                            job_state(r) = "running" /\ Sole(e, r) /\ Live(e) =>
                                progress_percent(r) = Percent(exec[e].at)
    BY DEF Measured
  <2>1. job_state(r) = "complete" => progress_percent(r) = 100
    BY DEF progress_percent
  <2>2. ASSUME NEW e \in Execs, job_state(r) = "running", Sole(e, r), Live(e)
        PROVE  progress_percent(r) = Percent(exec[e].at)
    <3>1. Planned(run[r].rows, exec[e].at)
      BY <2>2, RowsType DEF PlanInv, RowsPlanned, IInv
    <3>2. exec[e] \in Exec
      BY <2>2, StartedType DEF IInv, Live
    <3>3. exec[e].at \in {"spawned", "oai", "ivoa", "vor"}
      BY <2>2, <3>2 DEF Exec, Live, AllDone
    <3> QED BY <2>2, <3>1, <3>3, PlannedPercent
  <2> QED BY <2>1, <2>2
<1>2. RunningLives
  <2> SUFFICES ASSUME NEW r \in Runs, Known(r), job_state(r) = "running"
               PROVE  run[r].task \in Execs /\ WorksOn(run[r].task, r) /\ Live(run[r].task)
    BY DEF RunningLives
  <2>1. run[r] \in HarvestRun
    BY DEF IInv, TypeOK, Known
  <2>2. Active(run[r])
    BY DEF job_state
  <2> QED BY <2>1, <2>2 DEF Active, JobInv, TaskIsWorker, WorksOn, Pipeline, HarvestRun
<1> QED BY <1>1, <1>2

(* The phase of a live execution only advances, and so does its share.     *)
LEMMA PercentGrows ==
    ASSUME IInv, [Next]_vars, NEW e \in Execs, Live(e), Live(e)'
    PROVE  Percent(exec'[e].at) >= Percent(exec[e].at)
<1>1. CASE exec'[e].at = exec[e].at
  BY <1>1 DEF Percent
<1>2. CASE UNCHANGED vars
  BY <1>1, <1>2 DEF vars
<1>3. CASE Request
  <2>1. ExecsKept
    BY <1>3, RequestKeeps DEF IInv, RequestFrame
  <2> QED BY <1>1, <2>1 DEF ExecsKept, Live
<1>4. ASSUME NEW f \in Execs, Step(f)
      PROVE  Percent(exec'[e].at) >= Percent(exec[e].at)
  <2>1. OnlyExec(f) /\ StepRows(f)
    BY <1>4, StepKeeps, StepOnRows DEF IInv, StepFrame
  <2>2. CASE f # e
    BY <1>1, <2>1, <2>2 DEF OnlyExec
  <2>3. CASE f = e
    <3>1. \/ exec[e].at = "spawned" /\ exec'[e].at = "oai"
          \/ exec[e].at = "oai" /\ exec'[e].at = "ivoa"
          \/ exec[e].at = "ivoa" /\ exec'[e].at = "vor"
      BY <2>1, <2>3 DEF StepRows, Live, AllDone
    <3> QED BY <3>1 DEF Percent
  <2> QED BY <2>2, <2>3
<1> QED BY <1>2, <1>3, <1>4 DEF Next

(* The progress bar of a running job never goes back while a single        *)
(* pipeline has worked on it, whatever single phases are asked for on the  *)
(* same run, and for any number of runs and executions                     *)
(* (validation_job.py 104-115).                                            *)
THEOREM ProgressIsMonotone == Spec => ProgressNeverFalls
<1>1. Init => PlanInv
  BY NoRowsPlanned DEF Init, PlanInv, RowsPlanned, SpawnedWorks, RowsOf, Started, Sole, WorksOn
<1>2. IInv /\ PlanInv /\ [Next]_vars => PlanInv'
  <2> SUFFICES ASSUME IInv, PlanInv, [Next]_vars PROVE PlanInv'
    OBVIOUS
  <2>1. CASE UNCHANGED vars
    BY <2>1 DEF vars, PlanInv, RowsPlanned, SpawnedWorks, RowsOf, Started, Sole, WorksOn,
                Pipeline, Live
  <2> QED BY <2>1, RequestPlanned, StepPlanned DEF Next
<1>3. ASSUME IInv, Measured, RunningLives, Measured', RunningLives', [Next]_vars,
             NEW r \in Runs, Known(r), job_state(r) = "running",
             job_state(r)' \in {"running", "complete"},
             \A e, f \in Execs :
                 (Started(e) /\ Pipeline(e) /\ exec[e].run = r)'
                     /\ (Started(f) /\ Pipeline(f) /\ exec[f].run = r)' => e = f
      PROVE  progress_percent(r)' >= progress_percent(r)
  <2>1. PICK e \in Execs : WorksOn(e, r) /\ Live(e)
    BY <1>3 DEF RunningLives
  <2>2. Known(r)' /\ \A f \in Execs : WorksOn(f, r) => WorksOn(f, r)'
    <3>1. CASE UNCHANGED vars
      BY <1>3, <3>1 DEF vars, WorksOn, Started, Pipeline, Known
    <3>2. CASE Request
      BY <1>3, <3>2, RequestKeeps
      DEF IInv, RequestFrame, ExecsKept, RunsStay, WorksOn, Started, Pipeline
    <3>3. ASSUME NEW g \in Execs, Step(g)
          PROVE  Known(r)' /\ \A f \in Execs : WorksOn(f, r) => WorksOn(f, r)'
      <4>1. OnlyExec(g)
        BY <1>3, <3>3, StepKeeps DEF IInv, StepFrame
      <4>2. Known(r)'
        BY <1>3, <4>1 DEF OnlyExec, Known
      <4> QED BY <4>1, <4>2 DEF OnlyExec, WorksOn, Started, Pipeline
    <3> QED BY <1>3, <3>1, <3>2, <3>3 DEF Next
  <2>3. \A f, g \in Execs : WorksOn(f, r)' /\ WorksOn(g, r)' => f = g
    BY <1>3 DEF WorksOn
  <2>4. Sole(e, r) /\ Sole(e, r)'
    BY <2>1, <2>2, <2>3 DEF Sole
  <2>5. progress_percent(r) = Percent(exec[e].at)
    BY <1>3, <2>1, <2>4 DEF Measured
  <2>6. CASE job_state(r)' = "complete"
    <3>1. progress_percent(r)' = 100
      BY <1>3, <2>2, <2>6 DEF Measured
    <3> QED BY <2>5, <3>1 DEF Percent
  <2>7. CASE job_state(r)' = "running"
    <3>1. \E f \in Execs : WorksOn(f, r)' /\ Live(f)'
      BY <1>3, <2>2, <2>7 DEF RunningLives
    <3>2. Live(e)'
      BY <2>3, <2>4, <3>1 DEF Sole
    <3>3. progress_percent(r)' = Percent(exec'[e].at)
      BY <1>3, <2>1, <2>2, <2>4, <2>7, <3>2 DEF Measured
    <3>4. Percent(exec'[e].at) >= Percent(exec[e].at)
      BY <1>3, <2>1, <3>2, PercentGrows
    <3> QED BY <2>5, <3>3, <3>4
  <2> QED BY <1>3, <2>6, <2>7
<1>4. IInv /\ Measured /\ RunningLives /\ Measured' /\ RunningLives' /\ [Next]_vars
        => [\A r \in Runs :
              /\ Known(r) /\ job_state(r) = "running" /\ job_state(r)' \in {"running", "complete"}
              /\ \A e, f \in Execs :
                    (Started(e) /\ Pipeline(e) /\ exec[e].run = r)'
                        /\ (Started(f) /\ Pipeline(f) /\ exec[f].run = r)' => e = f
              => progress_percent(r)' >= progress_percent(r)]_vars
  BY <1>3
<1>5. AllInv => IInv /\ JobInv
  BY DEF AllInv
<1>6. Spec => [](IInv /\ JobInv /\ PlanInv)
  BY <1>1, <1>2, <1>5, AllInvariant, PTL DEF Spec
<1>7. Spec => [](IInv /\ Measured /\ RunningLives)
  BY <1>6, PlannedMeasured, PTL
<1> QED BY <1>4, <1>7, PTL DEF Spec, ProgressNeverFalls
=============================================================================
