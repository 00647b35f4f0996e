# A TLA+ model of Benson

Benson is a web server that validates publishing registries of the Virtual
Observatory.  A client gives it the URL of an OAI-PMH endpoint; Benson probes
the endpoint in three phases, shows a report and, when the report is good
enough, lists the endpoint in its registry of publishers.  It also serves a
registry of its own over OAI-PMH, from a directory of XML files, and has a
command that checks from time to time whether the listed publishers answer.

This directory holds TLA+ modules translated from `src/src/benson`, TLC
configurations that check them on small instances, and proofs for TLAPS.
`PROJECT.json` says, definition by definition, which lines each stands for.
Paths below are relative to `src/src/benson` unless they begin with `docs/`,
`tests/` or `README.md`, which lie in `src/`.

## Inventory

### Components

| component | code | state | operations | modelled |
|---|---|---|---|---|
| sessions and jobs | `session/store.py`, `service/validation_job.py` | one `HarvestRun` per session, in memory; one asyncio task per job | spawn, begin, end, fail, interrupt; job state, stepper, percentage | `HarvestJob`, `JobStatus` |
| pipeline | `service/harvest_runner.py` | the coroutine's three report roots; the run's report fields and status rows | the three phases in sequence, or one alone | `HarvestJob` |
| HTTP operations | `http/harvest.py`, `http/validator.py` | none | the ops of `/harvest`, the routes of `/validator` | `HarvestJob` |
| registration | `registry/registration.py`, `registration_policy.py`, `http/publishers.py` | none | policy, two lookups, upsert, over three routes | `HarvestJob`, `PublisherFile` |
| publishers file | `registry/publishers_store.py` | `publishers.json`, `publishers.json.tmp` | seed, lookups, upsert, annotate, write-then-replace | `PublisherFile`, `PublisherRegistry` |
| `check-publishers` | `registry/publishers_check.py`, `main.py` | the loaded rows and the results of the probes | load, probe, annotate, exit code | `PublisherFile`, `PublisherCheck` |
| standards catalog | `registry/standards_store.py` | a directory that maintainers edit | reload, order, look up | `OaiServer` |
| own OAI-PMH server | `oai/server.py`, `dates.py`, `resumption.py` | none: a token carries the whole query | six verbs | `OaiServer`, `OaiListing` |
| phase 1, conformance probes | `oai/phase1.py`, `phase1_tests_data.py`, `xmlutil.py` | the report under construction | 29 probes, a verdict each | `OaiProbes`, `OaiProfile` |
| phase 2, profile checks | `oai/phase2.py` | the report under construction | four queries with XSD and XSLT | `OaiProfile`; its outcome in `HarvestJob` |
| phase 3, harvest | `oai/phase3.py`, `oai/client.py` | collected documents, token, failures | the ListRecords loop, the report | `OaiHarvest` |
| report counts | `http/validation_report.py` | none | counts of failures and warnings | `OaiProfile`; the sums in `HarvestJob` |
| watch page | `assets/static/js/validator-watch.js` (in `src/`) | the watched run, the timer, the panels | start, poll, show, register | `WatchPage` |
| home page lists | `http/home.py`, `service/rofr_lists.py`, `searchables_regtap.py` | a CSV cache | render | no |
| own registry records | `registry/registry_self.py`, `oai_emit.py`, `oai/oai_dc.py` | none | build XML | no |
| XML validation | `xml/` | none | XSD, XSLT | a nondeterministic count; in `OaiProfile` from what an answer embeds |
| upload validation | `http/vor.py` | none | validate a document | no |
| shell | `app.py`, `config.py`, middleware, `http/web.py` | settings | configuration, logging, error pages | no |

### How they interact

- A request of `/harvest` or `/validator` finds or creates a `HarvestRun` and
  either spawns a background task (`spawn_harvest_validation`), or runs the
  pipeline itself, or runs one phase itself.  Any number of these may work on
  one run; they share its fields and its list of status rows.
- A task suspends only in HTTP requests to the endpoint under test.  All
  `asyncio.Lock` sections on these paths (`progress_lock`, the session store's,
  the publishers file's) contain no suspending `await`, so they are never
  contended, and code between two requests is atomic.
- The page starts jobs and polls their status every two seconds until it is
  told an end; then it asks for the result and for its eligibility and offers a
  form that registers it.  Each request is a coroutine of the page.
- Registration reads the run's merged report and writes the publishers file;
  `check-publishers` is another process that reads the same file, asks every
  listed endpoint, and writes what it found to the rows.
- The `/oai` route reads the standards directory for every request; phase 3
  may well be pointed at it.

### What is hard here

- Several executions of one run interleave at every request; reruns start on
  records that have a history; `Cancel` arrives at any time, also before the
  task has begun or when the answer of its last request is already in.
- Job state is not stored, it is derived from five fields, some of them by
  truth value.  The stepper and the percentage are derived from rows that
  several executions append to.
- The file is written by replacing it; processes crash, and the lock does not
  reach across processes.
- A cursor is an offset into a list that is computed again for each page,
  while files are added, marked deleted, rewritten and, for a moment,
  half-written, and any well-formed file that has an identifier is served.
- Polls of the page overtake each other, two watches share one timer, and an
  answer may concern a job that is no longer the one being watched.
- A check takes minutes: rows are registered meanwhile, one of its probes may
  end all of it, another check may overtake it.
- An endpoint may break down between any two of the requests of phases 1 and 2.
- A harvest of a foreign endpoint meets errors on any page.

`PROJECT.json` lists these as hazards at their lines, with the properties that
would catch them going wrong, or the reason why there is none.

### What makes each component correct

- Sessions, jobs and pipeline: a report is of one execution; a run has one
  worker; a canceled worker does not publish; a failure is not forgotten; an
  end state that was shown is final; a job ends unless its endpoint keeps it, and
  a canceled one ends even then; the progress shown is a prefix and does not fall.
- Registration: every listed endpoint has a report, its own and a permitted
  one, and is listed once, whatever runs compete for it.
- What a client is told: the reported state moves along few edges only.
- Publishers file: an answered registration is never lost and the file is
  never broken; checks only stamp.
- `check-publishers`: a row that shows `ok` has earned it, the results of a
  check are written all together or not at all, and exit code 0 is true.
- Watch page: the form registers what the user is looking at; a page that is
  busy comes to a verdict when the job it polls does; polling ends with the jobs.
- Own server and catalog: a listing has what was asked for, once, in order; it
  misses nothing that was there all along; it ends; what it lists can be
  fetched.
- Phases 1 and 2: they tell servers from other things and notice one that
  breaks down meanwhile, and Benson itself passes while its catalog is sound.
- Phase 3: the limit holds, troubles show in the report, a harvest of Benson's
  own server is complete and ends.

## The modules

**`HarvestJob`**.  `run[r]` is the `HarvestRun` of session `r` (`None`: not
created); `exec[e]` is a coroutine that runs pipeline code: the *worker* of a
job, a *sync* request that runs the whole pipeline, or a request for one phase.
It is `spawned` (created, not yet begun), in a phase (waiting for that phase's
requests) or at an end, and holds its local `oai_root` and `ivoa_root`.
`publishers` is the registry as a set of rows.

| action | code |
|---|---|
| `OpenSession` | `op=StartSession`, `op=GetStatus`, and a refused op on a new run |
| `Spawn`, in `_start_job` and `ValidateCached` | `spawn_harvest_validation`: nothing new when the task is alive |
| `ValidateSync` | `op=Validate` without cache: the request runs the pipeline |
| `ValidatePhase` | `op=ValidateOAI`, `ValidateIVOA`, `ValidateVOR` |
| `Cancel` | `op=Cancel`: the flag, and `task.cancel()` |
| `Register` | `register_publisher` over its three routes |
| `Begin`, `FinishOAI`, `FinishIVOA`, `FinishVOR` | the worker, and the pipeline from the end of one phase's requests to the start of the next one's |
| `Fail`, `Interrupted` | the worker's two `except` branches; `CancelledError` is delivered instead of whatever the request returned |

A report section keeps the execution that built it (`by`) and its counts.  The
result route, the status payload and the policy are operators (`result_status`,
`job_state`, `phase_step_states`, `progress_percent`,
`eligible_for_registration`).

**`JobStatus`** is what a client can rely on: per run the reported state and
whether there is a report, with the few edges on which they change.
`HarvestJob` implements it (`KeepsJobStatus`), under
`state <- job_state, report <- merged # None`, and the page below relies on
nothing else.  An edge that surprises is `Fail` from `complete`: a finished run
that is validated again still shows its old report, and then fails.

**`WatchPage`** composes the page with `JobStatus`.  `page` holds what the
script keeps in variables and what the document shows; `call[n]` is a coroutine
of the page that waits for a request.  A request is served (`Serve`) and its
answer is handled (`Handle`) in steps of their own, or it is lost (`Lose`), so
answers arrive in any order.

| action | code |
|---|---|
| `Load`, `Submit`, `SubmitRegistration`, `Tick` | the page is opened with or without `run_id`; the two forms; the interval |
| `watchJob`, `continueWatch` | `watchJob` before and after its awaited first poll |
| `HandleGoingOn`, `HandleFailed`, `HandleComplete` | `pollJob` up to its result |
| `HandleResult`, `showResult` | `pollJob` with the result, `showRegistrationPanel` up to its request |
| `HandleEligibility`, `HandleRegistered`, `HandleStarted` | the rest of each |
| `HandleFailure`, `showError` | an exception out of any of them |
| `ServePoll`, `ServeResult`, `ServeEligibility`, `ServeStart`, `ServeRegister` | the routes of the server, over `JobStatus` |

**`PublisherRegistry`** is the abstract registry: rows are added under free
identifiers and endpoints, added rows are acknowledged, and stamps change.
**`PublisherFile`** is the file that implements it: inodes with their text, the
two names, and processes that take one file-system access per step
(`OpenTmp`, `WriteTmp`, `ReplaceFile`), with `Crash` at every one of them.  A
crash during the write may leave a cut text.  `Overlap` says whether sections of
two processes may overlap; with it a process may also write to an inode that
another has moved or truncated (`WriteTmp`), and its `os.replace` may fail.
`INSTANCE PublisherRegistry WITH publishers <- Read` is the refinement mapping.

**`PublisherCheck`** extends `PublisherFile` by the rest of the command:
`report[k]` is what check `k` has found per publisher (`_check_one`, from any
answer in `Serves` of the endpoint) and how it ended.  Probes are answered in
any order (`Probe`); one that raises ends the command (`ProbeRaises`, since
`gather` does not collect exceptions).  `Annotate` takes the step of
`PublisherFile` when all answers are in, `Finish` its `os.replace` and the exit
code.  `IsPublisherFile` says that the file sees nothing but `PublisherFile`.

**`OaiServer`** has the catalog, what maintainers do to it (`AddFile`,
`MarkDeleted`, `Rewrite`; `StartWriting` and `FinishWriting` of a file that does
not parse in between, which makes every request that reads the catalog fail)
and the answers of the server as operators with the
names of the functions they translate (`validate_list_args`, `record_in_range`,
`filter_records`, `Paginate`, `dispatch`).  A stamp is a number, two to a
day: midnight, and later.  Records are numbered in the order in which
`all_records` returns them, the registry's own below zero and the standards
from one on; a list of the code is therefore a set of numbers, which `InOrder`
puts in order and a cursor cuts at a `Rank`.  There is at least one record of
the registry's own (`OwnStamps # <<>>`; the code has three), so a list of all is
never empty.  A file that parses and has an identifier is served whatever else it
holds, and `content` tells apart what that does: a *sound* one satisfies the
schemas, an *invalid* one has a resource that does not, a *misdated* one has an
`updated` date such as 2001-02-30, on which `record_in_range` raises
(`Datable`) while its record is active.  It has no specification of its own; three
modules extend it and are its clients:

- **`OaiListing`**: a client that lists with any arguments and follows tokens;
- **`OaiHarvest`**: phase 3, on Benson's own server or on a foreign one whose
  every page is any of `ForeignReplies`; a request may also raise
  (`RequestRaises`);
- **`OaiProbes`**: phase 1, its table of cases (`Cases`; two of the 29, both
  `GetRecord` with an unknown identifier, are one here), its verdict
  (`acceptable`) and its loop, on the own server, on one that breaks down and
  from then on gives one answer to all (`BreakDown`), or on an endpoint that
  always answers the same.  What the schemas say of an answer of the own server
  (`OwnAnswerValid`) follows from what it embeds: every record of a page with its
  header (`RecordValid`: of a deleted one there is the header only), or what
  Identify shows (`IdentifyValid`, of the settings and the registry's own
  resource, and `EarliestValid`, the least datestamp).  **`OaiProfile`** extends it by the four queries of
  phase 2 (`IVOA_CHECKS`, `Verdict`) and by the counts that the policy and the
  page take from the report of both (`query_status`, `nfail`).

Operators marked *Fault* in the comments are not part of the models.  Each is a
definition with a plausible bug; put in place of the right one it makes one of
the properties fail, which is how the properties are known to say something.

## The runs

Every run is finite and complete: TLC explores all reachable states of its
instance.  `CHECK_DEADLOCK FALSE` stands in all of them because each instance
comes to rest when its executions, checks, edits or requests are used up.

| run | instance | shows |
|---|---|---|
| `JobSafety` | one run, three executions of any kind, clean reports | reports, cancellation, failures, stepper, finality and progress in all interleavings; refinement of `JobStatus` |
| `JobLive` | one run, two executions, clean or failing, nothing fair but the start of a task and the delivery of a cancellation | jobs and coroutines end unless left to their endpoint, canceled ones even then |
| `JobPublish` | two runs of one endpoint, two executions, two identifiers | one row, from a complete report of its own run |
| `PublisherCheck` | a server, two checkers, two identifiers and endpoints, two checks, all statuses, no overlap, crashes | nothing lost, doubled or broken, refinement of `PublisherRegistry`; stamps are earned and complete, exit code 0 is true |
| `OaiListing` | three own records, two standards, pages of two, two edits, 12 good and 6 bad queries, files being written, impossible datestamps | listings are exact, miss nothing, end, and are fetchable |
| `OaiHarvest` | two own records, three standards, pages of two, limits 1, 3, 5, two edits, impossible datestamps; foreign servers with three pages | limit, reported troubles, complete and ending own harvest |
| `OaiProfile` | two own records, one standard of any content, one page, two edits; every constant answer; six ways to break down | Benson fails its own phases 1 and 2 only on a flawed catalog; nobody passes with one answer, nor who breaks down half-way |
| `WatchPage` | two runs, two requests in flight, losses; the page and its requests fair, the jobs not | the form is of the result shown; verdicts come unless the job polled never ends; polling ends with the jobs |
| `JobEmptyError` | one run, one execution, an empty exception text | *violated*, see below |
| `JobCancel` | one run, one execution | *violated*, see below |
| `FileOverlap` | a server and a checker, with overlap | *violated*, see below |
| `OaiBadDate` | bounds the calendar does not have | *violated*, see below |

### The bounds, and why they are enough

- *Executions* (`Execs`).  Three are a worker, a rerun and a single phase in
  flight together, or two workers in sequence beside a request.  What one can
  see of the others is the run's fields and rows, which two already fill in
  every order; for the safety properties the proofs remove the bound.
- *Runs* (`Runs`).  Runs meet only in the registry, so one is enough except for
  `JobPublish`.
- *Tallies, texts.*  The policy compares sums with limits: a clean and a failing
  count tell its outcomes apart.  Texts differ only in being empty or not.
- *File*.  Two checkers are a check that overtakes another; two identifiers and
  two endpoints are a clash of either and a free one.  Without overlap two inodes
  suffice, the file and the temporary; `FileOverlap` has one more.  One endpoint
  is well or down, the other has the remaining troubles and gives its identifier
  outside of its registry resource.  The proofs remove all these
  bounds.
- *Page*.  Two runs are the one shown and the one being watched.  Two requests in
  flight are a late answer and the one that overtakes it.  Others open no runs
  but the one the page is loaded with (`OthersOpen`): the page does not hear of
  them.
- *Catalog*.  Pages of two with up to five records give full, half-full and
  absent last pages and two tokens; the stamps lie around a midnight.  Two edits
  between pages are an addition before the cursor and a deletion of what it
  shifted.  The proofs hold for every catalog, page size and number of edits.
- *Foreign pages* (`MaxPages`).  Three pages reach every limit in the middle of
  a page and put trouble on a first, a middle and a last page.  The code has no
  bound of this kind: see the hazard at `oai/phase3.py:81`.
- *Probes.*  The table is the code's own; a constant answer is one of all the
  answers `fetch_oai` can tell apart (codes of the standard, as a set).  Two edits
  and one standard are an addition and a deletion, or a flaw that comes and goes,
  between any two probes.  A page takes the whole catalog, since phase 2 looks at
  first pages only and a flaw past the first page is no different from none; again
  the proofs remove these bounds, and not the table.

Symmetry is used in `JobSafety`, `JobPublish`, `PublisherCheck` and `FileOverlap`
only, over constants that no action orders, and in no run with liveness.

### Fairness

`HarvestJob`: weak fairness of `Begin` and of `Interrupted`, and of nothing else.
The event loop runs a task that was created and resumes one that waits with the
`CancelledError` it was given, whatever the endpoint does.  That a *phase* ends is
not assumed: phase 3 asks for pages as long as tokens come, without a limit on
pages or time (`oai/phase3.py:81`), and the timeout of the HTTP client is one of
each socket operation and not of a request.  Hence `RunningSettles` and
`ExecutionsEnd` except what stays in a phase with its endpoint for ever and is
never canceled (`LeftToEndpoint`), and only that: a job is not excused by another
one that is kept, and a canceled one has no excuse.  Nothing is assumed of
clients: no request, `Cancel` or registration has to happen.

`OaiListing` and `OaiHarvest`: weak fairness of the next request of a listing in
progress, from the client's will to finish and, in phase 3, because the harvest
goes on after every answer.  The endpoint is Benson's own server here, which
answers without waiting for anything, and whose tokens run out because edits are
finitely many (`MaxEdits`).  `OwnHarvestEnds` says nothing of foreign endpoints,
for which it is false.

`WatchPage`: weak fairness for each coroutine of the page, whose request is
answered or fails and whose answer is handled, as the browser's event loop and
its network stack see to; strong fairness of `Tick`, because a new poll needs one
of `MaxCalls` places, which are a bound of the model and not of the page, and
are free again and again.  Jobs owe nothing: a run may stay pending, being a
session without a job, or running, being left to its endpoint.
`WatchComesToVerdict` therefore has one exception, a run that goes on for ever
and that the page polls for ever, and `PollingStops` says what happens once no
run goes on.

## The proofs

Every safety and action property of the passing runs is also a theorem, for
every value of the constants that satisfies the named assumptions of the
modules.  `HarvestJobProofs` has those about reports and registration,
`JobStatusProofs` those about reported states, stepper and percentage,
`PublisherProofs` those about file and checks, `WatchPageProofs` those about the
page.  `OaiServerProofs` has lemmas about the server's answers, on which
`OaiListingProofs`, `OaiHarvestProofs` and `OaiProfileProofs` rest.

| theorem | says | needs |
|---|---|---|
| `TypeCorrect` | types of sessions, coroutines, rows | |
| `ReportsAreOneExecution` | `MergedFromOneExecution` | |
| `OneWorker` | `OneWorkerPerRun` | |
| `CanceledNeverReports` | `CanceledWorkerNeverReports` | |
| `FailedNeverRegistrable` | `FailedRunNotRegistrable` | `"" \notin Texts` |
| `PublishedIsReported` | `PublishedOnceFromReport` | |
| `JobImplementsStatus` | `KeepsJobStatus` | `"" \notin Texts` |
| `EndsAreFinal` | `NoResurrection` | `"" \notin Texts` |
| `StepperIsInOrder` | `StepperIsPrefix` | |
| `ProgressIsMonotone` | `ProgressNeverFalls` | |
| `FileTypeCorrect` | types of file and processes | |
| `RegistrationsSurvive` | `AckedIsStored` | `Overlap = FALSE` |
| `NeverListedTwice` | `NoDuplicates` | `Overlap = FALSE` |
| `ChecksOnlyStamp` | `CheckOnlyStamps` | `Overlap = FALSE` |
| `FileImplementsRegistry` | `RegistrySpec` | `Overlap = FALSE` |
| `CheckedIsFile` | `IsPublisherFile` | |
| `OkIsAlwaysEarned` | `OkIsEarned` | `Overlap = FALSE` |
| `AlwaysAnnotatedTogether` | `AnnotatedTogether` | `Overlap = FALSE` |
| `ExitZeroIsTrue` | `ExitZeroMeansOk` | `Overlap = FALSE` |
| `PageTypeCorrect` | types of page and coroutines | |
| `FormIsAlwaysOfShownResult` | `FormIsOfShownResult` | |
| `LimitAlwaysKept` | `LimitKept` | |
| `TroubleAlwaysReported` | `TroubleIsReported` | |
| `OwnHarvestIsComplete` | `OwnHarvestComplete` | |
| `ListingTypeCorrect` | types of catalog and listing | |
| `ListingIsExact` | `ExactListing` | |
| `NothingIsMissed` | `NothingMissed` | |
| `ListedIsFetched` | `ListedCanBeFetched` | |
| `OwnServerConforms` | `SelfConformance` | |
| `OneAnswerNeverPasses` | `ConstantAnswerFails` | |
| `BreakdownAlwaysShows` | `BreakdownShows` | |

*Jobs.*  That a report is of one execution is not inductive: `FinishVOR` takes
the roots from the coroutine's locals, so the invariant says what these are at
each place (`LocalsOK`: past phase 1 the first root is the coroutine's own, past
phase 2 both are).  `OneWorkerPerRun` needs that the runs of coroutines exist
(`RunsKnown`).  `CanceledWorkerNeverReports` follows because a report's
coroutine is finished, and one that finished was not asked to stop
(`FinishedNotStopped`): `Cancel` reaches only live tasks, and `FinishVOR` is not
possible after it.  `IInv` is the conjunction; one lemma per action shows that
it is preserved.  `FailedRunNotRegistrable` adds that a failed worker's text
stays in its run (`FailedLeavesError`); with an empty text it would not count,
hence the assumption, whose failure is what `JobEmptyError` is about.

*Registration.*  A published row says of its run that it has a report and which
endpoint and schemas it is of.  Nothing that is done to a run later, by any
operation or coroutine, takes that back (`ClaimsKept`, a fact about steps, by one
case for each action): a new report replaces an old one, and no one removes it.
With it `PublishedOnceFromReport` is inductive next to `IInv`.

*Reported states.*  `job_state` reads five fields, so a step from one state to
another is an edge of `JobStatus` only if the fields agree with each other.
`JobInv` says that they do: a run's task is a worker of that run
(`TaskIsWorker`), a worker that has ended has left its report or its error on the
run or was asked to stop (`WorkersEndVisibly`), and one that was asked to stop
belongs to a canceled run (`StopsShow`).  Each action then maps to one edge or to
a stutter, and `NoResurrection` is read off the edges.

*Stepper.*  The stepper is computed from rows that several executions append to
one list, so what has to be shown is an order of the whole list: rows of phase 2
come only with a completed phase 1, rows of phase 3 with a completed phase 2, and
as soon as there is any of them one phase is the active one (`PhasesInOrder`).
Such an order is kept by what an action appends only because a pipeline in a phase has
announced that phase (`Announced`), whatever rows of other executions were
written in between.  `RequestRows` and `StepRows` say what each action appends,
one lemma per action shows that it does, and the rest is about sequences.

*Percentage.*  While a single pipeline works on a run its rows mark as completed
exactly the phases before the one it is in (`RowsPlanned`), whatever single
phases are asked for: a request for one of them adds no row.  That gives the
number in each phase (`Percent`: 15, 48, 81), and the steps of a pipeline only go
up (`PercentGrows`).  Only a worker is created before it begins (`SpawnedWorks`),
and until then it has written no row.

*File.*  `IInv` has the invariant of the file (readable, no duplicates, every
acknowledged row in it, `FileInv`), that at most one process is in a section
that writes (`OneSection`), and what each process may rely on at each place
(`Local`): between the first lookup and the upsert the identifier is still free,
in a writing section the document in memory is the file with the row added or
with stamps changed, and the temporary file is never the file.  Without
`OneSection` none of this holds, as `FileOverlap` shows.  For the refinement,
`ReplaceFile` maps to `Register` or `Annotate`, `Respond` to `Acknowledge`,
every other step to a stutter.

*Checks.*  `CheckedIsFile` needs no invariant: every step of the command is a
step of `PublisherFile` or leaves its variables alone, and so every theorem about
the file holds beside the full command.  For `OkIsEarned` the invariant is about
what was found rather than what is written: an identifier that a check has found
`ok` is listed with an endpoint that serves it (`FoundOk`), what a check is still
asking is listed as it was loaded (`AsksListed`), and a row once listed stays
(`ListedStays`, from the refinement of the registry).  That identifiers are
unique makes the row found and the row stamped the same.  `AnnotatedTogether` and
`ExitZeroMeansOk` need `StampInv`: a check that writes has an answer for all it
listed and is about to write the file's rows with its stamp (`Checking`), what a
check listed stays listed (`ListedIn`), and what it found out is never taken back
(`ReportGrows`, of steps).

*Page.*  An open panel implies a result, and the watched run is that result's:
`GoodPage`.  Each part of the script between two awaits keeps it, whatever answer
it handles, because coroutines know their run (`GoodCall`).

*Harvest.*  Why the limit is kept although a page may be longer: of the records
of one page that are taken there is a last one (`GreatestExists`, by the
well-foundedness of finite sets, as induction is out of reach), all taken before
it were fewer than the limit when the loop looked, and it adds one
(`CollectKeepsLimit`).  That a skipped record or a refusal leaves a failure
behind is part of the invariant (`GoodHarvest`), and that the report has it of
the last step (`GoodReport`).  Of the endpoint's answers the proofs need only
that a page is finite: of foreign ones it is assumed (`HarvestAssumption`), of
the own server's it is proved (`OwnPages`).

*Listing.*  A page is cut from a list that is computed again, so the cursor has
to be compared with lists of different moments.  The rank of a record, how many
come before it, never falls under an edit of an undated list, because no edit
removes a record (`CatalogGrows`, `RankGrows`).  So a record that was there at
the start and has not been given yet is still at or past the cursor
(`RestIsAhead`), and when there is no token left nothing is: `NothingMissed`.
Without edits the list stays as it was and the pages add up to it
(`ExactSoFar`): `ExactListing`.  What `InOrder` and a page contain is proved once
(`RankOnto`, `InOrderFacts`, `PageFacts`).

*Own harvest.*  The same argument through phase 3: an active record that the
harvest has not collected is at or past its token (`Below`, `OwnInv`).  The loop
also ends at its limit and on an error, hence the two exceptions in the
property, and no failure is noted while all files are whole and no active record
has a datestamp that is no date.

*Profile.*  `SelfConformance` is of steps: a query that adds a failure to the
counts is answered from a flawed catalog.  It needs no invariant but that the
files are whole, which the edits of `OaiProbes` keep.  A catalog that is not
flawed can be listed and shows nothing the schemas reject (`SoundCatalog`); from
any such catalog the answer to each of the table's requests is a good one
(`OwnPassesProbes`, by the cases, and `OwnPassesChecks`), and a query that passes
adds no failure (`PassAddsNoFailure`).  That a constant answer fails is the
table's doing: no answer is right for both the first and the last, and `PInv`
keeps the verdicts of the probes that were sent (`ConstantJudged`).
For a server that breaks down `LastJudged`
keeps the verdict of the last query, after which no failure is left only if its
answer is good for all that remained.

*Only model-checked.*  Liveness under fairness is out of the prover's reach:
`RunningSettles`, `ExecutionsEnd`, `ListingEnds`, `OwnHarvestEnds`,
`WatchComesToVerdict` and `PollingStops` are checked by TLC on the instances
above, and so are, by their nature, the four violated properties.

## Where code and documents disagree

1. `JobEmptyError`.  A worker stores `str(exc)`, and readers test its truth.
   `httpx.ReadTimeout` can have an empty text.  The job then shows as complete
   and its result is answered 409, still running, for ever;
   `docs/regvalidate-functional-contract.md:80` says 500.
2. `JobCancel`.  "Interrupt" (`docs/regvalidate-functional-contract.md:70`)
   reaches the background task only: a synchronous `Validate` in flight
   publishes its report on the canceled run, and a request without `op` passes
   the gate and validates it again.
3. `FileOverlap`.  The lock is per process.  A registration made between the
   read and the replace of `check-publishers` is lost, though `README.md:77-79`
   has the command run beside the service and only write status metadata.
4. `OaiBadDate`.  `2001-02-30` has the shape of a date; `strptime` raises and
   nobody catches it, where `oai/dates.py:71` promises an error code.
5. Without a run: the docstring of `OAIExplorerCase` accepts any response with a
   matching code, the code refuses it when an unlisted code is there too; and
   `from` with seconds is refused although `Identify` announces that granularity.

## What is not modelled

XML: parsing, schemas, stylesheets, rendering.  A verdict of phase 3, and of
phases 1 and 2 in `HarvestJob`, is a count that may be anything.  Whether a
document satisfies the schemas is a parameter (`IdentifyValid`, `OwnValid`) or
part of a record (`content`); which documents do, and that an answer of the
server is well-formed and its envelope valid apart from what it embeds, is taken
from the code and not computed.  The registry's own records have datestamps that
the calendar has (`OwnStamps`), and of the forms of `updated` the model has those
that are a date and those that only look like one.  The stylesheet
of phase 2 never transforms as shipped, because it imports one that is missing,
and `OaiProfile` has the verdict that is left.  The comply binary, which may
replace the probes of phase 1, is not there.  Forms, cookies, content types,
redirects and escaping are left out, as are settings other than those of the
policy.  `no_endpoint` of `check-publishers` cannot occur, since every row that
is stored has an endpoint, and the limit on concurrent probes only rules out some
of the orders of answers that the model has.  A loss of power (the text is not synced before
`os.replace`) is outside the crashes of `PublisherFile`, which are of processes.
The session store never forgets a run, and neither does the model.

The home page's lists, Benson's own registry records, uploads and the shell are
stateless construction of documents, or configuration.  The CSV cache of
`searchables_regtap.py` is written by others; the server reads it once per
request and keeps nothing of it.

## Plan

Written: `HarvestJob`, `JobStatus`, `PublisherRegistry`, `PublisherFile`,
`PublisherCheck`, `WatchPage` on `JobStatus`, `OaiServer` with `OaiListing`,
`OaiHarvest`, `OaiProbes` and `OaiProfile`, and proofs of all their safety
properties.

To extend the model:

1. `run.resources` and `ValidateResource`/`GetResource`, which show resources of
   one execution beside the report of another;
2. tokens used with another verb, or after the page size changed.

To prove more:

1. the safety half of the liveness properties: a measure that every step of a
   listing or harvest lowers, which leaves only fairness to TLC;
2. what `FileOverlap` leaves standing: the properties of the file that hold
   even when sections overlap, beyond `FileTypeCorrect`.
