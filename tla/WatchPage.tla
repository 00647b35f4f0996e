------------------------------ MODULE WatchPage ------------------------------
(***************************************************************************)
(* The validator page (assets/static/js/validator-watch.js) as a client of *)
(* the jobs that JobStatus describes.  The page sends requests that the    *)
(* server answers (Serve) and whose answers arrive later (the Handle...    *)
(* actions), in any order or not at all: every request in flight is a      *)
(* coroutine of the page, and the timer starts a new one every two         *)
(* seconds, whether the last is back or not.  Between two awaits the       *)
(* page's code is atomic.                                                  *)
(*                                                                         *)
(* What is drawn in the progress panel is left out, except whether it      *)
(* shows a failure.                                                        *)
(***************************************************************************)
EXTENDS JobStatus, Naturals

CONSTANTS
    MaxCalls,        \* bounds the requests in flight
    None

ASSUME PageAssumption == MaxCalls \in Nat /\ None \notin Runs

VARIABLES
    page,            \* the page, or None before it is loaded
    call             \* its coroutines that wait for an answer

pvars == <<page, call>>
vars == <<state, report, page, call>>

Calls == 1..MaxCalls

(* current is currentRunId; timer is the run that the callback of the      *)
(* interval polls; result is the run whose report is shown; panel is the   *)
(* registration panel: what a hidden one holds is reset before it is shown,*)
(* and a blocked one hides its form.                                       *)
Page == [current : Runs \cup {None}, busy : BOOLEAN, timer : Runs \cup {None},
         error : BOOLEAN, result : Runs \cup {None},
         panel : {"hidden", "open", "blocked"}]

(* first: watchJob awaits this one and then sets the timer.  The answer to *)
(* a poll is what pollJob makes of the state it carries: "ok" is complete. *)
Call == [kind : {"start", "poll", "result", "eligibility", "register"},
         run : Runs \cup {None}, first : BOOLEAN,
         answer : {"none", "ok", "refused", "going on", "ended badly"}]

Blank == [current |-> None, busy |-> FALSE, timer |-> None, error |-> FALSE,
          result |-> None, panel |-> "hidden"]

-----------------------------------------------------------------------------
(* The parts of the script that await nothing.                             *)

hideRegistrationPanel(p) == [p EXCEPT !.panel = "hidden"]

showError(p) == [p EXCEPT !.timer = None, !.busy = FALSE, !.error = TRUE]

(* watchJob up to its await.                                               *)
watchJob(p, r) ==
    [hideRegistrationPanel(p) EXCEPT !.current = r, !.busy = TRUE,
                                     !.error = FALSE, !.result = None]

(* Fault: the run being watched stays the one the form registers.          *)
showResult_KeepsCurrent(p, r) ==
    [hideRegistrationPanel(p) EXCEPT !.result = r, !.panel = "open"]

(* pollJob with the result, and showRegistrationPanel up to its await.     *)
showResult(p, r) ==
    [hideRegistrationPanel(p) EXCEPT !.result = r, !.current = r, !.panel = "open"]

(* Fault: no timer is set.                                                 *)
continueWatch_Never(p, c) == p

(* The rest of watchJob, after the awaited pollJob has returned.           *)
continueWatch(p, c) ==
    IF c.first /\ p.timer = None THEN [p EXCEPT !.timer = c.run] ELSE p

-----------------------------------------------------------------------------
(* Requests.  A new coroutine is the lowest free number.                   *)

Request(kind, r, first) == [kind |-> kind, run |-> r, first |-> first, answer |-> "none"]
Free == {n \in Calls : call[n] = None}
NewCall(c) ==
    /\ Free # {}
    /\ call' = [call EXCEPT ![CHOOSE n \in Free : \A m \in Free : n =< m] = c]
Goes(n, c) == call' = [call EXCEPT ![n] = c]
Returns(n) == call' = [call EXCEPT ![n] = None]
NoJobStep == UNCHANGED <<state, report>>

(* The page is loaded, with the run of its run_id or none.                 *)
Load(r) ==
    /\ page = None
    /\ IF r = None
       THEN page' = Blank /\ UNCHANGED call
       ELSE /\ state[r] # "unknown"
            /\ page' = watchJob(Blank, r)
            /\ NewCall(Request("poll", r, TRUE))
    /\ NoJobStep

(* The form is submitted; its button is disabled while the page is busy,   *)
(* which it is not yet while the answer is awaited.                        *)
Submit ==
    /\ page # None /\ ~page.busy
    /\ NewCall(Request("start", None, TRUE))
    /\ UNCHANGED page /\ NoJobStep

SubmitRegistration ==
    /\ page # None /\ page.panel = "open"
    /\ page.current # None
    /\ NewCall(Request("register", page.current, FALSE))
    /\ UNCHANGED page /\ NoJobStep

(* The interval has passed.                                                *)
Tick ==
    /\ page # None /\ page.timer # None
    /\ NewCall(Request("poll", page.timer, FALSE))
    /\ UNCHANGED page /\ NoJobStep

-----------------------------------------------------------------------------
(* The server answers, and the network fails.                              *)

Asked(n, kind) == call[n] # None /\ call[n].kind = kind /\ call[n].answer = "none"
Answer(n, answer) == Goes(n, [call[n] EXCEPT !.answer = answer])

Told(s) ==
    IF s = "complete" THEN "ok" ELSE IF s \in Ends THEN "ended badly" ELSE "going on"

ServePoll(n) ==
    /\ Asked(n, "poll")
    /\ Answer(n, Told(state[call[n].run]))
    /\ UNCHANGED page /\ NoJobStep

ServeResult(n) ==
    /\ Asked(n, "result")
    /\ Answer(n, IF report[call[n].run] THEN "ok" ELSE "refused")
    /\ UNCHANGED page /\ NoJobStep

(* A run without a report is never eligible and is never registered.       *)
Allowed(r) == {"refused"} \cup (IF report[r] THEN {"ok"} ELSE {})

ServeEligibility(n) ==
    /\ Asked(n, "eligibility")
    /\ \E answer \in Allowed(call[n].run) : Answer(n, answer)
    /\ UNCHANGED page /\ NoJobStep

(* POST /validator/jobs: a new run with its job (Create of JobStatus).     *)
ServeStart(n) ==
    /\ Asked(n, "start")
    /\ \E r \in Runs :
          /\ state[r] = "unknown"
          /\ Becomes(r, "running")
          /\ Goes(n, [call[n] EXCEPT !.run = r, !.answer = "ok"])
    /\ UNCHANGED <<report, page>>

ServeRegister(n) ==
    /\ Asked(n, "register")
    /\ \E answer \in Allowed(call[n].run) : Answer(n, answer)
    /\ UNCHANGED page /\ NoJobStep

Serve(n) ==
    \/ ServePoll(n) \/ ServeResult(n) \/ ServeEligibility(n)
    \/ ServeStart(n) \/ ServeRegister(n)

(* The request, or the answer to what the server has done, is lost, or the *)
(* server fails: to the page each of these is a refusal.                   *)
Lose(n) ==
    /\ call[n] # None /\ call[n].answer # "refused"
    /\ Answer(n, "refused")
    /\ UNCHANGED page /\ NoJobStep

-----------------------------------------------------------------------------
(* An answer arrives: the coroutine goes on to its next await or its end.  *)

Came(n, kind, answers) ==
    call[n] # None /\ call[n].kind = kind /\ call[n].answer \in answers

(* An exception in a coroutine; in watchJob's first poll it skips the rest *)
(* of watchJob.                                                            *)
HandleFailure(n) ==
    /\ \E kind \in {"start", "poll", "result"} : Came(n, kind, {"refused"})
    /\ page' = showError(page)
    /\ Returns(n)
    /\ NoJobStep

(* Fault: the run of the answer is not taken over.                         *)
HandleStarted_OldRun(n) ==
    /\ Came(n, "start", {"ok"})
    /\ page' = watchJob(page, page.current)
    /\ Goes(n, Request("poll", page.current, TRUE))
    /\ NoJobStep

HandleStarted(n) ==
    /\ Came(n, "start", {"ok"})
    /\ page' = watchJob(page, call[n].run)
    /\ Goes(n, Request("poll", call[n].run, TRUE))
    /\ NoJobStep

HandleGoingOn(n) ==
    /\ Came(n, "poll", {"going on"})
    /\ page' = continueWatch(page, call[n])
    /\ Returns(n)
    /\ NoJobStep

(* Fault: the timer is left on when a job has failed.                      *)
HandleFailed_TimerLeft(n) ==
    /\ Came(n, "poll", {"ended badly"})
    /\ page' = continueWatch([page EXCEPT !.busy = FALSE, !.error = TRUE], call[n])
    /\ Returns(n)
    /\ NoJobStep

HandleFailed(n) ==
    /\ Came(n, "poll", {"ended badly"})
    /\ page' = continueWatch([page EXCEPT !.timer = None, !.busy = FALSE, !.error = TRUE],
                             call[n])
    /\ Returns(n)
    /\ NoJobStep

HandleComplete(n) ==
    /\ Came(n, "poll", {"ok"})
    /\ page' = [page EXCEPT !.timer = None, !.busy = FALSE]
    /\ Goes(n, Request("result", call[n].run, call[n].first))
    /\ NoJobStep

HandleResult(n) ==
    /\ Came(n, "result", {"ok"})
    /\ page' = showResult(page, call[n].run)
    /\ Goes(n, Request("eligibility", call[n].run, call[n].first))
    /\ NoJobStep

WithPanel(p, panel) ==
    [p EXCEPT !.panel = IF @ = "hidden" THEN "hidden" ELSE panel]

(* The rest of showRegistrationPanel, which catches its own failures.      *)
HandleEligibility(n) ==
    LET panel == IF call[n].answer = "ok" THEN "open" ELSE "blocked" IN
    /\ Came(n, "eligibility", {"ok", "refused"})
    /\ page' = continueWatch(WithPanel(page, panel), call[n])
    /\ Returns(n)
    /\ NoJobStep

HandleRegistered(n) ==
    /\ Came(n, "register", {"ok", "refused"})
    /\ page' = IF call[n].answer = "ok" THEN WithPanel(page, "blocked") ELSE page
    /\ Returns(n)
    /\ NoJobStep

Handle(n) ==
    \/ HandleFailure(n) \/ HandleStarted(n) \/ HandleGoingOn(n) \/ HandleFailed(n)
    \/ HandleComplete(n) \/ HandleResult(n) \/ HandleEligibility(n) \/ HandleRegistered(n)

-----------------------------------------------------------------------------
Init ==
    /\ JobInit
    /\ page = None
    /\ call = [n \in Calls |-> None]

User == Submit \/ SubmitRegistration \/ \E r \in Runs \cup {None} : Load(r)

(* Others open only the run that the page is loaded with: the page hears   *)
(* of no other run than that and the ones it starts.                       *)
OthersOpen == page = None /\ \A r \in Runs : state[r] = "unknown"
Jobs ==
    /\ \E r \in Runs : JobStep(r) /\ (state[r] = "unknown" => OthersOpen)
    /\ UNCHANGED pvars
Next == User \/ Tick \/ Jobs \/ \E n \in Calls : Serve(n) \/ Lose(n) \/ Handle(n)

Spec == Init /\ [][Next]_vars

(* Every request is answered or fails, every answer is handled, and the    *)
(* timer fires.  Jobs owe nothing: a run may stay pending or running.      *)
FairSpec ==
    /\ Spec
    /\ \A n \in Calls : WF_vars(Serve(n) \/ Lose(n) \/ Handle(n))
    /\ SF_vars(Tick)

-----------------------------------------------------------------------------
(* Properties.                                                             *)

PageTypeOK ==
    /\ state \in [Runs -> {"unknown", "pending", "running"} \cup Ends]
    /\ report \in [Runs -> BOOLEAN]
    /\ page \in Page \cup {None}
    /\ call \in [Calls -> Call \cup {None}]
    /\ \A n \in Calls : call[n] # None /\ call[n].run = None =>
          call[n].kind = "start" /\ call[n].answer # "ok"

(* The form registers the run whose result the user is looking at: however *)
(* late answers of several jobs arrive, currentRunId and the result change *)
(* together (validator-watch.js 97-105, 199-208, 254-262).                 *)
FormIsOfShownResult ==
    page # None /\ page.panel # "hidden" => page.result # None /\ page.current = page.result

GoesOn(r) == state[r] \in {"pending", "running"}
Polled(r) == page # None /\ page.timer = r
Watching == page # None /\ page.busy
Verdict == page # None /\ (page.result # None \/ page.error)

(* A page that is busy with a job comes to a verdict and to rest: a result *)
(* or an error, although answers come late, out of order or not at all and *)
(* two watches share one timer; unless it polls a run for ever that goes   *)
(* on for ever (validator-watch.js 85-116, 199-236).                       *)
WatchComesToVerdict ==
    (Watching ~> (Verdict /\ ~page.busy)) \/ \E r \in Runs : <>[](GoesOn(r) /\ Polled(r))

(* Polling comes to an end with the jobs: once no run goes on, the timer   *)
(* is not left on, nor set again and again by watches whose polls were     *)
(* late (validator-watch.js 90-92, 108-110, 222-228).                      *)
PollingStops ==
    <>[](\A r \in Runs : ~GoesOn(r)) => <>[](page = None \/ page.timer = None)
=============================================================================
