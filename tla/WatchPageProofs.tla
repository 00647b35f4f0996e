--------------------------- MODULE WatchPageProofs ---------------------------
(***************************************************************************)
(* Proofs about WatchPage for any number of runs and requests in flight:   *)
(* types, and that the form registers the run whose result is shown.       *)
(***************************************************************************)
EXTENDS WatchPage, TLAPS

(* A page whose panel, unless it is hidden, is about the result it shows.  *)
GoodPage == {p \in Page : p.panel # "hidden" => p.result # None /\ p.current = p.result}

(* A coroutine that knows its run, unless it is still to be told it.       *)
GoodCall == {c \in Call : c.run = None => c.kind = "start" /\ c.answer # "ok"}

JobType ==
    /\ state \in [Runs -> {"unknown", "pending", "running"} \cup Ends]
    /\ report \in [Runs -> BOOLEAN]

PageInv ==
    /\ page \in GoodPage \cup {None}
    /\ call \in [Calls -> GoodCall \cup {None}]
    /\ (\E n \in Calls : call[n] # None) => page \in GoodPage

IInv == JobType /\ PageInv

-----------------------------------------------------------------------------
(* The parts of the script keep a page good.                               *)

(* An error leaves the panel and the result as they are.                   *)
LEMMA ShowErrorGood ==
    ASSUME NEW p \in GoodPage
    PROVE  showError(p) \in GoodPage
BY DEF showError, GoodPage, Page

(* A new watch hides the panel.                                            *)
LEMMA WatchJobGood ==
    ASSUME NEW p \in Page, NEW r \in Runs
    PROVE  watchJob(p, r) \in GoodPage
BY DEF watchJob, hideRegistrationPanel, GoodPage, Page

(* A result is shown with its run.                                         *)
LEMMA ShowResultGood ==
    ASSUME NEW p \in Page, NEW r \in Runs
    PROVE  showResult(p, r) \in GoodPage
BY PageAssumption DEF showResult, hideRegistrationPanel, GoodPage, Page

(* The rest of watchJob sets the timer at most.                            *)
LEMMA ContinueWatchGood ==
    ASSUME NEW p \in GoodPage, NEW c \in GoodCall
    PROVE  continueWatch(p, c) \in GoodPage
BY DEF continueWatch, GoodPage, Page, GoodCall, Call

(* A panel that is hidden stays so.                                        *)
LEMMA WithPanelGood ==
    ASSUME NEW p \in GoodPage, NEW panel \in {"open", "blocked"}
    PROVE  WithPanel(p, panel) \in GoodPage
BY DEF WithPanel, GoodPage, Page

(* A poll that has ended, well or badly.                                   *)
LEMMA EndedGood ==
    ASSUME NEW p \in GoodPage
    PROVE  /\ [p EXCEPT !.timer = None, !.busy = FALSE] \in GoodPage
           /\ [p EXCEPT !.timer = None, !.busy = FALSE, !.error = TRUE] \in GoodPage
BY DEF GoodPage, Page

(* A request for a run is a good coroutine.                                *)
LEMMA RequestGood ==
    ASSUME NEW kind \in {"start", "poll", "result", "eligibility", "register"},
           NEW r \in Runs \cup {None}, NEW first \in BOOLEAN,
           r = None => kind = "start"
    PROVE  Request(kind, r, first) \in GoodCall
BY DEF Request, GoodCall, Call

-----------------------------------------------------------------------------
(* One lemma for each kind of step of a coroutine.                         *)

(* A new coroutine of a loaded page.                                       *)
LEMMA NewCallKeeps ==
    ASSUME PageInv, NEW c \in GoodCall, NewCall(c), page' \in GoodPage
    PROVE  PageInv'
BY DEF PageInv, NewCall

(* A coroutine that goes on.                                               *)
LEMMA GoesKeeps ==
    ASSUME PageInv, NEW n \in Calls, NEW c \in GoodCall, Goes(n, c), page' \in GoodPage
    PROVE  PageInv'
BY DEF PageInv, Goes

(* A coroutine that ends.                                                  *)
LEMMA ReturnsKeeps ==
    ASSUME PageInv, NEW n \in Calls, Returns(n), page' \in GoodPage
    PROVE  PageInv'
BY DEF PageInv, Returns

(* A coroutine exists on a loaded page only.                               *)
LEMMA CallFacts ==
    ASSUME PageInv, NEW n \in Calls, call[n] # None
    PROVE  page \in GoodPage /\ page \in Page /\ call[n] \in GoodCall
BY DEF PageInv, GoodPage

-----------------------------------------------------------------------------
(* Every step keeps the invariant.                                         *)

(* The user's actions and the timer.                                       *)
LEMMA UserInv ==
    ASSUME IInv, User \/ Tick
    PROVE  PageInv'
<1>1. CASE Submit
  <2>1. Request("start", None, TRUE) \in GoodCall
    BY RequestGood
  <2>2. page \in GoodPage /\ page' = page
    BY <1>1 DEF Submit, IInv, PageInv
  <2> QED BY <1>1, <2>1, <2>2, NewCallKeeps DEF Submit, IInv
<1>2. CASE SubmitRegistration
  <2>1. page \in GoodPage /\ page' = page
    BY <1>2 DEF SubmitRegistration, IInv, PageInv
  <2>2. page.current \in Runs
    BY <1>2, <2>1 DEF SubmitRegistration, GoodPage, Page
  <2>3. Request("register", page.current, FALSE) \in GoodCall
    BY <2>2, PageAssumption, RequestGood
  <2> QED BY <1>2, <2>1, <2>3, NewCallKeeps DEF SubmitRegistration, IInv
<1>3. CASE Tick
  <2>1. page \in GoodPage /\ page' = page
    BY <1>3 DEF Tick, IInv, PageInv
  <2>2. page.timer \in Runs
    BY <1>3, <2>1 DEF Tick, GoodPage, Page
  <2>3. Request("poll", page.timer, FALSE) \in GoodCall
    BY <2>2, PageAssumption, RequestGood
  <2> QED BY <1>3, <2>1, <2>3, NewCallKeeps DEF Tick, IInv
<1>4. ASSUME NEW r \in Runs \cup {None}, Load(r)
      PROVE  PageInv'
  <2>1. Blank \in GoodPage /\ Blank \in Page
    BY DEF Blank, GoodPage, Page
  <2>2. CASE r = None
    BY <1>4, <2>1, <2>2 DEF Load, IInv, PageInv
  <2>3. CASE r # None
    <3>1. Request("poll", r, TRUE) \in GoodCall
      BY <2>3, RequestGood
    <3>2. page' \in GoodPage
      BY <1>4, <2>1, <2>3, WatchJobGood DEF Load
    <3> QED BY <1>4, <2>3, <3>1, <3>2, NewCallKeeps DEF Load, IInv
  <2> QED BY <2>2, <2>3
<1> QED BY <1>1, <1>2, <1>3, <1>4 DEF User

(* An answer, be it that of the server or that of the network.             *)
LEMMA AnswerKeeps ==
    ASSUME PageInv, NEW n \in Calls, call[n] # None, UNCHANGED page,
           NEW answer \in {"ok", "refused", "going on", "ended badly"},
           call[n].run # None \/ answer = "refused", Answer(n, answer)
    PROVE  PageInv'
<1>1. page' \in GoodPage /\ call[n] \in GoodCall
  BY CallFacts
<1>2. [call[n] EXCEPT !.answer = answer] \in GoodCall
  BY <1>1 DEF GoodCall, Call
<1> QED BY <1>1, <1>2, GoesKeeps DEF Answer

(* The server's answers, and the losses.                                   *)
LEMMA ServeInv ==
    ASSUME IInv, NEW n \in Calls, Serve(n) \/ Lose(n)
    PROVE  PageInv'
<1>0. PageInv
  BY DEF IInv
<1>1. CASE Lose(n)
  BY <1>0, <1>1, AnswerKeeps DEF Lose
<1>2. CASE ServeStart(n)
  <2>1. call[n] # None /\ call[n] \in GoodCall /\ page' \in GoodPage
    BY <1>0, <1>2, CallFacts DEF ServeStart, Asked
  <2>2. PICK r \in Runs : Goes(n, [call[n] EXCEPT !.run = r, !.answer = "ok"])
    BY <1>2 DEF ServeStart
  <2>3. [call[n] EXCEPT !.run = r, !.answer = "ok"] \in GoodCall
    BY <2>1, PageAssumption DEF GoodCall, Call
  <2> QED BY <1>0, <2>1, <2>2, <2>3, GoesKeeps
<1>3. CASE ServePoll(n) \/ ServeResult(n) \/ ServeEligibility(n) \/ ServeRegister(n)
  <2>1. call[n] # None /\ call[n].kind # "start" /\ UNCHANGED page
    BY <1>3 DEF ServePoll, ServeResult, ServeEligibility, ServeRegister, Asked
  <2>2. call[n].run # None
    BY <1>0, <2>1, CallFacts DEF GoodCall
  <2>3. PICK answer \in {"ok", "refused", "going on", "ended badly"} : Answer(n, answer)
    BY <1>3 DEF ServePoll, ServeResult, ServeEligibility, ServeRegister, Told, Allowed
  <2> QED BY <1>0, <2>1, <2>2, <2>3, AnswerKeeps
<1> QED BY <1>1, <1>2, <1>3 DEF Serve

(* The page's handlers.                                                    *)
LEMMA HandleInv ==
    ASSUME IInv, NEW n \in Calls, Handle(n)
    PROVE  PageInv'
<1>0. PageInv
  BY DEF IInv
<1>1. call[n] # None
  BY DEF Handle, HandleFailure, HandleStarted, HandleGoingOn, HandleFailed, HandleComplete,
         HandleResult, HandleEligibility, HandleRegistered, Came
<1>2. page \in GoodPage /\ page \in Page /\ call[n] \in GoodCall
  BY <1>0, <1>1, CallFacts
<1>3. /\ call[n].run \in Runs \cup {None} /\ call[n].first \in BOOLEAN
      /\ call[n].run = None => call[n].kind = "start" /\ call[n].answer # "ok"
  BY <1>2 DEF GoodCall, Call
<1>4. CASE HandleFailure(n)
  BY <1>0, <1>2, <1>4, ShowErrorGood, ReturnsKeeps DEF HandleFailure
<1>5. CASE HandleStarted(n)
  <2>1. call[n].run \in Runs
    BY <1>3, <1>5 DEF HandleStarted, Came
  <2>2. page' \in GoodPage
    BY <1>2, <1>5, <2>1, WatchJobGood DEF HandleStarted
  <2>3. Request("poll", call[n].run, TRUE) \in GoodCall
    BY <2>1, PageAssumption, RequestGood
  <2> QED BY <1>0, <1>5, <2>2, <2>3, GoesKeeps DEF HandleStarted
<1>6. CASE HandleGoingOn(n)
  BY <1>0, <1>2, <1>6, ContinueWatchGood, ReturnsKeeps DEF HandleGoingOn
<1>7. CASE HandleFailed(n)
  <2>1. page' \in GoodPage
    BY <1>2, <1>7, EndedGood, ContinueWatchGood DEF HandleFailed
  <2> QED BY <1>0, <1>7, <2>1, ReturnsKeeps DEF HandleFailed
<1>8. CASE HandleComplete(n)
  <2>1. page' \in GoodPage
    BY <1>2, <1>8, EndedGood DEF HandleComplete
  <2>2. Request("result", call[n].run, call[n].first) \in GoodCall
    BY <1>3, <1>8, RequestGood DEF HandleComplete, Came
  <2> QED BY <1>0, <1>8, <2>1, <2>2, GoesKeeps DEF HandleComplete
<1>9. CASE HandleResult(n)
  <2>1. call[n].run \in Runs
    BY <1>3, <1>9 DEF HandleResult, Came
  <2>2. page' \in GoodPage
    BY <1>2, <1>9, <2>1, ShowResultGood DEF HandleResult
  <2>3. Request("eligibility", call[n].run, call[n].first) \in GoodCall
    BY <1>3, <2>1, PageAssumption, RequestGood
  <2> QED BY <1>0, <1>9, <2>2, <2>3, GoesKeeps DEF HandleResult
<1>10. CASE HandleEligibility(n)
  <2>1. page' \in GoodPage
    BY <1>2, <1>10, WithPanelGood, ContinueWatchGood DEF HandleEligibility
  <2> QED BY <1>0, <1>10, <2>1, ReturnsKeeps DEF HandleEligibility
<1>11. CASE HandleRegistered(n)
  <2>1. page' \in GoodPage
    BY <1>2, <1>11, WithPanelGood DEF HandleRegistered
  <2> QED BY <1>0, <1>11, <2>1, ReturnsKeeps DEF HandleRegistered
<1> QED BY <1>4, <1>5, <1>6, <1>7, <1>8, <1>9, <1>10, <1>11 DEF Handle

(* What the server knows of the runs.                                      *)
LEMMA JobTypeInv ==
    ASSUME IInv, [Next]_vars
    PROVE  JobType'
<1> DEFINE States == {"unknown", "pending", "running"} \cup Ends
<1>0. state \in [Runs -> States] /\ report \in [Runs -> BOOLEAN]
  BY DEF IInv, JobType
<1>1. CASE NoJobStep
  BY <1>0, <1>1 DEF NoJobStep, JobType
<1>2. ASSUME NEW r \in Runs, JobStep(r) PROVE JobType'
  BY <1>0, <1>2
  DEF JobStep, Create, Start, Complete, Fail, Cancel, Becomes, Ends, JobType
<1>3. ASSUME NEW n \in Calls, ServeStart(n) PROVE JobType'
  BY <1>0, <1>3 DEF ServeStart, Becomes, Ends, JobType
<1>4. CASE UNCHANGED vars
  BY <1>0, <1>4 DEF vars, JobType
<1>5. CASE User \/ Tick
  BY <1>1, <1>5 DEF User, Submit, SubmitRegistration, Load, Tick
<1>6. ASSUME NEW n \in Calls, Handle(n) PROVE NoJobStep
  BY <1>6 DEF Handle, HandleFailure, HandleStarted, HandleGoingOn, HandleFailed,
              HandleComplete, HandleResult, HandleEligibility, HandleRegistered
<1>7. ASSUME NEW n \in Calls, Serve(n) \/ Lose(n) PROVE ServeStart(n) \/ NoJobStep
  BY <1>7 DEF Serve, ServePoll, ServeResult, ServeEligibility, ServeRegister, Lose
<1> QED BY <1>1, <1>2, <1>3, <1>4, <1>5, <1>6, <1>7 DEF Next, Jobs

(* The invariant holds at the start and is kept by every step.             *)
LEMMA Inductive ==
    /\ Init => IInv
    /\ IInv /\ [Next]_vars => IInv'
<1>1. ASSUME Init PROVE IInv
  BY <1>1 DEF Init, JobInit, IInv, JobType, PageInv
<1>2. ASSUME IInv, [Next]_vars PROVE IInv'
  <2>1. ASSUME UNCHANGED pvars PROVE PageInv'
    BY <1>2, <2>1 DEF pvars, IInv, PageInv
  <2>2. PageInv'
    BY <1>2, <2>1, UserInv, ServeInv, HandleInv DEF Next, Jobs, vars, pvars
  <2> QED BY <1>2, <2>2, JobTypeInv DEF IInv
<1> QED BY <1>1, <1>2

(* The page, its coroutines and the runs keep their types.                 *)
THEOREM PageTypeCorrect == Spec => []PageTypeOK
<1>1. IInv => PageTypeOK
  BY DEF IInv, JobType, PageInv, GoodPage, GoodCall, PageTypeOK
<1> QED BY <1>1, Inductive, PTL DEF Spec

(* However many jobs the page has started, and however late, in whatever   *)
(* order or never their answers come, an open registration form registers  *)
(* the run whose result the user is looking at.                            *)
THEOREM FormIsAlwaysOfShownResult == Spec => []FormIsOfShownResult
<1>1. IInv => FormIsOfShownResult
  BY DEF IInv, PageInv, GoodPage, FormIsOfShownResult
<1> QED BY <1>1, Inductive, PTL DEF Spec
=============================================================================
