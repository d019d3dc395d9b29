------------------------------- MODULE Runner -------------------------------
(***************************************************************************)
(* Run, Submit and Stop in the browser: the page of one problem            *)
(* (src/hooks/useRunner.ts, app/problems/[id]/page.tsx, components/        *)
(* Results.tsx), the website's API between (WebApi) and the judge behind   *)
(* it, as JudgeContract promises it.                                       *)
(*                                                                         *)
(* A step of the page is what runs between two awaits.  A submission is on *)
(* its way to the judge in two hops, so it may arrive long after the page  *)
(* gave it up.                                                             *)
(***************************************************************************)
EXTENDS WebApi, FiniteSets

CONSTANTS
    Uuid,           \* what crypto.randomUUID() may answer: one for each press of Submit
    Code, Starter,  \* programs, and the starter code
    None,           \* nothing
    Environments,   \* what the website may be deployed with
    Verdicts,       \* what a result may say: "pass", "fail", "error"
    Attempts,       \* how often a submission is sent: 3
    Failures,       \* how many polls in a row may fail: 5
    MaxVersion,     \* bound: versions of the problem
    MaxEvents       \* bound: edits, visits to other pages and events elsewhere in one behaviour

ASSUME RunnerAssumption ==
    /\ Starter \in Code
    /\ None \notin Code /\ None \notin Uuid
    /\ Environments \subseteq Environment
    /\ Verdicts \subseteq {"pass", "fail", "error"}
    /\ {Attempts, MaxVersion} \subseteq Nat \ {0}
    /\ {Failures, MaxEvents} \subseteq Nat

VARIABLES
    outcome, stopped, grants,   \* the judge: see JudgeContract
    recorded,                   \* the judge: the input of each submission
    verdict,                    \* the judge: what the result of a completed submission says
    current,                    \* the current version of the problem, 0 when it is not active
    env, signedIn,              \* the website's deployment, and the user's session
    late,                       \* submissions the page gave up, but that still may arrive
    cancels,                    \* requests to stop a submission
    page,                       \* the page
    pressed,                    \* history: the press of Submit each UUID comes from
    refused,                    \* history: submissions that were refused for good
    events                      \* counts events, see Happens

contractVars == <<outcome, stopped, grants>>
judgeVars    == <<contractVars, recorded, verdict>>
siteVars     == <<current, env, signedIn>>
vars         == <<judgeVars, siteVars, late, cancels, page, pressed, refused, events>>

Judge == INSTANCE JudgeContract WITH Job <- Uuid

Input == [code : Code, version : 1..MaxVersion]

----------------------------------------------------------------------------
(* The page.                                                               *)

\* What is on display: of a Run or a submission, with the judge's last word on it.
NoExecution(mode, id) ==
    [mode |-> mode, id |-> id, state |-> None, result |-> None, error |-> None, code |-> None]

\* phase: a request for it is on its way, the pause before another attempt, the pause before
\* another poll, a poll, or the refresh of the progress that follows the last one.
NewAction(mode, id, code) ==
    [mode |-> mode, id |-> id, code |-> code, phase |-> "asking", attempt |-> 1, failures |-> 0,
     confirmed |-> FALSE, aborted |-> FALSE, seen |-> None]

NewPage(version, code) ==
    [version |-> version, code |-> code, dialog |-> FALSE, action |-> None,
     execution |-> None, stopping |-> FALSE]

Init ==
    /\ Judge!Init
    /\ recorded = [id \in Uuid |-> None]
    /\ verdict = [id \in Uuid |-> None]
    /\ current = 1
    /\ env \in Environments /\ signedIn = TRUE
    /\ late = {} /\ cancels = {}
    /\ page = NewPage(1, Starter)
    /\ pressed = [id \in Uuid |-> None]
    /\ refused = {}
    /\ events = 0

Happens == events < MaxEvents /\ events' = events + 1

running == page.action # None

Awaits(phase) == running /\ ~page.action.aborted /\ page.action.phase = phase

\* The finally of execute.
Over(p) == [p EXCEPT !.action = None, !.stopping = FALSE]

\* The catch of execute.
Failed(p, error) ==
    Over([p EXCEPT !.execution = [NoExecution(p.action.mode, p.action.id) EXCEPT
                                     !.error = error, !.code = p.action.code]])

Reason(status) == IF status \in SignIn THEN "sign in" ELSE "failed"

\* A wrong show: results are labelled with the code in the editor.
shownWithEditorCode(p, job) ==
    [mode |-> p.action.mode, id |-> p.action.id, state |-> job.state, result |-> job.result,
     error |-> IF job.state \in {"canceled", "failed"} THEN job.state ELSE None,
     code |-> p.code]

shown(p, job) ==
    [mode |-> p.action.mode, id |-> p.action.id, state |-> job.state, result |-> job.result,
     error |-> IF job.state \in {"canceled", "failed"} THEN job.state ELSE None,
     code |-> p.action.code]

\* What follows a snapshot: the next poll, or the end of the watch.
show(p, job) ==
    [p EXCEPT !.execution = shown(p, job), !.action.confirmed = TRUE, !.action.failures = 0,
              !.action.attempt = 1, !.action.seen = None,
              !.action.phase = IF job.state \in Watched THEN "watching" ELSE "refreshing"]

----------------------------------------------------------------------------
(* The user.                                                               *)

\* The submission on its way to the judge: the same UUID and input in each attempt.
Sent(p) == [id |-> p.action.id, input |-> [code |-> p.action.code, version |-> p.version]]

\* A submission that the page is about to give up. Whether it arrives is open.
GivenUp == IF Awaits("asking") /\ page.action.mode = "submit" THEN {Sent(page)} ELSE {}

\* A wrong shortcut: it does not look for an open dialog.
mayStartAnyTime(p) == p.action = None

\* The dialog covers the buttons, and the shortcut looks for it.
mayStart(p) == p.action = None /\ ~p.dialog

Start(mode, id) ==
    /\ mayStart(page)
    /\ page' = [page EXCEPT !.action = NewAction(mode, id, page.code),
                            !.execution = NoExecution(mode, id)]
    /\ UNCHANGED <<judgeVars, siteVars, late, cancels, refused, events>>

Run == Start("example", None) /\ UNCHANGED pressed

Submit(id) ==
    /\ Start("submit", id)
    /\ pressed[id] = None /\ recorded[id] = None
    /\ pressed' = [pressed EXCEPT ![id] = id]

\* Stop: a Run, or a submission the judge has not confirmed, is abandoned.
Stop ==
    /\ running /\ ~page.stopping
    /\ page.execution.state # "canceling"
    /\ IF page.action.confirmed
       THEN /\ page' = [page EXCEPT !.stopping = TRUE]
            /\ cancels' = cancels \cup {[id |-> page.action.id, awaited |-> TRUE]}
            /\ UNCHANGED late
       ELSE /\ page' = [page EXCEPT
                   !.stopping = TRUE, !.action.aborted = TRUE,
                   !.execution = [NoExecution(@.mode, page.action.id) EXCEPT !.error = "stopped"]]
            /\ late' = late \cup GivenUp
            /\ UNCHANGED cancels
    /\ UNCHANGED <<judgeVars, siteVars, pressed, refused, events>>

\* Whatever an aborted action was waiting for is rejected.
Unwind ==
    /\ running /\ page.action.aborted
    /\ page' = Over(page)
    /\ UNCHANGED <<judgeVars, siteVars, late, cancels, pressed, refused, events>>

Only(p) == page' = p /\ UNCHANGED <<judgeVars, siteVars, late, cancels, pressed, refused, events>>

\* The user types, unless the editor is read-only, or a refresh brings a newer draft, at any time.
CodeChanges(code) ==
    /\ Happens
    /\ code # page.code
    /\ page' = [page EXCEPT !.code = code]
    /\ UNCHANGED <<judgeVars, siteVars, late, cancels, pressed, refused>>

\* The Reset button, and the two buttons of its dialog.
OpenReset == ~running /\ ~page.dialog /\ Only([page EXCEPT !.dialog = TRUE])

KeepEditing == page.dialog /\ Only([page EXCEPT !.dialog = FALSE])

resetDraft ==
    /\ page.dialog
    /\ Only([page EXCEPT !.dialog = FALSE, !.code = Starter, !.execution = None])

\* The page is left and opened again, with the catalog the tab has or after a reload.
Leave ==
    /\ Happens
    /\ \E version \in {page.version, current} \ {0} : page' = NewPage(version, page.code)
    /\ late' = late \cup GivenUp
    /\ cancels' = {[c EXCEPT !.awaited = FALSE] : c \in cancels}
    /\ UNCHANGED <<judgeVars, siteVars, pressed, refused>>

User ==
    \/ Run \/ Stop \/ OpenReset \/ KeepEditing \/ resetDraft \/ Leave
    \/ \E id \in Uuid : Submit(id)
    \/ \E code \in Code : CodeChanges(code)

----------------------------------------------------------------------------
(* Requests of the page, and what the API and the judge do with them.      *)

\* requestJson: a request with a body is a POST with the application's header.
Own(method) ==
    [method |-> method, host |-> "app", origin |-> IF method = "GET" THEN "none" ELSE "app",
     crossSite |-> FALSE, client |-> method = "POST",
     body |-> IF method = "GET" THEN "none" ELSE "json", signedIn |-> signedIn]

\* The problem is looked up, for a Run or a new submission.
currentSpec(version) ==
    IF current = 0 THEN "errProblemNotFound"
    ELSE IF current # version THEN "errProblemChanged"
    ELSE "ok"

\* A wrong accept: a retry is refused once the problem has changed.
acceptErrorCurrentOnly(id, input) ==
    IF outcome[id] # "none" /\ recorded[id] # input
    THEN "errSubmissionReused" ELSE currentSpec(input.version)

acceptError(id, input) ==
    IF outcome[id] = "none" THEN currentSpec(input.version)
    ELSE IF recorded[id] # input THEN "errSubmissionReused"
    ELSE "ok"

\* The submission is stored, unless it is there already or cannot be accepted.
Accept(id, input) ==
    IF outcome[id] = "none" /\ acceptError(id, input) = "ok"
    THEN /\ Judge!Submit(id)
         /\ recorded' = [recorded EXCEPT ![id] = input]
         /\ UNCHANGED verdict
    ELSE UNCHANGED judgeVars

\* A request to submit comes in at the website, and from there at the judge.
Arrives(request, id, input) ==
    IF refusal(request, env) = 0 THEN Accept(id, input) ELSE UNCHANGED judgeVars

submitStatus(m) ==
    IF refusal(Own("POST"), env) # 0 THEN refusal(Own("POST"), env)
                                     ELSE judgeStatus(acceptError(m.id, m.input))

\* What the judge may say of a job that it has.
Snapshots(id) ==
    LET states == IF outcome[id] # "pending" THEN {outcome[id]}
                  ELSE IF stopped[id] THEN {"canceling"}
                  ELSE {"queued"} \cup (IF grants[id] > 0 THEN {"running"} ELSE {})
    IN  {[state |-> snapshot(state), result |-> verdict[id]] : state \in states}

Queued == [state |-> snapshot("queued"), result |-> None]

\* A wrong catch: one attempt too many.
sendFailsLate(status) ==
    IF final(status) \/ page.action.attempt > Attempts
    THEN Failed(page, Reason(status))
    ELSE [page EXCEPT !.action.phase = "pausing"]

\* The catch of send.
sendFails(status) ==
    IF final(status) \/ page.action.attempt = Attempts
    THEN Failed(page, Reason(status))
    ELSE [page EXCEPT !.action.phase = "pausing"]

\* A final answer, unless it only says who may ask.
Told(id, status) ==
    refused' = IF final(status) /\ status \notin SignIn THEN refused \cup {id} ELSE refused

Asks(mode) == Awaits("asking") /\ page.action.mode = mode

\* The request arrives, and its answer.
SubmitAnswered ==
    LET m == Sent(page)
        status == submitStatus(m)
    IN  /\ Asks("submit")
        /\ Arrives(Own("POST"), m.id, m.input)
        /\ IF status = OK
           THEN \E job \in IF outcome[m.id] = "none" THEN {Queued} ELSE Snapshots(m.id) :
                    page' = show(page, job)
           ELSE page' = sendFails(status)
        /\ Told(m.id, status)
        /\ UNCHANGED <<siteVars, late, cancels, pressed, events>>

Troubles == {"errDatabase", "errRuntimeUnavailable", "errShuttingDown", "context.DeadlineExceeded"}

\* The judge is in trouble, or there is no answer in time; the submission may have been stored or
\* may be later.
SubmitFails ==
    /\ Asks("submit")
    /\ \E status \in {NoStatus} \cup {judgeStatus(error) : error \in Troubles} :
           page' = sendFails(status) /\ Told(page.action.id, status)
    /\ late' = late \cup GivenUp
    /\ UNCHANGED <<judgeVars, siteVars, cancels, pressed, events>>

\* It stays in late, because each attempt may arrive.
LateSubmit(m) ==
    /\ Arrives(Own("POST"), m.id, m.input)
    /\ UNCHANGED <<siteVars, late, cancels, page, pressed, refused, events>>

\* A wrong send: the body is made anew for each attempt.
RetryIdFresh == {id \in Uuid : pressed[id] = None /\ recorded[id] = None}

RetryId == {page.action.id}

PauseEnds ==
    /\ Awaits("pausing")
    /\ \E id \in RetryId :
           /\ page' = [page EXCEPT !.action.phase = "asking", !.action.attempt = @ + 1, !.action.id = id,
                                   !.execution.id = id]
           /\ pressed' = [pressed EXCEPT ![id] = pressed[page.action.id]]
    /\ UNCHANGED <<judgeVars, siteVars, late, cancels, refused, events>>

\* A Run: graded at once, or refused, or without an answer in time.
RunAnswered ==
    /\ Asks("example")
    /\ refusal(Own("POST"), env) = 0 /\ currentSpec(page.version) = "ok"
    /\ \E result \in Verdicts :
           Only(Over([page EXCEPT !.execution =
                   [NoExecution("example", None) EXCEPT !.result = result, !.code = page.action.code]]))

RunFails ==
    /\ Asks("example")
    /\ LET first == refusal(Own("POST"), env)
           error == currentSpec(page.version)
       IN  \E status \in {NoStatus} \cup
                   (IF first # 0 THEN {first}
                    ELSE {judgeStatus(e) : e \in IF error # "ok" THEN {error}
                                                 ELSE {"errSlotsBusy", "errContainerFailed"}}) :
               Only(Failed(page, Reason(status)))

\* watch: the pause, the poll as it reaches the judge, its answer, or none.
PollSent == Awaits("watching") /\ Only([page EXCEPT !.action.phase = "polling"])

PollRead ==
    /\ Awaits("polling") /\ page.action.seen = None
    /\ refusal(Own("GET"), env) = 0
    /\ \E job \in Snapshots(page.action.id) : Only([page EXCEPT !.action.seen = job])

PollAnswered ==
    /\ Awaits("polling") /\ page.action.seen # None
    /\ Only(show(page, page.action.seen))

PollFails ==
    /\ Awaits("polling")
    /\ Only(IF page.action.failures = Failures
            THEN Failed(page, "unavailable")
            ELSE [page EXCEPT !.action.failures = @ + 1, !.action.phase = "watching",
                              !.action.seen = None])

\* The refresh of the progress ends, one way or the other.
RefreshEnds == Awaits("refreshing") /\ Only(Over(page))

\* A Stop comes in at the judge; it has no effect on what is over.
Cancel(id) ==
    IF outcome[id] = "pending" /\ ~stopped[id]
    THEN Judge!Stop(id) /\ UNCHANGED <<recorded, verdict>>
    ELSE UNCHANGED judgeVars

CancelAnswered(c) ==
    /\ c.awaited
    /\ refusal(Own("POST"), env) = 0
    /\ Cancel(c.id)
    /\ cancels' = cancels \ {c}
    /\ UNCHANGED <<siteVars, late, page, pressed, refused, events>>

\* An error or no answer in time: the page says so and offers Stop again, whatever runs by then.
CancelFails(c) ==
    /\ c.awaited
    /\ page' = [page EXCEPT !.stopping = FALSE]
    /\ cancels' = (cancels \ {c}) \cup {[c EXCEPT !.awaited = FALSE]}
    /\ UNCHANGED <<judgeVars, siteVars, late, pressed, refused, events>>

LateCancel(c) ==
    /\ ~c.awaited
    /\ refusal(Own("POST"), env) = 0
    /\ Cancel(c.id)
    /\ UNCHANGED <<siteVars, late, cancels, page, pressed, refused, events>>

Submitting == SubmitAnswered \/ SubmitFails
Running    == RunAnswered \/ RunFails
Polling    == PollAnswered \/ PollFails
Canceling  == \E c \in cancels : CancelAnswered(c) \/ CancelFails(c) \/ LateCancel(c)

Requests ==
    \/ Submitting \/ PauseEnds \/ Running \/ PollSent \/ PollRead \/ Polling \/ RefreshEnds \/ Unwind
    \/ Canceling
    \/ \E m \in late : LateSubmit(m)

----------------------------------------------------------------------------
(* Everything else.                                                        *)

\* What other sites can make a browser send: a POST without the application's header, or one to
\* a name of their own that leads to this machine.
ForeignRequests ==
    LET foreign == [Own("POST") EXCEPT !.origin = "other", !.signedIn = TRUE]
    IN  {[foreign EXCEPT !.host = "app", !.crossSite = TRUE, !.client = FALSE],
         [foreign EXCEPT !.host = "other"]}

Foreign(id, input) ==
    /\ Happens
    /\ pressed[id] = None
    /\ \E request \in ForeignRequests : Arrives(request, id, input)
    /\ UNCHANGED <<siteVars, late, cancels, page, pressed, refused>>

\* The judge, which ends every submission as it promises.
JudgeWorks(id) ==
    /\ \/ Judge!Grant(id) /\ UNCHANGED verdict
       \/ \E how \in {"failed", "canceled"} : Judge!End(id, how) /\ UNCHANGED verdict
       \/ \E says \in Verdicts :
              Judge!End(id, "completed") /\ verdict' = [verdict EXCEPT ![id] = says]
    /\ UNCHANGED <<recorded, siteVars, late, cancels, page, pressed, refused, events>>

\* The problem gets another version, or is no longer active. What is gone does not come back.
Publish ==
    /\ Happens
    /\ current # 0
    /\ current' \in {current + 1, 0} /\ current' <= MaxVersion
    /\ UNCHANGED <<judgeVars, env, signedIn, late, cancels, page, pressed, refused>>

\* The website is deployed, a session expires, or the user signs in again.
Deploy ==
    /\ Happens
    /\ \/ env' \in Environments /\ UNCHANGED signedIn
       \/ env.VERCEL /\ signedIn' = ~signedIn /\ UNCHANGED env
    /\ UNCHANGED <<judgeVars, current, late, cancels, page, pressed, refused>>

Next ==
    \/ User \/ Requests \/ Publish \/ Deploy
    \/ \E id \in Uuid : JudgeWorks(id)
    \/ \E id \in Uuid, input \in Input : Foreign(id, input)

Spec == Init /\ [][Next]_vars

----------------------------------------------------------------------------
(* What is on display: Results.                                            *)

displayed(p) ==
    LET e == p.execution IN
    IF p.action # None
    THEN IF e # None /\ e.state \in {"queued", "canceling"} THEN e.state ELSE "busy"
    ELSE IF e = None THEN "try"
    ELSE IF e.error # None \/ e.result = "error" THEN "stopped"
    ELSE IF e.result = None THEN "nothing"
    ELSE IF e.result # "pass" THEN "Not quite yet"
    ELSE IF e.mode = "submit" THEN "Accepted" ELSE "Example passed"

stale(p) == p.execution.code \notin {None, p.code}

----------------------------------------------------------------------------
(* Properties                                                              *)

JobState == Judge!Ends \cup Watched
MaybeUuid == Uuid \cup {None}

Execution ==
    [mode : {"example", "submit"}, id : MaybeUuid, state : JobState \cup {None},
     result : Verdicts \cup {None},
     error : {"sign in", "failed", "canceled", "stopped", "unavailable", None},
     code : Code \cup {None}]

Action ==
    [mode : {"example", "submit"}, id : MaybeUuid, code : Code,
     phase : {"asking", "pausing", "watching", "polling", "refreshing"}, attempt : 1..Attempts,
     failures : 0..Failures, confirmed : BOOLEAN, aborted : BOOLEAN,
     seen : [state : JobState, result : Verdicts \cup {None}] \cup {None}]

\* Nothing is none of the things that may be there instead.
ASSUME NothingAssumption ==
    None \notin JobState \cup Verdicts \cup Input \cup Execution \cup Action

TypeOK ==
    /\ outcome \in [Uuid -> {"none", "pending"} \cup Judge!Ends]
    /\ stopped \in [Uuid -> BOOLEAN] /\ grants \in [Uuid -> 0..Judge!MaxGrants]
    /\ recorded \in [Uuid -> Input \cup {None}]
    /\ verdict \in [Uuid -> Verdicts \cup {None}]
    /\ current \in 0..MaxVersion /\ env \in Environments /\ signedIn \in BOOLEAN
    /\ late \subseteq [id : Uuid, input : Input]
    /\ cancels \subseteq [id : Uuid, awaited : BOOLEAN]
    /\ page \in [version : 1..MaxVersion, code : Code, dialog : BOOLEAN,
                 action : Action \cup {None}, execution : Execution \cup {None},
                 stopping : BOOLEAN]
    /\ pressed \in [Uuid -> MaybeUuid]
    /\ refused \subseteq Uuid
    /\ events \in 0..MaxEvents

\* A submission is recorded only if the user pressed Submit, and once for each press, however many
\* attempts were sent, arrived late or were answered by nobody (useRunner.ts, send, "the judge
\* records it once however often it arrives").
PressedOnce ==
    \A a, b \in {id \in Uuid : recorded[id] # None} :
        /\ pressed[a] # None
        /\ pressed[a] = pressed[b] => a = b

\* What the judge refused for good is never recorded, not even by an attempt that was given up
\* earlier and arrives later: the user may press Submit again without submitting twice.
RefusalIsFinal ==
    \A id \in refused : outcome[id] = "none"

\* The end of a submission that is on display is the one the judge recorded for it.
ShownIsRecorded ==
    LET e == page.execution
    IN  e # None => (e.state \in Judge!Ends => outcome[e.id] = e.state /\ e.result = verdict[e.id])

\* "Accepted" is only said of code that the judge accepted: what is in the editor, or else the page
\* says that it has changed.
AcceptedIsTrue ==
    LET id == page.execution.id
    IN  displayed(page) = "Accepted" =>
            /\ outcome[id] = "completed" /\ verdict[id] = "pass"
            /\ recorded[id].code = page.code \/ stale(page)

\* While something runs, the display is about that and nothing else, and only while something runs
\* can Stop be in progress: no dialog and no answer to an earlier action gets in between.
ShownIsActive ==
    /\ page.stopping => running
    /\ running => /\ page.execution # None
                  /\ page.execution.mode = page.action.mode
                  /\ page.execution.id = page.action.id
                  /\ page.action.confirmed <=> page.execution.state # None

=============================================================================
