---------------------------- MODULE RunnerProofs ----------------------------
(***************************************************************************)
(* For any number of submissions, programs, versions, attempts, events and *)
(* deployments: a press of Submit is recorded at most once, a submission   *)
(* that was refused for good never is, and what the page shows is true and *)
(* about the action that runs.                                             *)
(***************************************************************************)
EXTENDS Runner, TLAPS

----------------------------------------------------------------------------
(* The types, with names for the sets that the fields belong to.           *)

ModeSet      == {"example", "submit"}
PhaseSet     == {"asking", "pausing", "watching", "polling", "refreshing"}
ErrorSet     == {"sign in", "failed", "canceled", "stopped", "unavailable", None}
StateOrNone  == JobState \cup {None}
ResultOrNone == Verdicts \cup {None}
CodeOrNone   == Code \cup {None}
Version      == 1..MaxVersion
Attempt      == 1..Attempts
Failure      == 0..Failures
Snapshot     == [state : JobState, result : ResultOrNone]
SeenOrNone   == Snapshot \cup {None}

Shown ==
    [mode : ModeSet, id : MaybeUuid, state : StateOrNone, result : ResultOrNone, error : ErrorSet,
     code : CodeOrNone]

Act ==
    [mode : ModeSet, id : MaybeUuid, code : Code, phase : PhaseSet, attempt : Attempt,
     failures : Failure, confirmed : BOOLEAN, aborted : BOOLEAN, seen : SeenOrNone]

ActOrNone   == Act \cup {None}
ShownOrNone == Shown \cup {None}

PageSet ==
    [version : Version, code : Code, dialog : BOOLEAN, action : ActOrNone, execution : ShownOrNone,
     stopping : BOOLEAN]

JudgeTypes ==
    /\ outcome \in [Uuid -> {"none", "pending"} \cup Judge!Ends]
    /\ stopped \in [Uuid -> BOOLEAN] /\ grants \in [Uuid -> 0..Judge!MaxGrants]
    /\ recorded \in [Uuid -> Input \cup {None}]
    /\ verdict \in [Uuid -> ResultOrNone]

SiteTypes ==
    /\ current \in 0..MaxVersion /\ env \in Environments /\ signedIn \in BOOLEAN
    /\ events \in 0..MaxEvents

Message == [id : Uuid, input : Input]

RestTypes ==
    /\ late \subseteq Message
    /\ cancels \subseteq [id : Uuid, awaited : BOOLEAN]
    /\ pressed \in [Uuid -> MaybeUuid]
    /\ refused \subseteq Uuid

Types == JudgeTypes /\ SiteTypes /\ RestTypes /\ page \in PageSet

LEMMA TypesAreTypeOK == Types <=> TypeOK
BY DEF Types, TypeOK, JudgeTypes, SiteTypes, RestTypes, Message, PageSet, ActOrNone, ShownOrNone,
       Act, Shown, SeenOrNone, Snapshot, Failure, Attempt, Version, CodeOrNone, ResultOrNone, StateOrNone,
       ErrorSet, PhaseSet, ModeSet, Action, Execution

\* What the assumptions say, in terms of these sets.
LEMMA NoneFacts ==
    /\ None \notin JobState /\ None \notin Verdicts /\ None \notin Input
    /\ None \notin Shown /\ None \notin Act /\ None \notin Uuid /\ None \notin Code
BY RunnerAssumption, NothingAssumption
   DEF Shown, Act, SeenOrNone, Snapshot, Failure, Attempt, CodeOrNone, ResultOrNone, StateOrNone,
       ErrorSet, PhaseSet, ModeSet, Action, Execution

LEMMA NoneTypes ==
    /\ None \in MaybeUuid /\ None \in StateOrNone /\ None \in ResultOrNone /\ None \in ErrorSet
    /\ None \in CodeOrNone /\ None \in SeenOrNone /\ None \in ActOrNone /\ None \in ShownOrNone
    /\ 1 \in Attempt /\ 0 \in Failure /\ 1 \in Version
BY RunnerAssumption
   DEF MaybeUuid, StateOrNone, ResultOrNone, ErrorSet, CodeOrNone, SeenOrNone, ActOrNone,
       ShownOrNone, Attempt, Failure, Version

----------------------------------------------------------------------------
(* The page: what every callback leaves behind.                            *)

GoodAction(a) ==
    /\ a.phase = "pausing" => a.attempt < Attempts
    /\ a.mode = "submit" => a.id \in Uuid
    /\ a.mode = "example" => a.phase = "asking"
    /\ a.confirmed <=> a.phase \notin {"asking", "pausing"}

GoodPage(p) ==
    /\ p \in PageSet
    /\ p.stopping => p.action # None
    /\ p.dialog => p.action = None
    /\ p.action # None =>
          /\ GoodAction(p.action)
          /\ p.execution \in Shown
          /\ p.execution.mode = p.action.mode /\ p.execution.id = p.action.id
          /\ p.action.confirmed <=> p.execution.state # None

\* The fields of a page that runs something.
LEMMA Running1 ==
    ASSUME GoodPage(page), running
    PROVE  /\ page.action \in Act /\ page.execution \in Shown /\ page.code \in Code
           /\ page.version \in Version /\ ~page.dialog /\ page \in PageSet
BY DEF GoodPage, running, PageSet, ActOrNone

LEMMA NoExecutionType ==
    ASSUME NEW mode \in ModeSet, NEW id \in MaybeUuid
    PROVE  NoExecution(mode, id) \in Shown
BY NoneTypes DEF NoExecution, Shown

LEMMA OverGood ==
    ASSUME NEW p \in PageSet
    PROVE  GoodPage(Over(p))
BY NoneTypes DEF GoodPage, Over, PageSet

LEMMA FailedGood ==
    ASSUME GoodPage(page), running, NEW error \in ErrorSet
    PROVE  GoodPage(Failed(page, error)) /\ Failed(page, error).action = None
<1> DEFINE e == [NoExecution(page.action.mode, page.action.id) EXCEPT !.error = error,
                                                                     !.code = page.action.code]
           p == [page EXCEPT !.execution = e]
<1>1. e \in Shown
    <2>1. NoExecution(page.action.mode, page.action.id) \in Shown
        BY Running1, NoExecutionType DEF Act
    <2>2. page.action.code \in CodeOrNone
        BY Running1 DEF Act, CodeOrNone
    <2> HIDE DEF NoExecution
    <2> QED BY <2>1, <2>2 DEF Shown
<1>2. p \in PageSet
    BY <1>1, Running1 DEF PageSet, ShownOrNone
<1>3. Failed(page, error) = Over(p)
    BY DEF Failed
<1> QED BY <1>2, <1>3, OverGood DEF Over, PageSet

LEMMA ReasonType == ASSUME NEW status PROVE Reason(status) \in ErrorSet
BY DEF Reason, ErrorSet

LEMMA PausingGood ==
    ASSUME GoodPage(page), running, page.action.mode = "submit", page.action.phase = "asking",
           page.action.attempt # Attempts
    PROVE  GoodPage([page EXCEPT !.action.phase = "pausing"])
<1> DEFINE a == [page.action EXCEPT !.phase = "pausing"]
<1>1. a \in Act
    BY Running1 DEF Act, PhaseSet
<1>2. page.action.attempt < Attempts
    BY Running1, RunnerAssumption DEF Act, Attempt
<1>3. GoodAction(a)
    BY <1>2, Running1 DEF GoodPage, GoodAction, Act, running
<1>4. a # None
    BY <1>1, NoneFacts
<1>5. a.mode = page.action.mode /\ a.id = page.action.id /\ a.confirmed = page.action.confirmed
    BY Running1 DEF Act
<1> HIDE DEF a
<1>6. [page EXCEPT !.action = a] \in PageSet
    BY <1>1, Running1 DEF PageSet, ActOrNone
<1> QED BY <1>3, <1>4, <1>5, <1>6, Running1 DEF GoodPage, PageSet, running, a

LEMMA sendFailsGood ==
    ASSUME GoodPage(page), Asks("submit"), NEW status
    PROVE  GoodPage(sendFails(status))
BY PausingGood, FailedGood, ReasonType DEF sendFails, Asks, Awaits

LEMMA shownType ==
    ASSUME GoodPage(page), running, NEW job \in Snapshot
    PROVE  shown(page, job) \in Shown
BY Running1, NoneTypes DEF shown, Shown, Act, Snapshot, ErrorSet, StateOrNone, CodeOrNone

LEMMA showGood ==
    ASSUME GoodPage(page), running, page.action.mode = "submit", NEW job \in Snapshot
    PROVE  GoodPage(show(page, job))
<1> DEFINE a == [page.action EXCEPT !.confirmed = TRUE, !.failures = 0, !.attempt = 1, !.seen = None,
                     !.phase = IF job.state \in Watched THEN "watching" ELSE "refreshing"]
           e == shown(page, job)
<1>1. a \in Act
    BY Running1, NoneTypes DEF Act, PhaseSet
<1>2. GoodAction(a)
    BY Running1 DEF GoodPage, GoodAction, Act, running
<1>3. a # None
    BY <1>1, NoneFacts
<1>4. e \in Shown /\ e.mode = page.action.mode /\ e.id = page.action.id /\ e.state # None
    BY shownType, NoneFacts DEF shown, Snapshot
<1>5. a.mode = page.action.mode /\ a.id = page.action.id /\ a.confirmed
    BY Running1 DEF Act
<1>6. show(page, job) = [page EXCEPT !.execution = e, !.action = a]
    BY DEF show
<1> HIDE DEF a, e
<1>7. [page EXCEPT !.execution = e, !.action = a] \in PageSet
    BY <1>1, <1>4, Running1 DEF PageSet, ActOrNone, ShownOrNone
<1> QED BY <1>2, <1>3, <1>4, <1>5, <1>6, <1>7, Running1 DEF GoodPage, PageSet, running

----------------------------------------------------------------------------
(* The judge.                                                              *)

\* A submission is there or not, and has a verdict only when it is completed.
JudgeInv ==
    \A id \in Uuid : /\ outcome[id] # "none" <=> recorded[id] # None
                     /\ verdict[id] # None => outcome[id] = "completed"

\* Whatever the judge does, it keeps what it recorded and what it ended.
JudgeKeeps ==
    /\ JudgeTypes' /\ JudgeInv'
    /\ \A id \in Uuid :
          /\ recorded[id] # None => recorded'[id] = recorded[id]
          /\ outcome[id] \in Judge!Ends => outcome'[id] = outcome[id] /\ verdict'[id] = verdict[id]

NamesOfStates == {"queued", "running", "canceling", "completed", "failed", "canceled"}

\* The numbers of the states lead back to their names.
LEMMA snapshotIsName == \A state \in NamesOfStates : snapshot(state) = state
BY DEF NamesOfStates, snapshot, jobStates, JOB_STATES

\* What is said of s about a submission: a state that lasts, with its verdict, or one that does not.
TrueOf(id, s) ==
    /\ s.state \in Judge!Ends => outcome[id] = s.state /\ s.result = verdict[id]
    /\ s.state \in Watched => s.result = None

LEMMA SnapshotsTrue ==
    ASSUME JudgeTypes, JudgeInv, NEW id \in Uuid, outcome[id] # "none", NEW job \in Snapshots(id)
    PROVE  job \in Snapshot /\ TrueOf(id, job)
<1>1. outcome[id] \in {"pending"} \cup Judge!Ends /\ verdict[id] \in ResultOrNone
    BY DEF JudgeTypes
<1>2. PICK state \in IF outcome[id] # "pending" THEN {outcome[id]}
                     ELSE IF stopped[id] THEN {"canceling"}
                     ELSE {"queued"} \cup (IF grants[id] > 0 THEN {"running"} ELSE {}) :
          job = [state |-> snapshot(state), result |-> verdict[id]]
    BY DEF Snapshots
<1>3. state \in NamesOfStates /\ (state \in Judge!Ends => state = outcome[id])
    BY <1>1, <1>2 DEF NamesOfStates, Judge!Ends
<1>4. job = [state |-> state, result |-> verdict[id]]
    BY <1>2, <1>3, snapshotIsName
<1>5. state \in Watched => verdict[id] = None
    BY <1>1, <1>2, <1>3 DEF Watched, Judge!Ends, JudgeInv
<1> QED BY <1>1, <1>3, <1>4, <1>5
        DEF Snapshot, TrueOf, NamesOfStates, JobState, Judge!Ends, Watched

LEMMA QueuedTrue ==
    ASSUME NEW id
    PROVE  Queued \in Snapshot /\ TrueOf(id, Queued)
<1>1. Queued = [state |-> "queued", result |-> None]
    BY snapshotIsName DEF Queued, NamesOfStates
<1> QED BY <1>1, NoneTypes DEF Snapshot, TrueOf, JobState, Judge!Ends, Watched

LEMMA JudgeIdle ==
    ASSUME JudgeTypes, JudgeInv, UNCHANGED judgeVars
    PROVE  JudgeKeeps
BY DEF JudgeKeeps, JudgeTypes, JudgeInv, judgeVars, contractVars

LEMMA AcceptKeeps ==
    ASSUME JudgeTypes, JudgeInv, NEW id \in Uuid, NEW input \in Input, Accept(id, input)
    PROVE  JudgeKeeps
<1>1. CASE outcome[id] = "none" /\ acceptError(id, input) = "ok"
    <2>1. /\ outcome' = [outcome EXCEPT ![id] = "pending"] /\ UNCHANGED <<stopped, grants, verdict>>
          /\ recorded' = [recorded EXCEPT ![id] = input]
        BY <1>1 DEF Accept, Judge!Submit
    <2>2. recorded[id] = None /\ verdict[id] = None /\ input # None
        BY <1>1, NoneFacts DEF JudgeInv
    <2> QED BY <1>1, <2>1, <2>2 DEF JudgeKeeps, JudgeTypes, JudgeInv, Judge!Ends
<1>2. CASE ~(outcome[id] = "none" /\ acceptError(id, input) = "ok")
    BY <1>2, JudgeIdle DEF Accept
<1> QED BY <1>1, <1>2

\* Nothing is recorded, and nothing is forgotten.
RecordsStay == recorded' = recorded /\ \A id \in Uuid : outcome'[id] = "none" <=> outcome[id] = "none"

LEMMA CancelKeeps ==
    ASSUME JudgeTypes, JudgeInv, NEW id \in Uuid, Cancel(id)
    PROVE  JudgeKeeps /\ RecordsStay
<1>1. CASE UNCHANGED judgeVars
    BY <1>1, JudgeIdle DEF RecordsStay, judgeVars, contractVars
<1>2. CASE Judge!Stop(id) /\ UNCHANGED <<recorded, verdict>>
    <2>1. PICK now \in {"pending", "canceled"} : outcome' = [outcome EXCEPT ![id] = now]
        BY <1>2 DEF Judge!Stop
    <2>2. outcome[id] = "pending" /\ stopped' = [stopped EXCEPT ![id] = TRUE] /\ grants' = grants
        BY <1>2 DEF Judge!Stop
    <2> QED BY <1>2, <2>1, <2>2 DEF JudgeKeeps, RecordsStay, JudgeTypes, JudgeInv, Judge!Ends
<1> QED BY <1>1, <1>2 DEF Cancel

LEMMA JudgeWorksKeeps ==
    ASSUME JudgeTypes, JudgeInv, NEW id \in Uuid, JudgeWorks(id)
    PROVE  JudgeKeeps /\ RecordsStay
<1>1. CASE Judge!Grant(id) /\ UNCHANGED verdict
    <2>1. grants' = [grants EXCEPT ![id] = @ + 1] /\ UNCHANGED <<outcome, stopped, recorded>>
          /\ grants[id] < Judge!MaxGrants
        BY <1>1 DEF Judge!Grant, JudgeWorks
    <2> QED BY <1>1, <2>1 DEF JudgeKeeps, RecordsStay, JudgeTypes, JudgeInv, Judge!MaxGrants
<1>2. ASSUME NEW how \in {"failed", "canceled"}, Judge!End(id, how), UNCHANGED verdict
      PROVE  JudgeKeeps /\ RecordsStay
    <2>1. outcome[id] = "pending" /\ outcome' = [outcome EXCEPT ![id] = how]
          /\ UNCHANGED <<stopped, grants, recorded>>
        BY <1>2 DEF Judge!End, JudgeWorks
    <2> QED BY <1>2, <2>1 DEF JudgeKeeps, RecordsStay, JudgeTypes, JudgeInv, Judge!Ends
<1>3. ASSUME NEW says \in Verdicts, Judge!End(id, "completed"),
             verdict' = [verdict EXCEPT ![id] = says]
      PROVE  JudgeKeeps /\ RecordsStay
    <2>1. outcome[id] = "pending" /\ outcome' = [outcome EXCEPT ![id] = "completed"]
          /\ UNCHANGED <<stopped, grants, recorded>>
        BY <1>3 DEF Judge!End, JudgeWorks
    <2> QED BY <1>3, <2>1 DEF JudgeKeeps, RecordsStay, JudgeTypes, JudgeInv, Judge!Ends, ResultOrNone
<1> QED BY <1>1, <1>2, <1>3 DEF JudgeWorks

----------------------------------------------------------------------------
(* The invariant.                                                          *)

\* What is on its way to the judge, or may be again.
SendsOf(p) == IF p.action # None /\ p.action.mode = "submit" THEN {Sent(p)} ELSE {}
Sends == late \cup SendsOf(page)

\* Each UUID comes from a press of Submit of its own, and is always sent with the same input.
SendInv ==
    /\ \A id \in Uuid : pressed[id] \in {None, id} /\ (recorded[id] # None => pressed[id] # None)
    /\ running /\ page.action.confirmed => outcome[page.action.id] # "none"
    /\ \A m \in Sends : pressed[m.id] # None /\ recorded[m.id] \in {None, m.input}
    /\ \A m, n \in Sends : m.id = n.id => m.input = n.input

\* A version that is over stays over, so what was refused is refused again.
VersionInv ==
    /\ current = 0 \/ page.version <= current
    /\ \A id \in refused : outcome[id] = "none" /\ pressed[id] # None
    /\ \A m \in Sends : m.id \in refused => current = 0 \/ m.input.version < current

\* What is on display, and what a poll has read, is what the judge recorded.
TrueExecution(e) ==
    /\ e.state = None /\ e.mode = "submit" => e.result = None
    /\ e.state # None => /\ e.mode = "submit" /\ e.id \in Uuid
                        /\ recorded[e.id] # None /\ recorded[e.id].code = e.code
                        /\ TrueOf(e.id, e)

TruthInv ==
    /\ page.execution # None => TrueExecution(page.execution)
    /\ running /\ page.action.seen # None =>
          page.action.id \in Uuid /\ TrueOf(page.action.id, page.action.seen)

IInv ==
    /\ JudgeTypes /\ SiteTypes /\ RestTypes
    /\ GoodPage(page)
    /\ JudgeInv /\ SendInv /\ VersionInv /\ TruthInv

----------------------------------------------------------------------------
(* Steps of the page alone.                                                *)

LEMMA StartGood ==
    ASSUME GoodPage(page), NEW mode \in ModeSet, NEW id \in MaybeUuid, Start(mode, id),
           mode = "submit" => id \in Uuid
    PROVE  GoodPage(page') /\ page'.action # None
<1> DEFINE a == NewAction(mode, id, page.code)
           e == NoExecution(mode, id)
<1>1. page \in PageSet /\ page.code \in Code /\ ~page.dialog
    BY DEF GoodPage, Start, mayStart, PageSet
<1>2. a \in Act
    BY <1>1, NoneTypes DEF NewAction, Act, PhaseSet
<1>3. a # None /\ e \in Shown
    BY <1>2, NoneFacts, NoExecutionType
<1>4. GoodAction(a)
    BY DEF GoodAction, NewAction
<1>5. a.mode = e.mode /\ a.id = e.id /\ ~a.confirmed /\ e.state = None
    BY DEF NewAction, NoExecution
<1>6. page' = [page EXCEPT !.action = a, !.execution = e]
    BY DEF Start
<1> HIDE DEF a, e
<1>7. page' \in PageSet
    BY <1>1, <1>2, <1>3, <1>6 DEF PageSet, ActOrNone, ShownOrNone
<1> QED BY <1>1, <1>2, <1>3, <1>4, <1>5, <1>6, <1>7 DEF GoodPage, PageSet

\* A change of the action that leaves it what it is.
LEMMA ActionGood ==
    ASSUME GoodPage(page), running, NEW a \in Act, GoodAction(a),
           a.mode = page.action.mode, a.id = page.action.id, a.confirmed = page.action.confirmed
    PROVE  GoodPage([page EXCEPT !.action = a])
<1>1. [page EXCEPT !.action = a] \in PageSet
    BY Running1 DEF PageSet, ActOrNone
<1>2. a # None
    BY NoneFacts
<1> QED BY <1>1, <1>2, Running1 DEF GoodPage, PageSet, running

LEMMA StopGood ==
    ASSUME GoodPage(page), Stop
    PROVE  GoodPage(page')
<1> DEFINE a == [page.action EXCEPT !.aborted = TRUE]
           e == [NoExecution(page.execution.mode, page.action.id) EXCEPT !.error = "stopped"]
<1>1. running
    BY DEF Stop
<1>2. CASE page.action.confirmed
    <2>1. page' = [page EXCEPT !.stopping = TRUE]
        BY <1>2 DEF Stop
    <2> QED BY <1>1, <2>1, Running1 DEF GoodPage, PageSet, running
<1>3. CASE ~page.action.confirmed
    <2>1. a \in Act
        BY <1>1, Running1 DEF Act
    <2>2. GoodAction(a) /\ a # None
        BY <1>1, <2>1, Running1, NoneFacts DEF GoodPage, GoodAction, Act, running
    <2>3. e \in Shown /\ e.mode = page.action.mode /\ e.id = page.action.id /\ e.state = None
        BY <1>1, Running1, NoneTypes DEF NoExecution, Shown, Act, ErrorSet, GoodPage, running
    <2>4. a.mode = page.action.mode /\ a.id = page.action.id /\ ~a.confirmed
        BY <1>1, <1>3, Running1 DEF Act
    <2>5. page' = [page EXCEPT !.stopping = TRUE, !.action = a, !.execution = e]
        BY <1>3 DEF Stop
    <2> HIDE DEF a, e
    <2>6. page' \in PageSet
        BY <1>1, <2>1, <2>3, <2>5, Running1 DEF PageSet, ActOrNone, ShownOrNone
    <2> QED BY <1>1, <2>2, <2>3, <2>4, <2>5, <2>6, Running1 DEF GoodPage, PageSet
<1> QED BY <1>2, <1>3

LEMMA UserGood ==
    ASSUME IInv, User
    PROVE  GoodPage(page')
<1> GoodPage(page) /\ page \in PageSet
    BY DEF IInv, GoodPage
<1>1. CASE Run
    BY <1>1, StartGood, NoneTypes DEF Run, ModeSet
<1>2. ASSUME NEW id \in Uuid, Submit(id) PROVE GoodPage(page')
    BY <1>2, StartGood DEF Submit, ModeSet, MaybeUuid
<1>3. CASE Stop
    BY <1>3, StopGood
<1>4. ASSUME NEW code \in Code, CodeChanges(code) PROVE GoodPage(page')
    BY <1>4 DEF CodeChanges, GoodPage, PageSet
<1>5. CASE OpenReset \/ KeepEditing
    BY <1>5 DEF OpenReset, KeepEditing, Only, GoodPage, PageSet, running
<1>6. CASE resetDraft
    BY <1>6, RunnerAssumption, NoneTypes DEF resetDraft, Only, GoodPage, PageSet
<1>7. CASE Leave
    <2>1. PICK version \in {page.version, current} \ {0} : page' = NewPage(version, page.code)
        BY <1>7 DEF Leave
    <2>2. version \in Version
        BY <2>1, RunnerAssumption DEF IInv, SiteTypes, PageSet, Version
    <2> QED BY <2>1, <2>2, NoneTypes DEF NewPage, GoodPage, PageSet
<1> QED BY <1>1, <1>2, <1>3, <1>4, <1>5, <1>6, <1>7 DEF User

----------------------------------------------------------------------------
(* Steps of the page's requests.                                           *)

LEMMA PauseEndsGood ==
    ASSUME GoodPage(page), PauseEnds
    PROVE  /\ GoodPage(page')
           /\ page'.action = [page.action EXCEPT !.phase = "asking", !.attempt = @ + 1]
           /\ page'.version = page.version /\ page'.execution = page.execution
<1>1. running /\ page.action.phase = "pausing"
    BY DEF PauseEnds, Awaits
<1> DEFINE id == page.action.id
           a == [page.action EXCEPT !.phase = "asking", !.attempt = @ + 1]
<1>2. page' = [page EXCEPT !.action.phase = "asking", !.action.attempt = @ + 1, !.action.id = id,
                           !.execution.id = id]
    BY DEF PauseEnds, RetryId
<1>3. [page.execution EXCEPT !.id = id] = page.execution
    BY <1>1, Running1 DEF Shown, GoodPage, running
<1>4. [page.action EXCEPT !.phase = "asking", !.attempt = @ + 1, !.id = id] = a
    BY <1>1, Running1 DEF Act
<1>5. page' = [page EXCEPT !.action = a]
    BY <1>1, <1>2, <1>3, <1>4, Running1 DEF PageSet
<1>6. page.action.attempt + 1 \in Attempt
    BY <1>1, Running1, RunnerAssumption DEF GoodPage, GoodAction, Act, Attempt, running
<1>7. a \in Act
    BY <1>1, <1>6, Running1 DEF Act, PhaseSet
<1>8. GoodAction(a)
    BY <1>1, Running1 DEF GoodPage, GoodAction, Act, running
<1>9. a.mode = page.action.mode /\ a.id = page.action.id /\ a.confirmed = page.action.confirmed
    BY <1>1, Running1 DEF Act
<1> HIDE DEF a
<1>10. GoodPage(page')
    BY <1>1, <1>5, <1>7, <1>8, <1>9, ActionGood
<1> QED BY <1>1, <1>5, <1>10, Running1 DEF PageSet, a

\* A poll: the submission is there.
LEMMA PollFacts ==
    ASSUME IInv, Awaits("watching") \/ Awaits("polling") \/ Awaits("refreshing")
    PROVE  /\ running /\ page.action.mode = "submit" /\ page.action.confirmed
           /\ page.action.id \in Uuid /\ outcome[page.action.id] # "none"
           /\ page.action \in Act
<1>1. running /\ page.action.phase \notin {"asking", "pausing"}
    BY DEF Awaits
<1>2. GoodPage(page) /\ GoodAction(page.action) /\ page.action \in Act
    BY <1>1, Running1 DEF IInv, GoodPage, running
<1>3. page.action.mode = "submit" /\ page.action.confirmed /\ page.action.id \in Uuid
    BY <1>1, <1>2 DEF GoodAction, Act, ModeSet
<1> QED BY <1>1, <1>2, <1>3 DEF IInv, SendInv

LEMMA SeenTrue ==
    ASSUME IInv, PollRead
    PROVE  \E job \in Snapshot : /\ page' = [page EXCEPT !.action.seen = job]
                                 /\ TrueOf(page.action.id, job)
<1>1. page.action.id \in Uuid /\ outcome[page.action.id] # "none"
    BY PollFacts DEF PollRead
<1>2. PICK job \in Snapshots(page.action.id) : page' = [page EXCEPT !.action.seen = job]
    BY DEF PollRead, Only
<1>3. JudgeTypes /\ JudgeInv
    BY DEF IInv
<1>4. job \in Snapshot /\ TrueOf(page.action.id, job)
    BY <1>1, <1>3, SnapshotsTrue
<1> QED BY <1>2, <1>4

LEMMA RequestsGood ==
    ASSUME IInv, Requests
    PROVE  GoodPage(page')
<1> GoodPage(page) /\ page \in PageSet
    BY DEF IInv, GoodPage
<1>1. CASE SubmitAnswered
    <2>1. Asks("submit") /\ running /\ page.action.mode = "submit" /\ page.action.id \in Uuid
        BY <1>1, Running1 DEF SubmitAnswered, Asks, Awaits, GoodPage, GoodAction, running
    <2>2. \A job \in IF outcome[page.action.id] = "none" THEN {Queued} ELSE Snapshots(page.action.id) :
              job \in Snapshot
        BY <2>1, QueuedTrue, SnapshotsTrue DEF IInv
    <2>3. Sent(page).id = page.action.id
        BY DEF Sent
    <2>4. \/ \E status : page' = sendFails(status)
          \/ \E job \in Snapshot : page' = show(page, job)
        BY <1>1, <2>2, <2>3 DEF SubmitAnswered
    <2> QED BY <2>1, <2>4, sendFailsGood, showGood
<1>2. CASE SubmitFails
    BY <1>2, sendFailsGood DEF SubmitFails
<1>3. CASE PauseEnds
    BY <1>3, PauseEndsGood
<1>4. CASE RunAnswered
    <2>1. PICK result \in Verdicts : page' = Over([page EXCEPT !.execution =
              [NoExecution("example", None) EXCEPT !.result = result, !.code = page.action.code]])
        BY <1>4 DEF RunAnswered, Only
    <2>2. running
        BY <1>4 DEF RunAnswered, Asks, Awaits
    <2> DEFINE e == [NoExecution("example", None) EXCEPT !.result = result, !.code = page.action.code]
    <2>3. e \in Shown
        BY <2>2, Running1, NoneTypes
           DEF NoExecution, Shown, ModeSet, ResultOrNone, CodeOrNone, Act
    <2> HIDE DEF e
    <2>4. [page EXCEPT !.execution = e] \in PageSet
        BY <2>3 DEF PageSet, ShownOrNone
    <2> QED BY <2>1, <2>4, OverGood DEF e
<1>5. CASE RunFails
    BY <1>5, FailedGood, ReasonType DEF RunFails, Asks, Awaits, Only
<1>6. CASE PollSent
    <2>1. page' = [page EXCEPT !.action.phase = "polling"]
        BY <1>6 DEF PollSent, Only
    <2> DEFINE a == [page.action EXCEPT !.phase = "polling"]
    <2>2. running /\ page.action \in Act /\ page.action.mode = "submit" /\ page.action.confirmed
        BY <1>6, PollFacts DEF PollSent
    <2>3. a \in Act /\ GoodAction(a)
        BY <2>2 DEF Act, PhaseSet, GoodPage, GoodAction, running
    <2>4. a.mode = page.action.mode /\ a.id = page.action.id /\ a.confirmed = page.action.confirmed
        BY <2>2 DEF Act
    <2> HIDE DEF a
    <2>5. GoodPage([page EXCEPT !.action = a])
        BY <2>2, <2>3, <2>4, ActionGood
    <2> QED BY <2>1, <2>5 DEF a
<1>7. CASE PollRead
    <2>1. PICK job \in Snapshot : page' = [page EXCEPT !.action.seen = job]
        BY <1>7, SeenTrue
    <2> DEFINE a == [page.action EXCEPT !.seen = job]
    <2>2. running /\ page.action \in Act /\ page.action.mode = "submit" /\ page.action.confirmed
        BY <1>7, PollFacts DEF PollRead
    <2>3. a \in Act /\ GoodAction(a)
        BY <2>2 DEF Act, SeenOrNone, GoodPage, GoodAction, running
    <2>4. a.mode = page.action.mode /\ a.id = page.action.id /\ a.confirmed = page.action.confirmed
        BY <2>2 DEF Act
    <2> HIDE DEF a
    <2>5. GoodPage([page EXCEPT !.action = a])
        BY <2>2, <2>3, <2>4, ActionGood
    <2> QED BY <2>1, <2>5 DEF a
<1>8. CASE PollAnswered
    <2>1. page.action.seen \in Snapshot /\ running /\ page.action.mode = "submit"
        BY <1>8, PollFacts DEF PollAnswered, Act, SeenOrNone
    <2> QED BY <1>8, <2>1, showGood DEF PollAnswered, Only
<1>9. CASE PollFails
    <2>1. running /\ page.action \in Act /\ page.action.mode = "submit" /\ page.action.confirmed
        BY <1>9, PollFacts DEF PollFails
    <2>2. CASE page.action.failures = Failures
        BY <1>9, <2>1, <2>2, FailedGood DEF PollFails, Only, ErrorSet
    <2>3. CASE page.action.failures # Failures
        <3>1. page' = [page EXCEPT !.action.failures = @ + 1, !.action.phase = "watching",
                                   !.action.seen = None]
            BY <1>9, <2>3 DEF PollFails, Only
        <3> DEFINE a == [page.action EXCEPT !.failures = @ + 1, !.phase = "watching", !.seen = None]
        <3>2. page.action.failures + 1 \in Failure
            BY <2>1, <2>3, RunnerAssumption DEF Act, Failure
        <3>3. a \in Act /\ GoodAction(a)
            BY <2>1, <3>2, NoneTypes DEF Act, PhaseSet, GoodPage, GoodAction, running
        <3>4. a.mode = page.action.mode /\ a.id = page.action.id /\ a.confirmed = page.action.confirmed
            BY <2>1 DEF Act
        <3>5. page' = [page EXCEPT !.action = a]
            BY <3>1, <2>1 DEF PageSet, Act
        <3> HIDE DEF a
        <3> QED BY <2>1, <3>3, <3>4, <3>5, ActionGood
    <2> QED BY <2>2, <2>3
<1>10. CASE RefreshEnds \/ Unwind
    BY <1>10, OverGood DEF RefreshEnds, Unwind, Only
<1>11. CASE Canceling
    <2>1. page' = page \/ page' = [page EXCEPT !.stopping = FALSE]
        BY <1>11 DEF Canceling, CancelAnswered, CancelFails, LateCancel
    <2>2. GoodPage([page EXCEPT !.stopping = FALSE])
        BY DEF GoodPage, PageSet
    <2> QED BY <2>1, <2>2
<1>12. ASSUME NEW m \in late, LateSubmit(m) PROVE GoodPage(page')
    BY <1>12 DEF LateSubmit
<1> QED BY <1>1, <1>2, <1>3, <1>4, <1>5, <1>6, <1>7, <1>8, <1>9, <1>10, <1>11, <1>12
        DEF Requests, Submitting, Running, Polling

----------------------------------------------------------------------------
(* What a step may do without a thought of what is sent or shown.          *)

\* An execution that says nothing of a submission.
Blank(e) == e.state = None /\ (e.mode = "submit" => e.result = None)

\* Nothing starts, nothing is confirmed and nothing new is said of a submission.
QuietPage ==
    /\ page'.version \in {page.version} \cup ({current} \ {0})
    /\ page'.action # None =>
          /\ running /\ page'.version = page.version
          /\ page'.action.mode = page.action.mode /\ page'.action.id = page.action.id
          /\ page'.action.code = page.action.code
          /\ page'.action.confirmed = page.action.confirmed
          /\ page'.action.seen \in {page.action.seen, None}
    /\ page'.execution # None => page'.execution = page.execution \/ Blank(page'.execution)

\* What is recorded was sent, and was not refused for good.
RecordsSent ==
    \A id \in Uuid :
        \/ recorded'[id] = recorded[id]
        \/ \E m \in Sends : m.id = id /\ recorded'[id] = m.input

RefusedStay == \A id \in refused : outcome'[id] = "none"

LEMMA SentType ==
    ASSUME GoodPage(page), running, page.action.mode = "submit"
    PROVE  /\ Sent(page) \in Message /\ Sent(page).id = page.action.id
           /\ Sent(page).input.code = page.action.code /\ Sent(page).input.version = page.version
           /\ Sent(page) \in Sends
<1>1. page.action.id \in Uuid /\ page.action.code \in Code /\ page.version \in Version
    BY Running1 DEF GoodPage, GoodAction, Act, running
<1> QED BY <1>1 DEF Sent, Message, Input, Version, Sends, SendsOf, running

LEMMA SendsType == ASSUME IInv PROVE Sends \subseteq Message
BY SentType DEF IInv, RestTypes, Sends, SendsOf, running

LEMMA GivenUpSent == GivenUp \subseteq SendsOf(page)
BY DEF GivenUp, SendsOf, Awaits, running

LEMMA AcceptFacts ==
    ASSUME IInv, NEW m \in Sends, Accept(m.id, m.input)
    PROVE  JudgeKeeps /\ RecordsSent /\ RefusedStay
<1>1. m \in Message /\ m.id \in Uuid /\ m.input \in Input
    BY SendsType DEF Message
<1>2. JudgeKeeps
    BY <1>1, AcceptKeeps DEF IInv
<1>3. CASE UNCHANGED judgeVars
    BY <1>2, <1>3 DEF RecordsSent, RefusedStay, IInv, VersionInv, judgeVars, contractVars
<1>4. CASE outcome[m.id] = "none" /\ acceptError(m.id, m.input) = "ok" /\ Judge!Submit(m.id)
           /\ recorded' = [recorded EXCEPT ![m.id] = m.input]
    <2>1. RecordsSent
        BY <1>1, <1>4 DEF RecordsSent, IInv, JudgeTypes
    <2>2. current # 0 /\ current = m.input.version
        BY <1>4 DEF acceptError, currentSpec
    <2>3. m.id \notin refused
        BY <2>2, <1>1 DEF IInv, VersionInv, Input, SiteTypes
    <2>4. outcome' = [outcome EXCEPT ![m.id] = "pending"]
        BY <1>4 DEF Judge!Submit
    <2> QED BY <1>2, <2>1, <2>3, <2>4 DEF RefusedStay, IInv, VersionInv, JudgeTypes, RestTypes
<1> QED BY <1>2, <1>3, <1>4 DEF Accept

LEMMA StayFacts ==
    ASSUME IInv, RecordsStay
    PROVE  RecordsSent /\ RefusedStay
BY DEF RecordsStay, RecordsSent, RefusedStay, IInv, VersionInv, RestTypes

LEMMA IdleFacts ==
    ASSUME IInv, UNCHANGED judgeVars
    PROVE  JudgeKeeps /\ RecordsSent /\ RefusedStay
<1>1. RecordsStay
    BY DEF RecordsStay, judgeVars, contractVars
<1> QED BY <1>1, JudgeIdle, StayFacts DEF IInv

LEMMA QuietSends ==
    ASSUME IInv, QuietPage, late' \subseteq late \cup GivenUp
    PROVE  Sends' \subseteq Sends
<1>1. SendsOf(page)' \subseteq SendsOf(page)
    BY DEF QuietPage, SendsOf, Sent, running
<1> QED BY <1>1, GivenUpSent DEF Sends

LEMMA SendKept ==
    ASSUME IInv, JudgeKeeps, RecordsSent, Sends' \subseteq Sends, pressed' = pressed,
           running' /\ page'.action.confirmed => outcome'[page'.action.id] # "none"
    PROVE  SendInv'
<1>1. \A id \in Uuid : recorded'[id] # None => pressed[id] # None
    BY DEF RecordsSent, IInv, SendInv
<1>2. \A m \in Sends : recorded'[m.id] \in {None, m.input}
    <2> TAKE m \in Sends
    <2>1. m.id \in Uuid
        BY SendsType DEF Message
    <2> QED BY <2>1 DEF RecordsSent, IInv, SendInv
<1> QED BY <1>1, <1>2 DEF IInv, SendInv

\* What is true stays true.
LEMMA QuietTruth ==
    ASSUME IInv, QuietPage, JudgeKeeps
    PROVE  TruthInv'
<1>1. ASSUME page'.execution # None PROVE TrueExecution(page.execution)'
    <2>1. CASE Blank(page'.execution)
        BY <2>1 DEF Blank, TrueExecution
    <2>2. CASE page'.execution = page.execution
        BY <1>1, <2>2 DEF IInv, TruthInv, TrueExecution, TrueOf, JudgeKeeps
    <2> QED BY <1>1, <2>1, <2>2 DEF QuietPage
<1>2. ASSUME running', page'.action.seen # None
      PROVE  page'.action.id \in Uuid /\ TrueOf(page.action.id, page.action.seen)'
    <2>1. running /\ page'.action.id = page.action.id /\ page'.action.seen = page.action.seen
        BY <1>2 DEF QuietPage, running
    <2>2. page.action.id \in Uuid
        BY <1>2, <2>1 DEF IInv, TruthInv
    <2> QED BY <1>2, <2>1, <2>2 DEF IInv, TruthInv, TrueOf, JudgeKeeps
<1> QED BY <1>1, <1>2 DEF TruthInv

\* The judge has every submission that the page has seen a word of.
LEMMA ConfirmedStays ==
    ASSUME IInv, JudgeKeeps, QuietPage, running', page'.action.confirmed
    PROVE  outcome'[page'.action.id] # "none"
<1>1. running /\ page.action.confirmed /\ page'.action.id = page.action.id
    BY DEF QuietPage, running
<1>2. page.action.id \in Uuid /\ outcome[page.action.id] # "none"
    BY <1>1, Running1 DEF IInv, GoodPage, GoodAction, Act, ModeSet, SendInv, running
<1> QED BY <1>1, <1>2 DEF IInv, JudgeInv, JudgeKeeps

LEMMA QuietVersion ==
    ASSUME IInv, QuietPage, RefusedStay, Sends' \subseteq Sends,
           UNCHANGED <<current, pressed, refused>>
    PROVE  VersionInv'
<1>1. page'.version = page.version \/ page'.version = current
    BY DEF QuietPage
<1>2. current = 0 \/ page'.version <= current
    BY <1>1 DEF IInv, VersionInv, SiteTypes
<1> QED BY <1>2 DEF IInv, VersionInv, RefusedStay

\* Everything but the sets of messages and the count of events.
LEMMA QuietStep ==
    ASSUME IInv, QuietPage, GoodPage(page'), JudgeKeeps, RecordsSent, RefusedStay,
           late' \subseteq late \cup GivenUp, cancels' \subseteq [id : Uuid, awaited : BOOLEAN],
           UNCHANGED <<current, pressed, refused>>,
           env' \in Environments, signedIn' \in BOOLEAN, events' \in 0..MaxEvents
    PROVE  IInv'
<1>1. Sends' \subseteq Sends
    BY QuietSends
<1>2. late' \subseteq Message
    BY SendsType, GivenUpSent DEF Sends
<1>3. SiteTypes' /\ RestTypes'
    BY <1>2 DEF IInv, SiteTypes, RestTypes, Message
<1>4. SendInv'
    BY <1>1, SendKept, ConfirmedStays
<1>5. VersionInv' /\ TruthInv'
    BY <1>1, QuietVersion, QuietTruth
<1>6. GoodPage(page)'
    BY DEF GoodPage
<1> QED BY <1>3, <1>4, <1>5, <1>6 DEF IInv, JudgeKeeps

----------------------------------------------------------------------------
(* Every step.                                                             *)

LEMMA UserQuiet ==
    ASSUME IInv, Stop \/ OpenReset \/ KeepEditing \/ resetDraft \/ Leave
                 \/ \E code \in Code : CodeChanges(code)
    PROVE  QuietPage
<1>1. page \in PageSet
    BY DEF IInv, GoodPage
<1>2. CASE Stop
    <2>1. running
        BY <1>2 DEF Stop
    <2>2. CASE page.action.confirmed
        BY <1>1, <1>2, <2>1, <2>2 DEF Stop, QuietPage, PageSet
    <2>3. CASE ~page.action.confirmed
        <3> DEFINE a == [page.action EXCEPT !.aborted = TRUE]
                   e == [NoExecution(page.execution.mode, page.action.id) EXCEPT !.error = "stopped"]
        <3>1. page' = [page EXCEPT !.stopping = TRUE, !.action = a, !.execution = e]
            BY <1>2, <2>3 DEF Stop
        <3>2. /\ a.mode = page.action.mode /\ a.id = page.action.id /\ a.code = page.action.code
              /\ a.confirmed = page.action.confirmed /\ a.seen = page.action.seen
            BY <2>1, Running1 DEF IInv, Act
        <3>3. Blank(e)
            BY DEF Blank, NoExecution
        <3> HIDE DEF a, e
        <3> QED BY <1>1, <2>1, <3>1, <3>2, <3>3 DEF QuietPage, PageSet
    <2> QED BY <2>2, <2>3
<1>3. CASE OpenReset \/ KeepEditing
    BY <1>1, <1>3 DEF OpenReset, KeepEditing, Only, QuietPage, PageSet, running
<1>4. CASE resetDraft
    BY <1>1, <1>4 DEF resetDraft, Only, QuietPage, PageSet, running
<1>5. CASE Leave
    BY <1>1, <1>5 DEF Leave, QuietPage, NewPage
<1>6. CASE \E code \in Code : CodeChanges(code)
    BY <1>1, <1>6 DEF CodeChanges, QuietPage, PageSet, running
<1> QED BY <1>2, <1>3, <1>4, <1>5, <1>6

\* What starts is blank, and with a UUID of its own.
LEMMA StartStep ==
    ASSUME IInv, NEW mode \in ModeSet, NEW id \in MaybeUuid, Start(mode, id),
           mode = "submit" => Submit(id) /\ id \in Uuid,
           mode = "example" => UNCHANGED pressed
    PROVE  IInv'
<1>1. /\ page.action = None /\ page \in PageSet /\ page'.version = page.version
      /\ page'.action = NewAction(mode, id, page.code) /\ page'.execution = NoExecution(mode, id)
    BY DEF IInv, GoodPage, Start, mayStart, PageSet
<1>2. UNCHANGED <<judgeVars, siteVars, late, cancels, refused, events>>
    BY DEF Start
<1>3. GoodPage(page') /\ page'.action # None
    BY StartGood DEF IInv
<1>4. JudgeKeeps /\ RecordsSent /\ RefusedStay
    BY <1>2, IdleFacts
<1>5. /\ page'.action.mode = mode /\ page'.action.id = id /\ page'.action.code = page.code
      /\ ~page'.action.confirmed /\ page'.action.seen = None /\ Blank(page'.execution)
    BY <1>1 DEF NewAction, NoExecution, Blank
<1>6. TruthInv'
    BY <1>5 DEF TruthInv, TrueExecution, Blank
<1>7. Sends = late
    BY <1>1 DEF Sends, SendsOf
<1>8. CASE mode = "example"
    <2>1. Sends' = late
        BY <1>2, <1>5, <1>8 DEF Sends, SendsOf
    <2>2. SendInv'
        BY <1>4, <1>5, <1>7, <1>8, <2>1, SendKept
    <2>3. VersionInv'
        BY <1>1, <1>2, <1>7, <1>8, <2>1 DEF IInv, VersionInv, judgeVars, contractVars, siteVars
    <2>4. SiteTypes' /\ RestTypes'
        BY <1>2, <1>8 DEF IInv, SiteTypes, RestTypes, siteVars
    <2>5. GoodPage(page)'
        BY <1>3 DEF GoodPage
    <2> QED BY <1>4, <1>6, <2>2, <2>3, <2>4, <2>5 DEF IInv, JudgeKeeps
<1>9. CASE mode = "submit"
    <2> DEFINE m == [id |-> id, input |-> [code |-> page.code, version |-> page.version]]
    <2>1. /\ id \in Uuid /\ pressed[id] = None /\ recorded[id] = None
          /\ pressed' = [pressed EXCEPT ![id] = id]
        BY <1>9 DEF Submit
    <2>2. Sends' = late \cup {m}
        BY <1>1, <1>2, <1>3, <1>5, <1>9 DEF Sends, SendsOf, Sent
    <2>3. m.id = id
        OBVIOUS
    <2> HIDE DEF m
    <2>4. \A n \in late : n.id # id /\ n.id \in Uuid
        BY <1>7, <2>1, SendsType DEF IInv, SendInv, Message
    <2>5. id # None /\ pressed \in [Uuid -> MaybeUuid] /\ id \in MaybeUuid
        BY <2>1, NoneFacts DEF IInv, RestTypes
    <2>6. recorded' = recorded /\ outcome' = outcome /\ refused' = refused /\ current' = current
        BY <1>2 DEF judgeVars, contractVars, siteVars
    <2>7. \A n \in late : pressed'[n.id] # None /\ recorded[n.id] \in {None, n.input}
        BY <1>7, <2>1, <2>4, <2>5 DEF IInv, SendInv
    <2>8. SendInv'
        <3>1. \A i \in Uuid : pressed'[i] \in {None, i} /\ (recorded[i] # None => pressed'[i] # None)
            BY <2>1, <2>5 DEF IInv, SendInv
        <3>2. \A n \in late \cup {m} : pressed'[n.id] # None /\ recorded[n.id] \in {None, n.input}
            BY <2>1, <2>3, <2>5, <2>7
        <3>3. \A n, k \in late \cup {m} : n.id = k.id => n.input = k.input
            BY <1>7, <2>3, <2>4 DEF IInv, SendInv
        <3> QED BY <1>5, <2>2, <2>6, <3>1, <3>2, <3>3 DEF SendInv
    <2>9. VersionInv'
        <3>1. id \notin refused
            BY <2>1 DEF IInv, VersionInv
        <3>2. \A n \in late \cup {m} : n.id \in refused => current = 0 \/ n.input.version < current
            BY <1>7, <2>3, <3>1 DEF IInv, VersionInv
        <3>3. \A i \in refused : outcome[i] = "none" /\ pressed'[i] # None
            BY <2>1, <2>5, <3>1 DEF IInv, VersionInv, RestTypes
        <3> QED BY <1>1, <2>2, <2>6, <3>2, <3>3 DEF IInv, VersionInv
    <2>10. SiteTypes' /\ RestTypes'
        BY <1>2, <2>1, <2>5 DEF IInv, SiteTypes, RestTypes, siteVars
    <2>11. GoodPage(page)'
        BY <1>3 DEF GoodPage
    <2> QED BY <1>4, <1>6, <2>8, <2>9, <2>10, <2>11 DEF IInv, JudgeKeeps
<1> QED BY <1>8, <1>9 DEF ModeSet

LEMMA UserStep == ASSUME IInv, User PROVE IInv'
<1>1. CASE Run
    BY <1>1, StartStep, NoneTypes DEF Run, ModeSet
<1>2. ASSUME NEW id \in Uuid, Submit(id) PROVE IInv'
    BY <1>2, StartStep DEF Submit, ModeSet, MaybeUuid
<1>3. CASE Stop \/ OpenReset \/ KeepEditing \/ resetDraft \/ Leave
           \/ \E code \in Code : CodeChanges(code)
    <2>1. QuietPage /\ GoodPage(page')
        BY <1>3, UserQuiet, UserGood DEF User
    <2>2. UNCHANGED <<judgeVars, siteVars, pressed, refused>> /\ late' \subseteq late \cup GivenUp
        BY <1>3 DEF Stop, OpenReset, KeepEditing, resetDraft, Leave, CodeChanges, Only
    <2>3. events' \in 0..MaxEvents
        BY <1>3, RunnerAssumption DEF Stop, OpenReset, KeepEditing, resetDraft, Leave, CodeChanges, Only,
                                      Happens, IInv, SiteTypes
    <2>4. cancels' \subseteq [id : Uuid, awaited : BOOLEAN]
        <3>1. CASE Stop
            <4>1. running /\ (page.action.confirmed => page.action.id \in Uuid)
                BY <3>1, Running1 DEF Stop, IInv, GoodPage, GoodAction, Act, ModeSet, running
            <4>2. \/ cancels' = cancels
                  \/ /\ page.action.id \in Uuid
                     /\ cancels' = cancels \cup {[id |-> page.action.id, awaited |-> TRUE]}
                BY <3>1, <4>1 DEF Stop
            <4>3. cancels \subseteq [id : Uuid, awaited : BOOLEAN]
                BY DEF IInv, RestTypes
            <4>4. page.action.id \in Uuid =>
                      [id |-> page.action.id, awaited |-> TRUE] \in [id : Uuid, awaited : BOOLEAN]
                OBVIOUS
            <4> QED BY <4>2, <4>3, <4>4
        <3>2. CASE Leave
            BY <3>2 DEF Leave, IInv, RestTypes
        <3>3. CASE OpenReset \/ KeepEditing \/ resetDraft \/ \E code \in Code : CodeChanges(code)
            BY <3>3 DEF OpenReset, KeepEditing, resetDraft, CodeChanges, Only, IInv, RestTypes
        <3> QED BY <1>3, <3>1, <3>2, <3>3
    <2>5. JudgeKeeps /\ RecordsSent /\ RefusedStay
        BY <2>2, IdleFacts
    <2> QED BY <2>1, <2>2, <2>3, <2>4, <2>5, QuietStep DEF siteVars, IInv, SiteTypes
<1> QED BY <1>1, <1>2, <1>3 DEF User

\* The website never refuses the page's own requests for good.
LEMMA OwnRefusal ==
    /\ refusal(Own("POST"), env) \in {0, 401, 503}
    /\ \A status \in {401, 503} : final(status) => status \in SignIn
<1>1. protect(Own("POST"), env)
    BY DEF protect, Own, hosts
<1>2. jsonBody(Own("POST")) = 0
    BY DEF jsonBody, Own, bodyStatus
<1>3. refusal(Own("POST"), env) \in {0, 401, 503}
    BY <1>1, <1>2 DEF refusal
<1>4. \A status \in {401, 503} : final(status) => status \in SignIn
    BY DEF final, SignIn
<1> QED BY <1>3, <1>4

\* Nor does a judge in trouble.
LEMMA TroubleNotFinal == \A error \in Troubles : ~final(judgeStatus(error))
<1> TAKE error \in Troubles
<1> DEFINE codes == {"Canceled", "DeadlineExceeded", "NotFound", "AlreadyExists", "FailedPrecondition",
                     "ResourceExhausted", "Unavailable"}
           codesOf == {code \in DOMAIN statusCodes : error \in statusCodes[code]}
<1>1. DOMAIN statusCodes = codes
    BY DEF statusCodes
<1>2. codesOf \subseteq {"DeadlineExceeded", "Unavailable"}
    BY <1>1 DEF statusCodes, Troubles
<1>3. rpcError(error) \in codesOf \cup {"Unavailable"}
    BY DEF rpcError
<1>4. rpcError(error) \in {"DeadlineExceeded", "Unavailable"}
    BY <1>2, <1>3
<1>5. judgeError(rpcError(error)) \in {503, 504}
    BY <1>4 DEF judgeError, JUDGE_ERRORS
<1>6. judgeStatus(error) \in {503, 504}
    BY <1>5 DEF judgeStatus, Troubles
<1> QED BY <1>6 DEF final

\* The refusals of a submission are not taken for an acceptance.
LEMMA RefusalsAreNotOK ==
    \A error \in {"errProblemNotFound", "errProblemChanged"} : judgeStatus(error) # OK
BY DEF judgeStatus, judgeError, JUDGE_ERRORS, OK

LEMMA NotFinal == ~final(NoStatus) /\ ~final(judgeStatus("ok"))
BY DEF final, NoStatus, judgeStatus, OK

\* A failed attempt leaves a blank display, or a pause.
LEMMA FailedQuiet ==
    ASSUME GoodPage(page), running, NEW error, page' = Failed(page, error)
    PROVE  QuietPage
<1> DEFINE e == [NoExecution(page.action.mode, page.action.id) EXCEPT !.error = error,
                                                                     !.code = page.action.code]
<1>1. page'.action = None /\ page'.version = page.version /\ page'.execution = e
    BY Running1 DEF Failed, Over, PageSet
<1>2. Blank(e)
    BY DEF Blank, NoExecution
<1> QED BY <1>1, <1>2 DEF QuietPage

LEMMA ChangeQuiet ==
    ASSUME GoodPage(page), running, NEW a, page' = [page EXCEPT !.action = a],
           a.mode = page.action.mode, a.id = page.action.id, a.code = page.action.code,
           a.confirmed = page.action.confirmed, a.seen \in {page.action.seen, None}
    PROVE  QuietPage
BY Running1 DEF QuietPage, PageSet

LEMMA sendFailsQuiet ==
    ASSUME GoodPage(page), running, NEW status, page' = sendFails(status)
    PROVE  QuietPage
<1>1. CASE page' = Failed(page, Reason(status))
    BY <1>1, FailedQuiet
<1>2. CASE page' = [page EXCEPT !.action.phase = "pausing"]
    <2> DEFINE a == [page.action EXCEPT !.phase = "pausing"]
    <2>1. page' = [page EXCEPT !.action = a]
        BY <1>2
    <2>2. /\ a.mode = page.action.mode /\ a.id = page.action.id /\ a.code = page.action.code
          /\ a.confirmed = page.action.confirmed /\ a.seen = page.action.seen
        BY Running1 DEF Act
    <2> HIDE DEF a
    <2> QED BY <2>1, <2>2, ChangeQuiet
<1> QED BY <1>1, <1>2 DEF sendFails

LEMMA OverQuiet ==
    ASSUME NEW p \in PageSet, p.version = page.version, page' = Over(p),
           p.execution # None => p.execution = page.execution \/ Blank(p.execution)
    PROVE  QuietPage
BY DEF QuietPage, Over, PageSet

\* What is said of s is true after the step.
TrueThen(id, s) ==
    /\ s.state \in Judge!Ends => outcome'[id] = s.state /\ s.result = verdict'[id]
    /\ s.state \in Watched => s.result = None

\* A snapshot of the page's own submission is shown: it is the same submission with the same code.
LEMMA showStep ==
    ASSUME IInv, running, page.action.mode = "submit", GoodPage(page'),
           NEW job \in Snapshot, page' = show(page, job),
           JudgeKeeps, RecordsSent, RefusedStay, outcome'[page.action.id] # "none",
           TrueThen(page.action.id, job),
           UNCHANGED <<siteVars, late, cancels, pressed, refused, events>>
    PROVE  IInv'
<1> DEFINE id == page.action.id
           e == shown(page, job)
<1>1. /\ page'.action # None /\ page'.action.mode = "submit" /\ page'.action.id = id
      /\ page'.action.code = page.action.code /\ page'.version = page.version
      /\ page'.action.seen = None /\ page'.execution = e
    <2> DEFINE a == [page.action EXCEPT !.confirmed = TRUE, !.failures = 0, !.attempt = 1,
                        !.seen = None,
                        !.phase = IF job.state \in Watched THEN "watching" ELSE "refreshing"]
    <2>1. show(page, job) = [page EXCEPT !.execution = e, !.action = a]
        BY DEF show
    <2>2. page.action \in Act /\ page \in PageSet
        BY Running1 DEF IInv
    <2>3. a \in Act
        BY <2>2, NoneTypes DEF Act, PhaseSet
    <2>4. a.mode = "submit" /\ a.id = id /\ a.code = page.action.code /\ a.seen = None
        BY <2>2 DEF Act
    <2> HIDE DEF a, e
    <2> QED BY <2>1, <2>2, <2>3, <2>4, NoneFacts DEF PageSet
<1>2. Sent(page') = Sent(page)
    BY <1>1 DEF Sent
<1>3. Sends' = Sends
    BY <1>1, <1>2 DEF Sends, SendsOf, running
<1>4. SendInv'
    BY <1>1, <1>3, SendKept
<1>5. VersionInv'
    BY <1>1, <1>3 DEF IInv, VersionInv, RefusedStay, siteVars
<1>6. /\ id \in Uuid /\ Sent(page) \in Sends /\ Sent(page).id = id
      /\ Sent(page).input.code = page.action.code
    BY SentType, Running1 DEF IInv, GoodPage, GoodAction, running
<1>7. recorded'[id] # None
    BY <1>6 DEF JudgeKeeps, JudgeInv
<1>8. recorded'[id] = Sent(page).input
    BY <1>3, <1>4, <1>6, <1>7 DEF SendInv
<1>9. /\ e.mode = "submit" /\ e.id = id /\ e.state = job.state /\ e.result = job.result
      /\ e.code = page.action.code /\ e.state # None
    BY NoneFacts DEF shown, Snapshot
<1> HIDE DEF e
<1>10. TrueExecution(page.execution)'
    BY <1>1, <1>6, <1>7, <1>8, <1>9 DEF TrueExecution, TrueOf, TrueThen
<1>11. TruthInv'
    BY <1>1, <1>10 DEF TruthInv
<1>12. SiteTypes' /\ RestTypes'
    BY DEF IInv, SiteTypes, RestTypes, siteVars
<1>13. GoodPage(page)'
    BY DEF GoodPage
<1> QED BY <1>4, <1>5, <1>11, <1>12, <1>13 DEF IInv, JudgeKeeps

\* An answer, which may be the last: then the version has been replaced.
LEMMA SubmitAnsweredStep == ASSUME IInv, SubmitAnswered PROVE IInv'
<1> DEFINE m == Sent(page)
           id == page.action.id
<1>1. running /\ page.action.mode = "submit" /\ GoodPage(page)
    BY DEF SubmitAnswered, Asks, Awaits, IInv
<1>2. /\ m \in Message /\ m.id = id /\ m \in Sends /\ id \in Uuid /\ m.input.version = page.version
    BY <1>1, SentType DEF Message
<1>3. UNCHANGED <<siteVars, late, cancels, pressed, events>>
    BY DEF SubmitAnswered
<1>4. GoodPage(page')
    BY RequestsGood DEF Requests, Submitting
<1>5. JudgeKeeps /\ RecordsSent /\ RefusedStay
    BY <1>2, AcceptFacts, IdleFacts DEF SubmitAnswered, Arrives
<1>6. CASE submitStatus(m) = OK
    <2>1. refusal(Own("POST"), env) = 0
        BY <1>6, OwnRefusal DEF submitStatus, OK
    <2>2. Accept(id, m.input)
        BY <1>2, <2>1 DEF SubmitAnswered, Arrives
    <2>3. PICK job \in IF outcome[id] = "none" THEN {Queued} ELSE Snapshots(id) : page' = show(page, job)
        BY <1>2, <1>6 DEF SubmitAnswered
    <2>4. refused' = refused
        BY <1>6 DEF SubmitAnswered, Told, final, OK
    <2>5. CASE outcome[id] = "none"
        <3>1. job \in Snapshot /\ job.state = "queued" /\ job.result = None
            BY <2>3, <2>5, QueuedTrue, snapshotIsName DEF Queued, NamesOfStates
        <3>2. TrueThen(id, job)
            BY <3>1 DEF TrueThen, Judge!Ends, Watched
        <3>3. acceptError(id, m.input) = "ok"
            <4>1. /\ judgeStatus(acceptError(id, m.input)) = OK
                  /\ acceptError(id, m.input) = currentSpec(m.input.version)
                BY <1>2, <1>6, <2>1, <2>5 DEF submitStatus, acceptError
            <4>2. acceptError(id, m.input) \in {"errProblemNotFound", "errProblemChanged", "ok"}
                BY <4>1 DEF currentSpec
            <4>3. \A error \in {"errProblemNotFound", "errProblemChanged"} : judgeStatus(error) # OK
                BY RefusalsAreNotOK
            <4> QED BY <4>1, <4>2, <4>3
        <3>4. outcome' = [outcome EXCEPT ![id] = "pending"]
            BY <1>2, <2>2, <2>5, <3>3 DEF Accept, Judge!Submit
        <3>5. outcome'[id] # "none"
            BY <1>2, <3>4 DEF IInv, JudgeTypes
        <3> QED BY <1>1, <1>3, <1>4, <1>5, <2>3, <2>4, <3>1, <3>2, <3>5, showStep
    <2>6. CASE outcome[id] # "none"
        <3>1. job \in Snapshot /\ TrueOf(id, job)
            BY <1>2, <2>3, <2>6, SnapshotsTrue DEF IInv
        <3>2. UNCHANGED judgeVars
            BY <1>2, <2>2, <2>6 DEF Accept
        <3>3. TrueThen(id, job) /\ outcome'[id] # "none"
            BY <2>6, <3>1, <3>2 DEF TrueOf, TrueThen, judgeVars, contractVars
        <3> QED BY <1>1, <1>3, <1>4, <1>5, <2>3, <2>4, <3>1, <3>3, showStep
    <2> QED BY <2>5, <2>6
<1>7. CASE submitStatus(m) # OK
    <2>1. page' = sendFails(submitStatus(m)) /\ QuietPage
        BY <1>1, <1>7, sendFailsQuiet DEF SubmitAnswered
    <2>2. refused' = refused \/ refused' = refused \cup {id}
        BY <1>2 DEF SubmitAnswered, Told
    <2>3. CASE refused' = refused
        BY <1>3, <1>4, <1>5, <2>1, <2>3, QuietStep DEF siteVars, IInv, SiteTypes, RestTypes
    <2>4. CASE refused' # refused
        <3>1. refused' = refused \cup {id}
            BY <2>2, <2>4
        <3>2. final(submitStatus(m)) /\ submitStatus(m) \notin SignIn
            BY <1>2, <2>4 DEF SubmitAnswered, Told
        <3>3. refusal(Own("POST"), env) = 0 /\ submitStatus(m) = judgeStatus(acceptError(id, m.input))
            BY <1>2, <3>2, OwnRefusal DEF submitStatus
        <3>4. acceptError(id, m.input) # "ok"
            BY <3>2, <3>3, NotFinal
        <3>5. UNCHANGED judgeVars
            BY <1>2, <3>3, <3>4 DEF SubmitAnswered, Arrives, Accept
        <3>6. outcome[id] = "none"
            BY <1>2, <3>4 DEF acceptError, IInv, SendInv, JudgeInv
        <3>7. current = 0 \/ page.version < current
            <4>1. current = 0 \/ current # page.version
                BY <1>2, <3>4, <3>6 DEF acceptError, currentSpec
            <4> QED BY <1>1, <4>1, Running1 DEF IInv, VersionInv, SiteTypes, Version
        <3>8. Sends' \subseteq Sends
            BY <1>3, <2>1, QuietSends
        <3>9. SendInv'
            BY <1>3, <1>5, <2>1, <3>8, SendKept, ConfirmedStays
        <3>10. \A n \in Sends : n.id = id => n.input = m.input
            BY <1>2 DEF IInv, SendInv
        <3>11. pressed[id] # None
            BY <1>2 DEF IInv, SendInv
        <3>12. outcome' = outcome /\ current' = current /\ pressed' = pressed
            BY <1>3, <3>5 DEF judgeVars, contractVars, siteVars
        <3>13. current = 0 \/ page'.version <= current
            BY <2>1 DEF QuietPage, IInv, VersionInv, SiteTypes
        <3>14. VersionInv'
            BY <1>2, <3>1, <3>6, <3>7, <3>8, <3>10, <3>11, <3>12, <3>13 DEF IInv, VersionInv
        <3>15. TruthInv'
            BY <1>5, <2>1, QuietTruth
        <3>16. SiteTypes' /\ RestTypes'
            BY <1>2, <1>3, <3>1 DEF IInv, SiteTypes, RestTypes, siteVars
        <3>17. GoodPage(page)'
            BY <1>4 DEF GoodPage
        <3> QED BY <1>5, <3>9, <3>14, <3>15, <3>16, <3>17 DEF IInv, JudgeKeeps
    <2> QED BY <2>3, <2>4
<1> QED BY <1>6, <1>7

\* The page alone moves, quietly.
LEMMA OnlyStep ==
    ASSUME IInv, Requests, QuietPage, late' \subseteq late \cup GivenUp,
           UNCHANGED <<judgeVars, siteVars, cancels, pressed, refused, events>>
    PROVE  IInv'
<1>1. JudgeKeeps /\ RecordsSent /\ RefusedStay
    BY IdleFacts
<1>2. GoodPage(page')
    BY RequestsGood
<1> QED BY <1>1, <1>2, QuietStep DEF siteVars, IInv, SiteTypes, RestTypes

LEMMA SubmitFailsStep == ASSUME IInv, SubmitFails PROVE IInv'
<1>1. running /\ GoodPage(page)
    BY DEF SubmitFails, Asks, Awaits, IInv
<1>2. PICK status \in {NoStatus} \cup {judgeStatus(error) : error \in Troubles} :
          page' = sendFails(status) /\ Told(page.action.id, status)
    BY DEF SubmitFails
<1>3. ~final(status)
    BY <1>2, NotFinal, TroubleNotFinal
<1>4. refused' = refused
    BY <1>2, <1>3 DEF Told
<1>5. QuietPage
    BY <1>1, <1>2, sendFailsQuiet
<1> QED BY <1>4, <1>5, OnlyStep DEF SubmitFails, Requests, Submitting

LEMMA PauseEndsStep == ASSUME IInv, PauseEnds PROVE IInv'
<1>1. running /\ GoodPage(page) /\ page.action \in Act /\ page.action.phase = "pausing"
    BY Running1 DEF PauseEnds, Awaits, IInv
<1>2. /\ page'.action = [page.action EXCEPT !.phase = "asking", !.attempt = @ + 1]
      /\ page'.version = page.version /\ page'.execution = page.execution
    BY <1>1, PauseEndsGood
<1>3. QuietPage
    BY <1>1, <1>2 DEF QuietPage, Act
<1>4. pressed' = [pressed EXCEPT ![page.action.id] = pressed[page.action.id]]
    BY DEF PauseEnds, RetryId
<1>5. pressed' = pressed
    BY <1>4 DEF IInv, RestTypes
<1> QED BY <1>3, <1>5, OnlyStep DEF PauseEnds, Requests

LEMMA RunningStep == ASSUME IInv, Running PROVE IInv'
<1>1. running /\ GoodPage(page) /\ page.action \in Act /\ page \in PageSet
    BY Running1 DEF Running, RunAnswered, RunFails, Asks, Awaits, IInv
<1>2. CASE RunAnswered
    <2>1. PICK result \in Verdicts : page' = Over([page EXCEPT !.execution =
              [NoExecution("example", None) EXCEPT !.result = result, !.code = page.action.code]])
        BY <1>2 DEF RunAnswered, Only
    <2> DEFINE e == [NoExecution("example", None) EXCEPT !.result = result, !.code = page.action.code]
    <2>2. Blank(e) /\ e \in Shown
        BY <1>1, NoneTypes DEF Blank, NoExecution, Shown, ModeSet, ResultOrNone, CodeOrNone, Act
    <2> HIDE DEF e
    <2>3. [page EXCEPT !.execution = e] \in PageSet
        BY <1>1, <2>2 DEF PageSet, ShownOrNone
    <2>4. page' = Over([page EXCEPT !.execution = e])
        BY <2>1 DEF e
    <2>5. QuietPage
        BY <1>1, <2>2, <2>3, <2>4, OverQuiet DEF PageSet
    <2> QED BY <1>2, <2>5, OnlyStep DEF RunAnswered, Only, Requests, Running
<1>3. CASE RunFails
    <2>1. QuietPage
        BY <1>1, <1>3, FailedQuiet DEF RunFails, Only
    <2> QED BY <1>3, <2>1, OnlyStep DEF RunFails, Only, Requests, Running
<1> QED BY <1>2, <1>3 DEF Running

LEMMA PollSentStep == ASSUME IInv, PollSent PROVE IInv'
<1> DEFINE a == [page.action EXCEPT !.phase = "polling"]
<1>1. running /\ GoodPage(page) /\ page.action \in Act
    BY PollFacts DEF PollSent, IInv
<1>2. page' = [page EXCEPT !.action = a]
    BY DEF PollSent, Only
<1>3. /\ a.mode = page.action.mode /\ a.id = page.action.id /\ a.code = page.action.code
      /\ a.confirmed = page.action.confirmed /\ a.seen = page.action.seen
    BY <1>1 DEF Act
<1> HIDE DEF a
<1>4. QuietPage
    BY <1>1, <1>2, <1>3, ChangeQuiet
<1> QED BY <1>4, OnlyStep DEF PollSent, Only, Requests

LEMMA PollFailsStep == ASSUME IInv, PollFails PROVE IInv'
<1>1. running /\ GoodPage(page) /\ page.action \in Act
    BY PollFacts DEF PollFails, IInv
<1>2. CASE page' = Failed(page, "unavailable")
    <2>1. QuietPage
        BY <1>1, <1>2, FailedQuiet
    <2> QED BY <2>1, OnlyStep DEF PollFails, Only, Requests, Polling
<1>3. CASE page' = [page EXCEPT !.action.failures = @ + 1, !.action.phase = "watching",
                                !.action.seen = None]
    <2> DEFINE a == [page.action EXCEPT !.failures = @ + 1, !.phase = "watching", !.seen = None]
    <2>1. page' = [page EXCEPT !.action = a]
        BY <1>1, <1>3, Running1 DEF PageSet, Act
    <2>2. /\ a.mode = page.action.mode /\ a.id = page.action.id /\ a.code = page.action.code
          /\ a.confirmed = page.action.confirmed /\ a.seen = None
        BY <1>1 DEF Act
    <2> HIDE DEF a
    <2>3. QuietPage
        BY <1>1, <2>1, <2>2, ChangeQuiet
    <2> QED BY <2>3, OnlyStep DEF PollFails, Only, Requests, Polling
<1> QED BY <1>2, <1>3 DEF PollFails, Only

LEMMA OverStep == ASSUME IInv, RefreshEnds \/ Unwind PROVE IInv'
<1>1. page \in PageSet /\ page' = Over(page)
    BY DEF IInv, GoodPage, RefreshEnds, Unwind, Only
<1>2. QuietPage
    BY <1>1, OverQuiet
<1> QED BY <1>2, OnlyStep DEF RefreshEnds, Unwind, Only, Requests

\* A poll is read, and shown when its answer is in.
LEMMA PollReadStep == ASSUME IInv, PollRead PROVE IInv'
<1>1. /\ running /\ page.action \in Act /\ page.action.id \in Uuid /\ page \in PageSet
      /\ GoodPage(page)
    BY PollFacts DEF PollRead, IInv, GoodPage
<1>2. PICK job \in Snapshot : page' = [page EXCEPT !.action.seen = job] /\ TrueOf(page.action.id, job)
    BY SeenTrue
<1> DEFINE a == [page.action EXCEPT !.seen = job]
<1>3. /\ a.mode = page.action.mode /\ a.id = page.action.id /\ a.code = page.action.code
      /\ a.confirmed = page.action.confirmed /\ a.seen = job
    BY <1>1 DEF Act
<1>4. page' = [page EXCEPT !.action = a]
    BY <1>2
<1> HIDE DEF a
<1>5. /\ page'.action = a /\ page'.version = page.version /\ page'.execution = page.execution
    BY <1>1, <1>4 DEF PageSet
<1>6. UNCHANGED <<judgeVars, siteVars, late, cancels, pressed, refused, events>>
    BY DEF PollRead, Only
<1>7. GoodPage(page') /\ JudgeKeeps /\ RecordsSent /\ RefusedStay
    BY <1>6, RequestsGood, IdleFacts DEF Requests
<1>8. a # None
    BY <1>1, NoneFacts DEF Act, SeenOrNone, a
<1>9. Sends' = Sends
    BY <1>1, <1>3, <1>5, <1>6, <1>8 DEF Sends, SendsOf, Sent, running
<1>10. SendInv'
    BY <1>1, <1>3, <1>5, <1>6, <1>7, <1>9, SendKept DEF IInv, SendInv, judgeVars, contractVars
<1>11. VersionInv'
    BY <1>5, <1>6, <1>7, <1>9 DEF IInv, VersionInv, RefusedStay, siteVars
<1>12. TruthInv'
    BY <1>1, <1>2, <1>3, <1>5, <1>6
       DEF IInv, TruthInv, TrueExecution, TrueOf, judgeVars, contractVars
<1>13. SiteTypes' /\ RestTypes'
    BY <1>6 DEF IInv, SiteTypes, RestTypes, siteVars
<1>14. GoodPage(page)'
    BY <1>7 DEF GoodPage
<1> QED BY <1>7, <1>10, <1>11, <1>12, <1>13, <1>14 DEF IInv, JudgeKeeps

LEMMA PollAnsweredStep == ASSUME IInv, PollAnswered PROVE IInv'
<1>1. /\ running /\ page.action.mode = "submit" /\ page.action.id \in Uuid
      /\ outcome[page.action.id] # "none" /\ page.action.seen # None /\ page.action \in Act
    BY PollFacts DEF PollAnswered
<1>2. page.action.seen \in Snapshot /\ TrueOf(page.action.id, page.action.seen)
    BY <1>1 DEF Act, SeenOrNone, IInv, TruthInv
<1>3. UNCHANGED <<judgeVars, siteVars, late, cancels, pressed, refused, events>>
      /\ page' = show(page, page.action.seen)
    BY DEF PollAnswered, Only
<1>4. GoodPage(page') /\ JudgeKeeps /\ RecordsSent /\ RefusedStay
    BY <1>3, RequestsGood, IdleFacts DEF Requests, Polling
<1>5. TrueThen(page.action.id, page.action.seen) /\ outcome'[page.action.id] # "none"
    BY <1>1, <1>2, <1>3 DEF TrueOf, TrueThen, judgeVars, contractVars
<1> QED BY <1>1, <1>2, <1>3, <1>4, <1>5, showStep

LEMMA CancelingStep == ASSUME IInv, Canceling PROVE IInv'
<1>1. PICK c \in cancels : CancelAnswered(c) \/ CancelFails(c) \/ LateCancel(c)
    BY DEF Canceling
<1>2. c \in [id : Uuid, awaited : BOOLEAN] /\ c.id \in Uuid
    BY DEF IInv, RestTypes
<1>3. JudgeKeeps /\ RecordsSent /\ RefusedStay
    <2>1. CASE Cancel(c.id)
        BY <1>2, <2>1, CancelKeeps, StayFacts DEF IInv
    <2>2. CASE UNCHANGED judgeVars
        BY <2>2, IdleFacts
    <2> QED BY <1>1, <2>1, <2>2 DEF CancelAnswered, CancelFails, LateCancel
<1>4. page' = page \/ page' = [page EXCEPT !.stopping = FALSE]
    BY <1>1 DEF CancelAnswered, CancelFails, LateCancel
<1>5. QuietPage
    BY <1>4 DEF QuietPage, IInv, GoodPage, PageSet, running
<1>6. GoodPage(page')
    BY RequestsGood DEF Requests
<1>7. cancels' \subseteq cancels \cup {[c EXCEPT !.awaited = FALSE]}
    BY <1>1 DEF CancelAnswered, CancelFails, LateCancel
<1>8. [c EXCEPT !.awaited = FALSE] \in [id : Uuid, awaited : BOOLEAN]
    BY <1>2
<1>9. cancels' \subseteq [id : Uuid, awaited : BOOLEAN]
    BY <1>7, <1>8 DEF IInv, RestTypes
<1>10. UNCHANGED <<siteVars, late, pressed, refused, events>>
    BY <1>1 DEF CancelAnswered, CancelFails, LateCancel
<1> QED BY <1>3, <1>5, <1>6, <1>9, <1>10, QuietStep DEF siteVars, IInv, SiteTypes

\* A step that leaves the page alone.
LEMMA ElsewhereStep ==
    ASSUME IInv, JudgeKeeps, RecordsSent, RefusedStay,
           UNCHANGED <<late, cancels, page, pressed, refused, current>>,
           env' \in Environments, signedIn' \in BOOLEAN, events' \in 0..MaxEvents
    PROVE  IInv'
<1>1. QuietPage
    BY DEF QuietPage, running
<1>2. GoodPage(page')
    BY DEF IInv
<1> QED BY <1>1, <1>2, QuietStep DEF IInv, RestTypes

LEMMA LateSubmitStep == ASSUME IInv, NEW m \in late, LateSubmit(m) PROVE IInv'
<1>1. m \in Sends
    BY DEF Sends
<1>2. JudgeKeeps /\ RecordsSent /\ RefusedStay
    BY <1>1, AcceptFacts, IdleFacts DEF LateSubmit, Arrives
<1> QED BY <1>2, ElsewhereStep DEF LateSubmit, siteVars, IInv, SiteTypes

LEMMA RequestsStep == ASSUME IInv, Requests PROVE IInv'
BY SubmitAnsweredStep, SubmitFailsStep, PauseEndsStep, RunningStep, PollSentStep, PollReadStep,
   PollAnsweredStep, PollFailsStep, OverStep, CancelingStep, LateSubmitStep
   DEF Requests, Submitting, Polling

\* Other sites' requests are refused.
LEMMA ForeignRefused == \A request \in ForeignRequests : refusal(request, env) # 0
<1> TAKE request \in ForeignRequests
<1>1. request.method = "POST" /\ request.origin = "other"
    BY DEF ForeignRequests, Own
<1>2. ~protect(request, env)
    BY <1>1 DEF protect
<1> QED BY <1>2 DEF refusal

LEMMA ForeignStep == ASSUME IInv, NEW id, NEW input, Foreign(id, input) PROVE IInv'
<1>1. UNCHANGED judgeVars
    BY ForeignRefused DEF Foreign, Arrives
<1>2. JudgeKeeps /\ RecordsSent /\ RefusedStay
    BY <1>1, IdleFacts
<1>3. events' \in 0..MaxEvents
    BY RunnerAssumption DEF Foreign, Happens, IInv, SiteTypes
<1> QED BY <1>2, <1>3, ElsewhereStep DEF Foreign, siteVars, IInv, SiteTypes

LEMMA JudgeWorksStep == ASSUME IInv, NEW id \in Uuid, JudgeWorks(id) PROVE IInv'
<1>1. JudgeKeeps /\ RecordsSent /\ RefusedStay
    BY JudgeWorksKeeps, StayFacts DEF IInv
<1> QED BY <1>1, ElsewhereStep DEF JudgeWorks, siteVars, IInv, SiteTypes

LEMMA DeployStep == ASSUME IInv, Deploy PROVE IInv'
<1>1. JudgeKeeps /\ RecordsSent /\ RefusedStay
    BY IdleFacts DEF Deploy
<1>2. env' \in Environments /\ signedIn' \in BOOLEAN
    BY DEF Deploy, IInv, SiteTypes
<1>3. events' \in 0..MaxEvents
    BY RunnerAssumption DEF Deploy, Happens, IInv, SiteTypes
<1> QED BY <1>1, <1>2, <1>3, ElsewhereStep DEF Deploy

\* A new version is above every version that was sent.
LEMMA PublishStep == ASSUME IInv, Publish PROVE IInv'
<1>1. /\ UNCHANGED <<judgeVars, late, cancels, page, pressed, refused, env, signedIn>>
      /\ current' \in {current + 1, 0} /\ current' <= MaxVersion /\ current # 0
    BY DEF Publish
<1>2. JudgeKeeps /\ RecordsSent /\ RefusedStay
    BY <1>1, IdleFacts
<1>3. current' \in 0..MaxVersion /\ events' \in 0..MaxEvents
    BY <1>1, RunnerAssumption DEF Publish, Happens, IInv, SiteTypes
<1>4. Sends' = Sends
    BY <1>1 DEF Sends, SendsOf, Sent
<1>5. SendInv'
    BY <1>1, <1>2, <1>4, SendKept DEF IInv, SendInv, running, judgeVars, contractVars
<1>6. VersionInv'
    <2>1. page.version \in Nat /\ \A m \in Sends : m.input.version \in Nat
        BY SendsType DEF IInv, GoodPage, PageSet, Version, Message, Input
    <2> QED BY <1>1, <1>2, <1>4, <2>1 DEF IInv, VersionInv, SiteTypes, RefusedStay
<1>7. QuietPage
    BY <1>1 DEF QuietPage, running
<1>8. TruthInv' /\ SiteTypes' /\ RestTypes'
    BY <1>1, <1>2, <1>3, <1>7, QuietTruth DEF IInv, SiteTypes, RestTypes
<1>9. GoodPage(page)'
    BY <1>1 DEF IInv
<1> QED BY <1>2, <1>5, <1>6, <1>8, <1>9 DEF IInv, JudgeKeeps

LEMMA StutterStep == ASSUME IInv, UNCHANGED vars PROVE IInv'
<1>1. JudgeKeeps /\ RecordsSent /\ RefusedStay
    BY IdleFacts DEF vars
<1> QED BY <1>1, ElsewhereStep DEF vars, siteVars, IInv, SiteTypes

LEMMA NextInv == ASSUME IInv, [Next]_vars PROVE IInv'
BY UserStep, RequestsStep, PublishStep, DeployStep, JudgeWorksStep, ForeignStep, StutterStep DEF Next

LEMMA InitInv == ASSUME Init PROVE IInv
<1>1. JudgeTypes /\ JudgeInv
    BY NoneTypes DEF Init, Judge!Init, JudgeTypes, JudgeInv, Judge!MaxGrants
<1>2. SiteTypes /\ RestTypes
    BY RunnerAssumption, NoneTypes DEF Init, SiteTypes, RestTypes
<1>3. page = NewPage(1, Starter) /\ current = 1
    BY DEF Init
<1>4. GoodPage(page)
    BY <1>3, RunnerAssumption, NoneTypes DEF NewPage, GoodPage, PageSet
<1>5. SendInv /\ VersionInv /\ TruthInv
    BY <1>3, NoneTypes DEF Init, NewPage, SendInv, VersionInv, TruthInv, Sends, SendsOf, running
<1> QED BY <1>1, <1>2, <1>4, <1>5 DEF IInv

----------------------------------------------------------------------------
(* The theorems.                                                           *)

\* The inductive invariant.
THEOREM RunnerInvariant == Spec => []IInv
<1>1. Init => IInv
    BY InitInv
<1>2. IInv /\ [Next]_vars => IInv'
    BY NextInv
<1> QED BY <1>1, <1>2, PTL DEF Spec

\* Every variable keeps its type.
THEOREM RunnerTypes == Spec => []TypeOK
<1>1. IInv => TypeOK
    BY TypesAreTypeOK DEF IInv, Types, GoodPage
<1> QED BY <1>1, RunnerInvariant, PTL

\* A press of Submit is recorded at most once, and nothing is recorded without one, however often a
\* request is sent, given up or late (useRunner.ts, send; judge/jobs.go, Submit).
THEOREM PressedOnceAlways == Spec => []PressedOnce
<1>1. IInv => PressedOnce
    BY DEF IInv, SendInv, PressedOnce
<1> QED BY <1>1, RunnerInvariant, PTL

\* What was refused for good is never recorded: the version it asked for does not come back
\* (useRunner.ts, send; judge/jobs.go, Submit).
THEOREM RefusedForGood == Spec => []RefusalIsFinal
<1>1. IInv => RefusalIsFinal
    BY DEF IInv, VersionInv, RefusalIsFinal
<1> QED BY <1>1, RunnerInvariant, PTL

\* The end of a submission on display is the one that the judge recorded (useRunner.ts, watch;
\* judge/rpc.go, snapshot).
THEOREM ShownRecorded == Spec => []ShownIsRecorded
<1>1. IInv => ShownIsRecorded
    <2> SUFFICES ASSUME IInv, page.execution # None, page.execution.state \in Judge!Ends
                 PROVE  /\ outcome[page.execution.id] = page.execution.state
                        /\ page.execution.result = verdict[page.execution.id]
        BY DEF ShownIsRecorded
    <2>1. page.execution.state # None
        BY NoneFacts DEF JobState
    <2> QED BY <2>1 DEF IInv, TruthInv, TrueExecution, TrueOf
<1> QED BY <1>1, RunnerInvariant, PTL

\* "Accepted" is said only of code that the judge accepted, which is the code in the editor unless
\* the page says otherwise (Results.tsx, page.tsx).
THEOREM AcceptedTrue == Spec => []AcceptedIsTrue
<1>1. IInv => AcceptedIsTrue
    <2> DEFINE e == page.execution
               id == e.id
    <2> SUFFICES ASSUME IInv, displayed(page) = "Accepted"
                 PROVE  /\ outcome[id] = "completed" /\ verdict[id] = "pass"
                        /\ recorded[id].code = page.code \/ stale(page)
        BY DEF AcceptedIsTrue
    <2>1. e # None /\ e.result = "pass" /\ e.result # None /\ e.mode = "submit"
        BY DEF displayed
    <2>2. e.state # None /\ TrueExecution(e) /\ e \in Shown
        BY <2>1 DEF IInv, TruthInv, TrueExecution, GoodPage, PageSet, ShownOrNone
    <2>3. id \in Uuid /\ recorded[id] # None /\ recorded[id].code = e.code /\ TrueOf(id, e)
        BY <2>2 DEF TrueExecution
    <2>4. e.state \in Judge!Ends
        BY <2>1, <2>2, <2>3 DEF TrueOf, Shown, StateOrNone, JobState
    <2>5. verdict[id] = "pass" /\ verdict[id] # None
        BY <2>1, <2>3, <2>4 DEF TrueOf
    <2>6. outcome[id] = "completed"
        BY <2>3, <2>5 DEF IInv, JudgeInv
    <2>7. e.code # None
        BY <2>3, NoneFacts DEF IInv, JudgeTypes, Input
    <2> QED BY <2>3, <2>5, <2>6, <2>7 DEF stale
<1> QED BY <1>1, RunnerInvariant, PTL

\* The display is about the action that runs, and Stop is in progress only while one runs
\* (useRunner.ts, execute and stop; page.tsx, Reset).
THEOREM ShownActive == Spec => []ShownIsActive
<1>1. IInv => ShownIsActive
    <2> SUFFICES ASSUME GoodPage(page) PROVE ShownIsActive
        BY DEF IInv
    <2>1. running => page.execution # None
        BY NoneFacts DEF GoodPage, running
    <2> QED BY <2>1 DEF GoodPage, ShownIsActive, running
<1> QED BY <1>1, RunnerInvariant, PTL

=============================================================================
