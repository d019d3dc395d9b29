--------------------------- MODULE JobQueueProofs ---------------------------
(***************************************************************************)
(* What JobQueue inherits from JobStore, proved for any number of judges,  *)
(* handlers, slots and faults: every step of the judges is a step of the   *)
(* store, hence the store's theorems hold of the whole judge; and whoever  *)
(* is told that a submission was accepted finds his own input stored.      *)
(***************************************************************************)
EXTENDS JobQueue, JobStoreProofs

\* What a handler knows between its checks and its answer. The open transaction of a vetted
\* submission keeps the version it read current; an acknowledged submission is stored as sent.
VettedOK(c) ==
    rpc[c].pc = "vetted" =>
        rpc[c].job \in Job /\ rpc[c].input \in Input /\ rpc[c].input.version = current

StoredOK(c) ==
    rpc[c].pc = "stored" =>
        rpc[c].job \in Job /\ Exists(rpc[c].job) /\ SameInput(rpc[c].job, rpc[c].input)

HandlerInv ==
    /\ rpc \in [Caller -> Handler]
    /\ \A c \in Caller : VettedOK(c)

----------------------------------------------------------------------------
(* Every step of the judges is a step of the store.                        *)

\* Excluding what is no job makes no difference to the claim query.
LEMMA OldestOfJobs ==
    ASSUME NEW excluded PROVE Oldest(excluded) = Oldest(excluded \cap Job)
BY DEF Oldest

LEMMA ClaimIsStoreStep ==
    ASSUME NEW excluded, NEW token \in Token, NEW j \in Oldest(excluded),
           ClaimJob(j, token) \/ ClaimUnheard(j, token)
    PROVE  StoreNext
<1>1. j \in Oldest(excluded \cap Job) /\ excluded \cap Job \in SUBSET Job
    BY OldestOfJobs
<1> QED BY <1>1 DEF StoreNext

LEMMA GoneIsStoreStep == ASSUME NEW d, Gone(d) PROVE StoreNext
<1> DEFINE lost == {claim \in claims : \E w \in WorkersOf(d) : w.claim = claim}
<1>1. LoseClaims(lost) /\ lost \in SUBSET claims
    BY DEF Gone
<1> HIDE DEF lost
<1> QED BY <1>1 DEF StoreNext

LEMMA LoopIsStoreStep ==
    ASSUME NEW d \in Judge, LoopStep(d) \/ Notify(d) \/ TimerFires(d) \/ ProcessStep(d)
    PROVE  StoreNext \/ UNCHANGED storeVars
<1>1. CASE ClaimReturns(d)
    BY <1>1, ClaimIsStoreStep DEF ClaimReturns
<1>2. CASE ClaimReplyLost(d)
    BY <1>2, ClaimIsStoreStep DEF ClaimReplyLost
<1>3. CASE Exit(d) \/ Crash(d)
    BY <1>3, GoneIsStoreStep DEF Exit, Crash
<1>4. CASE \/ ClaimOne(d) \/ ClaimNothing(d) \/ ClaimFails(d) \/ Register(d) \/ Wake(d)
           \/ HourlyTick(d) \/ LoopEnds(d) \/ Notify(d) \/ TimerFires(d)
           \/ Start(d) \/ Drain(d) \/ CancelWork(d)
    BY <1>4 DEF ClaimOne, ClaimNothing, ClaimFails, Register, Wake, HourlyTick, LoopEnds, Notify,
                TimerFires, Start, Drain, CancelWork
<1> QED BY <1>1, <1>2, <1>3, <1>4 DEF LoopStep, ProcessStep

LEMMA WorkerIsStoreStep ==
    ASSUME NEW w \in workers, WorkerStep(w)
    PROVE  StoreNext \/ UNCHANGED storeVars
<1>1. CASE Save(w) \/ SaveReplyLost(w)
    BY <1>1 DEF Save, SaveReplyLost, SaveOutcome, StoreNext
<1>2. CASE SaveFails(w)
    <2>1. LoseClaims({w.claim})
        BY <1>2 DEF SaveFails
    <2> QED BY <2>1 DEF LoseClaims, StoreNext
<1>3. CASE Unregister(w) \/ Release(w)
    BY <1>3 DEF Unregister, Release
<1> QED BY <1>1, <1>2, <1>3 DEF WorkerStep

LEMMA HandlerIsStoreStep ==
    ASSUME HandlerInv, NEW c \in Caller, Request(c) \/ HandlerStep(c)
    PROVE  StoreNext \/ UNCHANGED storeVars
<1>1. CASE SubmitCommits(c) \/ SubmitReplyLost(c)
    <2>1. rpc[c].job \in Job /\ rpc[c].input \in Input /\ Insert(rpc[c].job, rpc[c].input)
        BY <1>1 DEF SubmitCommits, SubmitReplyLost, HandlerInv, VettedOK, Insert
    <2> QED BY <2>1 DEF StoreNext
<1>2. ASSUME NEW d \in Judge, NEW j \in Job, Cancel(c, d, j) PROVE StoreNext
    BY <1>2 DEF Cancel, StoreNext
<1>3. ASSUME NEW d \in Judge, NEW j \in Job, NEW input \in Input, Submit(c, d, j, input)
      PROVE  UNCHANGED storeVars
    BY <1>3 DEF Submit, AcceptAgain
<1>4. ASSUME NEW d \in Judge, Run(c, d) PROVE UNCHANGED storeVars
    BY <1>4 DEF Run
<1>5. CASE SubmitRollsBack(c) \/ NotifyAndAnswer(c) \/ RunEnds(c) \/ CancelHere(c)
    BY <1>5 DEF SubmitRollsBack, NotifyAndAnswer, RunEnds, CancelHere
<1> QED BY <1>1, <1>2, <1>3, <1>4, <1>5 DEF Request, HandlerStep

LEMMA StepIsStoreStep == HandlerInv /\ [Next]_vars => [StoreNext]_storeVars
<1> SUFFICES ASSUME HandlerInv, [Next]_vars PROVE StoreNext \/ UNCHANGED storeVars
    OBVIOUS
<1>1. ASSUME NEW j \in Job, LeaseOut(j) PROVE StoreNext
    BY <1>1 DEF LeaseOut, StoreNext
<1>2. ASSUME NEW version \in Update, Publish(version) PROVE StoreNext
    BY <1>2 DEF Publish, StoreNext
<1>3. CASE UNCHANGED vars
    BY <1>3 DEF vars
<1> QED BY <1>1, <1>2, <1>3, LoopIsStoreStep, WorkerIsStoreStep, HandlerIsStoreStep DEF Next

----------------------------------------------------------------------------
(* HandlerInv is an invariant.                                             *)

\* Handlers and current version stay as they are.
LEMMA HandlersAlone ==
    ASSUME HandlerInv, UNCHANGED <<rpc, current>>
    PROVE  HandlerInv'
BY DEF HandlerInv, VettedOK

\* One handler moves to a state that is not vetted.
LEMMA HandlerMoves ==
    ASSUME HandlerInv, NEW c \in Caller, NEW state \in Handler, state.pc # "vetted",
           rpc' = [rpc EXCEPT ![c] = state], current' = current
    PROVE  HandlerInv'
BY DEF HandlerInv, VettedOK

LEMMA IdleNotVetted == Idle \in Handler /\ Idle.pc = "idle"
BY DEF Idle, Handler

\* The record shapes of Handler, by program counter.
LEMMA Shapes ==
    ASSUME NEW state \in Handler
    PROVE  /\ state.pc \in {"vetted", "stored"} =>
                  state \in [pc : {"vetted", "stored"}, judge : Judge, job : Job, input : Input]
           /\ state.pc \in {"running", "ran"} => state \in [pc : {"running", "ran"}, judge : Judge]
<1>1. CASE state = Idle
    BY <1>1, IdleNotVetted
<1>2. CASE state \in [pc : {"vetted", "stored"}, judge : Judge, job : Job, input : Input]
    BY <1>2
<1>3. CASE state \in [pc : {"running", "ran"}, judge : Judge]
    BY <1>3
<1>4. CASE state \in [pc : {"canceling"}, judge : Judge, job : Job]
    BY <1>4
<1> QED BY <1>1, <1>2, <1>3, <1>4 DEF Handler

LEMMA LoopHandlers ==
    ASSUME HandlerInv, NEW d \in Judge, LoopStep(d) \/ Notify(d) \/ TimerFires(d) \/ ProcessStep(d)
    PROVE  HandlerInv'
<1>1. CASE Exit(d) \/ Crash(d)
    <2>1. /\ rpc' = [c \in Caller |-> IF rpc[c] # Idle /\ rpc[c].judge = d THEN Idle ELSE rpc[c]]
          /\ current' = current
        BY <1>1 DEF Exit, Crash, Gone, LoseClaims
    <2> QED BY <2>1, IdleNotVetted DEF HandlerInv, VettedOK
<1>2. CASE ~(Exit(d) \/ Crash(d))
    <2>1. UNCHANGED <<rpc, current>>
        BY <1>2 DEF LoopStep, ProcessStep, ClaimOne, ClaimReturns, ClaimNothing, ClaimFails,
                    ClaimReplyLost, Register, Wake, HourlyTick, LoopEnds, Notify, TimerFires, Start,
                    Drain, CancelWork, ClaimJob, ClaimUnheard, TakeOver, storeVars
    <2> QED BY <2>1, HandlersAlone
<1> QED BY <1>1, <1>2

LEMMA WorkerHandlers ==
    ASSUME HandlerInv, NEW w \in workers, WorkerStep(w)
    PROVE  HandlerInv'
<1>1. UNCHANGED <<rpc, current>>
    BY DEF WorkerStep, Save, SaveFails, SaveReplyLost, Unregister, Release, SaveOutcome, LoseClaims,
           storeVars
<1> QED BY <1>1, HandlersAlone

LEMMA RequestHandlers ==
    ASSUME HandlerInv, NEW c \in Caller, Request(c)
    PROVE  HandlerInv'
<1>1. ASSUME NEW d \in Judge, NEW j \in Job, NEW input \in Input, Submit(c, d, j, input)
      PROVE  HandlerInv'
    <2>1. PICK pc \in {"vetted", "stored"} :
            /\ pc = "vetted" => input.version = current
            /\ rpc' = [rpc EXCEPT ![c] = [pc |-> pc, judge |-> d, job |-> j, input |-> input]]
        BY <1>1 DEF Submit
    <2>2. current' = current
        BY <1>1 DEF Submit, AcceptAgain, storeVars
    <2>3. [pc |-> pc, judge |-> d, job |-> j, input |-> input] \in Handler
        BY DEF Handler
    <2> QED BY <2>1, <2>2, <2>3 DEF HandlerInv, VettedOK
<1>2. ASSUME NEW d \in Judge, Run(c, d) PROVE HandlerInv'
    <2>1. rpc' = [rpc EXCEPT ![c] = [pc |-> "running", judge |-> d]] /\ current' = current
        BY <1>2 DEF Run, storeVars
    <2>2. [pc |-> "running", judge |-> d] \in Handler
        BY DEF Handler
    <2> QED BY <2>1, <2>2, HandlerMoves
<1>3. ASSUME NEW d \in Judge, NEW j \in Job, Cancel(c, d, j) PROVE HandlerInv'
    <2>1. current' = current
        BY <1>3 DEF Cancel, CancelRow
    <2>2. CASE rpc' = [rpc EXCEPT ![c] = [pc |-> "canceling", judge |-> d, job |-> j]]
        <3>1. [pc |-> "canceling", judge |-> d, job |-> j] \in Handler
            BY DEF Handler
        <3> QED BY <2>1, <2>2, <3>1, HandlerMoves
    <2>3. CASE rpc' = rpc
        BY <2>1, <2>3, HandlersAlone
    <2> QED BY <1>3, <2>2, <2>3 DEF Cancel
<1> QED BY <1>1, <1>2, <1>3 DEF Request

LEMMA HandlerHandlers ==
    ASSUME HandlerInv, NEW c \in Caller, HandlerStep(c)
    PROVE  HandlerInv'
<1>1. current' = current
    BY DEF HandlerStep, SubmitCommits, SubmitReplyLost, SubmitRollsBack, NotifyAndAnswer, RunEnds,
           CancelHere, InsertRow, storeVars
<1>2. CASE Answered(c)
    BY <1>1, <1>2, HandlerMoves, IdleNotVetted DEF Answered
<1>3. rpc[c] \in Handler /\ rpc \in [Caller -> Handler]
    BY DEF HandlerInv
<1>4. CASE SubmitCommits(c)
    <2> DEFINE state == [rpc[c] EXCEPT !.pc = "stored"]
    <2>1. rpc[c] \in [pc : {"vetted", "stored"}, judge : Judge, job : Job, input : Input]
        BY <1>3, <1>4, Shapes DEF SubmitCommits
    <2>2. state \in [pc : {"vetted", "stored"}, judge : Judge, job : Job, input : Input]
          /\ state.pc = "stored"
        BY <2>1
    <2>3. rpc' = [rpc EXCEPT ![c] = state]
        BY <1>4 DEF SubmitCommits
    <2> HIDE DEF state
    <2>4. state \in Handler
        BY <2>2 DEF Handler
    <2> QED BY <1>1, <2>2, <2>3, <2>4, HandlerMoves
<1>5. CASE RunEnds(c)
    <2> DEFINE state == [rpc[c] EXCEPT !.pc = "ran"]
    <2>1. rpc[c] \in [pc : {"running", "ran"}, judge : Judge]
        BY <1>3, <1>5, Shapes DEF RunEnds
    <2>2. state \in [pc : {"running", "ran"}, judge : Judge] /\ state.pc = "ran"
        BY <2>1
    <2>3. rpc' = [rpc EXCEPT ![c] = state]
        BY <1>5 DEF RunEnds
    <2> HIDE DEF state
    <2>4. state \in Handler
        BY <2>2 DEF Handler
    <2> QED BY <1>1, <2>2, <2>3, <2>4, HandlerMoves
<1> QED BY <1>2, <1>4, <1>5 DEF HandlerStep, SubmitReplyLost, SubmitRollsBack, NotifyAndAnswer,
                                CancelHere

LEMMA StepHandlers == HandlerInv /\ [Next]_vars => HandlerInv'
<1> SUFFICES ASSUME HandlerInv, [Next]_vars PROVE HandlerInv'
    OBVIOUS
<1>1. ASSUME NEW j \in Job, LeaseOut(j) PROVE HandlerInv'
    BY <1>1, HandlersAlone DEF LeaseOut, LeaseRunsOut
<1>2. ASSUME NEW version \in Update, Publish(version) PROVE HandlerInv'
    <2>1. rpc' = rpc /\ \A c \in Caller : rpc[c].pc # "vetted"
        BY <1>2 DEF Publish, queueVars
    <2> QED BY <2>1 DEF HandlerInv, VettedOK
<1>3. CASE UNCHANGED vars
    BY <1>3, HandlersAlone DEF vars, storeVars, queueVars
<1> QED BY <1>1, <1>2, <1>3, LoopHandlers, WorkerHandlers, RequestHandlers, HandlerHandlers
        DEF Next

LEMMA InitHandlers == Init => HandlerInv
BY IdleNotVetted DEF Init, HandlerInv, VettedOK

LEMMA HandlerInvariant == Spec => []HandlerInv
<1> QED BY InitHandlers, StepHandlers, PTL DEF Spec

\* Whatever the judges do together, the table only ever changes as the store allows (queue.go on
\* top of store.go): a job is stored with the version current at its commit, an outcome is saved
\* once per claim.
THEOREM QueueImplementsStore == Spec => ImplementsStore
<1>1. Init => StoreInit
    BY DEF Init
<1> QED BY <1>1, HandlerInvariant, StepIsStoreStep, PTL DEF Spec, ImplementsStore, StoreSpec

\* Hence any number of judges keeps the contract of proto/judge.proto and the README.
THEOREM QueueImplementsContract == Spec => ImplementsContract
BY QueueImplementsStore, StoreImplementsContract DEF ImplementsStore

\* And none of them ever grants a submission a third execution (store.go, attempts >= 2).
THEOREM QueueTwoExecutions == Spec => []AtMostTwoExecutions
BY QueueImplementsStore, TwoExecutions DEF ImplementsStore

----------------------------------------------------------------------------
(* An acknowledged submission is the caller's own.                         *)

StoredInv == \A c \in Caller : StoredOK(c)

\* No step of the store changes the input of a stored job, or removes the job.
LEMMA InputKept ==
    ASSUME StoreInv, [StoreNext]_storeVars, NEW j \in Job, Exists(j)
    PROVE  jobs'[j].state # "absent" /\ jobs'[j].input = jobs[j].input
<1> DEFINE Kept == jobs'[j].state # "absent" /\ jobs'[j].input = jobs[j].input
<1>1. jobs[j] \in Row /\ jobs \in [Job -> Row] /\ jobs[j].state # "absent"
    BY DEF StoreInv, StoreTypeOK, Exists
<1>2. ASSUME NEW k \in Job, NEW input \in Input, Insert(k, input) PROVE Kept
    <2>1. k # j
        BY <1>1, <1>2 DEF Insert, InsertRow, Exists
    <2> QED BY <1>1, <1>2, <2>1 DEF Insert, InsertRow
<1>3. ASSUME NEW excluded \in SUBSET Job, NEW token \in Token, NEW k \in Oldest(excluded),
             ClaimJob(k, token) \/ ClaimUnheard(k, token)
      PROVE  Kept
    <2>1. TakeOver(k, token)
        BY <1>3 DEF ClaimJob, ClaimUnheard
    <2>2. CASE k = j
        BY <1>1, <2>1, <2>2 DEF TakeOver, Row
    <2>3. CASE k # j
        BY <1>1, <2>1, <2>3 DEF TakeOver
    <2> QED BY <2>2, <2>3
<1>4. ASSUME NEW k \in Job, LeaseRunsOut(k) PROVE Kept
    <2>1. CASE k = j
        BY <1>1, <1>4, <2>1 DEF LeaseRunsOut, Row
    <2>2. CASE k # j
        BY <1>1, <1>4, <2>2 DEF LeaseRunsOut
    <2> QED BY <2>1, <2>2
<1>5. ASSUME NEW claim \in claims, NEW ending \in Endings(claim), SaveOutcome(claim, ending)
      PROVE  Kept
    <2>1. CASE jobs' = [jobs EXCEPT ![claim.job] = Settled(@, ending)] /\ claim.job = j
        <3>1. jobs'[j] = Settled(jobs[j], ending)
            BY <1>1, <2>1
        <3>2. Settled(jobs[j], ending).input = jobs[j].input
            BY <1>1 DEF Settled, Row
        <3>3. Settled(jobs[j], ending).state # "absent"
            BY <1>1 DEF Settled, Row
        <3> QED BY <3>1, <3>2, <3>3
    <2>2. CASE jobs' = [jobs EXCEPT ![claim.job] = Settled(@, ending)] /\ claim.job # j
        BY <1>1, <2>2
    <2>3. CASE UNCHANGED jobs
        BY <1>1, <2>3
    <2> QED BY <1>5, <2>1, <2>2, <2>3 DEF SaveOutcome
<1>6. ASSUME NEW k \in Job, CancelRow(k) PROVE Kept
    <2>1. CASE k = j
        BY <1>1, <1>6, <2>1 DEF CancelRow, Row
    <2>2. CASE k # j
        BY <1>1, <1>6, <2>2 DEF CancelRow
    <2> QED BY <2>1, <2>2
<1>7. CASE UNCHANGED jobs
    BY <1>1, <1>7
<1> QED BY <1>2, <1>3, <1>4, <1>5, <1>6, <1>7 DEF StoreNext, PublishVersion, LoseClaims, storeVars

\* A handler that gets to answer has found, or has just inserted, its own input.
LEMMA NewlyStored ==
    ASSUME StoreInv, HandlerInv, NEW c \in Caller, Request(c) \/ HandlerStep(c),
           NEW x \in Caller, rpc'[x].pc = "stored"
    PROVE  rpc'[x] = rpc[x] \/ StoredOK(x)'
<1> USE DEF HandlerInv
<1>1. ASSUME NEW d \in Judge, NEW j \in Job, NEW input \in Input, Submit(c, d, j, input), x = c
      PROVE  StoredOK(x)'
    <2>1. PICK pc \in {"vetted", "stored"} :
            /\ CASE pc = "stored" -> AcceptAgain(j, input)
                 [] pc = "vetted" -> ~Exists(j) /\ input.version = current /\ CanAccept(d) /\ UNCHANGED storeVars
            /\ rpc' = [rpc EXCEPT ![c] = [pc |-> pc, judge |-> d, job |-> j, input |-> input]]
        BY <1>1 DEF Submit
    <2>2. rpc'[x] = [pc |-> pc, judge |-> d, job |-> j, input |-> input] /\ pc = "stored"
        BY <1>1, <2>1
    <2>3. Exists(j) /\ SameInput(j, input) /\ jobs' = jobs
        BY <2>1, <2>2 DEF AcceptAgain, storeVars
    <2> QED BY <2>2, <2>3 DEF StoredOK, Exists, SameInput
<1>2. ASSUME SubmitCommits(c), x = c PROVE StoredOK(x)'
    <2> DEFINE j == rpc[c].job
               row == [NoRow EXCEPT !.state = "queued", !.created = clock, !.input = rpc[c].input]
    <2>1. rpc[c] \in [pc : {"vetted", "stored"}, judge : Judge, job : Job, input : Input]
        BY <1>2, Shapes DEF SubmitCommits
    <2>2. j \in Job /\ rpc'[x].job = j /\ rpc'[x].input = rpc[c].input
        BY <1>2, <2>1 DEF SubmitCommits
    <2>3. jobs' = [jobs EXCEPT ![j] = row]
        BY <1>2 DEF SubmitCommits, InsertRow
    <2>4. row.state = "queued" /\ row.input = rpc[c].input
        BY DEF NoRow
    <2>5. jobs'[j] = row
        BY <2>2, <2>3 DEF StoreInv, StoreTypeOK
    <2> HIDE DEF j, row
    <2> QED BY <2>2, <2>4, <2>5 DEF StoredOK, Exists, SameInput
<1>3. ASSUME NEW d \in Judge, Run(c, d) \/ (\E j \in Job : Cancel(c, d, j)), x = c
      PROVE  rpc'[x] = rpc[x]
    BY <1>3 DEF Run, Cancel
<1>4. ASSUME SubmitReplyLost(c) \/ SubmitRollsBack(c) \/ NotifyAndAnswer(c) \/ CancelHere(c), x = c
      PROVE  FALSE
    BY <1>4, IdleNotVetted DEF SubmitReplyLost, SubmitRollsBack, NotifyAndAnswer, CancelHere, Answered
<1>5. ASSUME RunEnds(c), x = c PROVE FALSE
    <2>1. rpc[c] \in [pc : {"running", "ran"}, judge : Judge]
        BY <1>5, Shapes DEF RunEnds
    <2>2. rpc'[x].pc = "ran"
        BY <1>5, <2>1 DEF RunEnds
    <2> QED BY <2>2
<1>6. CASE x # c
    BY <1>6 DEF Request, HandlerStep, Submit, Run, Cancel, SubmitCommits, SubmitReplyLost,
                SubmitRollsBack, NotifyAndAnswer, RunEnds, CancelHere, Answered
<1> QED BY <1>1, <1>2, <1>3, <1>4, <1>5, <1>6 DEF Request, HandlerStep

LEMMA StepStored == StoreInv /\ HandlerInv /\ StoredInv /\ [Next]_vars => StoredInv'
<1> SUFFICES ASSUME StoreInv, HandlerInv, StoredInv, [Next]_vars,
                    NEW x \in Caller, rpc'[x].pc = "stored"
             PROVE  StoredOK(x)'
    BY DEF StoredInv, StoredOK
<1>1. ASSUME rpc'[x] = rpc[x] PROVE StoredOK(x)'
    <2>1. rpc[x].job \in Job /\ Exists(rpc[x].job) /\ SameInput(rpc[x].job, rpc[x].input)
        BY <1>1 DEF StoredInv, StoredOK
    <2>2. jobs'[rpc[x].job].state # "absent" /\ jobs'[rpc[x].job].input = jobs[rpc[x].job].input
        BY <2>1, InputKept, StepIsStoreStep
    <2> QED BY <1>1, <2>1, <2>2 DEF StoredOK, Exists, SameInput
<1>2. ASSUME NEW c \in Caller, Request(c) \/ HandlerStep(c) PROVE StoredOK(x)'
    BY <1>1, <1>2, NewlyStored
<1>3. ASSUME NEW d \in Judge, LoopStep(d) \/ Notify(d) \/ TimerFires(d) \/ ProcessStep(d)
      PROVE  rpc'[x] = rpc[x]
    <2>1. CASE Exit(d) \/ Crash(d)
        BY <2>1, IdleNotVetted DEF Exit, Crash, Gone
    <2>2. CASE ~(Exit(d) \/ Crash(d))
        BY <1>3, <2>2
        DEF LoopStep, ProcessStep, ClaimOne, ClaimReturns, ClaimNothing, ClaimFails, ClaimReplyLost,
            Register, Wake, HourlyTick, LoopEnds, Notify, TimerFires, Start, Drain, CancelWork
    <2> QED BY <2>1, <2>2
<1>4. ASSUME NEW w \in workers, WorkerStep(w) PROVE rpc'[x] = rpc[x]
    BY <1>4 DEF WorkerStep, Save, SaveFails, SaveReplyLost, Unregister, Release
<1>5. ASSUME NEW j \in Job, LeaseOut(j) PROVE rpc'[x] = rpc[x]
    BY <1>5 DEF LeaseOut
<1>6. ASSUME NEW version \in Update, Publish(version) PROVE rpc'[x] = rpc[x]
    BY <1>6 DEF Publish, queueVars
<1>7. CASE UNCHANGED vars
    <2>1. rpc'[x] = rpc[x]
        BY <1>7 DEF vars, queueVars
    <2> QED BY <2>1, <1>1
<1>8. CASE Next
    <2> USE <1>1
    <2>1. CASE \E d \in Judge : LoopStep(d) \/ Notify(d) \/ TimerFires(d) \/ ProcessStep(d)
        BY <2>1, <1>3
    <2>2. CASE \E w \in workers : WorkerStep(w)
        BY <2>2, <1>4
    <2>3. CASE \E c \in Caller : Request(c) \/ HandlerStep(c)
        BY <2>3, <1>2
    <2>4. CASE \E j \in Job : LeaseOut(j)
        BY <2>4, <1>5
    <2>5. CASE \E version \in Update : Publish(version)
        BY <2>5, <1>6
    <2> QED BY <1>8, <2>1, <2>2, <2>3, <2>4, <2>5 DEF Next
<1> QED BY <1>7, <1>8

\* The caller of accept that gets an answer finds its own input under its UUID, for any number of
\* concurrent requests and retries (the advisory lock and the fingerprint of store.go).
THEOREM SubmitReplies == Spec => []SubmitReplyMatches
<1>1. Init => StoredInv
    BY IdleNotVetted DEF Init, StoredInv, StoredOK
<1>2. Spec => []StoreInv
    BY QueueImplementsStore, StoreInvariant DEF ImplementsStore
<1>3. StoredInv => SubmitReplyMatches
    BY DEF StoredInv, StoredOK, SubmitReplyMatches, SameInput
<1> QED BY <1>1, <1>2, <1>3, HandlerInvariant, StepStored, PTL DEF Spec

=============================================================================
