------------------------------ MODULE JobQueue ------------------------------
(***************************************************************************)
(* The judges at work (judge/queue.go, judge/rpc.go, judge/main.go) on top *)
(* of the jobs table: on every judge machine a claim loop, the goroutines  *)
(* that execute claimed jobs, the RPC handlers of Submit, Run and Cancel,  *)
(* shutdown, and the timers that wake the loop.                            *)
(*                                                                         *)
(* A step here is what runs between two points where another goroutine can *)
(* get in: a region under q.mu, a channel operation, or one statement of   *)
(* the database.  Steps that change the table are steps of JobStore.       *)
(***************************************************************************)
EXTENDS JobStore, FiniteSets

CONSTANTS
    Judge,      \* judge machines
    Caller,     \* RPC handlers that may be open at the same time
    SlotCount,  \* slotCount, 2 in the code
    Fault,      \* the kinds of fault that may happen, see Faults
    MaxFaults   \* bound: faults in one behaviour

Faults == {"crash", "shutdown", "claim", "claimReply", "save", "saveReply",
           "acceptReply", "cancelReply", "lease"}

ASSUME QueueAssumption ==
    /\ SlotCount \in Nat \ {0}
    /\ Fault \subseteq Faults
    /\ MaxFaults \in Nat
    /\ IsFiniteSet(Judge) /\ IsFiniteSet(Caller)

VARIABLES
    judge,      \* the jobQueue of each judge process
    workers,    \* goroutines that execute claimed jobs
    rpc,        \* RPC handlers
    unheard,    \* history: jobs stored or claimed by a commit whose reply was lost
    faults      \* faults so far

queueVars == <<judge, workers, rpc, unheard, faults>>
vars == <<storeVars, queueVars>>

Idle == [pc |-> "idle"]

\* The state of a process: flags and counters of jobQueue, where its claim loop is, the IDs the
\* open claim query excludes, and what will still send on q.wake: goroutines about to notify
\* (waking), and timers, each given by the owner tokens whose leases it outlasts.
Stopped == [up |-> FALSE, draining |-> FALSE, ctxDone |-> FALSE, loop |-> "ended",
            excluded |-> {}, wake |-> FALSE, waking |-> FALSE, slots |-> 0,
            active |-> [j \in Job |-> NoToken], timers |-> {}]

\* The 5-second timer after a failed claim waits for no lease.
RetryTimer == {}

LeasedTokens == {jobs[j].owner : j \in {k \in Job : jobs[k].leased}}

\* A wrong start: nothing waits for the leases that a stopped judge left.
Started0NoTimer == [Stopped EXCEPT !.up = TRUE, !.loop = "scan"]

\* start, once prepare succeeded: the first timer outlasts every lease a stopped judge left.
Started0 == [Stopped EXCEPT !.up = TRUE, !.loop = "scan", !.timers = {LeasedTokens}]

Init ==
    /\ StoreInit
    /\ judge = [d \in Judge |-> Stopped]
    /\ workers = {}
    /\ rpc = [c \in Caller |-> Idle]
    /\ unheard = {}
    /\ faults = 0

Fails(kind) ==
    /\ kind \in Fault
    /\ faults < MaxFaults
    /\ faults' = faults + 1

WorkersOf(d) == {w \in workers : w.judge = d}

RunsOf(d) == {c \in Caller : rpc[c].pc = "running" /\ rpc[c].judge = d}

\* A wrong acquire: one slot too many.
CanAcquireOneMore(d) == judge[d].up /\ ~judge[d].draining /\ judge[d].slots <= SlotCount

\* A wrong acquire: a draining judge still takes work.
CanAcquireDraining(d) == judge[d].up /\ judge[d].slots < SlotCount

\* acquire: the errors are errRuntimeUnavailable and errSlotsBusy.
CanAcquire(d) == judge[d].up /\ ~judge[d].draining /\ judge[d].slots < SlotCount

\* A wrong activeIDs: the query excludes nothing.
NoActiveIDs(d) == {}

\* The jobs that are running here.
activeIDs(d) == {j \in Job : judge[d].active[j] # NoToken}

----------------------------------------------------------------------------
(* The claim loop: claimJobs and claimOne.                                 *)

\* A free slot is taken for the query, or the loop goes to its select.
ClaimOne(d) ==
    /\ judge[d].loop = "scan"
    /\ judge' = IF CanAcquire(d)
                THEN [judge EXCEPT ![d].slots = @ + 1, ![d].loop = "query",
                                   ![d].excluded = activeIDs(d)]
                ELSE [judge EXCEPT ![d].loop = "waiting"]
    /\ UNCHANGED <<storeVars, workers, rpc, unheard, faults>>

\* SKIP LOCKED: rows that another judge's open query may have locked.
LockedElsewhere(d) ==
    UNION {Oldest(judge[e].excluded) : e \in {x \in Judge \ {d} : judge[x].loop = "query"}}

FreshWorkerToken(token) == \A w \in workers : w.claim.ownerToken # token

\* The query returns a job.
ClaimReturns(d) ==
    /\ judge[d].loop = "query"
    /\ \E locked \in SUBSET LockedElsewhere(d), token \in Token :
        \E j \in Oldest(judge[d].excluded \cup locked) :
            /\ FreshWorkerToken(token)
            /\ ClaimJob(j, token)
            /\ workers' = workers \cup {[judge |-> d, claim |-> ClaimOf(j, token),
                                         pc |-> "claimed", stopped |-> FALSE]}
            /\ unheard' = unheard \ {j}
    /\ judge' = [judge EXCEPT ![d].loop = "claimed", ![d].excluded = {}]
    /\ UNCHANGED <<rpc, faults>>

\* A wrong end: an empty claim keeps its slot.
EndQueryKeepingSlot(d, failed) ==
    judge' = [judge EXCEPT ![d].loop = "waiting", ![d].excluded = {},
                           ![d].slots = IF failed THEN @ - 1 ELSE @]

\* A wrong end: a failed claim is not tried again.
EndQueryWithoutRetry(d, failed) ==
    judge' = [judge EXCEPT ![d].loop = "waiting", ![d].slots = @ - 1, ![d].excluded = {}]

\* The slot goes back; after an error a timer retries, unless the judge is shutting down.
EndQuery(d, failed) ==
    judge' = [judge EXCEPT ![d].loop = "waiting", ![d].slots = @ - 1, ![d].excluded = {},
                           ![d].timers = IF failed /\ ~judge[d].ctxDone
                                         THEN @ \cup {RetryTimer} ELSE @]

\* Nothing to claim.
ClaimNothing(d) ==
    /\ judge[d].loop = "query"
    /\ \E locked \in SUBSET LockedElsewhere(d) : Oldest(judge[d].excluded \cup locked) = {}
    /\ EndQuery(d, FALSE)
    /\ UNCHANGED <<storeVars, workers, rpc, unheard, faults>>

\* The database is unreachable, or shutdown cancels the query.
ClaimFails(d) ==
    /\ judge[d].loop = "query"
    /\ Fails("claim") \/ (judge[d].ctxDone /\ UNCHANGED faults)
    /\ EndQuery(d, TRUE)
    /\ UNCHANGED <<storeVars, workers, rpc, unheard>>

\* The UPDATE is committed, but its answer does not arrive within 5 seconds.
ClaimReplyLost(d) ==
    /\ judge[d].loop = "query"
    /\ Fails("claimReply")
    /\ \E token \in Token : \E j \in Oldest(judge[d].excluded) :
        /\ FreshWorkerToken(token)
        /\ ClaimUnheard(j, token)
        /\ unheard' = unheard \cup {j}
    /\ EndQuery(d, TRUE)
    /\ UNCHANGED <<workers, rpc>>

\* The cancel function is stored, and the goroutine starts.
Register(d) ==
    /\ judge[d].loop = "claimed"
    /\ \E w \in WorkersOf(d) :
        /\ w.pc = "claimed"
        /\ workers' = (workers \ {w}) \cup {[w EXCEPT !.pc = "work", !.stopped = judge[d].ctxDone]}
        /\ judge' = [judge EXCEPT ![d].active[w.claim.job] = w.claim.ownerToken,
                                  ![d].loop = "scan"]
    /\ UNCHANGED <<storeVars, rpc, unheard, faults>>

\* The select of claimJobs.
Wake(d) ==
    /\ judge[d].loop = "waiting"
    /\ judge[d].wake
    /\ judge' = [judge EXCEPT ![d].wake = FALSE, ![d].loop = "scan"]
    /\ UNCHANGED <<storeVars, workers, rpc, unheard, faults>>

HourlyTick(d) ==
    /\ judge[d].loop = "waiting"
    /\ judge' = [judge EXCEPT ![d].loop = "scan"]
    /\ UNCHANGED <<storeVars, workers, rpc, unheard, faults>>

LoopEnds(d) ==
    /\ judge[d].loop = "waiting"
    /\ judge[d].ctxDone
    /\ judge' = [judge EXCEPT ![d].loop = "ended"]
    /\ UNCHANGED <<storeVars, workers, rpc, unheard, faults>>

\* notify by a goroutine that released its slot.
Notify(d) ==
    /\ judge[d].waking
    /\ judge' = [judge EXCEPT ![d].waking = FALSE, ![d].wake = TRUE]
    /\ UNCHANGED <<storeVars, workers, rpc, unheard, faults>>

\* notify by a timer, when the leases it outlasts are over.
TimerFires(d) ==
    /\ \E timer \in judge[d].timers :
        /\ timer \cap LeasedTokens = {}
        /\ judge' = [judge EXCEPT ![d].timers = @ \ {timer}, ![d].wake = TRUE]
    /\ UNCHANGED <<storeVars, workers, rpc, unheard, faults>>

----------------------------------------------------------------------------
(* The goroutine of a claimed job: work, then clean-up in three steps.     *)

Becomes(w, pc) == workers' = (workers \ {w}) \cup {[w EXCEPT !.pc = pc]}

\* The execution ends, and finish saves its outcome.
Save(w) ==
    /\ w.pc = "work"
    /\ \E ending \in Endings(w.claim) : SaveOutcome(w.claim, ending)
    /\ Becomes(w, "saved")
    /\ UNCHANGED <<judge, rpc, unheard, faults>>

\* finish fails: a timer outlasts the lease.
LeaseTimer(w) == judge' = [judge EXCEPT ![w.judge].timers = @ \cup {{w.claim.ownerToken}}]

SaveFails(w) ==
    /\ w.pc = "work"
    /\ Fails("save")
    /\ LoseClaims({w.claim})
    /\ Becomes(w, "saved")
    /\ LeaseTimer(w)
    /\ UNCHANGED <<rpc, unheard>>

\* finish is committed, but its answer is lost.
SaveReplyLost(w) ==
    /\ w.pc = "work"
    /\ Fails("saveReply")
    /\ \E ending \in Endings(w.claim) : SaveOutcome(w.claim, ending)
    /\ Becomes(w, "saved")
    /\ LeaseTimer(w)
    /\ UNCHANGED <<rpc, unheard>>

Unregister(w) ==
    /\ w.pc = "saved"
    /\ Becomes(w, "unregistered")
    /\ judge' = [judge EXCEPT ![w.judge].active[w.claim.job] = NoToken]
    /\ UNCHANGED <<storeVars, rpc, unheard, faults>>

\* release; the notify that follows is Notify.
Release(w) ==
    /\ w.pc = "unregistered"
    /\ workers' = workers \ {w}
    /\ judge' = [judge EXCEPT ![w.judge].slots = @ - 1, ![w.judge].waking = TRUE]
    /\ UNCHANGED <<storeVars, rpc, unheard, faults>>

----------------------------------------------------------------------------
(* The RPC handlers.                                                       *)

Answered(c) == rpc' = [rpc EXCEPT ![c] = Idle]

\* The advisory lock on a UUID is free: no accept of it is between its checks and its commit.
LockFree(j) == \A c \in Caller : rpc[c].pc = "vetted" => rpc[c].job # j

\* canAccept, for a runtime the judge has an image of.
CanAccept(d) == judge[d].up /\ ~judge[d].draining

\* accept, up to canAccept: a stored UUID is answered, a new one is vetted. The other outcomes
\* answer an error and change nothing.
Submit(c, d, j, input) ==
    /\ rpc[c] = Idle
    /\ judge[d].up
    /\ LockFree(j)
    /\ \E pc \in {"vetted", "stored"} :
        /\ CASE pc = "stored" -> AcceptAgain(j, input)
             [] pc = "vetted" -> ~Exists(j) /\ input.version = current /\ CanAccept(d) /\ UNCHANGED storeVars
        /\ rpc' = [rpc EXCEPT ![c] = [pc |-> pc, judge |-> d, job |-> j, input |-> input]]
        /\ unheard' = IF pc = "stored" THEN unheard \ {j} ELSE unheard
    /\ UNCHANGED <<judge, workers, faults>>

\* accept inserts the job and commits.
SubmitCommits(c) ==
    /\ rpc[c].pc = "vetted"
    /\ InsertRow(rpc[c].job, rpc[c].input)
    /\ rpc' = [rpc EXCEPT ![c].pc = "stored"]
    /\ UNCHANGED <<judge, workers, unheard, faults>>

\* The commit's answer is lost: the caller gets an error, nobody is notified.
SubmitReplyLost(c) ==
    /\ rpc[c].pc = "vetted"
    /\ Fails("acceptReply")
    /\ InsertRow(rpc[c].job, rpc[c].input)
    /\ unheard' = unheard \cup {rpc[c].job}
    /\ Answered(c)
    /\ UNCHANGED <<judge, workers>>

\* The transaction is rolled back: the caller left, or the database failed.
SubmitRollsBack(c) ==
    /\ rpc[c].pc = "vetted"
    /\ Answered(c)
    /\ UNCHANGED <<storeVars, judge, workers, unheard, faults>>

\* submit and run end with notify.
NotifyAndAnswer(c) ==
    /\ rpc[c].pc \in {"stored", "ran"}
    /\ judge' = [judge EXCEPT ![rpc[c].judge].wake = TRUE]
    /\ Answered(c)
    /\ UNCHANGED <<storeVars, workers, unheard, faults>>

\* run takes a slot, or answers that none is free.
Run(c, d) ==
    /\ rpc[c] = Idle
    /\ CanAcquire(d)
    /\ judge' = [judge EXCEPT ![d].slots = @ + 1]
    /\ rpc' = [rpc EXCEPT ![c] = [pc |-> "running", judge |-> d]]
    /\ UNCHANGED <<storeVars, workers, unheard, faults>>

\* The deferred release; the deferred notify comes after it.
RunEnds(c) ==
    /\ rpc[c].pc = "running"
    /\ judge' = [judge EXCEPT ![rpc[c].judge].slots = @ - 1]
    /\ rpc' = [rpc EXCEPT ![c].pc = "ran"]
    /\ UNCHANGED <<storeVars, workers, unheard, faults>>

\* Stop, in the table; a missing job is an error. If the answer is lost, the call ends here.
Cancel(c, d, j) ==
    /\ rpc[c] = Idle
    /\ judge[d].up
    /\ CancelRow(j)
    /\ \/ rpc' = [rpc EXCEPT ![c] = [pc |-> "canceling", judge |-> d, job |-> j]] /\ UNCHANGED faults
       \/ UNCHANGED rpc /\ Fails("cancelReply")
    /\ UNCHANGED <<judge, workers, unheard>>

\* Stop, in this process: the registered cancel function is called, if there is one.
CancelHere(c) ==
    /\ rpc[c].pc = "canceling"
    /\ workers' = {IF /\ w.judge = rpc[c].judge
                      /\ w.claim.ownerToken = judge[rpc[c].judge].active[rpc[c].job]
                   THEN [w EXCEPT !.stopped = TRUE] ELSE w : w \in workers}
    /\ Answered(c)
    /\ UNCHANGED <<storeVars, judge, unheard, faults>>

----------------------------------------------------------------------------
(* The process: start, shutdown and crash.                                 *)

\* The service manager (re)starts the judge, and prepare finds Docker and the grader images.
Start(d) ==
    /\ ~judge[d].up
    /\ judge' = [judge EXCEPT ![d] = Started0]
    /\ UNCHANGED <<storeVars, workers, rpc, unheard, faults>>

\* drain: no new work.
Drain(d) ==
    /\ judge[d].up
    /\ ~judge[d].draining
    /\ Fails("shutdown")
    /\ judge' = [judge EXCEPT ![d].draining = TRUE]
    /\ UNCHANGED <<storeVars, workers, rpc, unheard>>

\* drain: the slots are free, or five seconds are over; whatever still runs is canceled.
CancelWork(d) ==
    /\ judge[d].draining
    /\ ~judge[d].ctxDone
    /\ judge' = [judge EXCEPT ![d].ctxDone = TRUE]
    /\ workers' = {IF w.judge = d /\ w.pc # "claimed" THEN [w EXCEPT !.stopped = TRUE] ELSE w
                      : w \in workers}
    /\ UNCHANGED <<storeVars, rpc, unheard, faults>>

\* The process is gone, and with it the claims and handlers it had.
Gone(d) ==
    /\ judge' = [judge EXCEPT ![d] = Stopped]
    /\ workers' = workers \ WorkersOf(d)
    /\ rpc' = [c \in Caller |-> IF rpc[c] # Idle /\ rpc[c].judge = d THEN Idle ELSE rpc[c]]
    /\ LoseClaims({claim \in claims : \E w \in WorkersOf(d) : w.claim = claim})
    /\ UNCHANGED unheard

\* drain is over: every slot is free and the loop has ended.
Exit(d) ==
    /\ judge[d].ctxDone
    /\ judge[d].slots = 0
    /\ judge[d].loop = "ended"
    /\ Gone(d)
    /\ UNCHANGED faults

\* The machine fails, the process is killed, or shutdown gives up after 30 seconds.
Crash(d) ==
    /\ judge[d].up
    /\ Fails("crash")
    /\ Gone(d)

\* A lease that nobody can end runs out; one whose holder is at work does so only if the
\* execution takes longer than the lease.
LeaseOut(j) ==
    /\ LeaseRunsOut(j)
    /\ IF \E claim \in claims : Owns(claim) /\ claim.job = j
       THEN Fails("lease") ELSE UNCHANGED faults
    /\ UNCHANGED <<judge, workers, rpc, unheard>>

\* A wrong accept: the version is read without FOR SHARE.
PublishAnyTime(version) ==
    /\ PublishVersion(version)
    /\ UNCHANGED queueVars

\* FOR SHARE: an accept that has read the current version holds the update up.
Publish(version) ==
    /\ \A c \in Caller : rpc[c].pc # "vetted"
    /\ PublishVersion(version)
    /\ UNCHANGED queueVars

----------------------------------------------------------------------------
LoopStep(d) ==
    \/ ClaimOne(d) \/ ClaimReturns(d) \/ ClaimNothing(d) \/ ClaimFails(d) \/ ClaimReplyLost(d)
    \/ Register(d) \/ Wake(d) \/ HourlyTick(d) \/ LoopEnds(d)

WorkerStep(w) == Save(w) \/ SaveFails(w) \/ SaveReplyLost(w) \/ Unregister(w) \/ Release(w)

Request(c) ==
    \E d \in Judge :
        \/ \E j \in Job, input \in Input : Submit(c, d, j, input)
        \/ Run(c, d)
        \/ \E j \in Job : Cancel(c, d, j)

HandlerStep(c) ==
    \/ SubmitCommits(c) \/ SubmitReplyLost(c) \/ SubmitRollsBack(c) \/ NotifyAndAnswer(c)
    \/ RunEnds(c) \/ CancelHere(c)

ProcessStep(d) == Start(d) \/ Drain(d) \/ CancelWork(d) \/ Exit(d) \/ Crash(d)

Next ==
    \/ \E d \in Judge : LoopStep(d) \/ Notify(d) \/ TimerFires(d) \/ ProcessStep(d)
    \/ \E w \in workers : WorkerStep(w)
    \/ \E c \in Caller : Request(c) \/ HandlerStep(c)
    \/ \E j \in Job : LeaseOut(j)
    \/ \E version \in Update : Publish(version)

Spec == Init /\ [][Next]_vars

\* What runs by itself: goroutines, timers, handlers once called, the service manager, the
\* database's clock. Requests, faults and content updates are never forced. Workers are named
\* by their job and judge, because the set of workers changes.
Progress ==
    /\ \A d \in Judge :
        /\ WF_vars(ClaimOne(d)) /\ WF_vars(Register(d)) /\ WF_vars(Wake(d))
        /\ WF_vars(ClaimReturns(d) \/ ClaimNothing(d) \/ ClaimFails(d))
        /\ SF_vars(LoopEnds(d)) /\ WF_vars(Notify(d)) /\ WF_vars(TimerFires(d))
        /\ WF_vars(Start(d)) /\ WF_vars(CancelWork(d)) /\ WF_vars(Exit(d))
        /\ \A j \in Job : WF_vars(\E w \in workers :
               w.judge = d /\ w.claim.job = j /\ (Save(w) \/ Unregister(w) \/ Release(w)))
    /\ \A c \in Caller : WF_vars(HandlerStep(c))
    /\ \A j \in Job : WF_vars(LeaseOut(j) /\ UNCHANGED faults)

FairSpec == Spec /\ Progress

\* The ticker of claimJobs, which finds what nobody was told of.
Ticks == \A d \in Judge : WF_vars(HourlyTick(d))

----------------------------------------------------------------------------
(* Properties                                                              *)

Process == [up : BOOLEAN, draining : BOOLEAN, ctxDone : BOOLEAN,
            loop : {"scan", "query", "claimed", "waiting", "ended"},
            excluded : SUBSET Job, wake : BOOLEAN, waking : BOOLEAN, slots : 0..SlotCount,
            active : [Job -> Token \cup {NoToken}], timers : SUBSET SUBSET Token]

Worker == [judge : Judge, claim : Claim, pc : {"claimed", "work", "saved", "unregistered"},
           stopped : BOOLEAN]

Handler == {Idle}
    \cup [pc : {"vetted", "stored"}, judge : Judge, job : Job, input : Input]
    \cup [pc : {"running", "ran"}, judge : Judge]
    \cup [pc : {"canceling"}, judge : Judge, job : Job]

TypeOK ==
    /\ StoreTypeOK
    /\ judge \in [Judge -> Process]
    /\ workers \subseteq Worker
    /\ rpc \in [Caller -> Handler]
    /\ unheard \subseteq Job
    /\ faults \in 0..MaxFaults

\* slots counts exactly what occupies a slot: one claim query, each goroutine of a claimed job
\* until its release, and each Run. No path leaks a slot or gives one back twice.
SlotsMatch ==
    \A d \in Judge :
        judge[d].slots = Cardinality(WorkersOf(d)) + Cardinality(RunsOf(d))
                         + (IF judge[d].loop = "query" THEN 1 ELSE 0)

\* The claim loop never replaces the cancel function of a job that still runs here, and clean-up
\* never deletes that of a later claim: active names exactly the goroutines at work.
ActiveMatchesWork ==
    \A d \in Judge, j \in Job :
        {w.claim.ownerToken : w \in {x \in WorkersOf(d) : x.claim.job = j /\ x.pc \in {"work", "saved"}}}
            = {judge[d].active[j]} \ {NoToken}

\* Something on judge d is on its way that makes its loop look for j: the loop itself, a wake-up,
\* a goroutine or handler about to send one, the retry timer, a full house, or a restart.
WillLook(d, j) ==
    \/ ~judge[d].up \/ judge[d].draining
    \/ judge[d].loop \in {"scan", "claimed"}
    \/ judge[d].loop = "query" /\ j \notin judge[d].excluded
    \/ judge[d].loop = "waiting" /\ judge[d].slots = SlotCount
    \/ judge[d].wake \/ judge[d].waking \/ RetryTimer \in judge[d].timers
    \/ \E w \in WorkersOf(d) : w.claim.job = j /\ w.pc \in {"saved", "unregistered"}
    \/ \E c \in Caller :
           /\ rpc[c] # Idle /\ rpc[c].judge = d
           /\ rpc[c].pc = "ran" \/ (rpc[c].pc = "stored" /\ rpc[c].job = j)

\* No wake-up is lost: a queued job never waits for the hourly ticker while a slot is free, unless
\* the commit that stored it was answered with an error.
NoLostWakeup ==
    \A j \in Job : jobs[j].state = "queued" /\ j \notin unheard => \E d \in Judge : WillLook(d, j)

\* As long as no execution outlasts its lease, no two judges execute one submission at once.
OneExecution ==
    "lease" \notin Fault =>
        \A v, w \in workers :
            /\ v.pc \in {"claimed", "work"} /\ w.pc \in {"claimed", "work"}
            /\ v.claim.job = w.claim.job
            => v = w

\* Whoever is told that a submission was accepted finds his own input under its UUID, however many
\* requests used that UUID at the same time.
SubmitReplyMatches ==
    \A c \in Caller : rpc[c].pc = "stored" => jobs[rpc[c].job].input = rpc[c].input

\* Every step of the judges is a step of the store, or leaves it alone: in particular a job is
\* stored only with the version that is current at its commit.
ImplementsStore == StoreSpec

QueuedJobEnds == \A j \in Job : jobs[j].state = "queued" ~> jobs[j].state \in Terminal

\* With the hourly ticker, a submission that is queued ends, whatever faults interrupt it
\* (queue.go:68, claimJobs).
AcceptedJobEnds == Ticks => QueuedJobEnds

\* The wake-ups and timers alone end it as well, unless the answer to a commit that stores or claims
\* it is lost (queue.go:66, queue.go:93, queue.go:137).
EndsPromptly == [](unheard = {}) => QueuedJobEnds

\* A shutdown always finishes: every slot is released and the claim loop ends.
ShutdownEnds == \A d \in Judge : judge[d].draining ~> ~judge[d].up

\* queue.go:15, "a lease only runs out when its judge stopped": where no judge ever stops, no
\* lease runs out.
LeaseOutlivesRun ==
    [][(\E j \in Job : /\ jobs[j].leased /\ ~jobs'[j].leased
                       /\ jobs'[j].owner = jobs[j].owner)
          => Fault \cap {"crash", "shutdown"} # {}]_vars

\* queue.go:25, "keeps each running job's cancel function, so Stop can reach it": once the Stop
\* call is over, the execution of a stopped job has been told.
StopReachesWork ==
    \A w \in workers :
        /\ w.pc = "work" /\ Executes(w.claim) /\ Owns(w.claim)
        /\ jobs[w.claim.job].cancelRequested
        /\ \A c \in Caller : rpc[c].pc = "canceling" => rpc[c].job # w.claim.job
        => w.stopped

=============================================================================
