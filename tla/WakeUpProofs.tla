---------------------------- MODULE WakeUpProofs ----------------------------
(***************************************************************************)
(* No wake-up is lost, for any number of judges, slots, jobs and faults:   *)
(* while a submission waits in the queue, something on some judge is on    *)
(* its way that makes a claim loop look for it.                            *)
(***************************************************************************)
EXTENDS JudgeProofs, WellFoundedInduction

\* p with the goroutines W will look for j by itself: WillLook without the open calls.
Looks(p, W, j) ==
    \/ ~p.up \/ p.draining
    \/ p.loop \in {"scan", "claimed"}
    \/ p.loop = "query" /\ j \notin p.excluded
    \/ p.loop = "waiting" /\ p.slots = SlotCount
    \/ p.wake \/ p.waking \/ RetryTimer \in p.timers
    \/ \E w \in W : w.claim.job = j /\ w.pc \in {"saved", "unregistered"}

\* An open call to d ends with a notify that finds j.
WillNotify(c, d, j) ==
    /\ rpc[c] # Idle /\ rpc[c].judge = d
    /\ rpc[c].pc = "ran" \/ (rpc[c].pc = "stored" /\ rpc[c].job = j)

\* None of the goroutines W executes j.
Free(W, j) == \A w \in W : w.claim.job = j => w.pc \notin {"claimed", "work"}

\* The judge d will look for j, and its query will not exclude it.
Awaited(d, j) == WillLook(d, j) /\ Free(WorkersOf(d), j)

Waits(j) == jobs[j].state = "queued" /\ j \notin unheard

AwaitedInv == \A j \in Job : Waits(j) => \E d \in Judge : Awaited(d, j)

\* Nobody executes a job whose commit was answered with an error: queued, no goroutine knows it;
\* started, no judge holds the claim.
UnheardInv ==
    \A j \in unheard :
        /\ jobs[j].state = "queued" => \A w \in workers : w.claim.job # j
        /\ jobs[j].state \in Started => \A claim \in claims : claim.ownerToken # jobs[j].owner

RowsInv ==
    /\ \A d \in Judge : judge[d].ctxDone => judge[d].draining
    /\ \A w \in workers : Exists(w.claim.job)
    /\ UnheardInv

WakeInv == RowsInv /\ AwaitedInv

----------------------------------------------------------------------------
(* The claim query returns a row as long as there is one.                  *)

LEMMA Least ==
    ASSUME NEW S \in SUBSET Nat, S # {}
    PROVE  \E n \in S : \A m \in S : n <= m
<1> DEFINE R == {ss \in Nat \X Nat : ss[1] < ss[2]}
<1>1. IsWellFoundedOn(R, Nat)
    BY NatLessThanWellFounded DEF OpToRel
<1>2. \A m, n \in Nat : m < n => <<m, n>> \in R
    OBVIOUS
<1> HIDE DEF R
<1>3. PICK n \in S : \A m \in S : <<m, n>> \notin R
    BY <1>1, WFMin
<1>4. \A m \in S : m \in Nat /\ n \in Nat /\ ~(m < n)
    BY <1>2, <1>3
<1> QED BY <1>4

LEMMA OldestExists ==
    ASSUME StoreInv, NEW excluded, NEW j \in Job \ excluded, Claimable(j)
    PROVE  Oldest(excluded) # {}
<1> DEFINE open == {k \in Job \ excluded : Claimable(k)}
           times == {jobs[k].created : k \in open}
<1>1. \A k \in Job : jobs[k].created \in Nat
    BY DEF StoreInv, StoreTypeOK, Row
<1>2. times \in SUBSET Nat /\ times # {}
    BY <1>1
<1>3. PICK n \in times : \A m \in times : n <= m
    BY <1>2, Least
<1>4. PICK k \in open : jobs[k].created = n
    OBVIOUS
<1>5. k \in Oldest(excluded)
    BY <1>3, <1>4 DEF Oldest
<1> QED BY <1>5

----------------------------------------------------------------------------
(* Who goes on looking.                                                    *)

LEMMA LookersAwait ==
    ASSUME NEW d, NEW j,
           \/ Looks(judge'[d], WorkersOf(d)', j)
           \/ \E c \in Caller : WillNotify(c, d, j)'
    PROVE  WillLook(d, j)'
BY DEF WillLook, Looks, WillNotify

LEMMA AwaitedParts ==
    ASSUME NEW d, NEW j, WillLook(d, j)
    PROVE  Looks(judge[d], WorkersOf(d), j) \/ \E c \in Caller : WillNotify(c, d, j)
BY DEF WillLook, Looks, WillNotify

\* A judge that has nothing to do with the step.
LEMMA BystanderAwaits ==
    ASSUME NEW d, NEW j, Awaited(d, j),
           judge'[d] = judge[d], WorkersOf(d)' = WorkersOf(d),
           \A c \in Caller : WillNotify(c, d, j) => WillNotify(c, d, j)'
    PROVE  Awaited(d, j)'
<1>1. Looks(judge'[d], WorkersOf(d)', j) \/ \E c \in Caller : WillNotify(c, d, j)'
    BY AwaitedParts DEF Awaited
<1>2. WillLook(d, j)'
    BY <1>1, LookersAwait
<1> QED BY <1>2 DEF Awaited

\* A step of the judge e that makes no job wait.
LEMMA StepOfOne ==
    ASSUME AwaitedInv, NEW e \in Judge,
           \A d \in Judge \ {e} : judge'[d] = judge[d] /\ WorkersOf(d)' = WorkersOf(d),
           \A d \in Judge \ {e}, j \in Job, c \in Caller : WillNotify(c, d, j) => WillNotify(c, d, j)',
           \A j \in Job : Waits(j)' => Waits(j) /\ (Awaited(e, j) => Awaited(e, j)')
    PROVE  AwaitedInv'
<1> SUFFICES ASSUME NEW j \in Job, Waits(j)' PROVE \E d \in Judge : Awaited(d, j)'
    BY DEF AwaitedInv
<1>1. PICK d \in Judge : Awaited(d, j)
    BY DEF AwaitedInv
<1>2. CASE d = e
    BY <1>1, <1>2
<1>3. CASE d # e
    BY <1>1, <1>3, BystanderAwaits
<1> QED BY <1>2, <1>3

\* A step of the process e alone, after which it looks.
LEMMA ProcessLooks ==
    ASSUME QueueInv, AwaitedInv, NEW e \in Judge, NEW q, judge' = [judge EXCEPT ![e] = q],
           UNCHANGED <<workers, rpc>>,
           \A j \in Job : Waits(j)' =>
               Waits(j) /\ (Awaited(e, j) => Looks(q, WorkersOf(e), j) \/ \E c \in Caller : WillNotify(c, e, j))
    PROVE  AwaitedInv'
<1>1. \A d : WorkersOf(d)' = WorkersOf(d)
    BY SameWorkers
<1>2. judge'[e] = q /\ \A d \in Judge \ {e} : judge'[d] = judge[d]
    BY DEF QueueInv
<1>3. \A c, d, j : WillNotify(c, d, j)' <=> WillNotify(c, d, j)
    BY DEF WillNotify
<1>4. ASSUME NEW j \in Job, Waits(j)', Awaited(e, j) PROVE Awaited(e, j)'
    <2>1. Looks(judge'[e], WorkersOf(e)', j) \/ \E c \in Caller : WillNotify(c, e, j)'
        BY <1>1, <1>2, <1>3, <1>4
    <2>2. WillLook(e, j)'
        BY <2>1, LookersAwait
    <2> QED BY <1>1, <1>4, <2>2 DEF Awaited
<1> QED BY <1>1, <1>2, <1>3, <1>4, StepOfOne

----------------------------------------------------------------------------
(* The steps of a process.                                                 *)

LEMMA ClaimOneAwaits ==
    ASSUME QueueInv, AwaitedInv, NEW e \in Judge, ClaimOne(e)
    PROVE  AwaitedInv'
<1> DEFINE p == judge[e]
<1>1. p \in Process /\ Registered(p, WorkersOf(e)) /\ p.loop = "scan"
    BY WorkersOfFacts DEF JudgeOK, ClaimOne
<1>2. UNCHANGED <<storeVars, workers, rpc, unheard>>
    BY DEF ClaimOne
<1>3. \A j \in Job : Waits(j)' => Waits(j)
    BY <1>2 DEF Waits, storeVars
<1>4. CASE CanAcquire(e)
    <2> DEFINE q == [p EXCEPT !.slots = @ + 1, !.loop = "query", !.excluded = activeIDs(e)]
    <2>1. judge' = [judge EXCEPT ![e] = q]
        BY <1>4 DEF ClaimOne
    <2>2. q.loop = "query" /\ q.excluded = activeIDs(e)
        BY <1>1 DEF Process
    <2> HIDE DEF q
    <2>3. ASSUME NEW j \in Job, Awaited(e, j) PROVE Looks(q, WorkersOf(e), j)
        <3>1. CASE j \notin activeIDs(e)
            BY <2>2, <3>1 DEF Looks
        <3>2. CASE j \in activeIDs(e)
            <4>1. PICK w \in WorkersOf(e) : w.claim.job = j /\ w.pc \in AtWork
                BY <1>1, <3>2 DEF activeIDs, Registered
            <4>2. w.pc = "saved"
                BY <2>3, <4>1 DEF Awaited, Free, AtWork
            <4> QED BY <4>1, <4>2 DEF Looks
        <3> QED BY <3>1, <3>2
    <2> QED BY <1>2, <1>3, <2>1, <2>3, ProcessLooks
<1>5. CASE ~CanAcquire(e)
    <2> DEFINE q == [p EXCEPT !.loop = "waiting"]
    <2>1. judge' = [judge EXCEPT ![e] = q]
        BY <1>5 DEF ClaimOne
    <2>2. /\ q.loop = "waiting" /\ q.up = p.up /\ q.draining = p.draining /\ q.slots = p.slots
          /\ p.slots \in 0..SlotCount
        BY <1>1 DEF Process
    <2>3. ~p.up \/ p.draining \/ p.slots = SlotCount
        BY <1>5, <2>2, QueueAssumption DEF CanAcquire
    <2> HIDE DEF q
    <2>4. \A j \in Job : Looks(q, WorkersOf(e), j)
        BY <2>2, <2>3 DEF Looks
    <2> QED BY <1>2, <1>3, <2>1, <2>4, ProcessLooks
<1> QED BY <1>4, <1>5

\* A query that finds nothing was locked out by another judge's query, which will find the job.
LEMMA ClaimNothingAwaits ==
    ASSUME StoreInv, QueueInv, AwaitedInv, NEW e \in Judge, ClaimNothing(e)
    PROVE  AwaitedInv'
<1>1. PICK locked \in SUBSET LockedElsewhere(e) : Oldest(judge[e].excluded \cup locked) = {}
    BY DEF ClaimNothing
<1>2. /\ judge[e].loop = "query" /\ EndQuery(e, FALSE)
      /\ UNCHANGED <<storeVars, workers, rpc, unheard>>
    BY DEF ClaimNothing
<1> DEFINE q == [judge[e] EXCEPT !.loop = "waiting", !.slots = @ - 1, !.excluded = {}]
<1>3. judge' = [judge EXCEPT ![e] = q] /\ judge[e] \in Process
    BY <1>2, WorkersOfFacts DEF EndQuery
<1>4. /\ q.up = judge[e].up /\ q.draining = judge[e].draining /\ q.wake = judge[e].wake
      /\ q.waking = judge[e].waking /\ q.timers = judge[e].timers
    BY <1>3 DEF Process
<1> HIDE DEF q
<1>5. judge'[e] = q /\ \A d \in Judge \ {e} : judge'[d] = judge[d]
    BY <1>3 DEF QueueInv
<1>6. \A d : WorkersOf(d)' = WorkersOf(d)
    BY <1>2, SameWorkers
<1>7. \A c, d, j : WillNotify(c, d, j)' <=> WillNotify(c, d, j)
    BY <1>2 DEF WillNotify
<1>8. \A d \in Judge \ {e}, j \in Job : Awaited(d, j) => Awaited(d, j)'
    BY <1>5, <1>6, <1>7, BystanderAwaits
<1>9. SUFFICES ASSUME NEW j \in Job, Waits(j)' PROVE \E d \in Judge : Awaited(d, j)'
    BY DEF AwaitedInv
<1>10. Waits(j)
    BY <1>2, <1>9 DEF Waits, storeVars
<1>11. PICK d \in Judge : Awaited(d, j)
    BY <1>10 DEF AwaitedInv
<1>12. CASE d # e
    BY <1>8, <1>11, <1>12
<1>13. CASE d = e /\ j \in judge[e].excluded
    <2>1. Looks(q, WorkersOf(e), j) \/ \E c \in Caller : WillNotify(c, e, j)
        BY <1>2, <1>4, <1>11, <1>13, AwaitedParts DEF Awaited, Looks
    <2>2. WillLook(e, j)'
        BY <1>5, <1>6, <1>7, <2>1, LookersAwait
    <2> QED BY <1>6, <1>11, <1>13, <2>2 DEF Awaited
<1>14. CASE j \notin judge[e].excluded
    <2>1. Claimable(j)
        BY <1>10 DEF Waits, Claimable
    <2>2. j \in locked
        BY <1>1, <1>14, <2>1, OldestExists
    <2>3. PICK x \in Judge \ {e} : judge[x].loop = "query" /\ j \in Oldest(judge[x].excluded)
        BY <2>2 DEF LockedElsewhere
    <2>4. j \notin judge[x].excluded
        BY <2>3 DEF Oldest
    <2>5. Registered(judge[x], WorkersOf(x))
        BY WorkersOfFacts DEF JudgeOK
    <2>6. Free(WorkersOf(x), j)
        <3> SUFFICES ASSUME NEW w \in WorkersOf(x), w.claim.job = j PROVE w.pc \notin {"claimed", "work"}
            BY DEF Free
        <3>1. w.claim.ownerToken \in Token
            BY WorkersOfFacts DEF Worker, Claim
        <3> QED BY <2>3, <2>4, <2>5, <3>1, NullAssumption DEF Registered, AtWork
    <2>7. WillLook(x, j)
        BY <2>3, <2>4 DEF WillLook
    <2> QED BY <1>8, <2>6, <2>7 DEF Awaited
<1> QED BY <1>12, <1>13, <1>14

\* A query that fails is tried again.
LEMMA FailedQueryLooks ==
    ASSUME QueueInv, RowsInv, NEW e \in Judge, EndQuery(e, TRUE)
    PROVE  \E q : judge' = [judge EXCEPT ![e] = q] /\ \A j : Looks(q, WorkersOf(e), j)
<1> DEFINE p == judge[e]
           q == [p EXCEPT !.loop = "waiting", !.slots = @ - 1, !.excluded = {},
                          !.timers = IF ~p.ctxDone THEN @ \cup {RetryTimer} ELSE @]
<1>1. p \in Process
    BY WorkersOfFacts
<1>2. judge' = [judge EXCEPT ![e] = q]
    BY DEF EndQuery
<1>3. q.draining = p.draining /\ (~p.ctxDone => RetryTimer \in q.timers)
    BY <1>1 DEF Process
<1>4. p.ctxDone => p.draining
    BY DEF RowsInv
<1> HIDE DEF q
<1> QED BY <1>2, <1>3, <1>4 DEF Looks

LEMMA ClaimFailsAwaits ==
    ASSUME QueueInv, RowsInv, AwaitedInv, NEW e \in Judge, ClaimFails(e)
    PROVE  AwaitedInv'
<1>1. EndQuery(e, TRUE) /\ UNCHANGED <<storeVars, workers, rpc, unheard>>
    BY DEF ClaimFails
<1>2. \A j \in Job : Waits(j)' => Waits(j)
    BY <1>1 DEF Waits, storeVars
<1> QED BY <1>1, <1>2, FailedQueryLooks, ProcessLooks

\* The other jobs keep their rows when one is claimed, and that one waits no longer.
LEMMA ClaimedNotWaiting ==
    ASSUME StoreInv, NEW j, NEW token, TakeOver(j, token),
           \A k \in unheard \ {j} : k \in unheard'
    PROVE  \A k \in Job : Waits(k)' => Waits(k) /\ k # j
<1>1. jobs \in [Job -> Row] /\ j \in Job
    BY DEF StoreInv, StoreTypeOK, TakeOver
<1>2. jobs'[j].state # "queued" /\ \A k \in Job \ {j} : jobs'[k] = jobs[k]
    BY <1>1 DEF TakeOver, Row
<1> QED BY <1>2 DEF Waits

LEMMA ClaimReplyLostAwaits ==
    ASSUME StoreInv, QueueInv, RowsInv, AwaitedInv, NEW e \in Judge, ClaimReplyLost(e)
    PROVE  AwaitedInv'
<1>1. EndQuery(e, TRUE) /\ UNCHANGED <<workers, rpc>>
    BY DEF ClaimReplyLost
<1>2. PICK token \in Token, j \in Oldest(judge[e].excluded) :
          TakeOver(j, token) /\ unheard' = unheard \cup {j}
    BY DEF ClaimReplyLost, ClaimUnheard
<1>3. \A k \in Job : Waits(k)' => Waits(k)
    BY <1>2, ClaimedNotWaiting
<1> QED BY <1>1, <1>3, FailedQueryLooks, ProcessLooks

\* Steps after which the loop scans, is woken, ends, or the process takes no work.
LEMMA FlagsAwait ==
    ASSUME QueueInv, RowsInv, AwaitedInv, NEW e \in Judge,
           \/ Wake(e) \/ HourlyTick(e) \/ LoopEnds(e) \/ Notify(e) \/ TimerFires(e)
           \/ Drain(e) \/ Start(e)
    PROVE  AwaitedInv'
<1>1. judge[e] \in Process /\ judge \in [Judge -> Process] /\ (judge[e].ctxDone => judge[e].draining)
    BY WorkersOfFacts DEF QueueInv, RowsInv
<1>2. UNCHANGED <<storeVars, workers, rpc, unheard>>
    BY DEF Wake, HourlyTick, LoopEnds, Notify, TimerFires, Drain, Start
<1>3. \E q : /\ judge' = [judge EXCEPT ![e] = q]
             /\ q.draining \/ q.loop = "scan" \/ q.wake
    <2>1. CASE Wake(e) \/ HourlyTick(e) \/ Start(e)
        <3>1. \/ judge' = [judge EXCEPT ![e] = [judge[e] EXCEPT !.wake = FALSE, !.loop = "scan"]]
              \/ judge' = [judge EXCEPT ![e] = [judge[e] EXCEPT !.loop = "scan"]]
              \/ judge' = [judge EXCEPT ![e] = Started0]
            BY <2>1 DEF Wake, HourlyTick, Start
        <3>2. /\ [judge[e] EXCEPT !.wake = FALSE, !.loop = "scan"].loop = "scan"
              /\ [judge[e] EXCEPT !.loop = "scan"].loop = "scan"
              /\ Started0.loop = "scan"
            BY <1>1 DEF Process, Started0, Stopped
        <3> QED BY <3>1, <3>2
    <2>2. CASE LoopEnds(e)
        <3>1. judge' = [judge EXCEPT ![e] = [judge[e] EXCEPT !.loop = "ended"]]
            BY <2>2 DEF LoopEnds
        <3>2. [judge[e] EXCEPT !.loop = "ended"].draining
            BY <1>1, <2>2 DEF LoopEnds, Process
        <3> QED BY <3>1, <3>2
    <2>3. CASE Notify(e)
        <3>1. judge' = [judge EXCEPT ![e] = [judge[e] EXCEPT !.waking = FALSE, !.wake = TRUE]]
            BY <2>3 DEF Notify
        <3>2. [judge[e] EXCEPT !.waking = FALSE, !.wake = TRUE].wake
            BY <1>1 DEF Process
        <3> QED BY <3>1, <3>2
    <2>4. CASE TimerFires(e)
        <3>1. PICK timer : judge' = [judge EXCEPT ![e] = [judge[e] EXCEPT !.timers = @ \ {timer},
                                                                           !.wake = TRUE]]
            BY <2>4 DEF TimerFires
        <3>2. [judge[e] EXCEPT !.timers = @ \ {timer}, !.wake = TRUE].wake
            BY <1>1 DEF Process
        <3> QED BY <3>1, <3>2
    <2>5. CASE Drain(e)
        <3>1. judge' = [judge EXCEPT ![e] = [judge[e] EXCEPT !.draining = TRUE]]
            BY <2>5 DEF Drain
        <3>2. [judge[e] EXCEPT !.draining = TRUE].draining
            BY <1>1 DEF Process
        <3> QED BY <3>1, <3>2
    <2> QED BY <2>1, <2>2, <2>3, <2>4, <2>5
<1>4. PICK q : judge' = [judge EXCEPT ![e] = q] /\ (q.draining \/ q.loop = "scan" \/ q.wake)
    BY <1>3
<1>5. \A j \in Job : Looks(q, WorkersOf(e), j)
    BY <1>4 DEF Looks
<1>6. \A j \in Job : Waits(j)' => Waits(j)
    BY <1>2 DEF Waits, storeVars
<1> QED BY <1>2, <1>4, <1>5, <1>6, ProcessLooks

\* A step of e after which e looks for every job, and executes no other than before.
LEMMA StepOfLooker ==
    ASSUME AwaitedInv, NEW e \in Judge,
           \A d \in Judge \ {e} : judge'[d] = judge[d] /\ WorkersOf(d)' = WorkersOf(d),
           \A d \in Judge \ {e}, j \in Job, c \in Caller : WillNotify(c, d, j) => WillNotify(c, d, j)',
           \A j \in Job : Waits(j)' =>
               /\ Waits(j)
               /\ Looks(judge'[e], WorkersOf(e)', j)
               /\ Free(WorkersOf(e), j) => Free(WorkersOf(e)', j)
    PROVE  AwaitedInv'
<1>1. ASSUME NEW j \in Job, Waits(j)', Awaited(e, j) PROVE Awaited(e, j)'
    <2>1. Looks(judge'[e], WorkersOf(e)', j) /\ Free(WorkersOf(e)', j)
        BY <1>1 DEF Awaited
    <2>2. WillLook(e, j)'
        BY <2>1, LookersAwait
    <2> QED BY <2>1, <2>2 DEF Awaited
<1> QED BY <1>1, StepOfOne

LEMMA ClaimReturnsAwaits ==
    ASSUME StoreInv, QueueInv, AwaitedInv, NEW e \in Judge, ClaimReturns(e)
    PROVE  AwaitedInv'
<1>1. judge' = [judge EXCEPT ![e] = [judge[e] EXCEPT !.loop = "claimed", !.excluded = {}]]
      /\ judge[e] \in Process /\ judge \in [Judge -> Process] /\ UNCHANGED rpc
    BY WorkersOfFacts DEF ClaimReturns, QueueInv
<1>2. PICK locked \in SUBSET LockedElsewhere(e), token \in Token :
        \E j \in Oldest(judge[e].excluded \cup locked) :
            /\ ClaimJob(j, token) /\ unheard' = unheard \ {j}
            /\ workers' = workers \cup {[judge |-> e, claim |-> ClaimOf(j, token), pc |-> "claimed",
                                        stopped |-> FALSE]}
    BY DEF ClaimReturns
<1>3. PICK j : /\ TakeOver(j, token) /\ unheard' = unheard \ {j}
               /\ workers' = workers \cup {[judge |-> e, claim |-> ClaimOf(j, token), pc |-> "claimed",
                                           stopped |-> FALSE]}
    BY <1>2 DEF ClaimJob
<1> DEFINE w == [judge |-> e, claim |-> ClaimOf(j, token), pc |-> "claimed", stopped |-> FALSE]
<1>4. w.judge = e /\ w.claim.job = j /\ workers' = workers \cup {w}
    BY <1>3 DEF ClaimOf
<1> HIDE DEF w
<1>5. WorkersOf(e)' = WorkersOf(e) \cup {w} /\ \A d : d # e => WorkersOf(d)' = WorkersOf(d)
    BY <1>4 DEF WorkersOf
<1>6. judge'[e].loop = "claimed" /\ \A d \in Judge \ {e} : judge'[d] = judge[d]
    BY <1>1 DEF Process
<1>7. \A k \in Job : Waits(k)' => Waits(k) /\ k # j
    BY <1>3, ClaimedNotWaiting
<1>8. \A c, d, k : WillNotify(c, d, k)' <=> WillNotify(c, d, k)
    BY <1>1 DEF WillNotify
<1>9. \A k \in Job : k # j => (Free(WorkersOf(e), k) => Free(WorkersOf(e)', k))
    BY <1>4, <1>5 DEF Free
<1>10. \A k \in Job : Looks(judge'[e], WorkersOf(e)', k)
    BY <1>6 DEF Looks
<1> QED BY <1>5, <1>6, <1>7, <1>8, <1>9, <1>10, StepOfLooker

LEMMA RegisterAwaits ==
    ASSUME QueueInv, AwaitedInv, NEW e \in Judge, Register(e)
    PROVE  AwaitedInv'
<1>1. PICK w \in WorkersOf(e) :
        /\ w.pc = "claimed"
        /\ workers' = (workers \ {w}) \cup {[w EXCEPT !.pc = "work", !.stopped = judge[e].ctxDone]}
        /\ judge' = [judge EXCEPT ![e].active[w.claim.job] = w.claim.ownerToken, ![e].loop = "scan"]
    BY DEF Register
<1> DEFINE v == [w EXCEPT !.pc = "work", !.stopped = judge[e].ctxDone]
<1>2. w \in workers /\ w.judge = e /\ w \in Worker
    BY WorkersOfFacts DEF WorkersOf
<1>3. v.judge = w.judge /\ v.claim = w.claim
    BY <1>2 DEF Worker
<1> HIDE DEF v
<1>4. /\ WorkersOf(e)' = (WorkersOf(e) \ {w}) \cup {v}
      /\ \A d : d # e => WorkersOf(d)' = WorkersOf(d)
    BY <1>1, <1>2, <1>3, SwapWorkers DEF v
<1>5. judge[e] \in Process /\ judge \in [Judge -> Process]
    BY WorkersOfFacts DEF QueueInv
<1>6. judge'[e].loop = "scan" /\ \A d \in Judge \ {e} : judge'[d] = judge[d]
    BY <1>1, <1>5 DEF Process
<1>7. UNCHANGED <<storeVars, rpc, unheard>>
    BY DEF Register
<1>8. \A j \in Job : Waits(j)' => Waits(j)
    BY <1>7 DEF Waits, storeVars
<1>9. \A c, d, j : WillNotify(c, d, j)' <=> WillNotify(c, d, j)
    BY <1>7 DEF WillNotify
<1>10. \A j \in Job : Free(WorkersOf(e), j) => Free(WorkersOf(e)', j)
    BY <1>1, <1>3, <1>4 DEF Free
<1>11. \A j \in Job : Looks(judge'[e], WorkersOf(e)', j)
    BY <1>6 DEF Looks
<1> QED BY <1>4, <1>6, <1>8, <1>9, <1>10, <1>11, StepOfLooker

LEMMA CancelWorkAwaits ==
    ASSUME QueueInv, AwaitedInv, NEW e \in Judge, CancelWork(e)
    PROVE  AwaitedInv'
<1>1. /\ judge[e].draining /\ judge' = [judge EXCEPT ![e].ctxDone = TRUE]
      /\ workers' = {IF w.judge = e /\ w.pc # "claimed" THEN [w EXCEPT !.stopped = TRUE] ELSE w
                        : w \in workers}
      /\ UNCHANGED <<storeVars, rpc, unheard>>
    BY DEF CancelWork
<1>2. judge[e] \in Process /\ judge \in [Judge -> Process] /\ workers \subseteq Worker
    BY WorkersOfFacts DEF QueueInv
<1>3. judge'[e].draining /\ \A d \in Judge \ {e} : judge'[d] = judge[d]
    BY <1>1, <1>2 DEF Process
<1>4. \A w \in workers : LET v == [w EXCEPT !.stopped = TRUE]
                         IN  v.judge = w.judge /\ v.claim = w.claim /\ v.pc = w.pc
    BY <1>2 DEF Worker
<1>5. \A d \in Judge \ {e} : WorkersOf(d)' = WorkersOf(d)
    BY <1>1, <1>4 DEF WorkersOf
<1>6. \A j \in Job : Free(WorkersOf(e), j) => Free(WorkersOf(e)', j)
    <2>1. \A v \in WorkersOf(e)' : \E w \in WorkersOf(e) : v.claim = w.claim /\ v.pc = w.pc
        BY <1>1, <1>4 DEF WorkersOf
    <2> QED BY <2>1 DEF Free
<1>7. \A j \in Job : Looks(judge'[e], WorkersOf(e)', j)
    BY <1>3 DEF Looks
<1>8. \A j \in Job : Waits(j)' => Waits(j)
    BY <1>1 DEF Waits, storeVars
<1>9. \A c, d, j : WillNotify(c, d, j)' <=> WillNotify(c, d, j)
    BY <1>1 DEF WillNotify
<1> QED BY <1>3, <1>5, <1>6, <1>7, <1>8, <1>9, StepOfLooker

LEMMA GoneAwaits ==
    ASSUME QueueInv, HandlerInv, AwaitedInv, NEW e \in Judge, Gone(e)
    PROVE  AwaitedInv'
<1>1. /\ judge' = [judge EXCEPT ![e] = Stopped] /\ workers' = workers \ WorkersOf(e)
      /\ rpc' = [c \in Caller |-> IF rpc[c] # Idle /\ rpc[c].judge = e THEN Idle ELSE rpc[c]]
      /\ jobs' = jobs /\ unheard' = unheard
    BY DEF Gone, LoseClaims
<1>2. ~judge'[e].up /\ \A d \in Judge \ {e} : judge'[d] = judge[d]
    BY <1>1 DEF QueueInv, Stopped
<1>3. WorkersOf(e)' = {} /\ \A d \in Judge \ {e} : WorkersOf(d)' = WorkersOf(d)
    BY <1>1 DEF WorkersOf
<1>4. \A d \in Judge \ {e}, j \in Job, c \in Caller : WillNotify(c, d, j) => WillNotify(c, d, j)'
    BY <1>1 DEF WillNotify
<1>5. \A j \in Job : Looks(judge'[e], WorkersOf(e)', j) /\ Free(WorkersOf(e)', j)
    BY <1>2, <1>3 DEF Looks, Free
<1>6. \A j \in Job : Waits(j)' => Waits(j)
    BY <1>1 DEF Waits
<1> QED BY <1>2, <1>3, <1>4, <1>5, <1>6, StepOfLooker

----------------------------------------------------------------------------
(* The steps of a goroutine.                                               *)

\* The goroutine w of a job goes on to its clean-up, as v.
LEMMA CleanUpAwaits ==
    ASSUME QueueInv, AwaitedInv, NEW w \in workers, NEW v, v.judge = w.judge, v.claim = w.claim,
           v.pc \in {"saved", "unregistered"},
           workers' = (workers \ {w}) \cup {v}, UNCHANGED <<rpc, unheard>>,
           \A d \in Judge : judge'[d].up = judge[d].up /\ judge'[d].draining = judge[d].draining,
           \A d \in Judge : judge'[d].loop = judge[d].loop /\ judge'[d].excluded = judge[d].excluded,
           \A d \in Judge : judge'[d].slots = judge[d].slots /\ judge'[d].wake = judge[d].wake,
           \A d \in Judge : judge'[d].waking = judge[d].waking /\ judge[d].timers \subseteq judge'[d].timers,
           \A j \in Job : Waits(j)' =>
               Waits(j) \/ (j = w.claim.job /\ Free(WorkersOf(w.judge) \ {w}, j))
    PROVE  AwaitedInv'
<1>1. w.judge \in Judge
    BY DEF QueueInv, Worker
<1>2. /\ WorkersOf(w.judge)' = (WorkersOf(w.judge) \ {w}) \cup {v}
      /\ \A d : d # w.judge => WorkersOf(d)' = WorkersOf(d)
    BY SwapWorkers
<1>3. \A c, d, j : WillNotify(c, d, j)' <=> WillNotify(c, d, j)
    BY DEF WillNotify
<1>4. \A d \in Judge, j \in Job : Free(WorkersOf(d), j) => Free(WorkersOf(d)', j)
    BY <1>2 DEF Free
<1>5. ASSUME NEW d \in Judge, NEW j \in Job, Looks(judge[d], WorkersOf(d), j)
      PROVE  Looks(judge'[d], WorkersOf(d)', j)
    <2>1. \A u \in WorkersOf(d) : u.claim.job = j /\ u.pc \in {"saved", "unregistered"} =>
              \E x \in WorkersOf(d)' : x.claim.job = j /\ x.pc \in {"saved", "unregistered"}
        BY <1>2
    <2> QED BY <1>5, <2>1 DEF Looks
<1>6. SUFFICES ASSUME NEW j \in Job, Waits(j)' PROVE \E d \in Judge : Awaited(d, j)'
    BY DEF AwaitedInv
<1>7. CASE Waits(j)
    <2>1. PICK d \in Judge : Awaited(d, j)
        BY <1>7 DEF AwaitedInv
    <2>2. WillLook(d, j)'
        BY <1>3, <1>5, <2>1, AwaitedParts, LookersAwait DEF Awaited
    <2> QED BY <1>4, <2>1, <2>2 DEF Awaited
<1>8. CASE j = w.claim.job /\ Free(WorkersOf(w.judge) \ {w}, j)
    <2>1. Free(WorkersOf(w.judge)', j)
        BY <1>2, <1>8 DEF Free
    <2>2. Looks(judge'[w.judge], WorkersOf(w.judge)', j)
        BY <1>2, <1>8 DEF Looks
    <2>3. WillLook(w.judge, j)'
        BY <2>2, LookersAwait
    <2> QED BY <1>1, <2>1, <2>3 DEF Awaited
<1> QED BY <1>6, <1>7, <1>8

\* An interrupted job returns to the queue; its goroutine still has to clean up, and is the only
\* one that executed it here.
LEMMA SaveAwaits ==
    ASSUME StoreInv, QueueInv, AwaitedInv, NEW w \in workers,
           Save(w) \/ SaveFails(w) \/ SaveReplyLost(w)
    PROVE  AwaitedInv'
<1> DEFINE v == [w EXCEPT !.pc = "saved"]
<1>1. /\ w \in Worker /\ w.judge \in Judge /\ w.claim.job \in Job /\ w.claim.ownerToken \in Token
      /\ judge \in [Judge -> Process]
    BY DEF QueueInv, Worker, Claim
<1>2. v.judge = w.judge /\ v.claim = w.claim /\ v.pc = "saved" /\ w.pc = "work"
    BY <1>1 DEF Worker, Save, SaveFails, SaveReplyLost
<1>3. workers' = (workers \ {w}) \cup {v} /\ UNCHANGED <<rpc, unheard>>
    BY DEF Save, SaveFails, SaveReplyLost, Becomes
<1> HIDE DEF v
<1>4. \/ judge' = judge
      \/ judge' = [judge EXCEPT ![w.judge] =
                       [judge[w.judge] EXCEPT !.timers = @ \cup {{w.claim.ownerToken}}]]
    BY DEF Save, SaveFails, SaveReplyLost, LeaseTimer
<1>5. \A d \in Judge :
          /\ judge'[d].up = judge[d].up /\ judge'[d].draining = judge[d].draining
          /\ judge'[d].loop = judge[d].loop /\ judge'[d].excluded = judge[d].excluded
          /\ judge'[d].slots = judge[d].slots /\ judge'[d].wake = judge[d].wake
          /\ judge'[d].waking = judge[d].waking /\ judge[d].timers \subseteq judge'[d].timers
    <2> TAKE d \in Judge
    <2>1. judge[d] \in Process
        BY <1>1
    <2>2. judge'[d] = judge[d] \/ judge'[d] = [judge[d] EXCEPT !.timers = @ \cup {{w.claim.ownerToken}}]
        BY <1>1, <1>4
    <2> QED BY <2>1, <2>2 DEF Process
<1>6. \/ jobs' = jobs
      \/ \E row : jobs' = [jobs EXCEPT ![w.claim.job] = row]
    BY DEF Save, SaveFails, SaveReplyLost, SaveOutcome, LoseClaims
<1>7. Free(WorkersOf(w.judge) \ {w}, w.claim.job)
    <2>1. /\ Registered(judge[w.judge], WorkersOf(w.judge)) /\ w \in WorkersOf(w.judge)
          /\ Distinct(WorkersOf(w.judge))
        BY <1>1, WorkersOfFacts DEF JudgeOK, WorkersOf
    <2>2. judge[w.judge].active[w.claim.job] = w.claim.ownerToken
        BY <1>2, <2>1 DEF Registered, AtWork
    <2> SUFFICES ASSUME NEW u \in WorkersOf(w.judge) \ {w}, u.claim.job = w.claim.job,
                        u.pc \in {"claimed", "work"}
                 PROVE  FALSE
        BY DEF Free
    <2>3. CASE u.pc = "claimed"
        BY <1>1, <2>1, <2>2, <2>3, NullAssumption DEF Registered
    <2>4. CASE u.pc = "work"
        BY <2>1, <2>2, <2>4 DEF Registered, AtWork, Distinct
    <2> QED BY <2>3, <2>4
<1>8. \A j \in Job : j # w.claim.job => jobs'[j] = jobs[j]
    BY <1>6 DEF StoreInv, StoreTypeOK
<1>9. \A j \in Job : Waits(j)' => Waits(j) \/ (j = w.claim.job /\ Free(WorkersOf(w.judge) \ {w}, j))
    BY <1>3, <1>7, <1>8 DEF Waits
<1> QED BY <1>2, <1>3, <1>5, <1>9, CleanUpAwaits

LEMMA UnregisterAwaits ==
    ASSUME QueueInv, AwaitedInv, NEW w \in workers, Unregister(w)
    PROVE  AwaitedInv'
<1> DEFINE v == [w EXCEPT !.pc = "unregistered"]
<1>1. w \in Worker /\ w.judge \in Judge /\ judge \in [Judge -> Process]
    BY DEF QueueInv, Worker
<1>2. v.judge = w.judge /\ v.claim = w.claim /\ v.pc = "unregistered"
    BY <1>1 DEF Worker
<1>3. /\ workers' = (workers \ {w}) \cup {v} /\ UNCHANGED <<storeVars, rpc, unheard>>
      /\ judge' = [judge EXCEPT ![w.judge] = [judge[w.judge] EXCEPT !.active[w.claim.job] = NoToken]]
    BY DEF Unregister, Becomes
<1> HIDE DEF v
<1>4. \A d \in Judge :
          /\ judge'[d].up = judge[d].up /\ judge'[d].draining = judge[d].draining
          /\ judge'[d].loop = judge[d].loop /\ judge'[d].excluded = judge[d].excluded
          /\ judge'[d].slots = judge[d].slots /\ judge'[d].wake = judge[d].wake
          /\ judge'[d].waking = judge[d].waking /\ judge[d].timers \subseteq judge'[d].timers
    <2> TAKE d \in Judge
    <2>1. judge[d] \in Process
        BY <1>1
    <2>2. judge'[d] = judge[d] \/ judge'[d] = [judge[d] EXCEPT !.active[w.claim.job] = NoToken]
        BY <1>1, <1>3
    <2> QED BY <2>1, <2>2 DEF Process
<1>5. \A j \in Job : Waits(j)' => Waits(j)
    BY <1>3 DEF Waits, storeVars
<1> QED BY <1>2, <1>3, <1>4, <1>5, CleanUpAwaits

LEMMA ReleaseAwaits ==
    ASSUME QueueInv, AwaitedInv, NEW w \in workers, Release(w)
    PROVE  AwaitedInv'
<1>1. w.judge \in Judge /\ judge \in [Judge -> Process]
    BY DEF QueueInv, Worker
<1>2. /\ workers' = workers \ {w} /\ UNCHANGED <<storeVars, rpc, unheard>>
      /\ judge' = [judge EXCEPT ![w.judge] = [judge[w.judge] EXCEPT !.slots = @ - 1, !.waking = TRUE]]
    BY DEF Release
<1>3. judge'[w.judge].waking /\ \A d \in Judge \ {w.judge} : judge'[d] = judge[d]
    BY <1>1, <1>2 DEF Process
<1>4. /\ WorkersOf(w.judge)' = WorkersOf(w.judge) \ {w}
      /\ \A d : d # w.judge => WorkersOf(d)' = WorkersOf(d)
    BY <1>2, DropWorker
<1>5. \A c, d, j : WillNotify(c, d, j)' <=> WillNotify(c, d, j)
    BY <1>2 DEF WillNotify
<1>6. \A j \in Job : /\ Looks(judge'[w.judge], WorkersOf(w.judge)', j)
                     /\ Free(WorkersOf(w.judge), j) => Free(WorkersOf(w.judge)', j)
    BY <1>3, <1>4 DEF Looks, Free
<1>7. \A j \in Job : Waits(j)' => Waits(j)
    BY <1>2 DEF Waits, storeVars
<1> QED BY <1>1, <1>3, <1>4, <1>5, <1>6, <1>7, StepOfLooker

----------------------------------------------------------------------------
(* The steps of a call, of the clock and of the problems.                  *)

\* No judge moves; a job that starts to wait has an open call that will send a notify.
LEMMA CallAwaits ==
    ASSUME AwaitedInv, UNCHANGED judge,
           \A d \in Judge : WorkersOf(d)' = WorkersOf(d),
           \A c \in Caller, d \in Judge, j \in Job : WillNotify(c, d, j) => WillNotify(c, d, j)',
           \A j \in Job : Waits(j)' =>
               \/ Waits(j)
               \/ \E d \in Judge, c \in Caller : WillNotify(c, d, j)' /\ Free(WorkersOf(d), j)
    PROVE  AwaitedInv'
<1> SUFFICES ASSUME NEW j \in Job, Waits(j)' PROVE \E d \in Judge : Awaited(d, j)'
    BY DEF AwaitedInv
<1>1. CASE Waits(j)
    <2>1. PICK d \in Judge : Awaited(d, j)
        BY <1>1 DEF AwaitedInv
    <2> QED BY <2>1, BystanderAwaits
<1>2. ASSUME NEW d \in Judge, NEW c \in Caller, WillNotify(c, d, j)', Free(WorkersOf(d), j)
      PROVE  Awaited(d, j)'
    <2>1. WillLook(d, j)'
        BY <1>2, LookersAwait
    <2> QED BY <1>2, <2>1 DEF Awaited
<1> QED BY <1>1, <1>2

\* Only one handler moves, and it was not about to notify.
LEMMA NotifiersStay ==
    ASSUME NEW c \in Caller, NEW state, rpc \in [Caller -> Handler], rpc' = [rpc EXCEPT ![c] = state],
           rpc[c].pc \notin {"ran", "stored"}
    PROVE  \A b \in Caller : \A d, j : WillNotify(b, d, j) => WillNotify(b, d, j)'
BY DEF WillNotify

LEMMA SubmitAwaits ==
    ASSUME StoreInv, HandlerInv, QueueInv, RowsInv, AwaitedInv, NEW c \in Caller, NEW d \in Judge,
           NEW j \in Job, NEW input \in Input, Submit(c, d, j, input)
    PROVE  AwaitedInv'
<1>1. PICK pc \in {"vetted", "stored"} :
        /\ rpc' = [rpc EXCEPT ![c] = [pc |-> pc, judge |-> d, job |-> j, input |-> input]]
        /\ unheard' = IF pc = "stored" THEN unheard \ {j} ELSE unheard
        /\ jobs' = jobs
    BY DEF Submit, AcceptAgain, storeVars
<1>2. /\ rpc[c].pc = "idle" /\ UNCHANGED <<judge, workers>> /\ rpc \in [Caller -> Handler]
    BY IdleNotVetted DEF Submit, HandlerInv
<1>3. \A b \in Caller, e \in Judge, k \in Job : WillNotify(b, e, k) => WillNotify(b, e, k)'
    BY <1>1, <1>2, NotifiersStay
<1>4. \A e : WorkersOf(e)' = WorkersOf(e)
    BY <1>2, SameWorkers
<1>5. ASSUME NEW k \in Job, Waits(k)', ~Waits(k)
      PROVE  WillNotify(c, d, k)' /\ Free(WorkersOf(d), k)
    <2>1. k = j /\ pc = "stored" /\ j \in unheard /\ jobs[j].state = "queued"
        BY <1>1, <1>5 DEF Waits
    <2>2. \A w \in workers : w.claim.job # j
        BY <2>1 DEF RowsInv, UnheardInv
    <2>3. Free(WorkersOf(d), j)
        BY <2>2 DEF Free, WorkersOf
    <2>4. rpc'[c] = [pc |-> pc, judge |-> d, job |-> j, input |-> input]
        BY <1>1, <1>2
    <2>5. WillNotify(c, d, j)'
        <3>1. rpc'[c].pc = "stored" /\ rpc'[c].judge = d /\ rpc'[c].job = j
            BY <2>1, <2>4
        <3>2. rpc'[c] # Idle
            BY <3>1, IdleNotVetted
        <3> QED BY <3>1, <3>2 DEF WillNotify
    <2> QED BY <2>1, <2>3, <2>5
<1> QED BY <1>2, <1>3, <1>4, <1>5, CallAwaits

LEMMA SubmitEndsAwaits ==
    ASSUME StoreInv, HandlerInv, QueueInv, RowsInv, AwaitedInv, NEW c \in Caller,
           SubmitCommits(c) \/ SubmitReplyLost(c) \/ SubmitRollsBack(c)
    PROVE  AwaitedInv'
<1>1. /\ rpc[c].pc = "vetted" /\ UNCHANGED <<judge, workers>>
      /\ rpc \in [Caller -> Handler] /\ \E state : rpc' = [rpc EXCEPT ![c] = state]
    BY DEF SubmitCommits, SubmitReplyLost, SubmitRollsBack, Answered, HandlerInv
<1>2. \A b \in Caller, e \in Judge, k \in Job : WillNotify(b, e, k) => WillNotify(b, e, k)'
    BY <1>1, NotifiersStay
<1>3. \A e : WorkersOf(e)' = WorkersOf(e)
    BY <1>1, SameWorkers
<1>4. rpc[c] \in [pc : {"vetted", "stored"}, judge : Judge, job : Job, input : Input]
    BY <1>1, Shapes DEF HandlerInv
<1>7. PICK j \in Job, d \in Judge : j = rpc[c].job /\ d = rpc[c].judge
    BY <1>4
<1>5. CASE SubmitRollsBack(c)
    BY <1>1, <1>2, <1>3, <1>5, CallAwaits DEF SubmitRollsBack, Waits, storeVars
<1>6. CASE ~SubmitRollsBack(c)
    <2>1. ~Exists(j) /\ \A k \in Job : k # j => jobs'[k] = jobs[k]
        BY <1>6, <1>7 DEF SubmitCommits, SubmitReplyLost, InsertRow, StoreInv, StoreTypeOK
    <2>2. Free(WorkersOf(d), j)
        BY <2>1 DEF RowsInv, Free, WorkersOf
    <2>3. CASE SubmitReplyLost(c)
        <3>1. \A k \in Job : Waits(k)' => Waits(k)
            BY <1>7, <2>1, <2>3 DEF SubmitReplyLost, Waits
        <3> QED BY <1>1, <1>2, <1>3, <3>1, CallAwaits
    <2>4. CASE SubmitCommits(c)
        <3>1. rpc' = [rpc EXCEPT ![c].pc = "stored"] /\ unheard' = unheard
            BY <2>4 DEF SubmitCommits
        <3>2. rpc'[c].pc = "stored" /\ rpc'[c].judge = d /\ rpc'[c].job = j
            BY <1>1, <1>4, <1>7, <3>1
        <3>3. WillNotify(c, d, j)'
            BY <3>2, IdleNotVetted DEF WillNotify
        <3>4. \A k \in Job : Waits(k)' => Waits(k) \/ k = j
            BY <2>1, <3>1 DEF Waits
        <3> QED BY <1>1, <1>2, <1>3, <2>2, <3>3, <3>4, CallAwaits
    <2> QED BY <1>5, <1>6, <2>3, <2>4
<1> QED BY <1>5, <1>6

\* A notify wakes the loop; and where a Run ends, a notify follows.
LEMMA NotifyAwaits ==
    ASSUME HandlerInv, QueueInv, AwaitedInv, NEW c \in Caller, NotifyAndAnswer(c)
    PROVE  AwaitedInv'
<1>0. PICK e \in Judge : e = rpc[c].judge
    BY JudgeOfCall DEF NotifyAndAnswer
<1>1. judge[e] \in Process /\ judge \in [Judge -> Process]
    BY DEF QueueInv
<1>2. /\ judge' = [judge EXCEPT ![e].wake = TRUE] /\ rpc' = [rpc EXCEPT ![c] = Idle]
      /\ UNCHANGED <<storeVars, workers, unheard>>
    BY <1>0 DEF NotifyAndAnswer, Answered
<1>3. judge'[e].wake /\ \A d \in Judge \ {e} : judge'[d] = judge[d]
    BY <1>1, <1>2 DEF Process
<1>4. \A d : WorkersOf(d)' = WorkersOf(d)
    BY <1>2, SameWorkers
<1>5. \A d \in Judge \ {e}, j \in Job, b \in Caller : WillNotify(b, d, j) => WillNotify(b, d, j)'
    BY <1>0, <1>2 DEF WillNotify, HandlerInv
<1>6. \A j \in Job : Waits(j)' => Waits(j)
    BY <1>2 DEF Waits, storeVars
<1>7. \A j \in Job : Looks(judge'[e], WorkersOf(e)', j)
    BY <1>3 DEF Looks
<1> QED BY <1>1, <1>3, <1>4, <1>5, <1>6, <1>7, StepOfLooker

LEMMA RunAwaits ==
    ASSUME HandlerInv, QueueInv, AwaitedInv, NEW c \in Caller, NEW e \in Judge, Run(c, e)
    PROVE  AwaitedInv'
<1>1. /\ rpc[c].pc = "idle" /\ judge[e].slots < SlotCount /\ judge' = [judge EXCEPT ![e].slots = @ + 1]
      /\ UNCHANGED <<storeVars, workers, unheard>>
      /\ rpc' = [rpc EXCEPT ![c] = [pc |-> "running", judge |-> e]]
    BY IdleNotVetted DEF Run, CanAcquire
<1>2. judge[e] \in Process /\ judge \in [Judge -> Process] /\ rpc \in [Caller -> Handler]
    BY WorkersOfFacts DEF QueueInv, HandlerInv
<1>3. \A b \in Caller : \A d, j : WillNotify(b, d, j) => WillNotify(b, d, j)'
    BY <1>1, <1>2, NotifiersStay
<1>4. \A d : WorkersOf(d)' = WorkersOf(d)
    BY <1>1, SameWorkers
<1>5. /\ \A d \in Judge \ {e} : judge'[d] = judge[d]
      /\ judge'[e] = [judge[e] EXCEPT !.slots = @ + 1]
    BY <1>1, <1>2
<1>6. ASSUME NEW j \in Job, Looks(judge[e], WorkersOf(e), j)
      PROVE  Looks(judge'[e], WorkersOf(e)', j)
    <2>1. judge[e].slots # SlotCount
        BY <1>1, <1>2, QueueAssumption DEF Process
    <2> QED BY <1>2, <1>4, <1>5, <1>6, <2>1 DEF Looks, Process
<1>7. ASSUME NEW j \in Job, Awaited(e, j) PROVE Awaited(e, j)'
    <2>1. WillLook(e, j)'
        BY <1>3, <1>6, <1>7, AwaitedParts, LookersAwait DEF Awaited
    <2> QED BY <1>4, <1>7, <2>1 DEF Awaited
<1>8. \A j \in Job : Waits(j)' => Waits(j)
    BY <1>1 DEF Waits, storeVars
<1> QED BY <1>3, <1>4, <1>5, <1>7, <1>8, StepOfOne

LEMMA RunEndsAwaits ==
    ASSUME HandlerInv, QueueInv, AwaitedInv, NEW c \in Caller, RunEnds(c)
    PROVE  AwaitedInv'
<1>0. PICK e \in Judge : e = rpc[c].judge
    BY JudgeOfCall DEF RunEnds
<1>1. /\ rpc[c].pc = "running" /\ judge' = [judge EXCEPT ![e].slots = @ - 1]
      /\ UNCHANGED <<storeVars, workers, unheard>> /\ rpc' = [rpc EXCEPT ![c].pc = "ran"]
    BY <1>0 DEF RunEnds
<1>2. /\ judge \in [Judge -> Process] /\ rpc \in [Caller -> Handler]
      /\ rpc[c] \in [pc : {"running", "ran"}, judge : Judge]
    BY <1>1, Shapes DEF QueueInv, HandlerInv
<1>3. \A b \in Caller : \A d, j : WillNotify(b, d, j) => WillNotify(b, d, j)'
    BY <1>1, <1>2, NotifiersStay
<1>4. \A d : WorkersOf(d)' = WorkersOf(d)
    BY <1>1, SameWorkers
<1>5. \A d \in Judge \ {e} : judge'[d] = judge[d]
    BY <1>1, <1>2
<1>6. rpc'[c].pc = "ran" /\ rpc'[c].judge = e
    BY <1>0, <1>1, <1>2
<1>7. \A j : WillNotify(c, e, j)'
    BY <1>6, IdleNotVetted DEF WillNotify
<1>8. ASSUME NEW j \in Job, Awaited(e, j) PROVE Awaited(e, j)'
    <2>1. WillLook(e, j)'
        BY <1>7, LookersAwait
    <2> QED BY <1>4, <1>8, <2>1 DEF Awaited
<1>9. \A j \in Job : Waits(j)' => Waits(j)
    BY <1>1 DEF Waits, storeVars
<1> QED BY <1>2, <1>3, <1>4, <1>5, <1>8, <1>9, StepOfOne

\* A Stop takes jobs from the queue, and adds none.
LEMMA CancelAwaits ==
    ASSUME StoreInv, HandlerInv, AwaitedInv, NEW c \in Caller, NEW d \in Judge, NEW j \in Job,
           Cancel(c, d, j)
    PROVE  AwaitedInv'
<1>1. CancelRow(j) /\ rpc[c].pc = "idle" /\ UNCHANGED <<judge, workers, unheard>>
    BY IdleNotVetted DEF Cancel
<1>2. rpc \in [Caller -> Handler] /\ (rpc' = rpc \/ \E state : rpc' = [rpc EXCEPT ![c] = state])
    BY DEF Cancel, HandlerInv
<1>3. \A b \in Caller, e \in Judge, k \in Job : WillNotify(b, e, k) => WillNotify(b, e, k)'
    <2>1. CASE rpc' = rpc
        BY <2>1 DEF WillNotify
    <2> QED BY <1>1, <1>2, <2>1, NotifiersStay
<1>4. \A e : WorkersOf(e)' = WorkersOf(e)
    BY <1>1, SameWorkers
<1>5. \A k \in Job : Waits(k)' => Waits(k)
    <2>1. \A k \in Job : jobs[k] \in Row
        BY DEF StoreInv, StoreTypeOK
    <2>2. jobs'[j].state # "queued" /\ \A k \in Job \ {j} : jobs'[k] = jobs[k]
        BY <1>1, <2>1 DEF CancelRow, StoreInv, StoreTypeOK, Row
    <2> QED BY <1>1, <2>2 DEF Waits
<1> QED BY <1>1, <1>3, <1>4, <1>5, CallAwaits

LEMMA CancelHereAwaits ==
    ASSUME HandlerInv, QueueInv, AwaitedInv, NEW c \in Caller, CancelHere(c)
    PROVE  AwaitedInv'
<1> DEFINE told(w) == IF /\ w.judge = rpc[c].judge
                         /\ w.claim.ownerToken = judge[rpc[c].judge].active[rpc[c].job]
                      THEN [w EXCEPT !.stopped = TRUE] ELSE w
<1>1. /\ rpc[c].pc = "canceling" /\ rpc' = [rpc EXCEPT ![c] = Idle] /\ rpc \in [Caller -> Handler]
      /\ workers' = {told(w) : w \in workers}
      /\ UNCHANGED <<storeVars, judge, unheard>>
    BY DEF CancelHere, Answered, HandlerInv
<1>2. \A w \in workers : told(w).judge = w.judge /\ told(w).claim = w.claim /\ told(w).pc = w.pc
    BY DEF QueueInv, Worker
<1> HIDE DEF told
<1>3. \A d : \A v \in WorkersOf(d)' : \E w \in WorkersOf(d) : v.claim = w.claim /\ v.pc = w.pc
    BY <1>1, <1>2 DEF WorkersOf
<1>4. \A d : \A w \in WorkersOf(d) : \E v \in WorkersOf(d)' : v.claim = w.claim /\ v.pc = w.pc
    BY <1>1, <1>2 DEF WorkersOf
<1>5. \A b \in Caller : \A d, j : WillNotify(b, d, j) => WillNotify(b, d, j)'
    BY <1>1, NotifiersStay
<1>6. SUFFICES ASSUME NEW j \in Job, Waits(j)' PROVE \E d \in Judge : Awaited(d, j)'
    BY DEF AwaitedInv
<1>7. PICK d \in Judge : Awaited(d, j)
    BY <1>1, <1>6 DEF Waits, storeVars, AwaitedInv
<1>8. Free(WorkersOf(d)', j)
    BY <1>3, <1>7 DEF Awaited, Free
<1>9. Looks(judge[d], WorkersOf(d), j) => Looks(judge'[d], WorkersOf(d)', j)
    BY <1>1, <1>4 DEF Looks
<1>10. WillLook(d, j)'
    BY <1>5, <1>7, <1>9, AwaitedParts, LookersAwait DEF Awaited
<1> QED BY <1>8, <1>10 DEF Awaited

\* A lease runs out, a problem changes, or nothing happens.
LEMMA OutsideAwaits ==
    ASSUME StoreInv, AwaitedInv,
           \/ \E j \in Job : LeaseOut(j)
           \/ \E version : Publish(version)
           \/ UNCHANGED vars
    PROVE  AwaitedInv'
<1>1. UNCHANGED <<judge, workers, rpc, unheard>>
    BY DEF LeaseOut, Publish, queueVars, vars
<1>2. \A e : WorkersOf(e)' = WorkersOf(e)
    BY <1>1, SameWorkers
<1>3. \A b \in Caller, e \in Judge, k \in Job : WillNotify(b, e, k) => WillNotify(b, e, k)'
    BY <1>1 DEF WillNotify
<1>4. \A k \in Job : jobs'[k].state = jobs[k].state
    <2>1. CASE jobs' = jobs
        BY <2>1
    <2>2. ASSUME NEW j \in Job, jobs' = [jobs EXCEPT ![j].leased = FALSE]
          PROVE  \A k \in Job : jobs'[k].state = jobs[k].state
        BY <2>2 DEF StoreInv, StoreTypeOK, Row
    <2> QED BY <2>1, <2>2 DEF LeaseOut, LeaseRunsOut, Publish, PublishVersion, vars, storeVars
<1>5. \A k \in Job : Waits(k)' => Waits(k)
    BY <1>1, <1>4 DEF Waits
<1> QED BY <1>1, <1>2, <1>3, <1>5, CallAwaits

----------------------------------------------------------------------------
(* The flags of shutdown, the goroutines' rows, and the unheard.           *)

Drained == \A d \in Judge : judge[d].ctxDone => judge[d].draining

LEMMA LoopDrained ==
    ASSUME QueueInv, Drained, NEW e \in Judge, LoopStep(e) \/ Notify(e) \/ TimerFires(e)
    PROVE  Drained'
<1> SUFFICES ASSUME NEW d \in Judge
             PROVE  judge'[d].ctxDone = judge[d].ctxDone /\ judge'[d].draining = judge[d].draining
    BY DEF Drained
<1>1. judge \in [Judge -> Process] /\ judge[d] \in Process /\ judge[e] \in Process
    BY DEF QueueInv
<1>2. CASE ClaimOne(e)
    BY <1>1, <1>2 DEF ClaimOne, Process
<1>3. CASE ClaimReturns(e)
    BY <1>1, <1>3 DEF ClaimReturns, Process
<1>4. CASE ClaimNothing(e) \/ ClaimFails(e) \/ ClaimReplyLost(e)
    BY <1>1, <1>4 DEF ClaimNothing, ClaimFails, ClaimReplyLost, EndQuery, Process
<1>5. CASE Register(e)
    BY <1>1, <1>5 DEF Register, Process
<1>6. CASE HourlyTick(e) \/ LoopEnds(e)
    BY <1>1, <1>6 DEF HourlyTick, LoopEnds, Process
<1>7. CASE Wake(e)
    <2>1. judge'[d] = judge[d] \/ judge'[d] = [judge[d] EXCEPT !.wake = FALSE, !.loop = "scan"]
        BY <1>1, <1>7 DEF Wake
    <2> QED BY <1>1, <2>1 DEF Process
<1>8. CASE Notify(e)
    <2>1. judge'[d] = judge[d] \/ judge'[d] = [judge[d] EXCEPT !.waking = FALSE, !.wake = TRUE]
        BY <1>1, <1>8 DEF Notify
    <2> QED BY <1>1, <2>1 DEF Process
<1>9. CASE TimerFires(e)
    <2>1. PICK timer : \/ judge'[d] = judge[d]
                       \/ judge'[d] = [judge[d] EXCEPT !.timers = @ \ {timer}, !.wake = TRUE]
        BY <1>1, <1>9 DEF TimerFires
    <2> QED BY <1>1, <2>1 DEF Process
<1> QED BY <1>2, <1>3, <1>4, <1>5, <1>6, <1>7, <1>8, <1>9 DEF LoopStep

LEMMA ProcessDrained ==
    ASSUME QueueInv, Drained, NEW e \in Judge, ProcessStep(e)
    PROVE  Drained'
<1> SUFFICES ASSUME NEW d \in Judge PROVE judge'[d].ctxDone => judge'[d].draining
    BY DEF Drained
<1>1. judge \in [Judge -> Process] /\ judge[d] \in Process /\ judge[e] \in Process
    BY DEF QueueInv
<1>2. CASE Start(e)
    BY <1>1, <1>2 DEF Drained, Start, Started0, Stopped
<1>3. CASE Drain(e) \/ CancelWork(e)
    BY <1>1, <1>3 DEF Drained, Drain, CancelWork, Process
<1>4. CASE Exit(e) \/ Crash(e)
    BY <1>1, <1>4 DEF Drained, Exit, Crash, Gone, Stopped
<1> QED BY <1>2, <1>3, <1>4 DEF ProcessStep

LEMMA OthersDrained ==
    ASSUME QueueInv, HandlerInv, Drained,
           \/ \E w \in workers : WorkerStep(w)
           \/ \E c \in Caller : Request(c) \/ HandlerStep(c)
           \/ \E j \in Job : LeaseOut(j)
           \/ \E version : Publish(version)
           \/ UNCHANGED vars
    PROVE  Drained'
<1> SUFFICES ASSUME NEW d \in Judge
             PROVE  judge'[d].ctxDone = judge[d].ctxDone /\ judge'[d].draining = judge[d].draining
    BY DEF Drained
<1>1. judge \in [Judge -> Process] /\ judge[d] \in Process
    BY DEF QueueInv
<1>2. ASSUME NEW w \in workers, WorkerStep(w)
      PROVE  judge'[d].ctxDone = judge[d].ctxDone /\ judge'[d].draining = judge[d].draining
    <2>1. CASE Save(w) \/ SaveFails(w) \/ SaveReplyLost(w)
        BY <1>1, <2>1 DEF Save, SaveFails, SaveReplyLost, LeaseTimer, Process
    <2>2. CASE Unregister(w) \/ Release(w)
        BY <1>1, <2>2 DEF Unregister, Release, Process
    <2> QED BY <1>2, <2>1, <2>2 DEF WorkerStep
<1>3. ASSUME NEW c \in Caller, Request(c) \/ HandlerStep(c)
      PROVE  judge'[d].ctxDone = judge[d].ctxDone /\ judge'[d].draining = judge[d].draining
    <2>1. CASE \E e \in Judge : Run(c, e)
        BY <1>1, <2>1 DEF Run, Process
    <2>2. CASE NotifyAndAnswer(c) \/ RunEnds(c)
        <3>1. \/ judge'[d] = judge[d]
              \/ judge'[d] = [judge[d] EXCEPT !.wake = TRUE]
              \/ judge'[d] = [judge[d] EXCEPT !.slots = @ - 1]
            BY <1>1, <2>2 DEF NotifyAndAnswer, RunEnds
        <3> QED BY <1>1, <3>1 DEF Process
    <2>3. CASE UNCHANGED judge
        BY <2>3
    <2> QED BY <1>3, <2>1, <2>2, <2>3 DEF Request, HandlerStep, Submit, Cancel, SubmitCommits,
                                          SubmitReplyLost, SubmitRollsBack, CancelHere
<1>4. CASE UNCHANGED judge
    BY <1>4
<1> QED BY <1>2, <1>3, <1>4 DEF LeaseOut, Publish, queueVars, vars

\* No goroutine has a claim that none had before.
OldClaims == \A v \in workers' : \E w \in workers : v.claim = w.claim

LEMMA ClaimsAreOld ==
    ASSUME QueueInv,
           \/ \E d \in Judge : /\ LoopStep(d) \/ Notify(d) \/ TimerFires(d) \/ ProcessStep(d)
                               /\ ~ClaimReturns(d)
           \/ \E w \in workers : WorkerStep(w)
           \/ \E c \in Caller : Request(c) \/ HandlerStep(c)
           \/ \E j \in Job : LeaseOut(j)
           \/ \E version : Publish(version)
           \/ UNCHANGED vars
    PROVE  OldClaims
<1>1. CASE workers' \subseteq workers
    BY <1>1 DEF OldClaims
<1>2. ASSUME NEW d \in Judge, Register(d) PROVE OldClaims
    <2>1. PICK w \in WorkersOf(d) :
              workers' = (workers \ {w}) \cup {[w EXCEPT !.pc = "work", !.stopped = judge[d].ctxDone]}
        BY <1>2 DEF Register
    <2>2. w \in workers /\ [w EXCEPT !.pc = "work", !.stopped = judge[d].ctxDone].claim = w.claim
        BY WorkersOfFacts DEF WorkersOf, Worker
    <2> QED BY <2>1, <2>2 DEF OldClaims
<1>3. ASSUME NEW d \in Judge, CancelWork(d) PROVE OldClaims
    <2> DEFINE told(w) == IF w.judge = d /\ w.pc # "claimed" THEN [w EXCEPT !.stopped = TRUE] ELSE w
    <2>1. workers' = {told(w) : w \in workers} /\ \A w \in workers : told(w).claim = w.claim
        BY <1>3 DEF CancelWork, QueueInv, Worker
    <2> HIDE DEF told
    <2> QED BY <2>1 DEF OldClaims
<1>4. ASSUME NEW c \in Caller, CancelHere(c) PROVE OldClaims
    <2> DEFINE told(w) == IF /\ w.judge = rpc[c].judge
                             /\ w.claim.ownerToken = judge[rpc[c].judge].active[rpc[c].job]
                          THEN [w EXCEPT !.stopped = TRUE] ELSE w
    <2>1. workers' = {told(w) : w \in workers} /\ \A w \in workers : told(w).claim = w.claim
        BY <1>4 DEF CancelHere, QueueInv, Worker
    <2> HIDE DEF told
    <2> QED BY <2>1 DEF OldClaims
<1>5. ASSUME NEW w \in workers, NEW pc, Becomes(w, pc) PROVE OldClaims
    <2>1. [w EXCEPT !.pc = pc].claim = w.claim
        BY DEF QueueInv, Worker
    <2> QED BY <1>5, <2>1 DEF Becomes, OldClaims
<1>6. ASSUME NEW w \in workers, WorkerStep(w) PROVE OldClaims
    BY <1>1, <1>5, <1>6 DEF WorkerStep, Save, SaveFails, SaveReplyLost, Unregister, Release
<1>7. ASSUME NEW d \in Judge, LoopStep(d) \/ Notify(d) \/ TimerFires(d) \/ ProcessStep(d), ~ClaimReturns(d)
      PROVE  OldClaims
    BY <1>1, <1>2, <1>3, <1>7
       DEF LoopStep, ProcessStep, ClaimOne, ClaimNothing, ClaimFails, ClaimReplyLost, Wake, HourlyTick,
           LoopEnds, Notify, TimerFires, Start, Drain, Exit, Crash, Gone
<1>8. ASSUME NEW c \in Caller, Request(c) \/ HandlerStep(c) PROVE OldClaims
    BY <1>1, <1>4, <1>8
       DEF Request, HandlerStep, Submit, Run, Cancel, SubmitCommits, SubmitReplyLost, SubmitRollsBack,
           NotifyAndAnswer, RunEnds
<1> QED BY <1>1, <1>6, <1>7, <1>8 DEF LeaseOut, Publish, queueVars, vars

LEMMA RowsStay ==
    ASSUME StoreInv, [StoreNext]_storeVars, NEW j \in Job, Exists(j)
    PROVE  Exists(j)'
<1>1. jobs \in [Job -> Row]
    BY DEF StoreInv, StoreTypeOK
<1>2. ASSUME NEW k, NEW input, InsertRow(k, input) PROVE Exists(j)'
    BY <1>1, <1>2 DEF InsertRow, Exists
<1>3. ASSUME NEW k, NEW token, TakeOver(k, token) PROVE Exists(j)'
    BY <1>1, <1>3 DEF TakeOver, Exists, Row
<1>4. ASSUME NEW k \in Job, LeaseRunsOut(k) PROVE Exists(j)'
    BY <1>1, <1>4 DEF LeaseRunsOut, Exists, Row
<1>5. ASSUME NEW claim, NEW ending, SaveOutcome(claim, ending) PROVE Exists(j)'
    <2>1. CASE jobs' = jobs
        BY <2>1 DEF Exists
    <2>2. CASE jobs' = [jobs EXCEPT ![claim.job] = Settled(@, ending)]
        <3>1. \A row \in Row : Settled(row, ending).state # "absent"
            BY DEF Settled, Row
        <3> QED BY <1>1, <2>2, <3>1 DEF Exists
    <2> QED BY <1>5, <2>1, <2>2 DEF SaveOutcome
<1>6. ASSUME NEW k \in Job, CancelRow(k) PROVE Exists(j)'
    BY <1>1, <1>6 DEF CancelRow, Exists, Row
<1>7. CASE UNCHANGED jobs
    BY <1>7 DEF Exists
<1> QED BY <1>2, <1>3, <1>4, <1>5, <1>6, <1>7
        DEF StoreNext, Insert, PublishVersion, ClaimJob, ClaimUnheard, LoseClaims, storeVars

\* A step that starts no job, queues none, and hands out no claim.
LEMMA UnheardKept ==
    ASSUME UnheardInv, OldClaims, claims' \subseteq claims,
           \A j \in unheard' :
               /\ j \in unheard
               /\ jobs'[j].state = "queued" => jobs[j].state = "queued"
               /\ jobs'[j].state \in Started => jobs[j].state \in Started /\ jobs'[j].owner = jobs[j].owner
    PROVE  UnheardInv'
BY DEF UnheardInv, OldClaims

LEMMA LoopUnheard ==
    ASSUME StoreInv, QueueInv, RowsInv, NEW d \in Judge,
           LoopStep(d) \/ Notify(d) \/ TimerFires(d) \/ ProcessStep(d)
    PROVE  UnheardInv'
<1>1. CASE ClaimReturns(d)
    <2>1. PICK locked \in SUBSET LockedElsewhere(d), token \in Token :
            \E j \in Oldest(judge[d].excluded \cup locked) :
                /\ ClaimJob(j, token) /\ unheard' = unheard \ {j}
                /\ workers' = workers \cup {[judge |-> d, claim |-> ClaimOf(j, token), pc |-> "claimed",
                                            stopped |-> FALSE]}
        BY <1>1 DEF ClaimReturns
    <2>2. PICK j : /\ TakeOver(j, token) /\ claims' = claims \cup {ClaimOf(j, token)}
                   /\ unheard' = unheard \ {j}
                   /\ workers' = workers \cup {[judge |-> d, claim |-> ClaimOf(j, token),
                                                pc |-> "claimed", stopped |-> FALSE]}
        BY <2>1 DEF ClaimJob
    <2>3. \A k \in Job : k # j => jobs'[k] = jobs[k] /\ jobs[k].owner # token
        BY <2>2 DEF TakeOver, FreshToken, StoreInv, StoreTypeOK
    <2>4. ClaimOf(j, token).job = j /\ ClaimOf(j, token).ownerToken = token
        BY DEF ClaimOf
    <2>5. \A k \in unheard' : k \in Job /\ k \in unheard /\ k # j
        BY <2>2 DEF QueueInv
    <2>6. \A k \in unheard' : jobs'[k].state = "queued" => \A w \in workers' : w.claim.job # k
        BY <2>2, <2>3, <2>4, <2>5 DEF RowsInv, UnheardInv
    <2>7. \A k \in unheard' : jobs'[k].state \in Started =>
              \A claim \in claims' : claim.ownerToken # jobs'[k].owner
        BY <2>2, <2>3, <2>4, <2>5 DEF RowsInv, UnheardInv
    <2> QED BY <2>6, <2>7 DEF UnheardInv
<1>2. CASE ClaimReplyLost(d)
    <2>1. PICK token \in Token, j \in Oldest(judge[d].excluded) :
              TakeOver(j, token) /\ claims' = claims /\ unheard' = unheard \cup {j}
        BY <1>2 DEF ClaimReplyLost, ClaimUnheard
    <2>2. workers' = workers
        BY <1>2 DEF ClaimReplyLost
    <2>3. jobs \in [Job -> Row] /\ j \in Job /\ \A claim \in claims : claim.ownerToken # token
        BY <2>1 DEF StoreInv, StoreTypeOK, TakeOver, FreshToken
    <2>4. jobs'[j].state \in Started /\ jobs'[j].owner = token
        BY <2>1, <2>3 DEF TakeOver, Row, Started
    <2>5. \A k \in Job : k # j => jobs'[k] = jobs[k]
        BY <2>1, <2>3 DEF TakeOver
    <2>6. \A k \in unheard' : k = j \/ (k \in unheard /\ k \in Job)
        BY <2>1 DEF QueueInv
    <2> QED BY <2>1, <2>2, <2>3, <2>4, <2>5, <2>6 DEF RowsInv, UnheardInv, Started
<1>3. CASE ~ClaimReturns(d) /\ ~ClaimReplyLost(d)
    <2>1. OldClaims
        BY <1>3, ClaimsAreOld
    <2>2. jobs' = jobs /\ claims' \subseteq claims /\ unheard' = unheard
        BY <1>3 DEF LoopStep, ProcessStep, ClaimOne, ClaimNothing, ClaimFails, Register, Wake, HourlyTick,
                    LoopEnds, Notify, TimerFires, Start, Drain, CancelWork, Exit, Crash, Gone, LoseClaims,
                    storeVars
    <2> QED BY <2>1, <2>2, UnheardKept DEF RowsInv
<1> QED BY <1>1, <1>2, <1>3

\* Who settles a row holds its claim, so the row was not taken over unheard.
LEMMA WorkerUnheard ==
    ASSUME StoreInv, QueueInv, RowsInv, NEW w \in workers, WorkerStep(w)
    PROVE  UnheardInv'
<1>1. OldClaims
    BY ClaimsAreOld
<1>2. CASE UNCHANGED jobs
    <2>1. claims' \subseteq claims /\ unheard' = unheard
        BY DEF WorkerStep, Save, SaveFails, SaveReplyLost, Unregister, Release, SaveOutcome, LoseClaims,
               storeVars
    <2> QED BY <1>1, <1>2, <2>1, UnheardKept DEF RowsInv
<1>3. CASE ~UNCHANGED jobs
    <2>1. /\ w.claim \in claims /\ Owns(w.claim) /\ claims' = claims \ {w.claim}
          /\ \E row : jobs' = [jobs EXCEPT ![w.claim.job] = row]
          /\ unheard' = unheard
        BY <1>3 DEF WorkerStep, Save, SaveFails, SaveReplyLost, Unregister, Release, SaveOutcome,
                    LoseClaims, storeVars
    <2>2. w.claim.job \in Job /\ w.claim.ownerToken \in Token
        BY DEF QueueInv, Worker, Claim
    <2>3. jobs[w.claim.job].state \in Started
        BY <2>1, <2>2, NullAssumption DEF StoreInv, OwnedWhileStarted, Owns
    <2>4. w.claim.job \notin unheard
        BY <2>1, <2>3 DEF RowsInv, UnheardInv, Owns
    <2>5. \A j \in unheard : jobs'[j] = jobs[j]
        BY <2>1, <2>4 DEF QueueInv, StoreInv, StoreTypeOK
    <2> QED BY <1>1, <2>1, <2>5, UnheardKept DEF RowsInv
<1> QED BY <1>2, <1>3

\* A stored row is new: nobody has a claim on it, heard of or not.
LEMMA InsertUnheard ==
    ASSUME StoreInv, QueueInv, RowsInv, NEW j \in Job, NEW input, InsertRow(j, input),
           UNCHANGED workers, unheard' \subseteq unheard \cup {j}
    PROVE  UnheardInv'
<1>1. /\ ~Exists(j) /\ claims' = claims /\ \A k \in Job : k # j => jobs'[k] = jobs[k]
      /\ jobs'[j].state = "queued"
    BY DEF InsertRow, NoRow, StoreInv, StoreTypeOK
<1>2. \A w \in workers : w.claim.job # j
    BY <1>1 DEF RowsInv
<1>3. \A k \in unheard' : k = j \/ (k \in unheard /\ k \in Job)
    BY DEF QueueInv
<1> QED BY <1>1, <1>2, <1>3 DEF RowsInv, UnheardInv, Started

LEMMA CallUnheard ==
    ASSUME StoreInv, HandlerInv, QueueInv, RowsInv, NEW c \in Caller, Request(c) \/ HandlerStep(c)
    PROVE  UnheardInv'
<1>1. OldClaims
    BY ClaimsAreOld
<1>2. CASE SubmitCommits(c) \/ SubmitReplyLost(c)
    <2>1. rpc[c].job \in Job
        BY <1>2 DEF SubmitCommits, SubmitReplyLost, HandlerInv, VettedOK
    <2>2. InsertRow(rpc[c].job, rpc[c].input) /\ UNCHANGED workers /\ unheard' \subseteq unheard \cup {rpc[c].job}
        BY <1>2 DEF SubmitCommits, SubmitReplyLost
    <2> QED BY <2>1, <2>2, InsertUnheard
<1>3. ASSUME NEW d \in Judge, NEW j \in Job, Cancel(c, d, j) PROVE UnheardInv'
    <2>1. CancelRow(j) /\ unheard' = unheard /\ claims' = claims
        BY <1>3 DEF Cancel, CancelRow
    <2>2. \A k \in Job : /\ jobs'[k].state = "queued" => jobs[k].state = "queued"
                         /\ jobs'[k].state \in Started => jobs[k].state \in Started
                         /\ jobs'[k].owner = jobs[k].owner
        <3> TAKE k \in Job
        <3>1. jobs[k] \in Row /\ jobs \in [Job -> Row]
            BY DEF StoreInv, StoreTypeOK
        <3>2. CASE k = j
            BY <2>1, <3>1, <3>2 DEF CancelRow, Row, Started
        <3>3. CASE k # j
            BY <2>1, <3>1, <3>3 DEF CancelRow
        <3> QED BY <3>2, <3>3
    <2> QED BY <1>1, <2>1, <2>2, UnheardKept DEF RowsInv, QueueInv
<1>4. CASE jobs' = jobs /\ claims' = claims /\ unheard' \subseteq unheard
    BY <1>1, <1>4, UnheardKept DEF RowsInv
<1>5. ASSUME NEW d \in Judge, NEW j \in Job, NEW input \in Input, Submit(c, d, j, input)
      PROVE  UnheardInv'
    <2>1. jobs' = jobs /\ claims' = claims /\ unheard' \subseteq unheard
        BY <1>5 DEF Submit, AcceptAgain, storeVars
    <2> QED BY <1>4, <2>1
<1> QED BY <1>2, <1>3, <1>4, <1>5
        DEF Request, HandlerStep, Run, SubmitRollsBack, NotifyAndAnswer, RunEnds, CancelHere, storeVars

LEMMA OutsideUnheard ==
    ASSUME StoreInv, QueueInv, RowsInv,
           \/ \E j \in Job : LeaseOut(j)
           \/ \E version : Publish(version)
           \/ UNCHANGED vars
    PROVE  UnheardInv'
<1>1. OldClaims /\ claims' = claims /\ unheard' = unheard
    BY ClaimsAreOld DEF LeaseOut, LeaseRunsOut, Publish, PublishVersion, queueVars, vars, storeVars
<1>2. \A k \in Job : jobs'[k].state = jobs[k].state /\ jobs'[k].owner = jobs[k].owner
    <2>1. CASE jobs' = jobs
        BY <2>1
    <2>2. ASSUME NEW j \in Job, jobs' = [jobs EXCEPT ![j].leased = FALSE]
          PROVE  \A k \in Job : jobs'[k].state = jobs[k].state /\ jobs'[k].owner = jobs[k].owner
        BY <2>2 DEF StoreInv, StoreTypeOK, Row
    <2> QED BY <2>1, <2>2 DEF LeaseOut, LeaseRunsOut, Publish, PublishVersion, vars, storeVars
<1> QED BY <1>1, <1>2, UnheardKept DEF RowsInv, QueueInv

\* A goroutine's job has a row: it had one when it was claimed.
LEMMA WorkersHaveRows ==
    ASSUME StoreInv, HandlerInv, QueueInv, RowsInv, [Next]_vars
    PROVE  \A v \in workers' : Exists(v.claim.job)'
<1>1. \A j \in Job : Exists(j) => Exists(j)'
    BY StepIsStoreStep, RowsStay
<1>2. CASE OldClaims
    <2>1. \A w \in workers : w.claim.job \in Job /\ Exists(w.claim.job)
        BY DEF QueueInv, Worker, Claim, RowsInv
    <2>2. \A v \in workers' : v.claim.job \in Job /\ Exists(v.claim.job)
        BY <1>2, <2>1 DEF OldClaims
    <2> QED BY <1>1, <2>2 DEF Exists
<1>3. ASSUME NEW d \in Judge, ClaimReturns(d) PROVE \A v \in workers' : Exists(v.claim.job)'
    <2>1. PICK locked \in SUBSET LockedElsewhere(d), token \in Token :
            \E j \in Oldest(judge[d].excluded \cup locked) :
                workers' = workers \cup {[judge |-> d, claim |-> ClaimOf(j, token), pc |-> "claimed",
                                          stopped |-> FALSE]}
        BY <1>3 DEF ClaimReturns
    <2>2. PICK j \in Oldest(judge[d].excluded \cup locked) :
                workers' = workers \cup {[judge |-> d, claim |-> ClaimOf(j, token), pc |-> "claimed",
                                          stopped |-> FALSE]}
        BY <2>1
    <2>3. j \in Job /\ Exists(j) /\ ClaimOf(j, token).job = j
        BY DEF Oldest, Claimable, Exists, Started, ClaimOf
    <2>4. \A w \in workers : w.claim.job \in Job /\ Exists(w.claim.job)
        BY DEF QueueInv, Worker, Claim, RowsInv
    <2>5. \A v \in workers' : v.claim.job \in Job /\ Exists(v.claim.job)
        BY <2>2, <2>3, <2>4
    <2> QED BY <1>1, <2>5 DEF Exists
<1> QED BY <1>2, <1>3, ClaimsAreOld DEF Next

----------------------------------------------------------------------------
(* WakeInv is an invariant.                                                *)

LEMMA InitWake == Init => WakeInv
<1> SUFFICES ASSUME Init PROVE WakeInv
    OBVIOUS
<1>1. \A d \in Judge : ~judge[d].ctxDone
    BY DEF Init, Stopped
<1>2. workers = {} /\ unheard = {} /\ \A j \in Job : jobs[j].state = "absent"
    BY DEF Init, StoreInit, NoRow
<1> QED BY <1>1, <1>2 DEF WakeInv, RowsInv, UnheardInv, AwaitedInv, Waits

LEMMA StepRows ==
    ASSUME StoreInv, HandlerInv, QueueInv, RowsInv, [Next]_vars
    PROVE  RowsInv'
<1>1. Drained'
    <2>1. Drained
        BY DEF RowsInv, Drained
    <2> QED BY <2>1, LoopDrained, ProcessDrained, OthersDrained DEF Next
<1>2. UnheardInv'
    BY LoopUnheard, WorkerUnheard, CallUnheard, OutsideUnheard DEF Next
<1> QED BY <1>1, <1>2, WorkersHaveRows DEF RowsInv, Drained

LEMMA StepAwaited ==
    ASSUME StoreInv, HandlerInv, QueueInv, RowsInv, AwaitedInv, [Next]_vars
    PROVE  AwaitedInv'
<1>1. ASSUME NEW d \in Judge, LoopStep(d) \/ Notify(d) \/ TimerFires(d) PROVE AwaitedInv'
    BY <1>1, ClaimOneAwaits, ClaimReturnsAwaits, ClaimNothingAwaits, ClaimFailsAwaits,
       ClaimReplyLostAwaits, RegisterAwaits, FlagsAwait DEF LoopStep
<1>2. ASSUME NEW d \in Judge, ProcessStep(d) PROVE AwaitedInv'
    BY <1>2, FlagsAwait, CancelWorkAwaits, GoneAwaits DEF ProcessStep, Exit, Crash
<1>3. ASSUME NEW w \in workers, WorkerStep(w) PROVE AwaitedInv'
    BY <1>3, SaveAwaits, UnregisterAwaits, ReleaseAwaits DEF WorkerStep
<1>4. ASSUME NEW c \in Caller, Request(c) PROVE AwaitedInv'
    BY <1>4, SubmitAwaits, RunAwaits, CancelAwaits DEF Request
<1>5. ASSUME NEW c \in Caller, HandlerStep(c) PROVE AwaitedInv'
    BY <1>5, SubmitEndsAwaits, NotifyAwaits, RunEndsAwaits, CancelHereAwaits DEF HandlerStep
<1> QED BY <1>1, <1>2, <1>3, <1>4, <1>5, OutsideAwaits DEF Next

LEMMA StepWake == StoreInv /\ HandlerInv /\ QueueInv /\ WakeInv /\ [Next]_vars => WakeInv'
BY StepRows, StepAwaited DEF WakeInv

\* In every behaviour each waiting job is awaited by a judge that does not execute it, and nobody
\* executes a job whose commit was answered with an error.
THEOREM WakeInvariant == Spec => []WakeInv
<1>1. Spec => []StoreInv
    BY QueueImplementsStore, StoreInvariant DEF ImplementsStore
<1> QED BY <1>1, InitWake, StepWake, HandlerInvariant, QueueInvariant, PTL DEF Spec

\* For any judges, slots, jobs and faults, a queued job never depends on the hourly ticker alone,
\* unless the commit that stored it was answered with an error (queue.go, notify and claimJobs).
THEOREM WakeUpsArrive == Spec => []NoLostWakeup
<1>1. WakeInv => NoLostWakeup
    BY DEF WakeInv, AwaitedInv, Waits, Awaited, NoLostWakeup
<1> QED BY <1>1, WakeInvariant, PTL

=============================================================================
