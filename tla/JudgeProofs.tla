---------------------------- MODULE JudgeProofs ----------------------------
(***************************************************************************)
(* What a judge keeps in memory, for any number of judges, handlers,       *)
(* slots, jobs and faults: its slots are those in use, its cancel          *)
(* functions those of the jobs at work, and no two executions of one       *)
(* submission overlap while leases last.                                   *)
(***************************************************************************)
EXTENDS JobQueueProofs, FiniteSetTheorems

Tokens(W) == {w.claim.ownerToken : w \in W}

\* A token names a goroutine.
Distinct(W) == \A v, w \in W : v.claim.ownerToken = w.claim.ownerToken => v = w

AtWork == {"work", "saved"}

\* The process p with the goroutines W. A claim waits to be registered only while the loop has it
\* in hand; the query asks for nothing that runs here.
Registered(p, W) ==
    /\ \A w \in W : w.pc = "claimed" => p.loop = "claimed" /\ p.active[w.claim.job] = NoToken
    /\ \A v, w \in W : v.pc = "claimed" /\ w.pc = "claimed" => v.claim = w.claim
    /\ \A w \in W : w.pc \in AtWork => p.active[w.claim.job] = w.claim.ownerToken
    /\ \A j \in Job : p.active[j] # NoToken => \E w \in W : w.claim.job = j /\ w.pc \in AtWork
    /\ p.loop = "query" => \A j \in Job : p.active[j] # NoToken => j \in p.excluded

Querying(p) == IF p.loop = "query" THEN 1 ELSE 0

\* n Runs and the goroutines W occupy p's slots.
Counted(p, W, n) ==
    /\ IsFiniteSet(Tokens(W))
    /\ p.slots = Cardinality(Tokens(W)) + n + Querying(p)

\* A process that is down does nothing.
Quiescent(p, W, n) == ~p.up => p.loop = "ended" /\ W = {} /\ n = 0

JudgeOK(p, W, n) ==
    /\ p \in Process
    /\ Registered(p, W) /\ Counted(p, W, n) /\ Quiescent(p, W, n)

Runs(d) == Cardinality(RunsOf(d))

\* Who executes has the claim, and with it the row's lease unless that ran out.
HoldersInv ==
    \A w \in workers : w.pc \in {"claimed", "work"} =>
        /\ w.claim \in claims
        /\ "lease" \notin Fault => Owns(w.claim) /\ jobs[w.claim.job].leased

QueueInv ==
    /\ judge \in [Judge -> Process]
    /\ workers \subseteq Worker /\ Distinct(workers)
    /\ \A d \in Judge : JudgeOK(judge[d], WorkersOf(d), Runs(d))
    /\ HoldersInv
    /\ unheard \subseteq Job /\ faults \in 0..MaxFaults

----------------------------------------------------------------------------
(* One process: what keeps JudgeOK.                                        *)

\* Flags and timers change, or the loop moves between a scan, its select and its end.
LEMMA MoveOK ==
    ASSUME NEW p, NEW W, NEW n, JudgeOK(p, W, n), NEW q \in Process,
           q.up = p.up, q.slots = p.slots, q.active = p.active,
           \/ q.loop = p.loop /\ q.excluded = p.excluded
           \/ p.loop \in {"scan", "waiting"} /\ q.loop \in {"scan", "waiting", "ended"}
    PROVE  JudgeOK(q, W, n)
BY DEF JudgeOK, Registered, Counted, Quiescent, Querying

\* The goroutines stay, but for flags and the step from work to saved.
LEMMA RelabelOK ==
    ASSUME NEW p, NEW W, NEW n, JudgeOK(p, W, n), NEW V,
           \A v \in V : \E w \in W : v.claim = w.claim /\ (v.pc = w.pc \/ {v.pc, w.pc} \subseteq AtWork),
           \A w \in W : \E v \in V : v.claim = w.claim /\ (v.pc = w.pc \/ {v.pc, w.pc} \subseteq AtWork)
    PROVE  JudgeOK(p, V, n)
<1>1. Tokens(V) = Tokens(W)
    BY DEF Tokens
<1>2. Registered(p, V)
    BY DEF JudgeOK, Registered, AtWork
<1>3. W = {} => V = {}
    OBVIOUS
<1> QED BY <1>1, <1>2, <1>3 DEF JudgeOK, Counted, Quiescent

LEMMA QueryOK ==
    ASSUME NEW p, NEW W, NEW n \in Nat, JudgeOK(p, W, n), NEW q \in Process,
           p.up, p.loop = "scan", q.up, q.loop = "query", q.slots = p.slots + 1, q.active = p.active,
           q.excluded = {j \in Job : p.active[j] # NoToken}
    PROVE  JudgeOK(q, W, n)
<1>1. Cardinality(Tokens(W)) \in Nat
    BY FS_CardinalityType DEF JudgeOK, Counted
<1>2. Counted(q, W, n)
    BY <1>1 DEF JudgeOK, Counted, Querying
<1> QED BY <1>2 DEF JudgeOK, Registered, Quiescent

LEMMA QueryEndsOK ==
    ASSUME NEW p, NEW W, NEW n \in Nat, JudgeOK(p, W, n), NEW q \in Process,
           p.loop = "query", q.up = p.up, q.loop = "waiting", q.slots = p.slots - 1,
           q.active = p.active
    PROVE  JudgeOK(q, W, n)
<1>1. Cardinality(Tokens(W)) \in Nat
    BY FS_CardinalityType DEF JudgeOK, Counted
<1>2. Counted(q, W, n)
    BY <1>1 DEF JudgeOK, Counted, Querying
<1> QED BY <1>2 DEF JudgeOK, Registered, Quiescent

\* A claim takes over the slot of its query.
LEMMA ClaimedOK ==
    ASSUME NEW p, NEW W, NEW n \in Nat, JudgeOK(p, W, n), NEW q \in Process, NEW w,
           w.pc = "claimed", w.claim.job \in Job, w.claim.job \notin p.excluded,
           w.claim.ownerToken \notin Tokens(W),
           p.loop = "query", q.up = p.up, q.loop = "claimed", q.slots = p.slots, q.active = p.active
    PROVE  JudgeOK(q, W \cup {w}, n)
<1>1. Tokens(W \cup {w}) = Tokens(W) \cup {w.claim.ownerToken}
    BY DEF Tokens
<1>2. IsFiniteSet(Tokens(W)) /\ Cardinality(Tokens(W)) \in Nat
    BY FS_CardinalityType DEF JudgeOK, Counted
<1>3. /\ IsFiniteSet(Tokens(W \cup {w}))
      /\ Cardinality(Tokens(W \cup {w})) = Cardinality(Tokens(W)) + 1
    BY <1>1, <1>2, FS_AddElement
<1>4. Counted(q, W \cup {w}, n)
    BY <1>2, <1>3 DEF JudgeOK, Counted, Querying
<1>5. p.active[w.claim.job] = NoToken
    BY DEF JudgeOK, Registered
<1>6. \A v \in W : v.pc # "claimed"
    BY DEF JudgeOK, Registered
<1>7. Registered(q, W \cup {w})
    BY <1>5, <1>6 DEF JudgeOK, Registered, AtWork
<1>8. p.up
    BY DEF JudgeOK, Quiescent
<1> QED BY <1>4, <1>7, <1>8 DEF JudgeOK, Quiescent

\* The goroutine w of W is replaced by v, which has the same claim.
LEMMA SwapTokens ==
    ASSUME NEW W, NEW w \in W, NEW v, v.claim = w.claim
    PROVE  Tokens((W \ {w}) \cup {v}) = Tokens(W)
BY DEF Tokens

LEMMA RegisteredOK ==
    ASSUME NEW p, NEW W \in SUBSET Worker, NEW n, JudgeOK(p, W, n), Distinct(W),
           NEW q \in Process, NEW w \in W, NEW v, w.pc = "claimed", v.pc = "work", v.claim = w.claim,
           q.up = p.up, q.loop = "scan", q.slots = p.slots,
           q.active = [p.active EXCEPT ![w.claim.job] = w.claim.ownerToken]
    PROVE  JudgeOK(q, (W \ {w}) \cup {v}, n)
<1> DEFINE V == (W \ {w}) \cup {v}
<1>1. Tokens(V) = Tokens(W)
    BY SwapTokens
<1>2. p.loop = "claimed" /\ p.active[w.claim.job] = NoToken /\ p.active \in [Job -> Token \cup {NoToken}]
    BY DEF JudgeOK, Registered, Process
<1>3. Counted(q, V, n)
    BY <1>1, <1>2 DEF JudgeOK, Counted, Querying
<1>4. \A u \in V : u.pc # "claimed"
    BY DEF JudgeOK, Registered, Distinct
<1>5. \A u \in W \ {w} : u.pc \in AtWork => p.active[u.claim.job] = u.claim.ownerToken
    BY DEF JudgeOK, Registered
<1>6. \A u \in W \ {w} : u.claim.ownerToken # w.claim.ownerToken
    BY DEF Distinct
<1>7. \A u \in W : u.claim.job \in Job /\ u.claim.ownerToken \in Token
    BY DEF Worker, Claim
<1>8. \A u \in W \ {w} : u.pc \in AtWork =>
          u.claim.job # w.claim.job /\ q.active[u.claim.job] = u.claim.ownerToken
    BY <1>2, <1>5, <1>7, NullAssumption
<1>9. q.active[w.claim.job] = w.claim.ownerToken
    BY <1>2, <1>7
<1>10. \A u \in V : u.pc \in AtWork => q.active[u.claim.job] = u.claim.ownerToken
    BY <1>8, <1>9
<1>11. \A j \in Job : q.active[j] # NoToken => \E u \in V : u.claim.job = j /\ u.pc \in AtWork
    <2> SUFFICES ASSUME NEW j \in Job, q.active[j] # NoToken
                 PROVE  \E u \in V : u.claim.job = j /\ u.pc \in AtWork
        OBVIOUS
    <2>1. CASE j = w.claim.job
        BY <2>1 DEF AtWork
    <2>2. CASE j # w.claim.job
        <3>1. p.active[j] # NoToken
            BY <1>2, <2>2
        <3>2. PICK u \in W : u.claim.job = j /\ u.pc \in AtWork
            BY <3>1 DEF JudgeOK, Registered
        <3> QED BY <2>2, <3>2
    <2> QED BY <2>1, <2>2
<1>12. Registered(q, V)
    BY <1>4, <1>10, <1>11 DEF Registered
<1>13. p.up
    BY DEF JudgeOK, Quiescent
<1> QED BY <1>3, <1>12, <1>13 DEF JudgeOK, Quiescent

LEMMA UnregisteredOK ==
    ASSUME NEW p, NEW W \in SUBSET Worker, NEW n, JudgeOK(p, W, n), Distinct(W),
           NEW q \in Process, NEW w \in W, NEW v,
           w.pc = "saved", v.pc = "unregistered", v.claim = w.claim,
           q.up = p.up, q.loop = p.loop, q.excluded = p.excluded, q.slots = p.slots,
           q.active = [p.active EXCEPT ![w.claim.job] = NoToken]
    PROVE  JudgeOK(q, (W \ {w}) \cup {v}, n)
<1> DEFINE V == (W \ {w}) \cup {v}
<1>1. Tokens(V) = Tokens(W)
    BY SwapTokens
<1>2. Counted(q, V, n)
    BY <1>1 DEF JudgeOK, Counted, Querying
<1>3. \A u \in W : u.claim.job \in Job /\ u.claim.ownerToken \in Token
    BY DEF Worker, Claim
<1>4. p.active \in [Job -> Token \cup {NoToken}] /\ p.active[w.claim.job] = w.claim.ownerToken
    BY DEF JudgeOK, Registered, Process, AtWork
<1>5. \A u \in W \ {w} : u.pc \in AtWork => u.claim.job # w.claim.job
    BY <1>4 DEF JudgeOK, Registered, Distinct
<1>6. \A u \in V : u.pc \in AtWork => u \in W \ {w} /\ q.active[u.claim.job] = u.claim.ownerToken
    BY <1>3, <1>4, <1>5 DEF JudgeOK, Registered, AtWork
<1>7. \A u \in V : u.pc = "claimed" => u \in W /\ q.loop = "claimed" /\ q.active[u.claim.job] = NoToken
    BY <1>3, <1>4 DEF JudgeOK, Registered
<1>8. \A u, x \in V : u.pc = "claimed" /\ x.pc = "claimed" => u.claim = x.claim
    BY <1>7 DEF JudgeOK, Registered
<1>9. \A j \in Job : q.active[j] # NoToken => p.active[j] # NoToken /\ j # w.claim.job
    BY <1>3, <1>4
<1>10. \A j \in Job : q.active[j] # NoToken => \E u \in V : u.claim.job = j /\ u.pc \in AtWork
    <2> SUFFICES ASSUME NEW j \in Job, q.active[j] # NoToken
                 PROVE  \E u \in V : u.claim.job = j /\ u.pc \in AtWork
        OBVIOUS
    <2>1. PICK u \in W : u.claim.job = j /\ u.pc \in AtWork
        BY <1>9 DEF JudgeOK, Registered
    <2> QED BY <1>9, <2>1
<1>11. q.loop = "query" => \A j \in Job : q.active[j] # NoToken => j \in q.excluded
    BY <1>9 DEF JudgeOK, Registered
<1>12. Registered(q, V)
    BY <1>6, <1>7, <1>8, <1>10, <1>11 DEF Registered
<1>13. p.up
    BY DEF JudgeOK, Quiescent
<1> QED BY <1>2, <1>12, <1>13 DEF JudgeOK, Quiescent

LEMMA ReleasedOK ==
    ASSUME NEW p, NEW W, NEW n \in Nat, JudgeOK(p, W, n), Distinct(W), NEW q \in Process, NEW w \in W,
           w.pc = "unregistered", q.up = p.up, q.loop = p.loop, q.excluded = p.excluded,
           q.slots = p.slots - 1, q.active = p.active
    PROVE  JudgeOK(q, W \ {w}, n)
<1>1. Tokens(W \ {w}) = Tokens(W) \ {w.claim.ownerToken} /\ w.claim.ownerToken \in Tokens(W)
    BY DEF Tokens, Distinct
<1>2. IsFiniteSet(Tokens(W)) /\ Cardinality(Tokens(W)) \in Nat
    BY FS_CardinalityType DEF JudgeOK, Counted
<1>3. /\ IsFiniteSet(Tokens(W \ {w}))
      /\ Cardinality(Tokens(W \ {w})) = Cardinality(Tokens(W)) - 1
    <2> DEFINE S == Tokens(W)
               t == w.claim.ownerToken
    <2>1. IsFiniteSet(S) /\ t \in S
        BY <1>1, <1>2
    <2> HIDE DEF S, t
    <2>2. IsFiniteSet(S \ {t}) /\ Cardinality(S \ {t}) = Cardinality(S) - 1
        BY <2>1, FS_RemoveElement
    <2> QED BY <1>1, <2>2 DEF S, t
<1>4. Counted(q, W \ {w}, n)
    BY <1>2, <1>3 DEF JudgeOK, Counted, Querying
<1>5. Registered(q, W \ {w})
    BY DEF JudgeOK, Registered, AtWork
<1>6. p.up
    BY DEF JudgeOK, Quiescent
<1> QED BY <1>4, <1>5, <1>6 DEF JudgeOK, Quiescent

\* A Run takes a slot or gives it back.
LEMMA RunOK ==
    ASSUME NEW p, NEW W, NEW n \in Nat, JudgeOK(p, W, n), NEW m \in Nat, NEW q \in Process,
           p.up, q.up, q.loop = p.loop, q.excluded = p.excluded, q.active = p.active,
           q.slots - p.slots = m - n
    PROVE  JudgeOK(q, W, m)
<1>1. Cardinality(Tokens(W)) \in Nat /\ p.slots \in Nat /\ q.slots \in Nat
    BY FS_CardinalityType, QueueAssumption DEF JudgeOK, Counted, Process
<1>2. Counted(q, W, m)
    BY <1>1 DEF JudgeOK, Counted, Querying
<1> QED BY <1>2 DEF JudgeOK, Registered, Quiescent

\* What occupies a slot has one.
LEMMA SlotToGive ==
    ASSUME NEW p, NEW W, NEW n \in Nat, JudgeOK(p, W, n),
           p.loop = "query" \/ W # {} \/ n > 0
    PROVE  p.slots - 1 \in 0..SlotCount
<1>1. IsFiniteSet(Tokens(W)) /\ Cardinality(Tokens(W)) \in Nat /\ p.slots \in 0..SlotCount
    BY FS_CardinalityType DEF JudgeOK, Counted, Process
<1>2. W # {} => Cardinality(Tokens(W)) # 0
    <2>1. W # {} => Tokens(W) # {}
        BY DEF Tokens
    <2> QED BY <1>1, <2>1, FS_EmptySet
<1>3. p.slots >= 1
    BY <1>1, <1>2 DEF JudgeOK, Counted, Querying
<1> QED BY <1>1, <1>3, QueueAssumption

\* A process that is down, or has just started.
LEMMA FreshProcess ==
    /\ Stopped \in Process /\ JudgeOK(Stopped, {}, 0)
    /\ \A p \in Process : /\ p = [Stopped EXCEPT !.up = TRUE, !.loop = "scan", !.timers = p.timers]
                         => JudgeOK(p, {}, 0)
<1>1. Stopped \in Process
    BY QueueAssumption DEF Stopped, Process
<1>2. Tokens({}) = {} /\ IsFiniteSet({}) /\ Cardinality({}) = 0
    BY FS_EmptySet DEF Tokens
<1>3. JudgeOK(Stopped, {}, 0)
    BY <1>1, <1>2 DEF JudgeOK, Registered, Counted, Quiescent, Querying, Stopped
<1>4. ASSUME NEW p \in Process, p = [Stopped EXCEPT !.up = TRUE, !.loop = "scan", !.timers = p.timers]
      PROVE  JudgeOK(p, {}, 0)
    <2>1. p.up /\ p.loop = "scan" /\ p.slots = 0 /\ p.active = [j \in Job |-> NoToken]
        BY <1>4 DEF Stopped
    <2> QED BY <1>2, <2>1 DEF JudgeOK, Registered, Counted, Quiescent, Querying
<1> QED BY <1>1, <1>3, <1>4

----------------------------------------------------------------------------
(* All processes.                                                          *)

\* The other judges' goroutines and Runs stay as they are.
OthersStay(d) ==
    \A e \in Judge \ {d} : WorkersOf(e)' = WorkersOf(e) /\ RunsOf(e)' = RunsOf(e)

LEMMA OneJudge ==
    ASSUME QueueInv, NEW d \in Judge, NEW q, judge' = [judge EXCEPT ![d] = q], OthersStay(d),
           JudgeOK(q, WorkersOf(d)', Runs(d)')
    PROVE  /\ judge' \in [Judge -> Process]
           /\ \A e \in Judge : JudgeOK(judge'[e], WorkersOf(e)', Runs(e)')
<1>1. q \in Process
    BY DEF JudgeOK
<1>2. ASSUME NEW e \in Judge PROVE JudgeOK(judge'[e], WorkersOf(e)', Runs(e)')
    <2>1. CASE e = d
        BY <2>1 DEF QueueInv
    <2>2. CASE e # d
        <3>1. judge'[e] = judge[e] /\ WorkersOf(e)' = WorkersOf(e) /\ Runs(e)' = Runs(e)
            BY <2>2 DEF QueueInv, OthersStay, Runs
        <3> QED BY <3>1 DEF QueueInv
    <2> QED BY <2>1, <2>2
<1> QED BY <1>1, <1>2 DEF QueueInv

LEMMA RunsNat == ASSUME NEW d PROVE IsFiniteSet(RunsOf(d)) /\ Runs(d) \in Nat
<1>1. IsFiniteSet(RunsOf(d))
    BY QueueAssumption, FS_Subset DEF RunsOf
<1> QED BY <1>1, FS_CardinalityType DEF Runs

\* A handler that neither was a Run nor becomes one.
LEMMA NoRunMoves ==
    ASSUME NEW c \in Caller, NEW state, rpc \in [Caller -> Handler], rpc' = [rpc EXCEPT ![c] = state],
           rpc[c].pc # "running", state.pc # "running"
    PROVE  \A d : RunsOf(d)' = RunsOf(d)
BY DEF RunsOf

LEMMA SameRpc == ASSUME rpc' = rpc PROVE \A d : RunsOf(d)' = RunsOf(d)
BY DEF RunsOf

\* One goroutine changes, or ends.
LEMMA SwapWorkers ==
    ASSUME NEW w \in workers, NEW v, v.judge = w.judge, workers' = (workers \ {w}) \cup {v}
    PROVE  /\ WorkersOf(w.judge)' = (WorkersOf(w.judge) \ {w}) \cup {v}
           /\ \A e : e # w.judge => WorkersOf(e)' = WorkersOf(e)
BY DEF WorkersOf

LEMMA DropWorker ==
    ASSUME NEW w \in workers, workers' = workers \ {w}
    PROVE  /\ WorkersOf(w.judge)' = WorkersOf(w.judge) \ {w}
           /\ \A e : e # w.judge => WorkersOf(e)' = WorkersOf(e)
BY DEF WorkersOf

LEMMA SameWorkers == ASSUME workers' = workers PROVE \A d : WorkersOf(d)' = WorkersOf(d)
BY DEF WorkersOf

LEMMA WorkersOfFacts ==
    ASSUME QueueInv, NEW d \in Judge
    PROVE  /\ WorkersOf(d) \in SUBSET Worker /\ WorkersOf(d) \subseteq workers
           /\ Distinct(WorkersOf(d)) /\ Runs(d) \in Nat
           /\ JudgeOK(judge[d], WorkersOf(d), Runs(d)) /\ judge[d] \in Process
BY RunsNat DEF QueueInv, WorkersOf, Distinct

----------------------------------------------------------------------------
(* The claims and the leases.                                              *)

\* Claims and rows of those who execute stay as they are.
LEMMA HoldersStay ==
    ASSUME QueueInv,
           \A w \in workers' : w.pc \in {"claimed", "work"} =>
               \E v \in workers : v.claim = w.claim /\ v.pc \in {"claimed", "work"} /\ v.claim \in claims',
           \A j \in Job : jobs[j].leased => jobs'[j].owner = jobs[j].owner /\ jobs'[j].leased
    PROVE  HoldersInv'
<1> SUFFICES ASSUME NEW w \in workers', w.pc \in {"claimed", "work"}
             PROVE  /\ w.claim \in claims'
                    /\ "lease" \notin Fault => Owns(w.claim)' /\ jobs'[w.claim.job].leased
    BY DEF HoldersInv
<1>1. PICK v \in workers : v.claim = w.claim /\ v.pc \in {"claimed", "work"} /\ v.claim \in claims'
    OBVIOUS
<1>2. v.claim.job \in Job
    BY DEF QueueInv, Worker, Claim
<1> QED BY <1>1, <1>2 DEF QueueInv, HoldersInv, Owns

----------------------------------------------------------------------------
(* The claim loop and the process.                                         *)

LEMMA FaultsBound ==
    ASSUME QueueInv, (\E kind : Fails(kind)) \/ UNCHANGED faults
    PROVE  faults' \in 0..MaxFaults
BY QueueAssumption DEF QueueInv, Fails

\* One process moves, and nothing else but the count of faults.
LEMMA ProcessMoves ==
    ASSUME QueueInv, NEW d \in Judge, NEW q, judge' = [judge EXCEPT ![d] = q],
           JudgeOK(q, WorkersOf(d), Runs(d)),
           UNCHANGED <<storeVars, workers, rpc, unheard>>, faults' \in 0..MaxFaults
    PROVE  QueueInv'
<1>1. OthersStay(d) /\ WorkersOf(d)' = WorkersOf(d) /\ Runs(d)' = Runs(d)
    BY SameRpc, SameWorkers DEF OthersStay, Runs
<1>2. /\ judge' \in [Judge -> Process]
      /\ \A e \in Judge : JudgeOK(judge'[e], WorkersOf(e)', Runs(e)')
    BY <1>1, OneJudge
<1>3. HoldersInv'
    BY HoldersStay DEF storeVars, QueueInv, HoldersInv
<1> QED BY <1>2, <1>3 DEF QueueInv, Distinct

LEMMA TokensOfRows == ASSUME StoreInv PROVE LeasedTokens \in SUBSET Token
BY DEF LeasedTokens, StoreInv, StoreTypeOK, OwnedWhileStarted, Row

LEMMA ClaimOneStep == ASSUME QueueInv, NEW d \in Judge, ClaimOne(d) PROVE QueueInv'
<1> DEFINE p == judge[d]
<1>1. p \in Process /\ JudgeOK(p, WorkersOf(d), Runs(d)) /\ Runs(d) \in Nat
    BY WorkersOfFacts
<1>2. UNCHANGED <<storeVars, workers, rpc, unheard, faults>> /\ faults' \in 0..MaxFaults
    BY FaultsBound DEF ClaimOne
<1>3. CASE CanAcquire(d)
    <2> DEFINE q == [p EXCEPT !.slots = @ + 1, !.loop = "query", !.excluded = activeIDs(d)]
    <2>1. judge' = [judge EXCEPT ![d] = q]
        BY <1>3 DEF ClaimOne
    <2>2. p.slots + 1 \in 0..SlotCount /\ activeIDs(d) \in SUBSET Job
        BY <1>1, <1>3, QueueAssumption DEF CanAcquire, Process, activeIDs
    <2>3. q \in Process
        BY <1>1, <2>2 DEF Process
    <2>4. /\ p.up /\ p.loop = "scan" /\ q.up /\ q.loop = "query" /\ q.slots = p.slots + 1
          /\ q.active = p.active /\ q.excluded = {j \in Job : p.active[j] # NoToken}
        BY <1>1, <1>3 DEF ClaimOne, CanAcquire, Process, activeIDs
    <2> HIDE DEF q, p
    <2>5. JudgeOK(q, WorkersOf(d), Runs(d))
        BY <1>1, <2>3, <2>4, QueryOK
    <2> QED BY <1>2, <2>1, <2>5, ProcessMoves
<1>4. CASE ~CanAcquire(d)
    <2> DEFINE q == [p EXCEPT !.loop = "waiting"]
    <2>1. judge' = [judge EXCEPT ![d] = q]
        BY <1>4 DEF ClaimOne
    <2>2. q \in Process /\ q.up = p.up /\ q.slots = p.slots /\ q.active = p.active /\ q.loop = "waiting"
        BY <1>1 DEF Process
    <2>3. p.loop = "scan"
        BY DEF ClaimOne
    <2> HIDE DEF q, p
    <2>4. JudgeOK(q, WorkersOf(d), Runs(d))
        BY <1>1, <2>2, <2>3, MoveOK
    <2> QED BY <1>2, <2>1, <2>4, ProcessMoves
<1> QED BY <1>3, <1>4

LEMMA EndQueryOK ==
    ASSUME QueueInv, NEW d \in Judge, judge[d].loop = "query", NEW failed, EndQuery(d, failed)
    PROVE  \E q : judge' = [judge EXCEPT ![d] = q] /\ JudgeOK(q, WorkersOf(d), Runs(d))
<1> DEFINE p == judge[d]
           q == [p EXCEPT !.loop = "waiting", !.slots = @ - 1, !.excluded = {},
                          !.timers = IF failed /\ ~p.ctxDone THEN @ \cup {RetryTimer} ELSE @]
<1>1. p \in Process /\ JudgeOK(p, WorkersOf(d), Runs(d)) /\ Runs(d) \in Nat
    BY WorkersOfFacts
<1>2. judge' = [judge EXCEPT ![d] = q]
    BY DEF EndQuery
<1>3. p.slots - 1 \in 0..SlotCount
    BY <1>1, SlotToGive
<1>4. q \in Process
    BY <1>1, <1>3 DEF Process, RetryTimer
<1>5. p.loop = "query" /\ q.up = p.up /\ q.loop = "waiting" /\ q.slots = p.slots - 1 /\ q.active = p.active
    BY <1>1 DEF Process
<1> HIDE DEF q, p
<1>6. JudgeOK(q, WorkersOf(d), Runs(d))
    BY <1>1, <1>4, <1>5, QueryEndsOK
<1> QED BY <1>2, <1>6

LEMMA QueryEndsStep ==
    ASSUME QueueInv, NEW d \in Judge, ClaimNothing(d) \/ ClaimFails(d)
    PROVE  QueueInv'
<1>1. judge[d].loop = "query" /\ \E failed : EndQuery(d, failed)
    BY DEF ClaimNothing, ClaimFails
<1>2. PICK q : judge' = [judge EXCEPT ![d] = q] /\ JudgeOK(q, WorkersOf(d), Runs(d))
    BY <1>1, EndQueryOK
<1>3. UNCHANGED <<storeVars, workers, rpc, unheard>>
    BY DEF ClaimNothing, ClaimFails
<1>4. faults' \in 0..MaxFaults
    BY FaultsBound DEF ClaimNothing, ClaimFails
<1> QED BY <1>2, <1>3, <1>4, ProcessMoves

\* Steps that only set flags and timers, or move the loop between scan, select and end.
LEMMA FlagsStep ==
    ASSUME QueueInv, NEW d \in Judge,
           Wake(d) \/ HourlyTick(d) \/ LoopEnds(d) \/ Notify(d) \/ TimerFires(d) \/ Drain(d)
    PROVE  QueueInv'
<1> DEFINE p == judge[d]
<1>1. p \in Process /\ JudgeOK(p, WorkersOf(d), Runs(d)) /\ judge \in [Judge -> Process]
    BY WorkersOfFacts DEF QueueInv
<1>2. UNCHANGED <<storeVars, workers, rpc, unheard>>
    BY DEF Wake, HourlyTick, LoopEnds, Notify, TimerFires, Drain
<1>3. faults' \in 0..MaxFaults
    BY FaultsBound DEF Wake, HourlyTick, LoopEnds, Notify, TimerFires, Drain
<1>4. \E q \in Process :
          /\ judge' = [judge EXCEPT ![d] = q]
          /\ q.up = p.up /\ q.slots = p.slots /\ q.active = p.active
          /\ \/ q.loop = p.loop /\ q.excluded = p.excluded
             \/ p.loop \in {"scan", "waiting"} /\ q.loop \in {"scan", "waiting", "ended"}
    <2>1. CASE Wake(d)
        <3> [p EXCEPT !.wake = FALSE, !.loop = "scan"] \in Process
            BY <1>1 DEF Process
        <3> WITNESS [p EXCEPT !.wake = FALSE, !.loop = "scan"] \in Process
        <3> QED BY <1>1, <2>1 DEF Wake, Process
    <2>2. CASE HourlyTick(d)
        <3> [p EXCEPT !.loop = "scan"] \in Process
            BY <1>1 DEF Process
        <3> WITNESS [p EXCEPT !.loop = "scan"] \in Process
        <3> QED BY <1>1, <2>2 DEF HourlyTick, Process
    <2>3. CASE LoopEnds(d)
        <3> [p EXCEPT !.loop = "ended"] \in Process
            BY <1>1 DEF Process
        <3> WITNESS [p EXCEPT !.loop = "ended"] \in Process
        <3> QED BY <1>1, <2>3 DEF LoopEnds, Process
    <2>4. CASE Notify(d)
        <3> [p EXCEPT !.waking = FALSE, !.wake = TRUE] \in Process
            BY <1>1 DEF Process
        <3> WITNESS [p EXCEPT !.waking = FALSE, !.wake = TRUE] \in Process
        <3> QED BY <1>1, <2>4 DEF Notify, Process
    <2>5. CASE TimerFires(d)
        <3>1. PICK timer \in p.timers : judge' = [judge EXCEPT ![d].timers = @ \ {timer}, ![d].wake = TRUE]
            BY <2>5 DEF TimerFires
        <3> [p EXCEPT !.timers = @ \ {timer}, !.wake = TRUE] \in Process
            BY <1>1 DEF Process
        <3> WITNESS [p EXCEPT !.timers = @ \ {timer}, !.wake = TRUE] \in Process
        <3> QED BY <1>1, <3>1 DEF Process
    <2>6. CASE Drain(d)
        <3> [p EXCEPT !.draining = TRUE] \in Process
            BY <1>1 DEF Process
        <3> WITNESS [p EXCEPT !.draining = TRUE] \in Process
        <3> QED BY <1>1, <2>6 DEF Drain, Process
    <2> QED BY <2>1, <2>2, <2>3, <2>4, <2>5, <2>6
<1> HIDE DEF p
<1>5. \E q : judge' = [judge EXCEPT ![d] = q] /\ JudgeOK(q, WorkersOf(d), Runs(d))
    BY <1>1, <1>4, MoveOK
<1> QED BY <1>2, <1>3, <1>5, ProcessMoves

LEMMA StartStep == ASSUME QueueInv, StoreInv, NEW d \in Judge, Start(d) PROVE QueueInv'
<1>1. JudgeOK(judge[d], WorkersOf(d), Runs(d)) /\ ~judge[d].up
    BY WorkersOfFacts DEF Start
<1>2. WorkersOf(d) = {} /\ Runs(d) = 0
    BY <1>1 DEF JudgeOK, Quiescent
<1>3. Started0 \in Process
    BY FreshProcess, TokensOfRows DEF Started0, Stopped, Process
<1>4. Started0 = [Stopped EXCEPT !.up = TRUE, !.loop = "scan", !.timers = Started0.timers]
    BY DEF Started0, Stopped
<1>5. JudgeOK(Started0, {}, 0)
    BY <1>3, <1>4, FreshProcess
<1>6. judge' = [judge EXCEPT ![d] = Started0] /\ UNCHANGED <<storeVars, workers, rpc, unheard, faults>>
    BY DEF Start
<1> QED BY <1>2, <1>5, <1>6, ProcessMoves DEF QueueInv

----------------------------------------------------------------------------
(* Claims.                                                                 *)

\* The UPDATE of a claim leaves the leases alone that last.
LEMMA TakeOverKeepsLeases ==
    ASSUME StoreInv, NEW j, NEW token \in Token, TakeOver(j, token)
    PROVE  /\ \A k \in Job : jobs[k].leased => jobs'[k] = jobs[k]
           /\ j \in Job /\ jobs'[j].owner = token /\ jobs'[j].leased
<1>1. jobs \in [Job -> Row] /\ j \in Job /\ Claimable(j)
    BY DEF StoreInv, StoreTypeOK, TakeOver
<1>2. ~jobs[j].leased
    BY <1>1 DEF Claimable, StoreInv, OwnedWhileStarted, Started
<1>3. \A k \in Job : jobs[k].leased => jobs'[k] = jobs[k]
    BY <1>1, <1>2 DEF TakeOver
<1>4. jobs[j] \in Row
    BY <1>1
<1>5. jobs'[j].owner = token /\ jobs'[j].leased
    BY <1>1, <1>4 DEF TakeOver, Row
<1> QED BY <1>1, <1>3, <1>5

LEMMA ClaimReturnsStep == ASSUME QueueInv, StoreInv, NEW d \in Judge, ClaimReturns(d) PROVE QueueInv'
<1> DEFINE p == judge[d]
           q == [p EXCEPT !.loop = "claimed", !.excluded = {}]
<1>1. /\ p \in Process /\ JudgeOK(p, WorkersOf(d), Runs(d)) /\ Runs(d) \in Nat
      /\ WorkersOf(d) \in SUBSET Worker
    BY WorkersOfFacts
<1>2. judge' = [judge EXCEPT ![d] = q] /\ p.loop = "query" /\ UNCHANGED <<rpc, faults>>
    BY DEF ClaimReturns
<1>3. PICK locked \in SUBSET LockedElsewhere(d), token \in Token :
        \E j \in Oldest(p.excluded \cup locked) :
            /\ FreshWorkerToken(token) /\ ClaimJob(j, token) /\ unheard' = unheard \ {j}
            /\ workers' = workers \cup {[judge |-> d, claim |-> ClaimOf(j, token), pc |-> "claimed",
                                        stopped |-> FALSE]}
    BY DEF ClaimReturns
<1>4. PICK j \in Oldest(p.excluded \cup locked) :
            /\ FreshWorkerToken(token) /\ ClaimJob(j, token) /\ unheard' = unheard \ {j}
            /\ workers' = workers \cup {[judge |-> d, claim |-> ClaimOf(j, token), pc |-> "claimed",
                                        stopped |-> FALSE]}
    BY <1>3
<1> DEFINE w == [judge |-> d, claim |-> ClaimOf(j, token), pc |-> "claimed", stopped |-> FALSE]
<1>5. j \in Job /\ j \notin p.excluded
    BY DEF Oldest
<1>6. ClaimOf(j, token) \in Claim /\ ClaimOf(j, token).job = j /\ ClaimOf(j, token).ownerToken = token
    BY <1>5 DEF ClaimOf, Claim, StoreInv, StoreTypeOK, Row
<1>7. /\ w \in Worker /\ w.pc = "claimed" /\ w.claim = ClaimOf(j, token) /\ w.judge = d
      /\ w.claim.job = j /\ w.claim.ownerToken = token
    BY <1>6 DEF Worker
<1>8. workers' = workers \cup {w}
    BY <1>4
<1> HIDE DEF w
<1>9. \A v \in workers : v.claim.ownerToken # token
    BY <1>4 DEF FreshWorkerToken
<1>10. workers' \subseteq Worker /\ Distinct(workers')
    BY <1>7, <1>8, <1>9 DEF QueueInv, Distinct
<1>11. WorkersOf(d)' = WorkersOf(d) \cup {w} /\ \A e : e # d => WorkersOf(e)' = WorkersOf(e)
    BY <1>7, <1>8 DEF WorkersOf
<1>12. OthersStay(d) /\ Runs(d)' = Runs(d)
    BY <1>2, <1>11, SameRpc DEF OthersStay, Runs
<1>13. token \notin Tokens(WorkersOf(d))
    BY <1>9 DEF Tokens, WorkersOf
<1>14. /\ q \in Process /\ q.up = p.up /\ q.loop = "claimed" /\ q.slots = p.slots
       /\ q.active = p.active
    BY <1>1 DEF Process
<1> HIDE DEF p, q
<1>15. JudgeOK(q, WorkersOf(d) \cup {w}, Runs(d))
    BY <1>1, <1>2, <1>5, <1>7, <1>13, <1>14, ClaimedOK
<1>16. /\ judge' \in [Judge -> Process]
       /\ \A e \in Judge : JudgeOK(judge'[e], WorkersOf(e)', Runs(e)')
    BY <1>2, <1>11, <1>12, <1>15, OneJudge
<1>17. HoldersInv'
    <2>1. TakeOver(j, token) /\ claims' = claims \cup {ClaimOf(j, token)}
        BY <1>4 DEF ClaimJob
    <2>2. /\ \A k \in Job : jobs[k].leased => jobs'[k] = jobs[k]
          /\ jobs'[j].owner = token /\ jobs'[j].leased
        BY <2>1, TakeOverKeepsLeases
    <2>3. SUFFICES ASSUME NEW v \in workers', v.pc \in {"claimed", "work"}
                   PROVE  /\ v.claim \in claims'
                          /\ "lease" \notin Fault => Owns(v.claim)' /\ jobs'[v.claim.job].leased
        BY DEF HoldersInv
    <2>4. CASE v = w
        BY <1>7, <2>1, <2>2, <2>4 DEF Owns
    <2>5. CASE v \in workers
        <3>1. v.claim.job \in Job
            BY <2>5 DEF QueueInv, Worker, Claim
        <3> QED BY <2>1, <2>2, <2>3, <2>5, <3>1 DEF QueueInv, HoldersInv, Owns
    <2> QED BY <1>8, <2>4, <2>5
<1> QED BY <1>2, <1>4, <1>10, <1>16, <1>17 DEF QueueInv

LEMMA ClaimReplyLostStep ==
    ASSUME QueueInv, StoreInv, NEW d \in Judge, ClaimReplyLost(d)
    PROVE  QueueInv'
<1>1. judge[d].loop = "query" /\ EndQuery(d, TRUE) /\ UNCHANGED <<workers, rpc>>
    BY DEF ClaimReplyLost
<1>2. PICK q : judge' = [judge EXCEPT ![d] = q] /\ JudgeOK(q, WorkersOf(d), Runs(d))
    BY <1>1, EndQueryOK
<1>3. PICK token \in Token, j \in Oldest(judge[d].excluded) :
          ClaimUnheard(j, token) /\ unheard' = unheard \cup {j}
    BY DEF ClaimReplyLost
<1>4. OthersStay(d) /\ WorkersOf(d)' = WorkersOf(d) /\ Runs(d)' = Runs(d)
    BY <1>1, SameRpc, SameWorkers DEF OthersStay, Runs
<1>5. /\ judge' \in [Judge -> Process]
      /\ \A e \in Judge : JudgeOK(judge'[e], WorkersOf(e)', Runs(e)')
    BY <1>2, <1>4, OneJudge
<1>6. faults' \in 0..MaxFaults
    BY FaultsBound DEF ClaimReplyLost
<1>7. TakeOver(j, token) /\ claims' = claims
    BY <1>3 DEF ClaimUnheard
<1>8. \A k \in Job : jobs[k].leased => jobs'[k] = jobs[k]
    BY <1>7, TakeOverKeepsLeases
<1>9. HoldersInv'
    BY <1>1, <1>7, <1>8, HoldersStay DEF QueueInv, HoldersInv
<1>10. unheard' \subseteq Job
    BY <1>3 DEF QueueInv, Oldest
<1> QED BY <1>1, <1>5, <1>6, <1>9, <1>10 DEF QueueInv, Distinct

----------------------------------------------------------------------------
(* The goroutine of a claimed job.                                         *)

\* The goroutine w becomes v, and its process becomes q.
LEMMA WorkerMoves ==
    ASSUME QueueInv, NEW w \in workers, NEW v \in Worker, v.judge = w.judge, v.claim = w.claim,
           workers' = (workers \ {w}) \cup {v}, NEW q, judge' = [judge EXCEPT ![w.judge] = q],
           JudgeOK(q, (WorkersOf(w.judge) \ {w}) \cup {v}, Runs(w.judge)),
           UNCHANGED <<rpc, unheard>>, faults' \in 0..MaxFaults, HoldersInv'
    PROVE  QueueInv'
<1>1. w.judge \in Judge
    BY DEF QueueInv, Worker
<1>2. /\ WorkersOf(w.judge)' = (WorkersOf(w.judge) \ {w}) \cup {v}
      /\ OthersStay(w.judge) /\ Runs(w.judge)' = Runs(w.judge)
    BY SwapWorkers, SameRpc DEF OthersStay, Runs
<1>3. /\ judge' \in [Judge -> Process]
      /\ \A e \in Judge : JudgeOK(judge'[e], WorkersOf(e)', Runs(e)')
    BY <1>1, <1>2, OneJudge
<1>4. workers' \subseteq Worker /\ Distinct(workers')
    BY DEF QueueInv, Distinct
<1> QED BY <1>3, <1>4 DEF QueueInv

LEMMA RegisterStep == ASSUME QueueInv, NEW d \in Judge, Register(d) PROVE QueueInv'
<1> DEFINE p == judge[d]
<1>1. PICK w \in WorkersOf(d) :
        /\ w.pc = "claimed"
        /\ workers' = (workers \ {w}) \cup {[w EXCEPT !.pc = "work", !.stopped = p.ctxDone]}
        /\ judge' = [judge EXCEPT ![d].active[w.claim.job] = w.claim.ownerToken, ![d].loop = "scan"]
    BY DEF Register
<1> DEFINE v == [w EXCEPT !.pc = "work", !.stopped = p.ctxDone]
           q == [p EXCEPT !.active[w.claim.job] = w.claim.ownerToken, !.loop = "scan"]
<1>2. /\ p \in Process /\ JudgeOK(p, WorkersOf(d), Runs(d)) /\ Runs(d) \in Nat
      /\ WorkersOf(d) \in SUBSET Worker /\ Distinct(WorkersOf(d))
    BY WorkersOfFacts
<1>3. w \in workers /\ w.judge = d /\ w \in Worker /\ w.claim.job \in Job /\ w.claim.ownerToken \in Token
    BY <1>2 DEF WorkersOf, Worker, Claim
<1>4. v \in Worker /\ v.judge = w.judge /\ v.claim = w.claim /\ v.pc = "work"
    BY <1>2, <1>3 DEF Worker, Process
<1>5. /\ q \in Process /\ q.up = p.up /\ q.loop = "scan" /\ q.slots = p.slots
      /\ q.active = [p.active EXCEPT ![w.claim.job] = w.claim.ownerToken]
    BY <1>2, <1>3 DEF Process
<1>6. judge' = [judge EXCEPT ![d] = q] /\ workers' = (workers \ {w}) \cup {v}
    BY <1>1
<1>7. UNCHANGED <<storeVars, rpc, unheard, faults>>
    BY DEF Register
<1> HIDE DEF p, q, v
<1>8. JudgeOK(q, (WorkersOf(d) \ {w}) \cup {v}, Runs(d))
    BY <1>1, <1>2, <1>4, <1>5, RegisteredOK
<1>9. HoldersInv'
    BY <1>1, <1>3, <1>4, <1>6, <1>7, HoldersStay DEF storeVars, QueueInv, HoldersInv
<1>10. faults' \in 0..MaxFaults
    BY <1>7 DEF QueueInv
<1> QED BY <1>3, <1>4, <1>6, <1>7, <1>8, <1>9, <1>10, WorkerMoves

\* Whoever else executes keeps its claim and its row when w settles its own.
LEMMA OthersHold ==
    ASSUME QueueInv, StoreInv, NEW w \in workers, NEW v, v.claim = w.claim, v.pc = "saved",
           workers' = (workers \ {w}) \cup {v}, claims' = claims \ {w.claim},
           \/ jobs' = jobs
           \/ Owns(w.claim) /\ \E row : jobs' = [jobs EXCEPT ![w.claim.job] = row]
    PROVE  HoldersInv'
<1> SUFFICES ASSUME NEW u \in workers', u.pc \in {"claimed", "work"}
             PROVE  /\ u.claim \in claims'
                    /\ "lease" \notin Fault => Owns(u.claim)' /\ jobs'[u.claim.job].leased
    BY DEF HoldersInv
<1>1. u \in workers /\ u # w
    OBVIOUS
<1>2. u.claim.ownerToken # w.claim.ownerToken /\ u.claim.job \in Job
    BY <1>1 DEF QueueInv, Distinct, Worker, Claim
<1>3. u.claim \in claims /\ u.claim # w.claim
    BY <1>1, <1>2 DEF QueueInv, HoldersInv
<1>4. Owns(u.claim) => jobs'[u.claim.job] = jobs[u.claim.job]
    BY <1>2 DEF Owns, StoreInv, StoreTypeOK
<1> QED BY <1>1, <1>3, <1>4 DEF QueueInv, HoldersInv, Owns

LEMMA SaveStep ==
    ASSUME QueueInv, StoreInv, NEW w \in workers, Save(w) \/ SaveFails(w) \/ SaveReplyLost(w)
    PROVE  QueueInv'
<1> DEFINE d == w.judge
           p == judge[d]
           v == [w EXCEPT !.pc = "saved"]
           late == [p EXCEPT !.timers = @ \cup {{w.claim.ownerToken}}]
<1>1. w \in Worker /\ d \in Judge /\ w.claim.ownerToken \in Token /\ judge \in [Judge -> Process]
    BY DEF QueueInv, Worker, Claim
<1>2. p \in Process /\ JudgeOK(p, WorkersOf(d), Runs(d)) /\ w \in WorkersOf(d)
    BY <1>1, WorkersOfFacts DEF WorkersOf
<1>3. v \in Worker /\ v.judge = w.judge /\ v.claim = w.claim /\ v.pc = "saved" /\ w.pc = "work"
    BY <1>1 DEF Worker, Save, SaveFails, SaveReplyLost
<1>4. workers' = (workers \ {w}) \cup {v} /\ UNCHANGED <<rpc, unheard>>
    BY DEF Save, SaveFails, SaveReplyLost, Becomes
<1>5. faults' \in 0..MaxFaults
    BY FaultsBound DEF Save, SaveFails, SaveReplyLost
<1>6. /\ claims' = claims \ {w.claim}
      /\ \/ jobs' = jobs
         \/ Owns(w.claim) /\ \E row : jobs' = [jobs EXCEPT ![w.claim.job] = row]
    BY DEF Save, SaveFails, SaveReplyLost, SaveOutcome, LoseClaims
<1>7. late \in Process /\ late.up = p.up /\ late.slots = p.slots /\ late.active = p.active
      /\ late.loop = p.loop /\ late.excluded = p.excluded
    BY <1>1, <1>2 DEF Process
<1>8. judge' = [judge EXCEPT ![d] = p] \/ judge' = [judge EXCEPT ![d] = late]
    BY <1>1 DEF Save, SaveFails, SaveReplyLost, LeaseTimer
<1> HIDE DEF d, p, v, late
<1>9. HoldersInv'
    BY <1>3, <1>4, <1>6, OthersHold
<1>10. JudgeOK(p, (WorkersOf(d) \ {w}) \cup {v}, Runs(d))
    <2> DEFINE V == (WorkersOf(d) \ {w}) \cup {v}
    <2>1. \A x \in V : \E y \in WorkersOf(d) :
              x.claim = y.claim /\ (x.pc = y.pc \/ {x.pc, y.pc} \subseteq AtWork)
        BY <1>2, <1>3 DEF AtWork
    <2>2. \A y \in WorkersOf(d) : \E x \in V :
              x.claim = y.claim /\ (x.pc = y.pc \/ {x.pc, y.pc} \subseteq AtWork)
        BY <1>2, <1>3 DEF AtWork
    <2> HIDE DEF V
    <2>3. JudgeOK(p, V, Runs(d))
        BY <1>2, <2>1, <2>2, RelabelOK
    <2> QED BY <2>3 DEF V
<1>11. JudgeOK(late, (WorkersOf(d) \ {w}) \cup {v}, Runs(d))
    BY <1>7, <1>10, MoveOK
<1> QED BY <1>3, <1>4, <1>5, <1>8, <1>9, <1>10, <1>11, WorkerMoves DEF d

LEMMA UnregisterStep == ASSUME QueueInv, NEW w \in workers, Unregister(w) PROVE QueueInv'
<1> DEFINE d == w.judge
           p == judge[d]
           v == [w EXCEPT !.pc = "unregistered"]
           q == [p EXCEPT !.active[w.claim.job] = NoToken]
<1>1. w \in Worker /\ d \in Judge /\ w.claim.job \in Job /\ judge \in [Judge -> Process]
    BY DEF QueueInv, Worker, Claim
<1>2. /\ p \in Process /\ JudgeOK(p, WorkersOf(d), Runs(d)) /\ w \in WorkersOf(d)
      /\ WorkersOf(d) \in SUBSET Worker /\ Distinct(WorkersOf(d))
    BY <1>1, WorkersOfFacts DEF WorkersOf
<1>3. v \in Worker /\ v.judge = w.judge /\ v.claim = w.claim /\ v.pc = "unregistered" /\ w.pc = "saved"
    BY <1>1 DEF Worker, Unregister
<1>4. /\ workers' = (workers \ {w}) \cup {v} /\ judge' = [judge EXCEPT ![d] = q]
      /\ UNCHANGED <<storeVars, rpc, unheard, faults>>
    BY DEF Unregister, Becomes
<1>5. /\ q \in Process /\ q.up = p.up /\ q.loop = p.loop /\ q.excluded = p.excluded
      /\ q.slots = p.slots /\ q.active = [p.active EXCEPT ![w.claim.job] = NoToken]
    BY <1>1, <1>2 DEF Process
<1> HIDE DEF d, p, v, q
<1>6. JudgeOK(q, (WorkersOf(d) \ {w}) \cup {v}, Runs(d))
    BY <1>2, <1>3, <1>5, UnregisteredOK
<1>7. HoldersInv'
    BY <1>3, <1>4, HoldersStay DEF storeVars, QueueInv, HoldersInv
<1>8. faults' \in 0..MaxFaults
    BY <1>4 DEF QueueInv
<1> QED BY <1>3, <1>4, <1>6, <1>7, <1>8, WorkerMoves DEF d

LEMMA ReleaseStep == ASSUME QueueInv, NEW w \in workers, Release(w) PROVE QueueInv'
<1> DEFINE d == w.judge
           p == judge[d]
           q == [p EXCEPT !.slots = @ - 1, !.waking = TRUE]
<1>1. d \in Judge
    BY DEF QueueInv, Worker
<1>2. /\ p \in Process /\ JudgeOK(p, WorkersOf(d), Runs(d)) /\ w \in WorkersOf(d)
      /\ Runs(d) \in Nat /\ Distinct(WorkersOf(d))
    BY <1>1, WorkersOfFacts DEF WorkersOf
<1>3. p.slots - 1 \in 0..SlotCount
    BY <1>2, SlotToGive
<1>4. /\ q \in Process /\ q.up = p.up /\ q.loop = p.loop /\ q.excluded = p.excluded
      /\ q.slots = p.slots - 1 /\ q.active = p.active
    BY <1>2, <1>3 DEF Process
<1>5. /\ w.pc = "unregistered" /\ workers' = workers \ {w} /\ judge' = [judge EXCEPT ![d] = q]
      /\ UNCHANGED <<storeVars, rpc, unheard, faults>>
    BY DEF Release
<1> HIDE DEF p, q
<1>6. JudgeOK(q, WorkersOf(d) \ {w}, Runs(d))
    BY <1>2, <1>4, <1>5, ReleasedOK
<1>7. WorkersOf(d)' = WorkersOf(d) \ {w} /\ OthersStay(d) /\ Runs(d)' = Runs(d)
    BY <1>5, DropWorker, SameRpc DEF OthersStay, Runs
<1> HIDE DEF d
<1>8. /\ judge' \in [Judge -> Process]
      /\ \A e \in Judge : JudgeOK(judge'[e], WorkersOf(e)', Runs(e)')
    BY <1>1, <1>5, <1>6, <1>7, OneJudge
<1>9. HoldersInv'
    BY <1>5, HoldersStay DEF storeVars, QueueInv, HoldersInv
<1>10. workers' \subseteq Worker /\ Distinct(workers')
    BY <1>5 DEF QueueInv, Distinct
<1> QED BY <1>5, <1>8, <1>9, <1>10 DEF QueueInv

----------------------------------------------------------------------------
(* The RPC handlers.                                                       *)

\* A call moves on, and with it the process q of its judge.
LEMMA CallMoves ==
    ASSUME QueueInv, NEW d \in Judge, NEW q, judge' = [judge EXCEPT ![d] = q],
           workers' = workers, \A e \in Judge \ {d} : RunsOf(e)' = RunsOf(e),
           JudgeOK(q, WorkersOf(d), Runs(d)'), claims' = claims,
           \A j \in Job : jobs[j].leased => jobs'[j].owner = jobs[j].owner /\ jobs'[j].leased,
           unheard' \subseteq Job, faults' \in 0..MaxFaults
    PROVE  QueueInv'
<1>1. OthersStay(d) /\ WorkersOf(d)' = WorkersOf(d)
    BY SameWorkers DEF OthersStay
<1>2. /\ judge' \in [Judge -> Process]
      /\ \A e \in Judge : JudgeOK(judge'[e], WorkersOf(e)', Runs(e)')
    BY <1>1, OneJudge
<1>3. HoldersInv'
    BY HoldersStay DEF QueueInv, HoldersInv
<1> QED BY <1>2, <1>3 DEF QueueInv, Distinct

\* A call that is no Run moves on, and its judge does not.
LEMMA CallAlone ==
    ASSUME QueueInv, HandlerInv, NEW c \in Caller, NEW state, rpc' = [rpc EXCEPT ![c] = state],
           rpc[c].pc # "running", state.pc # "running", NEW d \in Judge,
           UNCHANGED <<judge, workers>>, claims' = claims,
           \A j \in Job : jobs[j].leased => jobs'[j].owner = jobs[j].owner /\ jobs'[j].leased,
           unheard' \subseteq Job, faults' \in 0..MaxFaults
    PROVE  QueueInv'
<1>1. \A e : RunsOf(e)' = RunsOf(e)
    BY NoRunMoves DEF HandlerInv
<1>2. JudgeOK(judge[d], WorkersOf(d), Runs(d)') /\ judge' = [judge EXCEPT ![d] = judge[d]]
    BY <1>1 DEF QueueInv, Runs
<1> QED BY <1>1, <1>2, CallMoves

\* An insert touches no lease.
LEMMA InsertKeepsLeases ==
    ASSUME StoreInv, NEW j, NEW input, InsertRow(j, input)
    PROVE  /\ claims' = claims
           /\ \A k \in Job : jobs[k].leased => jobs'[k].owner = jobs[k].owner /\ jobs'[k].leased
<1>1. \A k \in Job : jobs[k].leased => k # j
    BY DEF InsertRow, Exists, StoreInv, OwnedWhileStarted, Started
<1> QED BY <1>1 DEF InsertRow, StoreInv, StoreTypeOK

LEMMA CancelKeepsLeases ==
    ASSUME StoreInv, NEW j, CancelRow(j)
    PROVE  /\ claims' = claims
           /\ \A k \in Job : jobs[k].leased => jobs'[k].owner = jobs[k].owner /\ jobs'[k].leased
<1>1. \A k \in Job : jobs'[k].owner = jobs[k].owner /\ jobs'[k].leased = jobs[k].leased
    <2> TAKE k \in Job
    <2>1. jobs[k] \in Row
        BY DEF StoreInv, StoreTypeOK
    <2>2. CASE k = j
        BY <2>1, <2>2 DEF CancelRow, StoreInv, StoreTypeOK, Row
    <2>3. CASE k # j
        BY <2>3 DEF CancelRow, StoreInv, StoreTypeOK
    <2> QED BY <2>2, <2>3
<1> QED BY <1>1 DEF CancelRow

LEMMA SubmitStep ==
    ASSUME QueueInv, StoreInv, HandlerInv, NEW c \in Caller, NEW d \in Judge, NEW j \in Job,
           NEW input \in Input, Submit(c, d, j, input)
    PROVE  QueueInv'
<1>1. PICK pc \in {"vetted", "stored"} :
        /\ CASE pc = "stored" -> AcceptAgain(j, input)
             [] pc = "vetted" -> ~Exists(j) /\ input.version = current /\ CanAccept(d) /\ UNCHANGED storeVars
        /\ rpc' = [rpc EXCEPT ![c] = [pc |-> pc, judge |-> d, job |-> j, input |-> input]]
        /\ unheard' = IF pc = "stored" THEN unheard \ {j} ELSE unheard
    BY DEF Submit
<1>2. UNCHANGED storeVars
    BY <1>1 DEF AcceptAgain
<1>3. rpc[c].pc # "running" /\ UNCHANGED <<judge, workers, faults>>
    BY IdleNotVetted DEF Submit
<1>4. unheard' \subseteq Job /\ faults' \in 0..MaxFaults
    BY <1>1, <1>3 DEF QueueInv
<1>5. [pc |-> pc, judge |-> d, job |-> j, input |-> input].pc # "running"
    OBVIOUS
<1>6. claims' = claims /\ jobs' = jobs
    BY <1>2 DEF storeVars
<1> QED BY <1>1, <1>3, <1>4, <1>5, <1>6, CallAlone

LEMMA CancelStep ==
    ASSUME QueueInv, StoreInv, HandlerInv, NEW c \in Caller, NEW d \in Judge, NEW j \in Job,
           Cancel(c, d, j)
    PROVE  QueueInv'
<1>1. rpc[c].pc # "running" /\ CancelRow(j) /\ UNCHANGED <<judge, workers, unheard>>
    BY IdleNotVetted DEF Cancel
<1>2. \E state : rpc' = [rpc EXCEPT ![c] = state] /\ state.pc # "running"
    <2>1. CASE rpc' = [rpc EXCEPT ![c] = [pc |-> "canceling", judge |-> d, job |-> j]]
        <3>1. [pc |-> "canceling", judge |-> d, job |-> j].pc # "running"
            OBVIOUS
        <3> QED BY <2>1, <3>1, Zenon
    <2>2. CASE rpc' = rpc
        <3>1. rpc' = [rpc EXCEPT ![c] = rpc[c]]
            BY <2>2 DEF HandlerInv
        <3> QED BY <1>1, <3>1
    <2> QED BY <2>1, <2>2 DEF Cancel
<1>3. faults' \in 0..MaxFaults /\ unheard' \subseteq Job
    BY <1>1, FaultsBound DEF Cancel, QueueInv
<1> QED BY <1>1, <1>2, <1>3, CancelKeepsLeases, CallAlone

\* The judge of an open call, by program counter.
LEMMA JudgeOfCall ==
    ASSUME HandlerInv, NEW c \in Caller, rpc[c].pc \in {"vetted", "stored", "running", "ran"}
    PROVE  rpc[c].judge \in Judge
<1>1. rpc[c] \in Handler
    BY DEF HandlerInv
<1> QED BY <1>1, Shapes

LEMMA SubmitEndsStep ==
    ASSUME QueueInv, StoreInv, HandlerInv, NEW c \in Caller,
           SubmitCommits(c) \/ SubmitReplyLost(c) \/ SubmitRollsBack(c)
    PROVE  QueueInv'
<1>1. rpc[c].pc = "vetted" /\ rpc[c].judge \in Judge /\ rpc[c].job \in Job
    BY JudgeOfCall DEF SubmitCommits, SubmitReplyLost, SubmitRollsBack, HandlerInv, VettedOK
<1>2. \E state : rpc' = [rpc EXCEPT ![c] = state] /\ state.pc # "running"
    <2>1. CASE SubmitCommits(c)
        <3>1. rpc[c] \in [pc : {"vetted", "stored"}, judge : Judge, job : Job, input : Input]
            BY <1>1, Shapes DEF HandlerInv
        <3>2. [rpc[c] EXCEPT !.pc = "stored"].pc = "stored"
            BY <3>1
        <3> QED BY <2>1, <3>2 DEF SubmitCommits
    <2>2. CASE SubmitReplyLost(c) \/ SubmitRollsBack(c)
        BY <2>2, IdleNotVetted DEF SubmitReplyLost, SubmitRollsBack, Answered
    <2> QED BY <2>1, <2>2
<1>3. /\ claims' = claims
      /\ \A j \in Job : jobs[j].leased => jobs'[j].owner = jobs[j].owner /\ jobs'[j].leased
    BY InsertKeepsLeases DEF SubmitCommits, SubmitReplyLost, SubmitRollsBack, storeVars
<1>4. faults' \in 0..MaxFaults
    BY FaultsBound DEF SubmitCommits, SubmitReplyLost, SubmitRollsBack
<1>5. unheard' \subseteq Job /\ UNCHANGED <<judge, workers>>
    BY <1>1 DEF SubmitCommits, SubmitReplyLost, SubmitRollsBack, QueueInv
<1> QED BY <1>1, <1>2, <1>3, <1>4, <1>5, CallAlone

LEMMA NotifyAndAnswerStep ==
    ASSUME QueueInv, HandlerInv, NEW c \in Caller, NotifyAndAnswer(c)
    PROVE  QueueInv'
<1>1. PICK d \in Judge : d = rpc[c].judge /\ rpc[c].pc \in {"stored", "ran"}
    BY JudgeOfCall DEF NotifyAndAnswer
<1> DEFINE p == judge[d]
           q == [p EXCEPT !.wake = TRUE]
<1>2. p \in Process /\ JudgeOK(p, WorkersOf(d), Runs(d))
    BY <1>1, WorkersOfFacts
<1>3. /\ q \in Process /\ q.up = p.up /\ q.slots = p.slots /\ q.active = p.active
      /\ q.loop = p.loop /\ q.excluded = p.excluded
    BY <1>2 DEF Process
<1>4. judge' = [judge EXCEPT ![d] = q] /\ UNCHANGED <<storeVars, workers, unheard, faults>>
    BY <1>1 DEF NotifyAndAnswer
<1> HIDE DEF p, q
<1>5. JudgeOK(q, WorkersOf(d), Runs(d))
    BY <1>2, <1>3, MoveOK
<1>6. \A e : RunsOf(e)' = RunsOf(e)
    BY <1>1, NoRunMoves, IdleNotVetted DEF NotifyAndAnswer, Answered, HandlerInv
<1>7. JudgeOK(q, WorkersOf(d), Runs(d)')
    BY <1>5, <1>6 DEF Runs
<1>8. unheard' \subseteq Job /\ faults' \in 0..MaxFaults
    BY <1>4 DEF QueueInv
<1> QED BY <1>1, <1>4, <1>6, <1>7, <1>8, CallMoves DEF storeVars

LEMMA RunStep ==
    ASSUME QueueInv, HandlerInv, NEW c \in Caller, NEW d \in Judge, Run(c, d)
    PROVE  QueueInv'
<1> DEFINE p == judge[d]
           q == [p EXCEPT !.slots = @ + 1]
<1>1. p \in Process /\ JudgeOK(p, WorkersOf(d), Runs(d)) /\ Runs(d) \in Nat /\ IsFiniteSet(RunsOf(d))
    BY WorkersOfFacts, RunsNat
<1>2. /\ judge' = [judge EXCEPT ![d] = q] /\ UNCHANGED <<storeVars, workers, unheard, faults>>
      /\ rpc' = [rpc EXCEPT ![c] = [pc |-> "running", judge |-> d]] /\ rpc[c].pc = "idle"
      /\ p.up /\ p.slots < SlotCount
    BY IdleNotVetted DEF Run, CanAcquire
<1>3. p.slots + 1 \in 0..SlotCount /\ p.slots \in Nat
    BY <1>1, <1>2, QueueAssumption DEF Process
<1>4. /\ q \in Process /\ q.up /\ q.loop = p.loop /\ q.excluded = p.excluded /\ q.active = p.active
      /\ q.slots = p.slots + 1
    BY <1>1, <1>2, <1>3 DEF Process
<1> HIDE DEF p, q
<1>5. /\ RunsOf(d)' = RunsOf(d) \cup {c} /\ c \notin RunsOf(d)
      /\ \A e \in Judge \ {d} : RunsOf(e)' = RunsOf(e)
    BY <1>2 DEF RunsOf, HandlerInv
<1>6. Runs(d)' = Runs(d) + 1
    BY <1>1, <1>5, FS_AddElement DEF Runs
<1>7. q.slots - p.slots = Runs(d)' - Runs(d) /\ Runs(d)' \in Nat
    BY <1>1, <1>3, <1>4, <1>6
<1>8. JudgeOK(q, WorkersOf(d), Runs(d)')
    BY <1>1, <1>2, <1>4, <1>7, RunOK
<1>9. unheard' \subseteq Job /\ faults' \in 0..MaxFaults
    BY <1>2 DEF QueueInv
<1> QED BY <1>2, <1>5, <1>8, <1>9, CallMoves DEF storeVars

LEMMA RunEndsStep ==
    ASSUME QueueInv, HandlerInv, NEW c \in Caller, RunEnds(c)
    PROVE  QueueInv'
<1>1. PICK d \in Judge : d = rpc[c].judge /\ rpc[c].pc = "running"
    BY JudgeOfCall DEF RunEnds
<1> DEFINE p == judge[d]
           q == [p EXCEPT !.slots = @ - 1]
<1>2. p \in Process /\ JudgeOK(p, WorkersOf(d), Runs(d)) /\ Runs(d) \in Nat /\ IsFiniteSet(RunsOf(d))
    BY <1>1, WorkersOfFacts, RunsNat
<1>3. rpc[c] \in [pc : {"running", "ran"}, judge : Judge]
    BY <1>1, Shapes DEF HandlerInv
<1>4. [rpc[c] EXCEPT !.pc = "ran"].pc = "ran"
    BY <1>3
<1>5. /\ judge' = [judge EXCEPT ![d] = q] /\ UNCHANGED <<storeVars, workers, unheard, faults>>
      /\ rpc' = [rpc EXCEPT ![c] = [rpc[c] EXCEPT !.pc = "ran"]]
    BY <1>1 DEF RunEnds
<1>6. /\ RunsOf(d)' = RunsOf(d) \ {c} /\ c \in RunsOf(d)
      /\ \A e \in Judge \ {d} : RunsOf(e)' = RunsOf(e)
    BY <1>1, <1>4, <1>5 DEF RunsOf, HandlerInv
<1>7. Runs(d)' = Runs(d) - 1
    <2> DEFINE S == RunsOf(d)
    <2>1. IsFiniteSet(S) /\ c \in S
        BY <1>2, <1>6
    <2> HIDE DEF S
    <2>2. Cardinality(S \ {c}) = Cardinality(S) - 1
        BY <2>1, FS_RemoveElement
    <2> QED BY <1>6, <2>2 DEF S, Runs
<1>8. Runs(d) > 0 /\ Runs(d)' \in Nat
    <2>1. Runs(d) # 0
        BY <1>2, <1>6, FS_EmptySet DEF Runs
    <2> QED BY <1>2, <1>7, <2>1
<1>9. p.up
    BY <1>2, <1>8 DEF JudgeOK, Quiescent
<1>10. p.slots - 1 \in 0..SlotCount /\ p.slots \in Nat
    BY <1>2, <1>8, SlotToGive, QueueAssumption DEF Process
<1>11. /\ q \in Process /\ q.up /\ q.loop = p.loop /\ q.excluded = p.excluded /\ q.active = p.active
       /\ q.slots = p.slots - 1
    BY <1>2, <1>9, <1>10 DEF Process
<1> HIDE DEF p, q
<1>12. q.slots - p.slots = Runs(d)' - Runs(d)
    BY <1>2, <1>7, <1>10, <1>11
<1>13. JudgeOK(q, WorkersOf(d), Runs(d)')
    BY <1>2, <1>8, <1>9, <1>11, <1>12, RunOK
<1>14. unheard' \subseteq Job /\ faults' \in 0..MaxFaults
    BY <1>5 DEF QueueInv
<1> QED BY <1>1, <1>5, <1>6, <1>13, <1>14, CallMoves DEF storeVars

----------------------------------------------------------------------------
(* Stop and shutdown tell the goroutines in S.                             *)

LEMMA ToldStep ==
    ASSUME QueueInv, NEW S,
           workers' = {IF w \in S THEN [w EXCEPT !.stopped = TRUE] ELSE w : w \in workers},
           judge' \in [Judge -> Process],
           \A e \in Judge : /\ judge'[e].up = judge[e].up /\ judge'[e].slots = judge[e].slots
                            /\ judge'[e].active = judge[e].active /\ judge'[e].loop = judge[e].loop
                            /\ judge'[e].excluded = judge[e].excluded,
           \A e : RunsOf(e)' = RunsOf(e), UNCHANGED <<storeVars, unheard, faults>>
    PROVE  QueueInv'
<1> DEFINE told(w) == IF w \in S THEN [w EXCEPT !.stopped = TRUE] ELSE w
<1>1. \A w \in workers : /\ told(w) \in Worker /\ told(w).judge = w.judge
                         /\ told(w).claim = w.claim /\ told(w).pc = w.pc
    BY DEF QueueInv, Worker
<1>2. workers' = {told(w) : w \in workers}
    OBVIOUS
<1> HIDE DEF told
<1>3. workers' \subseteq Worker /\ Distinct(workers')
    BY <1>1, <1>2 DEF QueueInv, Distinct
<1>4. ASSUME NEW e \in Judge PROVE JudgeOK(judge'[e], WorkersOf(e)', Runs(e)')
    <2>1. \A v \in WorkersOf(e)' : \E w \in WorkersOf(e) : v.claim = w.claim /\ v.pc = w.pc
        BY <1>1, <1>2 DEF WorkersOf
    <2>2. \A w \in WorkersOf(e) : \E v \in WorkersOf(e)' : v.claim = w.claim /\ v.pc = w.pc
        <3> TAKE w \in WorkersOf(e)
        <3>1. w \in workers /\ w.judge = e
            BY DEF WorkersOf
        <3>2. told(w) \in WorkersOf(e)'
            BY <1>1, <1>2, <3>1 DEF WorkersOf
        <3> QED BY <1>1, <3>1, <3>2
    <2>3. JudgeOK(judge[e], WorkersOf(e), Runs(e)) /\ Runs(e)' = Runs(e) /\ judge'[e] \in Process
        BY DEF QueueInv, Runs
    <2>4. JudgeOK(judge[e], WorkersOf(e)', Runs(e))
        BY <2>1, <2>2, <2>3, RelabelOK
    <2>5. JudgeOK(judge'[e], WorkersOf(e)', Runs(e))
        BY <2>3, <2>4, MoveOK
    <2> QED BY <2>3, <2>5
<1>5. HoldersInv'
    <2>1. \A v \in workers' : v.pc \in {"claimed", "work"} =>
              \E w \in workers : w.claim = v.claim /\ w.pc \in {"claimed", "work"} /\ w.claim \in claims'
        BY <1>1, <1>2 DEF storeVars, QueueInv, HoldersInv
    <2> QED BY <2>1, HoldersStay DEF storeVars
<1> QED BY <1>3, <1>4, <1>5 DEF QueueInv

LEMMA CancelHereStep ==
    ASSUME QueueInv, HandlerInv, NEW c \in Caller, CancelHere(c)
    PROVE  QueueInv'
<1> DEFINE S == {w \in workers : /\ w.judge = rpc[c].judge
                                 /\ w.claim.ownerToken = judge[rpc[c].judge].active[rpc[c].job]}
<1>1. workers' = {IF w \in S THEN [w EXCEPT !.stopped = TRUE] ELSE w : w \in workers}
    BY DEF CancelHere
<1>2. UNCHANGED <<storeVars, judge, unheard, faults>> /\ judge' \in [Judge -> Process]
    BY DEF CancelHere, QueueInv
<1>3. \A e : RunsOf(e)' = RunsOf(e)
    BY NoRunMoves, IdleNotVetted DEF CancelHere, Answered, HandlerInv
<1> QED BY <1>1, <1>2, <1>3, ToldStep

LEMMA CancelWorkStep == ASSUME QueueInv, NEW d \in Judge, CancelWork(d) PROVE QueueInv'
<1> DEFINE S == {w \in workers : w.judge = d /\ w.pc # "claimed"}
           q == [judge[d] EXCEPT !.ctxDone = TRUE]
<1>1. workers' = {IF w \in S THEN [w EXCEPT !.stopped = TRUE] ELSE w : w \in workers}
    BY DEF CancelWork
<1>2. UNCHANGED <<storeVars, rpc, unheard, faults>> /\ judge' = [judge EXCEPT ![d] = q]
    BY DEF CancelWork
<1>3. judge \in [Judge -> Process] /\ judge[d] \in Process
    BY DEF QueueInv
<1>4. /\ q \in Process /\ q.up = judge[d].up /\ q.slots = judge[d].slots
      /\ q.active = judge[d].active /\ q.loop = judge[d].loop /\ q.excluded = judge[d].excluded
    BY <1>3 DEF Process
<1> HIDE DEF q, S
<1>5. \A e \in Judge : /\ judge'[e].up = judge[e].up /\ judge'[e].slots = judge[e].slots
                       /\ judge'[e].active = judge[e].active /\ judge'[e].loop = judge[e].loop
                       /\ judge'[e].excluded = judge[e].excluded
    BY <1>2, <1>3, <1>4
<1>6. judge' \in [Judge -> Process]
    BY <1>2, <1>3, <1>4
<1> QED BY <1>1, <1>2, <1>5, <1>6, SameRpc, ToldStep

----------------------------------------------------------------------------
(* A process is gone; the clock and the problems move.                     *)

LEMMA GoneStep ==
    ASSUME QueueInv, NEW d \in Judge, Gone(d), HandlerInv, faults' \in 0..MaxFaults
    PROVE  QueueInv'
<1>1. /\ judge' = [judge EXCEPT ![d] = Stopped] /\ workers' = workers \ WorkersOf(d)
      /\ rpc' = [c \in Caller |-> IF rpc[c] # Idle /\ rpc[c].judge = d THEN Idle ELSE rpc[c]]
      /\ claims' = claims \ {claim \in claims : \E w \in WorkersOf(d) : w.claim = claim}
      /\ jobs' = jobs /\ unheard' = unheard
    BY DEF Gone, LoseClaims
<1>2. WorkersOf(d)' = {} /\ \A e \in Judge \ {d} : WorkersOf(e)' = WorkersOf(e)
    BY <1>1 DEF WorkersOf
<1>3. RunsOf(d)' = {} /\ \A e \in Judge \ {d} : RunsOf(e)' = RunsOf(e)
    BY <1>1, IdleNotVetted DEF RunsOf
<1>4. Runs(d)' = 0
    BY <1>3, FS_EmptySet DEF Runs
<1>5. JudgeOK(Stopped, WorkersOf(d)', Runs(d)') /\ OthersStay(d)
    BY <1>2, <1>3, <1>4, FreshProcess DEF OthersStay
<1>6. /\ judge' \in [Judge -> Process]
      /\ \A e \in Judge : JudgeOK(judge'[e], WorkersOf(e)', Runs(e)')
    BY <1>1, <1>5, OneJudge
<1>7. \A w \in workers' : w.pc \in {"claimed", "work"} => w.claim \in claims'
    BY <1>1 DEF QueueInv, HoldersInv, Distinct, WorkersOf
<1>8. HoldersInv'
    BY <1>1, <1>7, HoldersStay
<1>9. workers' \subseteq Worker /\ Distinct(workers')
    BY <1>1 DEF QueueInv, Distinct
<1> QED BY <1>1, <1>6, <1>8, <1>9 DEF QueueInv

\* The table or the problems change, but no judge.
LEMMA JudgesStay ==
    ASSUME QueueInv, UNCHANGED <<judge, workers, rpc, unheard>>, HoldersInv', faults' \in 0..MaxFaults
    PROVE  QueueInv'
<1>1. \A e : WorkersOf(e)' = WorkersOf(e) /\ Runs(e)' = Runs(e)
    BY SameRpc, SameWorkers DEF Runs
<1> QED BY <1>1 DEF QueueInv, Distinct

\* The lease of an execution runs out only by the fault "lease".
LEMMA LeaseOutStep == ASSUME QueueInv, StoreInv, NEW j \in Job, LeaseOut(j) PROVE QueueInv'
<1>1. /\ jobs' = [jobs EXCEPT ![j].leased = FALSE] /\ claims' = claims
      /\ UNCHANGED <<judge, workers, rpc, unheard>>
    BY DEF LeaseOut, LeaseRunsOut
<1>2. faults' \in 0..MaxFaults
    BY FaultsBound DEF LeaseOut
<1>3. (\E claim \in claims : Owns(claim) /\ claim.job = j) => "lease" \in Fault
    BY DEF LeaseOut, Fails
<1>4. \A k \in Job : jobs[k] \in Row /\ jobs'[k].owner = jobs[k].owner /\ (k # j => jobs'[k] = jobs[k])
    BY <1>1 DEF StoreInv, StoreTypeOK, Row
<1>5. HoldersInv'
    <2> SUFFICES ASSUME NEW w \in workers, w.pc \in {"claimed", "work"}
                 PROVE  /\ w.claim \in claims
                        /\ "lease" \notin Fault => Owns(w.claim)' /\ jobs'[w.claim.job].leased
        BY <1>1 DEF HoldersInv
    <2>1. /\ w.claim \in claims /\ w.claim.job \in Job
          /\ "lease" \notin Fault => Owns(w.claim) /\ jobs[w.claim.job].leased
        BY DEF QueueInv, HoldersInv, Worker, Claim
    <2> QED BY <1>3, <1>4, <2>1 DEF Owns
<1> QED BY <1>1, <1>2, <1>5, JudgesStay

LEMMA PublishStep ==
    ASSUME QueueInv, (\E version : Publish(version)) \/ UNCHANGED vars
    PROVE  QueueInv'
<1>1. UNCHANGED <<jobs, claims, judge, workers, rpc, unheard, faults>>
    BY DEF Publish, PublishVersion, queueVars, vars, storeVars
<1>2. HoldersInv'
    BY <1>1, HoldersStay DEF QueueInv, HoldersInv
<1>3. faults' \in 0..MaxFaults
    BY <1>1 DEF QueueInv
<1> QED BY <1>1, <1>2, <1>3, JudgesStay

----------------------------------------------------------------------------
(* QueueInv is an invariant.                                               *)

LEMMA InitQueue == Init => QueueInv
<1> SUFFICES ASSUME Init PROVE QueueInv
    OBVIOUS
<1>1. ASSUME NEW d \in Judge PROVE judge[d] = Stopped /\ WorkersOf(d) = {} /\ Runs(d) = 0
    <2>1. RunsOf(d) = {} /\ WorkersOf(d) = {}
        BY IdleNotVetted DEF Init, RunsOf, WorkersOf
    <2> QED BY <2>1, FS_EmptySet DEF Init, Runs
<1>2. \A d \in Judge : JudgeOK(judge[d], WorkersOf(d), Runs(d))
    BY <1>1, FreshProcess
<1>3. judge \in [Judge -> Process]
    <2>1. judge = [d \in Judge |-> Stopped]
        BY DEF Init
    <2> QED BY <2>1, FreshProcess
<1>4. workers = {} /\ unheard \subseteq Job /\ faults \in 0..MaxFaults
    BY QueueAssumption DEF Init
<1>5. workers \subseteq Worker /\ Distinct(workers) /\ HoldersInv
    BY <1>4 DEF Distinct, HoldersInv
<1> QED BY <1>2, <1>3, <1>4, <1>5 DEF QueueInv

LEMMA StepQueue == StoreInv /\ HandlerInv /\ QueueInv /\ [Next]_vars => QueueInv'
<1> SUFFICES ASSUME StoreInv, HandlerInv, QueueInv, [Next]_vars PROVE QueueInv'
    OBVIOUS
<1>1. ASSUME NEW d \in Judge, LoopStep(d) \/ Notify(d) \/ TimerFires(d) PROVE QueueInv'
    BY <1>1, ClaimOneStep, ClaimReturnsStep, QueryEndsStep, ClaimReplyLostStep, RegisterStep, FlagsStep
    DEF LoopStep
<1>2. ASSUME NEW d \in Judge, ProcessStep(d) PROVE QueueInv'
    <2>1. CASE Exit(d) \/ Crash(d)
        <3>1. Gone(d) /\ faults' \in 0..MaxFaults
            BY <2>1, FaultsBound DEF Exit, Crash
        <3> QED BY <3>1, GoneStep
    <2>2. CASE Start(d) \/ Drain(d) \/ CancelWork(d)
        BY <2>2, StartStep, FlagsStep, CancelWorkStep
    <2> QED BY <1>2, <2>1, <2>2 DEF ProcessStep
<1>3. ASSUME NEW w \in workers, WorkerStep(w) PROVE QueueInv'
    BY <1>3, SaveStep, UnregisterStep, ReleaseStep DEF WorkerStep
<1>4. ASSUME NEW c \in Caller, Request(c) PROVE QueueInv'
    BY <1>4, SubmitStep, RunStep, CancelStep DEF Request
<1>5. ASSUME NEW c \in Caller, HandlerStep(c) PROVE QueueInv'
    BY <1>5, SubmitEndsStep, NotifyAndAnswerStep, RunEndsStep, CancelHereStep DEF HandlerStep
<1>6. ASSUME NEW j \in Job, LeaseOut(j) PROVE QueueInv'
    BY <1>6, LeaseOutStep
<1> QED BY <1>1, <1>2, <1>3, <1>4, <1>5, <1>6, PublishStep DEF Next

\* In every behaviour each judge's memory agrees with its goroutines, and who executes holds the
\* claim (queue.go, for any number of judges, slots, jobs and faults).
THEOREM QueueInvariant == Spec => []QueueInv
<1>1. Spec => []StoreInv
    BY QueueImplementsStore, StoreInvariant DEF ImplementsStore
<1> QED BY <1>1, InitQueue, StepQueue, HandlerInvariant, PTL DEF Spec

\* Every variable of the judges and of the table keeps its type: in particular the count of slots
\* never passes slotCount and never drops below zero (queue.go, acquire and release).
THEOREM QueueTypes == Spec => []TypeOK
<1>1. Spec => []StoreInv
    BY QueueImplementsStore, StoreInvariant DEF ImplementsStore
<1>2. StoreInv /\ HandlerInv /\ QueueInv => TypeOK
    BY DEF StoreInv, HandlerInv, QueueInv, TypeOK
<1> QED BY <1>1, <1>2, HandlerInvariant, QueueInvariant, PTL

\* As many goroutines as tokens: a token names one.
LEMMA TokensCount ==
    ASSUME NEW W, Distinct(W), IsFiniteSet(Tokens(W))
    PROVE  Cardinality(W) = Cardinality(Tokens(W))
<1> DEFINE named == [t \in Tokens(W) |-> CHOOSE w \in W : w.claim.ownerToken = t]
<1>1. \A t \in Tokens(W) : named[t] \in W /\ named[t].claim.ownerToken = t
    BY DEF Tokens
<1>2. named \in Bijection(Tokens(W), W)
    <2>1. \A w \in W : w.claim.ownerToken \in Tokens(W) /\ named[w.claim.ownerToken] = w
        BY <1>1 DEF Distinct, Tokens
    <2> QED BY <1>1, <2>1 DEF Bijection, Injection, Surjection, IsInjective
<1>3. ExistsBijection(Tokens(W), W)
    BY <1>2 DEF ExistsBijection
<1> QED BY <1>3, FS_Bijection

\* No path through the claim loop, work or run leaks a slot, or gives one back twice
\* (queue.go, acquire and release).
THEOREM SlotsCounted == Spec => []SlotsMatch
<1>1. QueueInv => SlotsMatch
    <2> SUFFICES ASSUME QueueInv, NEW d \in Judge
                 PROVE  judge[d].slots = Cardinality(WorkersOf(d)) + Cardinality(RunsOf(d))
                                         + (IF judge[d].loop = "query" THEN 1 ELSE 0)
        BY DEF SlotsMatch
    <2>1. JudgeOK(judge[d], WorkersOf(d), Runs(d)) /\ Distinct(WorkersOf(d))
        BY WorkersOfFacts
    <2>2. Cardinality(WorkersOf(d)) = Cardinality(Tokens(WorkersOf(d)))
        BY <2>1, TokensCount DEF JudgeOK, Counted
    <2> QED BY <2>1, <2>2 DEF JudgeOK, Counted, Querying, Runs
<1> QED BY <1>1, QueueInvariant, PTL

\* A Stop always finds the cancel function of the execution it means: neither the claim loop nor a
\* goroutine's clean-up replaces or deletes that of another claim (queue.go, q.active).
THEOREM ActiveIsWork == Spec => []ActiveMatchesWork
<1>1. QueueInv => ActiveMatchesWork
    <2> SUFFICES ASSUME QueueInv, NEW d \in Judge, NEW j \in Job
                 PROVE  {w.claim.ownerToken : w \in {x \in WorkersOf(d) : x.claim.job = j /\ x.pc \in AtWork}}
                            = {judge[d].active[j]} \ {NoToken}
        BY DEF ActiveMatchesWork, AtWork
    <2>1. Registered(judge[d], WorkersOf(d)) /\ WorkersOf(d) \in SUBSET Worker
        BY WorkersOfFacts DEF JudgeOK
    <2>2. \A w \in WorkersOf(d) : w.claim.ownerToken \in Token
        BY <2>1 DEF Worker, Claim
    <2> QED BY <2>1, <2>2, NullAssumption DEF Registered
<1> QED BY <1>1, QueueInvariant, PTL

\* While leases outlast executions, no two judges execute one submission at once, whatever else
\* crashes, is lost or shut down (store.go, claim; queue.go, work).
THEOREM NoOverlap == Spec => []OneExecution
<1>1. QueueInv => OneExecution
    BY DEF QueueInv, HoldersInv, OneExecution, Owns, Distinct
<1> QED BY <1>1, QueueInvariant, PTL

=============================================================================
