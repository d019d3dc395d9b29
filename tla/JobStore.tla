----------------------------- MODULE JobStore ------------------------------
(***************************************************************************)
(* The judge's durable queue: the rows of the jobs table and the SQL that  *)
(* changes them (judge/store.go), used by any number of judges at once.    *)
(*                                                                         *)
(* Every statement is one atomic step: accept holds an advisory lock on    *)
(* the submission's UUID, claim and cancel are single UPDATEs on a locked  *)
(* row, finish is one call of finish_execution.  finish_execution itself   *)
(* is defined in the database, outside the repository; Settled models it   *)
(* from what its callers say of it.                                        *)
(*                                                                         *)
(* The judges appear only as the set of claims they hold in memory: one    *)
(* claimedJob for each claim whose reply reached its judge and whose       *)
(* outcome is not saved yet.  A judge that stops loses its claims.         *)
(***************************************************************************)
EXTENDS Naturals

CONSTANTS
    Job,        \* submission UUIDs
    Version,    \* problem versions
    Code,       \* submitted programs
    Token,      \* owner tokens (gen_random_uuid)
    NoToken,    \* a NULL owner_token
    NoInput,    \* the input of a row that does not exist
    NoVersion,  \* the problem is inactive, or its version has no grading spec
    Update      \* bound: what content updates may set the current version to

ASSUME NullAssumption ==
    /\ NoToken \notin Token
    /\ NoVersion \notin Version
    /\ Update \subseteq Version \cup {NoVersion}

VARIABLES
    jobs,       \* the jobs table
    current,    \* problems.current_version
    clock,      \* creation times handed out so far
    claims,     \* the claimedJob structs that judges hold
    grants      \* history: claims of each job that allow an execution

storeVars == <<jobs, current, clock, claims, grants>>

Input == [version : Version, code : Code]

Started  == {"running", "canceling"}
Terminal == {"completed", "failed", "canceled"}
States   == {"absent", "queued"} \cup Started \cup Terminal

MaxAttempts == 2

Row == [state : States, cancelRequested : BOOLEAN, attempts : 0..MaxAttempts,
        owner : Token \cup {NoToken}, leased : BOOLEAN, created : Nat,
        input : Input \cup {NoInput}]

Claim == [job : Job, ownerToken : Token, cancelRequested : BOOLEAN, exhausted : BOOLEAN]

NoRow == [state |-> "absent", cancelRequested |-> FALSE, attempts |-> 0,
          owner |-> NoToken, leased |-> FALSE, created |-> 0, input |-> NoInput]

StoreTypeOK ==
    /\ jobs \in [Job -> Row]
    /\ current \in Version \cup {NoVersion}
    /\ clock \in Nat
    /\ claims \subseteq Claim
    /\ grants \in [Job -> Nat]

StoreInit ==
    /\ jobs = [j \in Job |-> NoRow]
    /\ current \in Version
    /\ clock = 0
    /\ claims = {}
    /\ grants = [j \in Job |-> 0]

----------------------------------------------------------------------------
(* accept: a UUID is inserted once, with the problem's current version.    *)

Exists(j) == jobs[j].state # "absent"

\* A wrong SameInput: a reused UUID is answered without comparing fingerprints.
SameInputUnchecked(j, input) == TRUE

\* The fingerprint of the stored submission is the one of this request.
SameInput(j, input) == jobs[j].input = input

\* A retry of a stored UUID: the existing job is returned, nothing changes.
AcceptAgain(j, input) ==
    /\ Exists(j)
    /\ SameInput(j, input)
    /\ UNCHANGED storeVars

\* The INSERT of a new UUID and its commit; the primary key admits it once.
InsertRow(j, input) ==
    /\ ~Exists(j)
    /\ jobs' = [jobs EXCEPT ![j] = [NoRow EXCEPT !.state = "queued",
                                                 !.created = clock,
                                                 !.input = input]]
    /\ clock' = clock + 1
    /\ UNCHANGED <<current, claims, grants>>

\* A submission is stored with the version that is current when it is stored.
Insert(j, input) == input.version = current /\ InsertRow(j, input)

\* A content update, applied to the database by hand.
PublishVersion(version) ==
    /\ current # version
    /\ current' = version
    /\ UNCHANGED <<jobs, clock, claims, grants>>

----------------------------------------------------------------------------
(* claim: the oldest queued job, or one whose lease ran out.               *)

\* A wrong Claimable: started jobs are taken over while their lease lasts.
ClaimableWhileLeased(j) == jobs[j].state \in {"queued"} \cup Started

\* A wrong Claimable: started jobs are never taken over.
ClaimableOnlyQueued(j) == jobs[j].state = "queued"

\* A wrong Claimable: any row without a lease, also one that is settled.
ClaimableUnleased(j) == jobs[j].state # "absent" /\ ~jobs[j].leased

Claimable(j) ==
    \/ jobs[j].state = "queued"
    \/ jobs[j].state \in Started /\ ~jobs[j].leased

\* ORDER BY created_at LIMIT 1 among the jobs this judge is not running.
Oldest(excluded) ==
    {j \in Job \ excluded :
        /\ Claimable(j)
        /\ \A k \in Job \ excluded : Claimable(k) => jobs[j].created <= jobs[k].created}

\* gen_random_uuid: no row carries the token and no judge holds it.
FreshToken(token) ==
    /\ \A j \in Job : jobs[j].owner # token
    /\ \A c \in claims : c.ownerToken # token

\* A wrong ClaimOf: the attempts are compared with > instead of >=.
ClaimOfOneTooMany(j, token) ==
    [job |-> j, ownerToken |-> token,
     cancelRequested |-> jobs[j].cancelRequested,
     exhausted |-> jobs[j].state # "queued" /\ jobs[j].attempts > MaxAttempts]

ClaimOf(j, token) ==
    [job |-> j, ownerToken |-> token,
     cancelRequested |-> jobs[j].cancelRequested,
     exhausted |-> jobs[j].state # "queued" /\ jobs[j].attempts >= MaxAttempts]

\* The only claims whose holder goes on to grade the job.
Executes(claim) == ~claim.cancelRequested /\ ~claim.exhausted

\* The UPDATE of claim, without its reply.
TakeOver(j, token) ==
    /\ j \in Job
    /\ Claimable(j)
    /\ FreshToken(token)
    /\ jobs' = [jobs EXCEPT
           ![j].state = IF jobs[j].cancelRequested THEN "canceling" ELSE "running",
           ![j].owner = token,
           ![j].leased = TRUE,
           ![j].attempts = IF @ + 1 <= MaxAttempts THEN @ + 1 ELSE MaxAttempts]
    /\ grants' = [grants EXCEPT ![j] = @ + IF Executes(ClaimOf(j, token)) THEN 1 ELSE 0]
    /\ UNCHANGED <<current, clock>>

\* The judge receives the claim.
ClaimJob(j, token) ==
    /\ TakeOver(j, token)
    /\ claims' = claims \cup {ClaimOf(j, token)}

\* The UPDATE commits, but its reply is lost: no judge knows the new owner token.
ClaimUnheard(j, token) ==
    /\ TakeOver(j, token)
    /\ UNCHANGED claims

\* 60 seconds pass on the database's clock.
LeaseRunsOut(j) ==
    /\ jobs[j].state \in Started
    /\ jobs[j].leased
    /\ jobs' = [jobs EXCEPT ![j].leased = FALSE]
    /\ UNCHANGED <<current, clock, claims, grants>>

----------------------------------------------------------------------------
(* finish: the outcome a claim's holder may save, and what becomes of the  *)
(* row.                                                                    *)

\* The switch of work: what each kind of claim can end with.
Endings(claim) ==
    IF claim.cancelRequested THEN {"none"}
    ELSE IF claim.exhausted THEN {"exhausted"}
    ELSE {"result", "invalid", "interrupted"}

\* Only an interruption asks for another try.
Retries(ending) == ending = "interrupted"

Owns(claim) == jobs[claim.job].owner = claim.ownerToken

\* finish_execution on a row it accepts: a saved Stop beats the result, and an interrupted job
\* returns to the queue if it has an attempt left.
Settled(row, ending) ==
    [row EXCEPT
        !.state = CASE row.cancelRequested -> "canceled"
                    [] ~row.cancelRequested /\ ending = "result" -> "completed"
                    [] ~row.cancelRequested /\ Retries(ending) /\ row.attempts < MaxAttempts -> "queued"
                    [] OTHER -> "failed",
        !.owner = NoToken,
        !.leased = FALSE]

\* The row is settled only for its owner; a stale owner changes nothing. Whether an owner whose
\* lease has run out still counts is up to finish_execution: both answers are possible here.
\* Either way the holder is done with its claim.
SaveOutcome(claim, ending) ==
    /\ claim \in claims
    /\ ending \in Endings(claim)
    /\ claims' = claims \ {claim}
    /\ \/ /\ Owns(claim)
          /\ jobs' = [jobs EXCEPT ![claim.job] = Settled(@, ending)]
       \/ /\ ~Owns(claim) \/ ~jobs[claim.job].leased
          /\ UNCHANGED jobs
    /\ UNCHANGED <<current, clock, grants>>

\* The holder is gone, or could not reach the database: the claim's outcome is never saved.
LoseClaims(lost) ==
    /\ lost \subseteq claims
    /\ claims' = claims \ lost
    /\ UNCHANGED <<jobs, current, clock, grants>>

----------------------------------------------------------------------------
(* cancel: a queued job ends at once, a running one is marked.             *)

\* A wrong CancelRow: a finished job is marked too.
CancelRowAnyState(j) ==
    /\ Exists(j)
    /\ jobs' = [jobs EXCEPT
           ![j].state = CASE @ = "queued"  -> "canceled"
                          [] @ = "running" -> "canceling"
                          [] OTHER         -> @,
           ![j].cancelRequested = TRUE]
    /\ UNCHANGED <<current, clock, claims, grants>>

CancelRow(j) ==
    /\ Exists(j)
    /\ jobs' = [jobs EXCEPT
           ![j].state = CASE @ = "queued"  -> "canceled"
                          [] @ = "running" -> "canceling"
                          [] OTHER         -> @,
           ![j].cancelRequested = @ \/ jobs[j].state \in {"queued", "running", "canceling"}]
    /\ UNCHANGED <<current, clock, claims, grants>>

----------------------------------------------------------------------------
StoreNext ==
    \/ \E j \in Job, input \in Input : Insert(j, input)
    \/ \E version \in Update : PublishVersion(version)
    \/ \E excluded \in SUBSET Job, token \in Token :
           \E j \in Oldest(excluded) : ClaimJob(j, token) \/ ClaimUnheard(j, token)
    \/ \E j \in Job : LeaseRunsOut(j)
    \/ \E claim \in claims : \E ending \in Endings(claim) : SaveOutcome(claim, ending)
    \/ \E lost \in SUBSET claims : LoseClaims(lost)
    \/ \E j \in Job : CancelRow(j)

StoreSpec == StoreInit /\ [][StoreNext]_storeVars

----------------------------------------------------------------------------
(* Properties                                                              *)

\* A row is started exactly while it has an owner, and only a started row can have a lease.
OwnedWhileStarted ==
    \A j \in Job :
        /\ (jobs[j].state \in Started) <=> (jobs[j].owner # NoToken)
        /\ jobs[j].leased => jobs[j].state \in Started

\* A recorded Stop and the row's state agree: nothing loses the Stop, nothing invents one.
StopMatchesState ==
    \A j \in Job : jobs[j].cancelRequested <=> jobs[j].state \in {"canceling", "canceled"}

\* attempts counts every execution granted (up to its cap), and a queued row has one left.
AttemptsCountGrants ==
    \A j \in Job :
        /\ grants[j] <= jobs[j].attempts
        /\ jobs[j].state = "queued" => jobs[j].attempts < MaxAttempts
        /\ jobs[j].state = "absent" => jobs[j].attempts = 0

\* A row running without any execution granted does not exist.
RunningWasGranted ==
    \A j \in Job : jobs[j].state \in {"running", "completed", "failed"} => grants[j] > 0

\* The claim that owns a row is that row's claim, and it saw no Stop the row does not have.
OwningClaimMatchesRow ==
    \A claim \in claims, j \in Job :
        jobs[j].owner = claim.ownerToken =>
            /\ claim.job = j
            /\ claim.cancelRequested => jobs[j].cancelRequested

\* The inductive invariant of the store: each part needs the others to be preserved.
StoreInv ==
    /\ StoreTypeOK
    /\ OwnedWhileStarted
    /\ StopMatchesState
    /\ AttemptsCountGrants
    /\ RunningWasGranted
    /\ OwningClaimMatchesRow

\* However often judges crash, replies are lost and leases run out, at most two executions of a
\* submission are ever started: the second interruption fails it (store.go, attempts >= 2).
AtMostTwoExecutions == \A j \in Job : grants[j] <= MaxAttempts

\* While a lease lasts, nobody but the owner moves the row, except for a Stop that marks it:
\* no other judge can claim it, and a stale owner's finish cannot touch it (store.go, claim and
\* finish).
LeaseProtected ==
    \A j \in Job :
        jobs[j].leased /\ jobs'[j] # jobs[j] =>
            \/ jobs'[j] = [jobs[j] EXCEPT !.leased = FALSE]
            \/ jobs'[j] = [jobs[j] EXCEPT !.state = "canceling", !.cancelRequested = TRUE]
            \/ \E claim \in claims \ claims' :
                   claim.job = j /\ claim.ownerToken = jobs[j].owner

LeaseProtectsOwner == [][LeaseProtected]_storeVars

\* What the outside world sees of a row.
Outcome(state) ==
    CASE state = "absent"   -> "none"
      [] state \in Terminal -> state
      [] OTHER              -> "pending"

\* The store keeps the contract: each submission is recorded once and ends once, completed or
\* failed only after an execution, canceled exactly if a Stop was recorded first.
Contract == INSTANCE JudgeContract WITH
    outcome <- [j \in Job |-> Outcome(jobs[j].state)],
    stopped <- [j \in Job |-> jobs[j].cancelRequested],
    grants  <- grants

ImplementsContract == Contract!Spec

============================================================================
