--------------------------- MODULE JobStoreProofs ---------------------------
(***************************************************************************)
(* What JobStore promises, proved for any number of submissions, programs, *)
(* versions and tokens: StoreInv is inductive, hence at most two           *)
(* executions; a lease protects its owner; and the store implements        *)
(* JudgeContract.                                                          *)
(***************************************************************************)
EXTENDS JobStore, TLAPS

\* The parts of StoreInv that speak of one row and its grants only.
RowOK(row, g) ==
    /\ (row.state \in Started) <=> (row.owner # NoToken)
    /\ row.leased => row.state \in Started
    /\ row.cancelRequested <=> row.state \in {"canceling", "canceled"}
    /\ g <= row.attempts
    /\ row.state = "queued" => row.attempts < MaxAttempts
    /\ row.state = "absent" => row.attempts = 0
    /\ row.state \in {"running", "completed", "failed"} => g > 0

\* StoreInv, read row by row.
LEMMA RowWise ==
    StoreInv <=> /\ StoreTypeOK
                 /\ \A j \in Job : RowOK(jobs[j], grants[j])
                 /\ OwningClaimMatchesRow
BY DEF StoreInv, RowOK, OwnedWhileStarted, StopMatchesState, AttemptsCountGrants, RunningWasGranted

LEMMA RowWiseNext ==
    StoreInv' <=> /\ StoreTypeOK'
                  /\ \A j \in Job : RowOK(jobs'[j], grants'[j])
                  /\ OwningClaimMatchesRow'
BY DEF StoreInv, RowOK, OwnedWhileStarted, StopMatchesState, AttemptsCountGrants, RunningWasGranted

\* A step that replaces one row by a good one preserves the invariant, if the claims that are
\* left still match the row.
LEMMA OneRowStep ==
    ASSUME StoreInv,
           NEW j \in Job, NEW row \in Row, NEW g \in Nat,
           jobs' = [jobs EXCEPT ![j] = row],
           grants' = [grants EXCEPT ![j] = g],
           current' \in Version \cup {NoVersion}, clock' \in Nat, claims' \subseteq Claim,
           RowOK(row, g),
           \A claim \in claims', k \in Job : jobs'[k].owner = claim.ownerToken =>
               /\ claim.job = k
               /\ claim.cancelRequested => jobs'[k].cancelRequested
    PROVE  StoreInv'
<1>1. StoreTypeOK'
    BY DEF StoreInv, StoreTypeOK
<1>2. ASSUME NEW k \in Job PROVE RowOK(jobs'[k], grants'[k])
    <2>1. CASE k = j
        BY <2>1 DEF StoreInv, StoreTypeOK
    <2>2. CASE k # j
        BY <2>2, RowWise DEF StoreInv, StoreTypeOK
    <2> QED BY <2>1, <2>2
<1>3. OwningClaimMatchesRow'
    BY DEF OwningClaimMatchesRow
<1> QED BY <1>1, <1>2, <1>3, RowWiseNext

\* A started row keeps the row invariant when its owner finishes it.
LEMMA SettledRow ==
    ASSUME NEW row \in Row, NEW g \in Nat, RowOK(row, g), row.state \in Started, NEW ending
    PROVE  Settled(row, ending) \in Row /\ RowOK(Settled(row, ending), g)
<1>1. CASE row.cancelRequested
    BY <1>1 DEF Settled, Row, RowOK, Started, Terminal, States, MaxAttempts
<1>2. CASE ~row.cancelRequested
    <2>1. row.state = "running" /\ g > 0
        BY <1>2 DEF RowOK, Started
    <2> QED BY <1>2, <2>1 DEF Settled, Row, RowOK, Started, Terminal, States, MaxAttempts, Retries
<1> QED BY <1>1, <1>2 DEF Row

\* The initial state: no rows.
LEMMA StoreInitInv == StoreInit => StoreInv
<1> SUFFICES ASSUME StoreInit PROVE StoreInv
    OBVIOUS
<1>1. NoRow \in Row /\ RowOK(NoRow, 0)
    BY DEF NoRow, Row, RowOK, States, Started, Terminal, MaxAttempts
<1>2. StoreTypeOK
    BY <1>1 DEF StoreInit, StoreTypeOK
<1> QED BY <1>1, <1>2, RowWise DEF StoreInit, OwningClaimMatchesRow

\* Acceptance of a new row.
LEMMA InsertInv ==
    ASSUME StoreInv, NEW j \in Job, NEW input \in Input, Insert(j, input)
    PROVE  StoreInv'
<1> DEFINE row == [NoRow EXCEPT !.state = "queued", !.created = clock, !.input = input]
<1>1. row \in Row /\ RowOK(row, grants[j])
    <2>1. NoRow \in Row
        BY DEF NoRow, Row, States, MaxAttempts
    <2>2. clock \in Nat /\ grants[j] \in Nat
        BY DEF StoreInv, StoreTypeOK
    <2>3. jobs[j].attempts = 0 /\ grants[j] <= jobs[j].attempts
        BY RowWise DEF Insert, InsertRow, Exists, RowOK
    <2>4. "queued" \in States
        BY DEF States
    <2>5. row \in Row
        BY <2>1, <2>2, <2>4 DEF Row
    <2>6. /\ row.state = "queued" /\ row.attempts = 0 /\ row.cancelRequested = FALSE
          /\ row.owner = NoToken /\ row.leased = FALSE
        BY <2>1 DEF NoRow, Row
    <2> HIDE DEF row
    <2> QED BY <2>2, <2>3, <2>5, <2>6 DEF RowOK, Started, MaxAttempts
<1>2. /\ jobs' = [jobs EXCEPT ![j] = row]
      /\ grants' = [grants EXCEPT ![j] = grants[j]]
      /\ current' \in Version \cup {NoVersion} /\ clock' \in Nat /\ claims' \subseteq Claim
    BY DEF Insert, InsertRow, StoreInv, StoreTypeOK
<1>3. ASSUME NEW claim \in claims', NEW k \in Job, jobs'[k].owner = claim.ownerToken
      PROVE  claim.job = k /\ (claim.cancelRequested => jobs'[k].cancelRequested)
    <2>1. claim \in claims /\ claim.ownerToken # NoToken
        BY NullAssumption DEF Insert, InsertRow, StoreInv, StoreTypeOK, Claim
    <2>2. k # j
        BY <1>2, <1>3, <2>1 DEF NoRow, StoreInv, StoreTypeOK, Row
    <2>3. jobs'[k] = jobs[k]
        BY <1>2, <2>2 DEF StoreInv, StoreTypeOK
    <2> QED BY <1>3, <2>1, <2>3 DEF StoreInv, OwningClaimMatchesRow
<1>4. grants[j] \in Nat
    BY DEF StoreInv, StoreTypeOK
<1> HIDE DEF row
<1> QED BY <1>1, <1>2, <1>3, <1>4, OneRowStep

\* The UPDATE of claim, whether or not its reply arrives: the claims are those of before, or those
\* and the new one.
LEMMA TakeOverInv ==
    ASSUME StoreInv, NEW j \in Job, NEW token \in Token, TakeOver(j, token),
           claims' \subseteq claims \cup {ClaimOf(j, token)}
    PROVE  StoreInv'
<1> DEFINE state == IF jobs[j].cancelRequested THEN "canceling" ELSE "running"
           attempts == IF jobs[j].attempts + 1 <= MaxAttempts THEN jobs[j].attempts + 1 ELSE MaxAttempts
           row == [jobs[j] EXCEPT !.state = state, !.owner = token, !.leased = TRUE,
                                  !.attempts = attempts]
           g == grants[j] + IF Executes(ClaimOf(j, token)) THEN 1 ELSE 0
<1>1. jobs[j] \in Row /\ grants[j] \in Nat /\ RowOK(jobs[j], grants[j]) /\ token # NoToken
    BY RowWise, NullAssumption DEF StoreTypeOK
<1>2. /\ state \in States /\ attempts \in 0..MaxAttempts /\ g \in Nat
      /\ row \in Row
      /\ row.state = state /\ row.owner = token /\ row.leased = TRUE /\ row.attempts = attempts
      /\ row.cancelRequested = jobs[j].cancelRequested
    <2>1. jobs[j].attempts \in 0..MaxAttempts
        BY <1>1 DEF Row
    <2>2. state \in States /\ attempts \in 0..MaxAttempts /\ g \in Nat
        BY <1>1, <2>1 DEF States, Started, MaxAttempts
    <2> HIDE DEF state, attempts
    <2>3. row \in Row
        BY <1>1, <2>2 DEF Row
    <2>4. /\ row.state = state /\ row.owner = token /\ row.leased = TRUE /\ row.attempts = attempts
          /\ row.cancelRequested = jobs[j].cancelRequested
        BY <1>1 DEF Row
    <2> QED BY <2>2, <2>3, <2>4
<1>3. Claimable(j) /\ FreshToken(token)
    BY DEF TakeOver
<1>4. RowOK(row, g)
    <2> HIDE DEF row
    <2>1. jobs[j].attempts \in 0..2 /\ jobs[j].cancelRequested \in BOOLEAN
        BY <1>1 DEF Row, MaxAttempts
    <2>2. CASE jobs[j].cancelRequested
        <3>1. g = grants[j]
            BY <1>1, <2>2 DEF ClaimOf, Executes
        <3> QED BY <1>1, <1>2, <2>1, <2>2, <3>1 DEF RowOK, Started, MaxAttempts
    <2>3. CASE ~jobs[j].cancelRequested /\ jobs[j].attempts < 2
        <3>1. g = grants[j] + 1
            BY <1>1, <2>1, <2>3 DEF ClaimOf, Executes, MaxAttempts
        <3> QED BY <1>1, <1>2, <2>1, <2>3, <3>1 DEF RowOK, Started, MaxAttempts
    <2>4. CASE ~jobs[j].cancelRequested /\ jobs[j].attempts = 2
        <3>1. jobs[j].state = "running"
            BY <1>1, <1>3, <2>4 DEF RowOK, Claimable, Started, MaxAttempts
        <3>2. jobs[j].state # "queued" /\ jobs[j].attempts >= MaxAttempts
            BY <2>4, <3>1 DEF MaxAttempts
        <3>3. ClaimOf(j, token).exhausted
            BY <3>2 DEF ClaimOf
        <3>4. g = grants[j]
            BY <1>1, <3>3 DEF Executes
        <3> QED BY <1>1, <1>2, <2>1, <2>4, <3>1, <3>4 DEF RowOK, Started, MaxAttempts
    <2> QED BY <2>1, <2>2, <2>3, <2>4
<1>5. /\ jobs' = [jobs EXCEPT ![j] = row]
      /\ grants' = [grants EXCEPT ![j] = g]
      /\ current' \in Version \cup {NoVersion} /\ clock' \in Nat
    BY DEF TakeOver, StoreInv, StoreTypeOK
<1>6. ClaimOf(j, token) \in Claim /\ claims' \subseteq Claim
    <2>1. jobs[j].cancelRequested \in BOOLEAN
        BY <1>1 DEF Row
    <2>2. ClaimOf(j, token) \in Claim
        BY <2>1 DEF ClaimOf, Claim
    <2> QED BY <2>2 DEF StoreInv, StoreTypeOK
<1>7. ASSUME NEW claim \in claims', NEW k \in Job, jobs'[k].owner = claim.ownerToken
      PROVE  claim.job = k /\ (claim.cancelRequested => jobs'[k].cancelRequested)
    <2>1. jobs'[j] = row /\ row.owner = token /\ row.cancelRequested = jobs[j].cancelRequested
        BY <1>1, <1>5 DEF StoreInv, StoreTypeOK, Row
    <2>2. k # j => jobs'[k] = jobs[k]
        BY <1>5 DEF StoreInv, StoreTypeOK
    <2>3. CASE claim = ClaimOf(j, token)
        BY <1>3, <1>7, <2>1, <2>2, <2>3 DEF ClaimOf, FreshToken
    <2>4. CASE claim \in claims
        <3>1. claim.ownerToken # token
            BY <1>3, <2>4 DEF FreshToken
        <3>2. k # j
            BY <1>7, <2>1, <3>1
        <3> QED BY <1>7, <2>2, <2>4, <3>2 DEF StoreInv, OwningClaimMatchesRow
    <2> QED BY <2>3, <2>4
<1> HIDE DEF row, g
<1> QED BY <1>2, <1>4, <1>5, <1>6, <1>7, OneRowStep

\* A lease runs out.
LEMMA LeaseRunsOutInv ==
    ASSUME StoreInv, NEW j \in Job, LeaseRunsOut(j)
    PROVE  StoreInv'
<1> DEFINE row == [jobs[j] EXCEPT !.leased = FALSE]
<1>1. jobs[j] \in Row /\ grants[j] \in Nat /\ RowOK(jobs[j], grants[j])
    BY RowWise DEF StoreTypeOK
<1>2. row \in Row /\ RowOK(row, grants[j])
    BY <1>1 DEF Row, RowOK
<1>3. /\ jobs' = [jobs EXCEPT ![j] = row]
      /\ grants' = [grants EXCEPT ![j] = grants[j]]
      /\ current' \in Version \cup {NoVersion} /\ clock' \in Nat /\ claims' \subseteq Claim
    BY DEF LeaseRunsOut, StoreInv, StoreTypeOK
<1>4. \A k \in Job : jobs'[k].owner = jobs[k].owner /\ jobs'[k].cancelRequested = jobs[k].cancelRequested
    BY <1>1, <1>3 DEF StoreInv, StoreTypeOK, Row
<1>5. claims' = claims
    BY DEF LeaseRunsOut
<1>6. \A claim \in claims', k \in Job : jobs'[k].owner = claim.ownerToken =>
          claim.job = k /\ (claim.cancelRequested => jobs'[k].cancelRequested)
    BY <1>4, <1>5 DEF StoreInv, OwningClaimMatchesRow
<1> HIDE DEF row
<1> QED BY <1>1, <1>2, <1>3, <1>6, OneRowStep

\* An owner's outcome is saved, or a stale one is refused.
LEMMA SaveOutcomeInv ==
    ASSUME StoreInv, NEW claim \in claims, NEW ending \in Endings(claim), SaveOutcome(claim, ending)
    PROVE  StoreInv'
<1> DEFINE j == claim.job
           row == Settled(jobs[j], ending)
<1>1. claim \in Claim /\ j \in Job /\ claim.ownerToken # NoToken
    BY NullAssumption DEF StoreInv, StoreTypeOK, Claim
<1>2. jobs[j] \in Row /\ grants[j] \in Nat /\ RowOK(jobs[j], grants[j])
    BY <1>1, RowWise DEF StoreTypeOK
<1>3. /\ claims' \subseteq claims
      /\ grants' = [grants EXCEPT ![j] = grants[j]]
      /\ current' \in Version \cup {NoVersion} /\ clock' \in Nat /\ claims' \subseteq Claim
    BY DEF SaveOutcome, StoreInv, StoreTypeOK
<1>4. CASE Owns(claim) /\ jobs' = [jobs EXCEPT ![j] = row]
    <2>1. jobs[j].state \in Started
        BY <1>1, <1>2, <1>4 DEF Owns, RowOK
    <2>2. row \in Row /\ RowOK(row, grants[j])
        BY <1>2, <2>1, SettledRow
    <2>3. ASSUME NEW c \in claims', NEW k \in Job, jobs'[k].owner = c.ownerToken
          PROVE  c.job = k /\ (c.cancelRequested => jobs'[k].cancelRequested)
        <3>1. c \in claims /\ c.ownerToken # NoToken
            BY <1>3, NullAssumption DEF StoreInv, StoreTypeOK, Claim
        <3>2. row.owner = NoToken
            BY <1>2 DEF Settled, Row
        <3>3. k # j /\ jobs'[k] = jobs[k]
            BY <1>1, <1>4, <2>3, <3>1, <3>2 DEF StoreInv, StoreTypeOK
        <3> QED BY <2>3, <3>1, <3>3 DEF StoreInv, OwningClaimMatchesRow
    <2>4. jobs' = [jobs EXCEPT ![j] = row]
        BY <1>4
    <2> HIDE DEF row, j
    <2> QED BY <1>1, <1>2, <1>3, <2>2, <2>3, <2>4, OneRowStep
<1>5. CASE UNCHANGED jobs
    BY <1>3, <1>5 DEF SaveOutcome, StoreInv, StoreTypeOK, OwnedWhileStarted, StopMatchesState,
                      AttemptsCountGrants, RunningWasGranted, OwningClaimMatchesRow
<1> QED BY <1>4, <1>5 DEF SaveOutcome

\* A Stop is recorded, or changes nothing.
LEMMA CancelRowInv ==
    ASSUME StoreInv, NEW j \in Job, CancelRow(j)
    PROVE  StoreInv'
<1> DEFINE row == [jobs[j] EXCEPT
                      !.state = CASE @ = "queued"  -> "canceled"
                                  [] @ = "running" -> "canceling"
                                  [] OTHER         -> @,
                      !.cancelRequested = @ \/ jobs[j].state \in {"queued", "running", "canceling"}]
<1>1. jobs[j] \in Row /\ grants[j] \in Nat /\ RowOK(jobs[j], grants[j])
    BY RowWise DEF StoreTypeOK
<1>2. row \in Row /\ RowOK(row, grants[j]) /\ row.owner = jobs[j].owner
      /\ (jobs[j].cancelRequested => row.cancelRequested)
    <2>1. CASE jobs[j].state = "queued"
        BY <1>1, <2>1 DEF Row, RowOK, States, Started, Terminal
    <2>2. CASE jobs[j].state = "running"
        BY <1>1, <2>2 DEF Row, RowOK, States, Started, Terminal
    <2>3. CASE jobs[j].state \notin {"queued", "running"}
        BY <1>1, <2>3 DEF Row, RowOK, States, Started, Terminal
    <2> QED BY <2>1, <2>2, <2>3
<1>3. /\ jobs' = [jobs EXCEPT ![j] = row]
      /\ grants' = [grants EXCEPT ![j] = grants[j]]
      /\ current' \in Version \cup {NoVersion} /\ clock' \in Nat /\ claims' \subseteq Claim
      /\ claims' = claims
    BY DEF CancelRow, StoreInv, StoreTypeOK
<1> HIDE DEF row
<1>4. \A k \in Job : /\ jobs'[k].owner = jobs[k].owner
                     /\ jobs[k].cancelRequested => jobs'[k].cancelRequested
    BY <1>2, <1>3 DEF StoreInv, StoreTypeOK
<1> QED BY <1>1, <1>2, <1>3, <1>4, OneRowStep DEF StoreInv, OwningClaimMatchesRow

\* Every step of the store preserves the invariant.
LEMMA StoreNextInv == StoreInv /\ [StoreNext]_storeVars => StoreInv'
<1> SUFFICES ASSUME StoreInv, [StoreNext]_storeVars PROVE StoreInv'
    OBVIOUS
<1>1. ASSUME NEW j \in Job, NEW input \in Input, Insert(j, input) PROVE StoreInv'
    BY <1>1, InsertInv
<1>2. ASSUME NEW version \in Update, PublishVersion(version) PROVE StoreInv'
    BY <1>2, NullAssumption
    DEF PublishVersion, StoreInv, StoreTypeOK, OwnedWhileStarted, StopMatchesState,
        AttemptsCountGrants, RunningWasGranted, OwningClaimMatchesRow
<1>3. ASSUME NEW excluded \in SUBSET Job, NEW token \in Token, NEW j \in Oldest(excluded),
             ClaimJob(j, token) \/ ClaimUnheard(j, token)
      PROVE  StoreInv'
    <2>1. j \in Job /\ TakeOver(j, token)
        BY <1>3 DEF Oldest, ClaimJob, ClaimUnheard
    <2>2. claims' \subseteq claims \cup {ClaimOf(j, token)}
        BY <1>3 DEF ClaimJob, ClaimUnheard
    <2> QED BY <2>1, <2>2, TakeOverInv
<1>4. ASSUME NEW j \in Job, LeaseRunsOut(j) PROVE StoreInv'
    BY <1>4, LeaseRunsOutInv
<1>5. ASSUME NEW claim \in claims, NEW ending \in Endings(claim), SaveOutcome(claim, ending)
      PROVE  StoreInv'
    BY <1>5, SaveOutcomeInv
<1>6. ASSUME NEW lost \in SUBSET claims, LoseClaims(lost) PROVE StoreInv'
    BY <1>6 DEF LoseClaims, StoreInv, StoreTypeOK, OwnedWhileStarted, StopMatchesState,
                AttemptsCountGrants, RunningWasGranted, OwningClaimMatchesRow
<1>7. ASSUME NEW j \in Job, CancelRow(j) PROVE StoreInv'
    BY <1>7, CancelRowInv
<1>8. CASE UNCHANGED storeVars
    BY <1>8 DEF storeVars, StoreInv, StoreTypeOK, OwnedWhileStarted, StopMatchesState,
                AttemptsCountGrants, RunningWasGranted, OwningClaimMatchesRow
<1> QED BY <1>1, <1>2, <1>3, <1>4, <1>5, <1>6, <1>7, <1>8 DEF StoreNext

\* StoreInv holds in every state of the store, for any number of submissions and judges: rows and
\* claims of judge/store.go stay consistent whatever is lost, delayed or repeated.
THEOREM StoreInvariant == StoreSpec => []StoreInv
<1> QED BY StoreInitInv, StoreNextInv, PTL DEF StoreSpec

\* At most two executions of a submission are ever started (attempts >= 2 in the claim query).
THEOREM TwoExecutions == StoreSpec => []AtMostTwoExecutions
<1>1. StoreInv => AtMostTwoExecutions
    <2> SUFFICES ASSUME StoreInv, NEW j \in Job PROVE grants[j] <= MaxAttempts
        BY DEF AtMostTwoExecutions
    <2>1. grants[j] \in Nat /\ jobs[j].attempts \in 0..2 /\ grants[j] <= jobs[j].attempts
        BY DEF StoreInv, StoreTypeOK, Row, AttemptsCountGrants, MaxAttempts
    <2> QED BY <2>1 DEF MaxAttempts
<1> QED BY <1>1, StoreInvariant, PTL

----------------------------------------------------------------------------
(* A lease protects its owner.                                             *)

LEMMA LeaseStep == StoreInv /\ [StoreNext]_storeVars => [LeaseProtected]_storeVars
<1> SUFFICES ASSUME StoreInv, StoreNext, NEW j \in Job, jobs[j].leased, jobs'[j] # jobs[j]
             PROVE  \/ jobs'[j] = [jobs[j] EXCEPT !.leased = FALSE]
                    \/ jobs'[j] = [jobs[j] EXCEPT !.state = "canceling", !.cancelRequested = TRUE]
                    \/ \E claim \in claims \ claims' :
                           claim.job = j /\ claim.ownerToken = jobs[j].owner
    BY DEF LeaseProtected
<1> USE DEF StoreInv, StoreTypeOK
<1>1. jobs[j] \in Row /\ jobs[j].state \in Started
    BY DEF OwnedWhileStarted
<1>2. ASSUME NEW k \in Job, NEW input \in Input, Insert(k, input) PROVE FALSE
    <2>1. k # j
        BY <1>1, <1>2 DEF Insert, InsertRow, Exists, Started
    <2> QED BY <1>2, <2>1 DEF Insert, InsertRow
<1>3. ASSUME NEW excluded \in SUBSET Job, NEW token \in Token, NEW k \in Oldest(excluded),
             ClaimJob(k, token) \/ ClaimUnheard(k, token)
      PROVE  FALSE
    <2>1. k \in Job /\ TakeOver(k, token)
        BY <1>3 DEF Oldest, ClaimJob, ClaimUnheard
    <2>2. k # j
        BY <1>1, <2>1 DEF TakeOver, Claimable, Started
    <2> QED BY <2>1, <2>2 DEF TakeOver
<1>4. ASSUME NEW k \in Job, LeaseRunsOut(k)
      PROVE  jobs'[j] = [jobs[j] EXCEPT !.leased = FALSE]
    BY <1>4 DEF LeaseRunsOut
<1>5. ASSUME NEW claim \in claims, NEW ending \in Endings(claim), SaveOutcome(claim, ending)
      PROVE  \E c \in claims \ claims' : c.job = j /\ c.ownerToken = jobs[j].owner
    <2>1. claim.job \in Job /\ claim \in claims \ claims'
        BY <1>5 DEF SaveOutcome, Claim
    <2>2. Owns(claim) /\ claim.job = j
        BY <1>5, <2>1 DEF SaveOutcome
    <2> QED BY <2>1, <2>2 DEF Owns
<1>6. ASSUME NEW k \in Job, CancelRow(k)
      PROVE  jobs'[j] = [jobs[j] EXCEPT !.state = "canceling", !.cancelRequested = TRUE]
    <2>1. k = j
        BY <1>6 DEF CancelRow
    <2> DEFINE state == CASE jobs[j].state = "queued"  -> "canceled"
                          [] jobs[j].state = "running" -> "canceling"
                          [] OTHER -> jobs[j].state
               stop == jobs[j].cancelRequested \/ jobs[j].state \in {"queued", "running", "canceling"}
    <2>2. jobs'[j] = [jobs[j] EXCEPT !.state = state, !.cancelRequested = stop]
        BY <1>6, <2>1 DEF CancelRow
    <2>3. state = "canceling" /\ stop = TRUE
        BY <1>1 DEF Started
    <2> HIDE DEF state, stop
    <2> QED BY <2>2, <2>3
<1> QED BY <1>2, <1>3, <1>4, <1>5, <1>6 DEF StoreNext, PublishVersion, LoseClaims

\* Nobody but its owner moves a leased row, except for a Stop: the fencing by owner_token and
\* lease_until of store.go.
THEOREM LeaseProtection == StoreSpec => LeaseProtectsOwner
<1> QED BY StoreInvariant, LeaseStep, PTL DEF StoreSpec, LeaseProtectsOwner

----------------------------------------------------------------------------
(* The store implements JudgeContract.                                     *)

outcomes == [j \in Job |-> Outcome(jobs[j].state)]
stops    == [j \in Job |-> jobs[j].cancelRequested]

\* What replacing one row does to the abstract state.
LEMMA OneRowMapped ==
    ASSUME StoreInv, NEW j \in Job, NEW row, jobs' = [jobs EXCEPT ![j] = row]
    PROVE  /\ outcomes' = [outcomes EXCEPT ![j] = Outcome(row.state)]
           /\ stops' = [stops EXCEPT ![j] = row.cancelRequested]
           /\ outcomes[j] = Outcome(jobs[j].state)
           /\ stops[j] = jobs[j].cancelRequested
BY DEF StoreInv, StoreTypeOK, outcomes, stops

\* A new row that looks like the old one is a stutter of the contract.
LEMMA OneRowUnseen ==
    ASSUME StoreInv, NEW j \in Job, NEW row, jobs' = [jobs EXCEPT ![j] = row],
           Outcome(row.state) = Outcome(jobs[j].state),
           row.cancelRequested = jobs[j].cancelRequested
    PROVE  UNCHANGED <<outcomes, stops>>
BY DEF StoreInv, StoreTypeOK, outcomes, stops

LEMMA InitMapped == StoreInit => Contract!Init
<1> SUFFICES ASSUME StoreInit PROVE Contract!Init
    OBVIOUS
<1>1. NoRow.state = "absent" /\ NoRow.cancelRequested = FALSE
    BY DEF NoRow
<1>2. Outcome(NoRow.state) = "none"
    BY <1>1 DEF Outcome, Terminal
<1>3. \A j \in Job : Outcome(jobs[j].state) = "none" /\ jobs[j].cancelRequested = FALSE
    BY <1>1, <1>2 DEF StoreInit
<1> QED BY <1>3 DEF StoreInit, Contract!Init

LEMMA InsertMapped ==
    ASSUME StoreInv, NEW j \in Job, NEW input \in Input, Insert(j, input)
    PROVE  Contract!Submit(j)
<1> DEFINE row == [NoRow EXCEPT !.state = "queued", !.created = clock, !.input = input]
<1>1. jobs' = [jobs EXCEPT ![j] = row] /\ grants' = grants /\ jobs[j].state = "absent"
    BY DEF Insert, InsertRow, Exists
<1>2. row.state = "queued" /\ row.cancelRequested = FALSE
    BY DEF NoRow
<1>3. jobs[j].cancelRequested = FALSE
    BY <1>1 DEF StoreInv, StoreTypeOK, Row, StopMatchesState
<1> HIDE DEF row
<1>4. /\ outcomes' = [outcomes EXCEPT ![j] = "pending"]
      /\ outcomes[j] = "none"
    BY <1>1, <1>2, OneRowMapped DEF Outcome, Terminal
<1>5. stops' = stops
    BY <1>1, <1>2, <1>3 DEF stops, StoreInv, StoreTypeOK
<1> QED BY <1>1, <1>4, <1>5 DEF Contract!Submit, outcomes, stops

\* A claim that allows an execution is a grant; any other one is not seen.
LEMMA TakeOverMapped ==
    ASSUME StoreInv, NEW j \in Job, NEW token \in Token, TakeOver(j, token)
    PROVE  Contract!Grant(j) \/ UNCHANGED Contract!vars
<1> DEFINE row == [jobs[j] EXCEPT
                      !.state = IF jobs[j].cancelRequested THEN "canceling" ELSE "running",
                      !.owner = token,
                      !.leased = TRUE,
                      !.attempts = IF @ + 1 <= MaxAttempts THEN @ + 1 ELSE MaxAttempts]
<1>1. /\ jobs[j] \in Row /\ RowOK(jobs[j], grants[j]) /\ grants \in [Job -> Nat]
      /\ jobs[j].state \in {"queued", "running", "canceling"}
    BY RowWise DEF StoreTypeOK, TakeOver, Claimable, Started
<1>2. jobs' = [jobs EXCEPT ![j] = row]
    BY DEF TakeOver
<1>3. row.state \in {"running", "canceling"} /\ row.cancelRequested = jobs[j].cancelRequested
    BY <1>1 DEF Row
<1> HIDE DEF row
<1>4. Outcome(jobs[j].state) = "pending" /\ Outcome(row.state) = "pending"
    BY <1>1, <1>3 DEF Outcome, Terminal
<1>5. UNCHANGED <<outcomes, stops>> /\ outcomes[j] = "pending" /\ stops[j] = jobs[j].cancelRequested
    BY <1>2, <1>3, <1>4, OneRowUnseen, OneRowMapped
<1>6. CASE Executes(ClaimOf(j, token))
    <2>1. ~jobs[j].cancelRequested /\ ~ClaimOf(j, token).exhausted
        BY <1>6 DEF Executes, ClaimOf
    <2>2. jobs[j].state = "queued" \/ ~(jobs[j].attempts >= MaxAttempts)
        BY <2>1 DEF ClaimOf
    <2>3. jobs[j].attempts < 2 /\ grants[j] < 2
        <3>1. jobs[j].attempts \in 0..2 /\ grants[j] \in Nat /\ grants[j] <= jobs[j].attempts
            BY <1>1 DEF Row, RowOK, MaxAttempts
        <3> QED BY <1>1, <2>2, <3>1 DEF RowOK, MaxAttempts
    <2>4. grants' = [grants EXCEPT ![j] = @ + 1]
        BY <1>6 DEF TakeOver
    <2> QED BY <1>5, <2>1, <2>3, <2>4 DEF Contract!Grant, Contract!MaxGrants, outcomes, stops
<1>7. CASE ~Executes(ClaimOf(j, token))
    <2>1. grants' = grants
        BY <1>1, <1>7 DEF TakeOver
    <2> QED BY <1>5, <2>1 DEF Contract!vars, outcomes, stops
<1> QED BY <1>6, <1>7

LEMMA LeaseRunsOutMapped ==
    ASSUME StoreInv, NEW j \in Job, LeaseRunsOut(j)
    PROVE  UNCHANGED Contract!vars
<1> DEFINE row == [jobs[j] EXCEPT !.leased = FALSE]
<1>1. jobs[j] \in Row /\ jobs' = [jobs EXCEPT ![j] = row] /\ grants' = grants
    BY DEF LeaseRunsOut, StoreInv, StoreTypeOK
<1>2. row.state = jobs[j].state /\ row.cancelRequested = jobs[j].cancelRequested
    BY <1>1 DEF Row
<1> HIDE DEF row
<1> QED BY <1>1, <1>2, OneRowUnseen DEF Contract!vars, outcomes, stops

\* A saved outcome ends the submission, or puts it back in the queue unseen.
LEMMA SaveOutcomeMapped ==
    ASSUME StoreInv, NEW claim \in claims, NEW ending \in Endings(claim), SaveOutcome(claim, ending)
    PROVE  (\E how \in Contract!Ends : Contract!End(claim.job, how)) \/ UNCHANGED Contract!vars
<1> DEFINE j == claim.job
           row == Settled(jobs[j], ending)
<1>1. j \in Job /\ claim.ownerToken # NoToken /\ grants' = grants
    BY NullAssumption DEF StoreInv, StoreTypeOK, Claim, SaveOutcome
<1>2. jobs[j] \in Row /\ grants[j] \in Nat /\ RowOK(jobs[j], grants[j])
    BY <1>1, RowWise DEF StoreTypeOK
<1>3. CASE UNCHANGED jobs
    BY <1>1, <1>3 DEF Contract!vars
<1>4. CASE Owns(claim) /\ jobs' = [jobs EXCEPT ![j] = row]
    <2>1. jobs[j].state \in {"running", "canceling"}
        BY <1>1, <1>2, <1>4 DEF Owns, RowOK, Started
    <2>2. Outcome(jobs[j].state) = "pending"
        BY <2>1 DEF Outcome, Terminal
    <2>3. row.cancelRequested = jobs[j].cancelRequested
        BY <1>2 DEF Settled, Row
    <2>4. row.state \in {"queued", "completed", "failed", "canceled"}
        BY <1>2 DEF Settled, Row
    <2>5. (row.state = "canceled") <=> jobs[j].cancelRequested
        BY <1>2 DEF Settled, Row
    <2>6. ~jobs[j].cancelRequested => grants[j] > 0
        BY <1>2, <2>1 DEF RowOK
    <2>7. jobs' = [jobs EXCEPT ![j] = row]
        BY <1>4
    <2> HIDE DEF row, j
    <2>8. CASE row.state = "queued"
        <3>1. Outcome(row.state) = "pending"
            BY <2>8 DEF Outcome, Terminal
        <3>2. UNCHANGED <<outcomes, stops>>
            BY <1>1, <2>2, <2>3, <2>7, <3>1, OneRowUnseen
        <3> QED BY <1>1, <3>2 DEF Contract!vars, outcomes, stops
    <2>9. CASE row.state # "queued"
        <3> DEFINE how == row.state
        <3>1. how \in Contract!Ends /\ Outcome(row.state) = how
            BY <2>4, <2>9 DEF Contract!Ends, Outcome, Terminal
        <3>2. /\ outcomes' = [outcomes EXCEPT ![j] = how]
              /\ outcomes[j] = "pending"
              /\ stops[j] = jobs[j].cancelRequested
            <4>1. /\ outcomes' = [outcomes EXCEPT ![j] = Outcome(row.state)]
                  /\ outcomes[j] = Outcome(jobs[j].state)
                  /\ stops[j] = jobs[j].cancelRequested
                BY <1>1, <2>7, OneRowMapped
            <4> QED BY <2>2, <3>1, <4>1
        <3>3. stops' = stops
            BY <1>1, <2>3, <2>7 DEF stops, StoreInv, StoreTypeOK
        <3>4. IF stops[j] THEN how = "canceled" ELSE how \in {"completed", "failed"} /\ grants[j] > 0
            BY <2>4, <2>5, <2>6, <2>9, <3>2
        <3>5. Contract!End(j, how)
            BY <1>1, <3>2, <3>3, <3>4 DEF Contract!End, outcomes, stops
        <3> QED BY <3>1, <3>5 DEF j
    <2> QED BY <2>8, <2>9
<1> QED BY <1>3, <1>4 DEF SaveOutcome

\* A Stop of a pending submission is seen once.
LEMMA CancelRowMapped ==
    ASSUME StoreInv, NEW j \in Job, CancelRow(j)
    PROVE  Contract!Stop(j) \/ UNCHANGED Contract!vars
<1> DEFINE state == CASE jobs[j].state = "queued"  -> "canceled"
                      [] jobs[j].state = "running" -> "canceling"
                      [] OTHER -> jobs[j].state
           stop == jobs[j].cancelRequested \/ jobs[j].state \in {"queued", "running", "canceling"}
           row == [jobs[j] EXCEPT !.state = state, !.cancelRequested = stop]
<1>1. jobs[j] \in Row /\ RowOK(jobs[j], grants[j]) /\ grants' = grants
    BY RowWise DEF StoreTypeOK, CancelRow
<1>2. jobs' = [jobs EXCEPT ![j] = row]
    BY DEF CancelRow
<1>3. row.state = state /\ row.cancelRequested = stop
    BY <1>1 DEF Row
<1>4. CASE jobs[j].state \in {"queued", "running"}
    <2>1. /\ Outcome(state) \in {"pending", "canceled"} /\ stop = TRUE
          /\ Outcome(jobs[j].state) = "pending" /\ jobs[j].cancelRequested = FALSE
        BY <1>1, <1>4 DEF Outcome, Terminal, RowOK, Row
    <2> HIDE DEF row, state, stop
    <2>2. /\ outcomes' = [outcomes EXCEPT ![j] = Outcome(state)]
          /\ stops' = [stops EXCEPT ![j] = TRUE]
          /\ outcomes[j] = "pending" /\ stops[j] = FALSE
        <3>1. /\ outcomes' = [outcomes EXCEPT ![j] = Outcome(row.state)]
              /\ stops' = [stops EXCEPT ![j] = row.cancelRequested]
              /\ outcomes[j] = Outcome(jobs[j].state) /\ stops[j] = jobs[j].cancelRequested
            BY <1>2, OneRowMapped
        <3> QED BY <1>3, <2>1, <3>1
    <2> QED BY <1>1, <2>1, <2>2 DEF Contract!Stop, outcomes, stops
<1>5. CASE jobs[j].state \notin {"queued", "running"}
    <2>1. state = jobs[j].state /\ stop = jobs[j].cancelRequested
        BY <1>1, <1>5 DEF RowOK, Row
    <2> HIDE DEF row, state, stop
    <2> QED BY <1>1, <1>2, <1>3, <2>1, OneRowUnseen DEF Contract!vars, outcomes, stops
<1> QED BY <1>4, <1>5

LEMMA NextMapped == StoreInv /\ [StoreNext]_storeVars => [Contract!Next]_(Contract!vars)
<1> SUFFICES ASSUME StoreInv, [StoreNext]_storeVars
             PROVE  Contract!Next \/ UNCHANGED Contract!vars
    OBVIOUS
<1>1. ASSUME NEW j \in Job, NEW input \in Input, Insert(j, input) PROVE Contract!Next
    BY <1>1, InsertMapped DEF Contract!Next
<1>2. ASSUME NEW excluded \in SUBSET Job, NEW token \in Token, NEW j \in Oldest(excluded),
             ClaimJob(j, token) \/ ClaimUnheard(j, token)
      PROVE  Contract!Next \/ UNCHANGED Contract!vars
    <2>1. j \in Job /\ TakeOver(j, token)
        BY <1>2 DEF Oldest, ClaimJob, ClaimUnheard
    <2> QED BY <2>1, TakeOverMapped DEF Contract!Next
<1>3. ASSUME NEW j \in Job, LeaseRunsOut(j) PROVE UNCHANGED Contract!vars
    BY <1>3, LeaseRunsOutMapped
<1>4. ASSUME NEW claim \in claims, NEW ending \in Endings(claim), SaveOutcome(claim, ending)
      PROVE  Contract!Next \/ UNCHANGED Contract!vars
    <2>1. claim.job \in Job
        BY DEF StoreInv, StoreTypeOK, Claim
    <2> QED BY <1>4, <2>1, SaveOutcomeMapped DEF Contract!Next
<1>5. ASSUME NEW j \in Job, CancelRow(j) PROVE Contract!Next \/ UNCHANGED Contract!vars
    BY <1>5, CancelRowMapped DEF Contract!Next
<1>6. CASE UNCHANGED <<jobs, grants>>
    BY <1>6 DEF Contract!vars
<1> QED BY <1>1, <1>2, <1>3, <1>4, <1>5, <1>6
        DEF StoreNext, PublishVersion, LoseClaims, storeVars

\* The jobs table keeps the judge's contract for any number of submissions: one outcome each, at
\* most two executions, and a Stop recorded in time wins (store.go as a whole).
THEOREM StoreImplementsContract == StoreSpec => ImplementsContract
<1> QED BY InitMapped, StoreInvariant, NextMapped, PTL
        DEF StoreSpec, ImplementsContract, Contract!Spec

=============================================================================
