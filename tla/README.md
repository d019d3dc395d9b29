# A formal model of the practice site

TLA+ modules that model the program's core logic, TLC configurations that check them on small
instances, and theorems that TLAPS proves for every value of the constants. Source paths are
relative to the repository root (`judge/...` is the Go judge, `src/...` the website).

## 1. The system

A browser edits code, autosaves it through the website's API into a Postgres database, and runs or
submits it. The website forwards runs and submissions over gRPC to a judge. A submission is a row of
the `jobs` table; judges claim rows, grade them in Docker containers and save the outcome through a
database function. Everything that must survive a crash is in the database.

    browser: useRunner, ProgressStore
        | fetch /api/...
    website: router, middleware, db/progress, judge-client       (stateless per request)
        | gRPC Run, Submit, GetJob, CancelJob      \ SQL: profile, submissions
    judge process: rpc, jobQueue (claim loop, slots, goroutines), executor -> Docker
        | SQL: jobs, problems, grading_specs, finish_execution
    database

| Component | State it keeps | Operations | What is hard | What makes it correct |
|---|---|---|---|---|
| Durable queue (`judge/store.go`) | jobs table: state, Stop mark, attempts, owner token, lease, creation time; current problem versions | accept, claim, finish, cancel, find | many judges at once, lost replies, leases that run out, stale owners | recorded once, ended once; at most two executions; a Stop beats a result; only the owner settles a row |
| Judge process (`judge/queue.go`, `main.go`, `rpc.go`) | slots, cancel functions of running jobs, ready/draining flags, wake channel, timers | claim loop, goroutine per job, Run, Submit, Cancel, notify, start, drain, shutdown | goroutines, crash and restart, a wake channel that drops, timers instead of polling | no slot leaks; no queued job is forgotten; one execution at a time; every accepted job ends; a shutdown ends |
| Container executor (`judge/executor.go`) | the containers in Docker; per execution its context, limits and counted output | prepare, removeLeftovers, run, remove | every answer of Docker may fail or come late; nested limits, Stop during set-up, leftovers of a crash | the slot is free again in time; each ending has its true cause; no leftover survives the next start |
| Grading (`judge/grading.go`, `judge/graders/`) | a grader process per execution: its case, database or page, and results | build the payload, compile, grade a case, print, classify the output | learner code in the same process: left-over work, changed objects, values without a text, output beside the result | nothing incomplete is accepted; an invalid result is never a disagreement about the cases |
| RPC errors (`judge/rpc.go`, `src/src/server/judge-client/client.ts`) | none | error to gRPC status to HTTP status to what the page does | three tables must agree with the retry rule of the browser | no final answer for a submission that may still be accepted |
| Browser runner (`src/src/hooks/useRunner.ts`, the problem's page) | current action, shown execution, stopping flag, dialog | Run, Submit with retries, poll, Stop, Reset, leave | answers and requests that arrive after their action ended | a press of Submit is recorded at most once; what is shown is true, and of the action it belongs to |
| Browser progress store (`src/src/lib/progress-store.ts`) and server progress (`src/src/schemas/progress.ts`, `src/src/server/db/progress.ts`) | saved state, pending changes, save timer, failures; profile row with a revision | setDraft, setStar, flush, save, refresh, retry; readState, writeState | answers out of order, edits during a save, several tabs | no edit is lost; the newest draft wins; the editor never falls back; what is unsaved is retried |
| API routing (`src/src/server/router.ts`, `middleware.ts`, `config.ts`) | none | checks before every endpoint, one handler per endpoint | other sites, half a configuration, sessions that end | no other site can submit; a refused request changes nothing |
| Catalog, list, user interface, configuration, generated code | none, or the state of a screen | | | |

The full list, with status and reasons, is `components` in `PROJECT.json`; everything in this code
that is hard to test is under `hazards`, each at the line where it bites.

## 2. The modules

| Module | What it is |
|---|---|
| `JudgeContract` | Abstract: what the outside may rely on about one submission: recorded once, ended once; completed or failed only after an execution, canceled exactly if a Stop was recorded first. |
| `JobStore` | The jobs table and every statement that changes it. `judge/store.go`. |
| `JobQueue` | The judge processes on top of the table. EXTENDS `JobStore`. `judge/queue.go`, with the parts of `main.go` and `rpc.go` that change state. |
| `DraftContract` | Abstract: what autosave promises about the code of a problem: a register that only moves on in time, holds only what was typed or submitted, and is all that lets a tab forget a draft. |
| `ProgressStore` | The autosave of all open tabs, and the server's profile row. `src/src/lib/progress-store.ts`, `src/src/server/db/progress.ts`, with the events of `AppProvider`. Shares no state with the judge but the submissions. |
| `WebApi` | Operators: what a request to the API is answered with, and what the browser makes of it. `config.ts`, `middleware.ts`, `router.ts`, `judge-client/client.ts`, `judge/rpc.go`, `lib/api.ts`. |
| `Runner` | The page of a problem with Run, Submit and Stop, the API between (EXTENDS `WebApi`) and the judge behind it (INSTANCE `JudgeContract`, which `JobStore` and `JobQueue` implement). `useRunner.ts`, `app/problems/[id]/page.tsx`, `Results.tsx`. |
| `Grader` | The program in a container, with the learner's code inside. `judge/graders/`. |
| `Executor` | One slot of the judge and the containers of Docker. EXTENDS `Grader`. `judge/executor.go`, `judge/grading.go`. |
| `JobStoreProofs`, `JobQueueProofs`, `JudgeProofs`, `WakeUpProofs`, `ProgressStoreProofs`, `SyncProofs`, `ExecutorProofs`, `RunnerProofs` | Theorems, with proofs. |
| `MCJobStore`, `MCJobQueue`, `MCProgressStore`, `MCRunner` | Symmetry sets and deployments for TLC; the `.cfg` files give the constants. |

`JobQueue` takes an execution as one step that may end in any way; `Executor` shows which ways there
are, and that each execution does end. `Runner` takes the judge as `JudgeContract`; `JobStore` and
`JobQueue` are shown to implement that.

### JobStore

One variable for the table, `jobs`: for each UUID its state (`"absent"` before it is inserted), its
Stop mark, `attempts`, the owner token, whether the lease still lasts (`leased`), the creation time
and the input. `current` is the problem's current version (one problem: the statements never relate
two). `claims` holds the `claimedJob` structs that judges hold in memory; `grants` is a history
variable that counts the claims that allow an execution.

| Action | Code |
|---|---|
| `AcceptAgain`, `Insert` | `accept`: the stored UUID answered, or inserted. The advisory lock makes them atomic for one UUID; in `JobQueue` the check and the commit are two steps |
| `ClaimJob`, `ClaimUnheard` | `claim`, with its reply received or lost |
| `SaveOutcome` | `finish`. The function `finish_execution` lives in the database, not in the repository; it is modelled from what its callers say: it settles the row for the owner, a saved Stop wins, a retry goes back to the queue while an attempt is left, a stale owner changes nothing. Whether an owner with an expired lease still counts is not said, so both answers are possible |
| `LoseClaims` | a judge is gone, or gave up saving |
| `CancelRow` | `cancel` |
| `LeaseRunsOut` | 60 seconds pass |
| `PublishVersion` | a content update, applied by hand |

Left out: the stored `revision` counter and the texts of results and failures (no property depends
on them), `find` and the spec queries (they only read). Times are kept only as far as they decide
something: the creation order and whether a lease lasts.

### JobQueue

`judge[d]` is the `jobQueue` of a process: `up` (and ready), `draining`, `ctxDone` (q.ctx is
canceled), where its claim loop is, the buffered `wake` channel, `slots`, `active` (the cancel
functions, named by the claim's token) and the timers that will call `notify`. `workers` are the
goroutines of claimed jobs, `rpc` the open handlers.

A step is what runs between two points where another goroutine can get in: a region under `q.mu`, a
channel operation, or one statement of the database. So `ClaimOne` (acquire and the snapshot of
`activeIDs`), the answer of the query (`ClaimReturns`, `ClaimNothing`, `ClaimFails`,
`ClaimReplyLost`) and `Register` (the cancel function is stored, the goroutine starts) are three
steps, and the clean-up of a goroutine is `Save`, `Unregister`, `Release`, `Notify`.

* `SKIP LOCKED`: while another judge's query is open, its row may be locked; the claim then takes
  any oldest job that is not.
* Timers are modelled by what they wait for: the start timer and the one after a failed save outlast
  the leases that exist then, the 5-second timer waits for nothing. A timer may fire at any time
  after that; `HourlyTick` is always possible, so an early wake-up adds no behaviour.
* `waking` merges the goroutines of one judge that are about to call `notify`: the channel merges
  their signals anyway.
* `acquire` and `activeIDs` are one step, `start` and `prepare` one step: between the two only
  releases can happen, which another interleaving of the same steps shows as well.
* Faults are the constant `Fault`, a set of kinds, and `MaxFaults`, how many may happen.
* A token that no row and no goroutine carries any more counts as fresh. `gen_random_uuid` never
  repeats; recycling forgotten tokens keeps the state space finite without letting two holders meet.

### ProgressStore

`tabs[t]` is the `ProgressStore` of a tab: `saved`, `pending`, whether its timer is set, its save
(`saving`: none, the request on its way, the answer on its way; with what was `sent`), `failures` and
the warning. What the page shows is `view`, the saved state under the pending changes: every callback
that changes either ends in `publish`. `reads` are the requests of `open` and `refresh`; `profile` and
`history` are the database, `late` the saves that no tab waits for any more. `mine` is a history
variable: what the user did last in each tab.

| Action | Code |
|---|---|
| `setDraft`, `setStar` | the methods, with `changed` |
| `TimerFires`, `Hide` | `flush`, from the timer, `pagehide` or `visibilitychange`; starts `save` |
| `SaveArrives` | `writeState` on the server |
| `Saved`, `SaveRefused`, `SaveTimesOut` | `save` after its `await`: the answer, an error of the API, or no answer at all |
| `Open`, `refresh`, `retry` | the requests for the state |
| `ReadProfile`, `ReadHistory` | the two queries of the server's `readState` |
| `Loaded`, `LoadFails` | `open` or `refresh` after its `await` |
| `Close` | the tab is closed with whatever is on its way |
| `LateSaveArrives` | a request that was given up reaches the server after all |
| `FinishSubmission` | external: `finish_execution` adds a judged submission. Whether that counts as a revision is not in the repository; both are possible |

JavaScript runs one callback at a time, so a step of a tab is what runs between two `await`s. A
write is one step: it runs in a transaction that locks the profile row first. Its two calls of
`readState` could see a submission that is committed between them; that only adds the submission to
the answer, as if it had come before the write. A read is two steps, because it has no transaction.

A draft is its time and a code; two drafts of one tab never have the same time, so comparing them by
value is what the code's comparison by identity does. The clocks of the devices need not agree nor
advance: `setDraft` may get any time of `Now`. The limits on sizes, the attempts and the sign-in
errors are left out; a 401 or a page that is not JSON is `SaveTimesOut` without a late arrival. Timers
are not ordered by their delays.

### WebApi and Runner

`WebApi` has no variables: the API keeps nothing between requests but its configuration, which it
tries to read again until it is complete. `refusal` is everything that comes before an endpoint, in
its order: Vercel's session, the configuration, host, origin and client header, the body.
`judgeStatus` chains the judge's error to its gRPC status and its HTTP status, `final` is the browser's
retry rule.

In `Runner`, `page` is what the page keeps: the version it was opened with, the code in the editor,
whether the Reset dialog is open, the running `action` (the closure of one `execute`: its UUID, the
submitted code, the attempt, the failed polls, where it awaits) and the `execution` on display.
`recorded` and `verdict` add to `JudgeContract` what a submission contains and what its result says.
`pressed` and `refused` are history variables.

| Action | Code |
|---|---|
| `Run`, `Submit` | `execute` up to its first `await`, from a button or a shortcut |
| `SubmitAnswered`, `SubmitFails`, `PauseEnds` | `send`: an answer, of the endpoint or of the checks before it; none in time or trouble behind it; the next attempt |
| `PollSent`, `PollRead`, `PollAnswered`, `PollFails` | `watch`; a poll is read at the judge before its answer arrives |
| `RunAnswered`, `RunFails`, `RefreshEnds`, `Unwind` | the rest of `execute`, with its `catch` and `finally` |
| `Stop`, `CancelAnswered`, `CancelFails`, `LateCancel` | `cancel`, and its request |
| `OpenReset`, `KeepEditing`, `resetDraft`, `CodeChanges`, `Leave` | the page's controls |
| `LateSubmit` | an attempt that was given up reaches the judge after all, perhaps more than once |
| `Foreign` | what another site can make the browser send |
| `JudgeWorks`, `Publish`, `Deploy` | the judge, a content update, a deployment or a session that changes |

Whether an attempt that fails has arrived is open: it stays in `late`. The code may change at any
time, because a refresh brings drafts of other devices even while the editor is read-only.
Assumed: a version that was replaced does not become current again (`Publish`). If an operator put
an old version back, a late attempt of a submission that was refused for good could be recorded.

### Grader and Executor

`grader` is the program in the container of the current execution: where it is, which case it grades,
its `entries`, and whether the whole grading has `failed`, with a text or with an empty error. `wrote`
counts what it wrote: the JSON result, other output on stdout, and diagnostics on stderr.

| Action | Code |
|---|---|
| `Reads`, `compile`, `launch` | the request, the bundle, the browser; the last two may fail the whole grading |
| `OpenCase`, `OpenFails`, `CloseCase` | a case's database or page, with its `finally`; a failure is the case's |
| `Checked` | the learner's code returns or throws; what it hands over as `actual` is a text, something else that protojson refuses (a page whose `JSON.stringify` was replaced, for one), or nothing that can be printed |
| `TextFails` | what it threw has no text, and `errorText` or `str` throws in turn: the whole grading breaks off, with the entries it has or none, and with an error that may be empty; or the process ends |
| `PrintResult`, `PrintFails` | the JSON line; a text may have been cut inside a character, also that of an error |
| `CodeRuns`: `CodeAlters`, `CodeWrites`, `CodeExits`, `OutOfMemory` | what code in the grader's process can do, also later if it left work behind (`left`) or changed the grader's objects (`altered`) |

Code may also never return: no action of the grader is fair. Which verdict a check comes to is open, and
so are the fixtures it has seen. `backend-grader.mjs` puts them into a global and then awaits the
import of the code (lines 106-108), so what an earlier case left behind can read or replace them; the
code has no property here that a model could check.

`interfered` says that code has changed the grader's objects or written to stdout beside it: then what the
judge reads is the code's own, and `Graded` allows any reading of it.

`containers` are those in Docker by name, `old` ones belong to an earlier judge. `run` is the execution
in the slot: `run`'s position, the ticks since its start (`clock`) and since its set-up or removal
began (`timer`), whether ctx was canceled, and the output counted. Each call of Docker has an action for
success and one for failure, and a failed create or start may have taken effect, or take effect later
(`CreatedLate`). `JudgeStops` may happen anywhere. A `Tick` is 10 seconds and is held back only while a
limit that the judge waits for has expired: it reacts before more time passes.

The two slots share nothing but the containers, and each container belongs to one execution, so one
slot is enough; `Name` allows leftovers beside the current one. Assumed: what Docker was asked to
create is finished or forgotten before the next judge starts, and a program that the judge follows is
killed after 25 seconds, thus never before the judge's own 20.

## 3. What TLC checks

Each run has a `.cfg` of its own; the property's comment in the module says what it means.

| Run (cfg) | Question | Bounds |
|---|---|---|
| store (`MCJobStore`) | `StoreInv`, `AtMostTwoExecutions`, `LeaseProtectsOwner`, and the refinement `ImplementsContract` | 2 jobs, 3 tokens, one version and "inactive" |
| one_slot (`OneSlot`) | `TypeOK`, `SlotsMatch`, `NoLostWakeup` under contention and every kind of fault | 2 jobs, 1 slot, 1 fault |
| two_judges (`TwoJudges`) | `OneExecution` across judges | 1 job, 2 judges, 2 faults |
| accepts (`Accepts`) | `SubmitReplyMatches`, and the refinement `ImplementsStore` | 3 callers, 2 programs, 2 versions and "inactive" |
| ends (`Ends`) | `AcceptedJobEnds`, `EndsPromptly`, `ShutdownEnds`, `ActiveMatchesWork` under every single fault, also a lease that runs out under its holder | 1 job, 1 fault, 2 slots |
| lease_comment, stop_comment | two disagreements of section 6 | 1 job |
| two_tabs (`TwoTabs`) | `NoEditLost`, `EditorNeverGoesBack`, `DraftsOnlyGetNewer`, `EditsShowAtOnce`, and the refinement `ImplementsContract` | 2 tabs, clocks at 1 and 3, 2 edits, saves that outlive their tab |
| one_tab (`OneTab`) | `TypeOK`, `StarsFollowClicks`, `UnsavedIsHandled`, `EverythingIsSaved` | 1 tab, 2 edits, 3 failed requests, 1 submission |
| runner (`Runner`) | `TypeOK`, `PressedOnce`, `RefusalIsFinal`, `ShownIsRecorded`, `AcceptedIsTrue`, `ShownIsActive` | 2 presses of Submit, 2 programs, 2 versions, 2 attempts, no failed poll forgiven, 1 event elsewhere |
| execution (`Execution`) | `TypeOK`, `AcceptedIsComplete`, `CauseIsTrue`, `InvalidHasCause`, `ReadyIsClean`, `EndsWithinLimits`, `ExecutionEnds` | 3 kinds of graders, 2 cases, 1 name, limits of 2, 1 and 1 ticks, 2 units of output |
| code_crash (`CodeCrash`) | a disagreement of section 6 | as execution |

Why the bounds are enough for what they are for. Two attempts per job are the code's own limit, and
in store any number of leases may run out, so a job is interrupted twice and then failed. Two jobs are enough for
one to wait while the other runs, for the order of claims and for a queue behind a single slot.
Three tokens let both rows be owned while a stale claim is still in somebody's memory. Three callers
with two programs let two conflicting accepts meet and a third retry. Symmetry is declared only for
model values that the specification treats alike, and only in runs without liveness properties. The
theorems of section 5 cover what the small sets might hide.

`ProgressStore` is checked with one problem: no operator relates two of them. Two edits are an edit
before a save and one while it is in flight, or one in each of two tabs, with every clock before, at or
after the other's. Three failed requests use up the retries. A save that a tab gave up
and that arrives late is met in two_tabs when the tab is closed; the same while it stays open, and
everything longer, is covered by the theorems. Edits, submissions, faults and the
refreshes in flight are bounded by `MaxEdits`, `MaxSubmissions`, `MaxFaults` and `MaxReads`; saves are
not, but each needs something unsaved.

`Runner` is checked with two presses, so that one can be late, refused or shown while the other runs, and
with two attempts instead of three: one that is given up and one that is answered. One event (an edit,
a visit to another page, an update, a deployment, a foreign request) between any two steps of a
submission is what its properties are about. With `Failures` at 0 the first failed poll ends the
watch, which is what the sixth does in the code.

In `Execution`, a tick is 10 seconds, the unit in which all limits of `executor.go` are whole: 20, 10 and
10. Two units of output against a limit of two, from three streams of at most one unit each, meet the
limit exactly and go beyond it. Two cases distinguish a Run from a submission, let one case leave work to
the next, and let a grading break off between them. One name is one container: it can be left over by
a judge that dies at any point, or by a removal that fails, and is then removed by the next. With one
name the slot is not used again while a leftover is there; for any number of names, `ReadyIsClean` and
`EndsWithinLimits` are theorems, and no step of an execution looks at another container. (With two names,
TLC checks the six invariants in 6 million states, but is too slow for `ExecutionEnds`.)

Deadlock checking is off in `MCJobStore`, where every submission may be over and nothing is left to
do; the judges themselves never stop, so it stays on elsewhere.

### Fairness

`FairSpec` asks for weak fairness of what runs by itself: goroutines that are ready, timers, a
handler that was called, the service manager's restart (`Restart=always` in the deploy unit), the
database's clock. Requests, faults, Stops and content updates are never forced. `LoopEnds` is
strongly fair: `claimJobs` may find both `q.ctx.Done()` and `q.wake` ready, and Go's `select` picks
among ready cases at random. The hourly ticker is not part of it but the antecedent `Ticks` of
`AcceptedJobEnds`, so that `EndsPromptly` can be asked in the same run without it. Each execution ends,
because the executor limits it: that is `ExecutionEnds`, below.

`AcceptedJobEnds` is checked with fewer open Runs than slots. `acquire` keeps no order: enough Runs
at once could keep submissions waiting without bound, so with as many Runs as slots the property is
not one the code has.

For `ProgressStore`, `FairSpec` asks that timers fire and that the requests of a save end: the browser
gives them 8 seconds, and a failure is a step of its own. Nothing is asked of the user, of refreshes or
of late saves. `EverythingIsSaved` holds for three failures and not for four (with `MaxFaults = 4`, TLC
shows the tab that has given up), so the bound is that of the code, `RETRY_DELAYS`.

Without the ticker a job whose claim or accept committed without an answer may stay where it is: no
timer was set for it. `EndsPromptly` therefore excludes the behaviours where that happens (`unheard`).
The ticker, another submission or the caller's retry repairs it, so up to an hour may pass.

For `Executor`, `FairSpec` asks that time goes on, that the judge reacts to a limit that has expired, and
that a program nobody follows ends, because `timeout` kills it. Nothing is asked of Docker's answers
or of the learner's code; `ExecutionEnds` holds because every wait has a limit. `Runner` states no
liveness: a page that nobody answers stays where it is until its requests time out.

## 4. Correctness properties, by hazard

* Crash between claim and finish, twice: `AtMostTwoExecutions`, `AcceptedJobEnds`.
* A stale finish after the lease ran out: `LeaseProtectsOwner`, `OwningClaimMatchesRow`.
* Stop racing everything else: `StopMatchesState`, `ImplementsContract`.
* Slots on every path, also failed ones: `SlotsMatch`.
* The cancel functions of an old and a new claim of one job: `ActiveMatchesWork`.
* Wake-ups that are dropped, early or forgotten: `NoLostWakeup`.
* Two judges, one job: `OneExecution`, which holds as long as no execution outlasts its lease.
* Answers out of order, an edit during a save, a failed save: `NoEditLost`, `EditorNeverGoesBack`.
* Late saves, clocks that disagree: `DraftsOnlyGetNewer`, `EditsShowAtOnce`, and `ImplementsContract` of
  `ProgressStore`.
* Stars, which have no time: `StarsFollowClicks`, for one tab without late saves. With them it is not
  a property of the code: the last value that reaches the server wins.
* Retries that stop: `UnsavedIsHandled`, `EverythingIsSaved`.
* Submissions sent again, late, or by another site: `PressedOnce`, `RefusalIsFinal`.
* Late answers, a dialog, edits while a submission runs: `ShownIsActive`, `ShownIsRecorded`,
  `AcceptedIsTrue`. The last two also rest on the state's number in `judge.proto` meaning the same on
  both sides.
* Limits, Stop and failures of Docker competing: `CauseIsTrue`, `EndsWithinLimits`, `ExecutionEnds`.
* Leftovers of a judge that died: `ReadyIsClean`.
* Learner code in the grader's process, and gradings that break off: `AcceptedIsComplete`,
  `InvalidHasCause`. The fixtures of a case have no property: nothing keeps left-over code from them.
* A reused UUID and a content update during accept: `SubmitReplyMatches`, `ImplementsStore`.

## 5. What is proved

For any sets of jobs, versions, programs, tokens, judges and callers, any slot count and any faults, and
for any kinds of graders, cases, container names, limits and sizes of output, any programs, presses of
Submit, attempts and deployments of the website.
The assumptions are those of the modules: the null values are not members of the sets they extend
(`NullAssumption`, `ProgressAssumption`, `RunnerAssumption`, `NothingAssumption`), the slot count is
positive and judges and callers are finitely many (`QueueAssumption`), times and limits are natural
numbers, and there is a case and a container name (`GraderAssumption`, `ExecutorAssumption`).

`StoreInvariant` (`StoreInv`). Each part alone is not inductive. That a queued row has an attempt left
needs the row's attempts to bound the executions granted; that a Stop a claim saw is still on its row
needs the claim that owns a row to be that row's claim, which in turn needs tokens to be fresh and
the row to be unowned once it is settled. `StoreInv` is the conjunction; the proof has one lemma per
action. `TwoExecutions` follows from `AttemptsCountGrants` and the type of `attempts`. `LeaseProtection`
is an action property: with `StoreInv`, each action that changes a leased row is the end of the
lease, a Stop, or the finish of its owner.

`StoreImplementsContract`: the refinement maps a row to `"none"`, `"pending"` or its outcome. Under
`StoreInv` each action maps to a step of `JudgeContract` or a stutter; a row that completes or fails
has a grant because of `RunningWasGranted`, and one that is canceled has a recorded Stop because of
`StopMatchesState`.

`QueueImplementsStore`: every step of `JobQueue` is a step of `JobStore` or leaves the table alone. The
only step for which this is not immediate is the commit of an accept, whose checks ran earlier. The
invariant `HandlerInv` says that an accept between its checks and its commit still has the current
version, because the row lock (`FOR SHARE`) holds content updates back. `QueueImplementsContract` and
`QueueTwoExecutions` chain this with the store's theorems. `SubmitReplies` adds the invariant that a
handler past its commit finds a row with its own input, which no step of the store changes.

`JudgeProofs`. One inductive invariant, `QueueInv`, says what a judge keeps in memory (`JudgeOK`, for each
process and its goroutines) and what its goroutines hold (`HoldersInv`). `Registered` ties the cancel
functions to the goroutines at work (`ActiveMatchesWork`); for this not to be lost, a claim on its way must be
of a job that is not registered, which holds because the query excludes those that are, and the loop
does nothing else meanwhile. `Counted` counts slots by owner tokens, which name goroutines (`Distinct`), so
that each step adds or removes one (`SlotsMatch`). `HoldersInv` says that who executes has its claim, and,
unless leases run out under their holders, owns the leased row; two executions of one job would own one
row with two tokens (`OneExecution`). The lemmas on one process come first, then one for each action;
`StoreInv` and `HandlerInv` are used as invariants of their own.

`WakeUpProofs`. `NoLostWakeup` is not inductive: it may rest on a goroutine, a timer, an open call or a claim
query that is about to look, and each of them ends. `WakeInv` says what the end of each finds.
`AwaitedInv` asks, for each waiting job, for a judge that will look *and* does not execute that job: else
its query would exclude it (`activeIDs`), and the judge would sleep again. Such a judge stays, or hands over:
a dropped signal means that one is pending; a failed query sets the retry timer; a query that finds
nothing was wrong about no waiting job (`OldestExists`, by the least creation time); a loop that finds no free
slot leaves goroutines or Runs that notify when they give theirs back (`SlotsMatch`); the goroutine that
puts a job back into the queue notifies after it has unregistered. `UnheardInv` says that nobody
executes a job whose commit was answered with an error, so that it cannot come back to the queue as one
that somebody should await; and a canceled context means draining. The proof has one lemma for each action
and part; it uses `StoreInv`, `HandlerInv` and `QueueInv`.

`ProgressStoreProofs`. `EditsAreSafe` (`NoEditLost`) and `EditorsMoveOn` (`EditorNeverGoesBack`) follow
from one inductive invariant, `ProgressInv`. Neither property is inductive: that the pending change may
be dropped when the answer of its save comes back needs that this answer, and every other state that
can still replace the saved one, have the draft. `CoveredFrom(t, p, level)` says that: the server, the
saved state, the answer of the save and every read on its way have the tab's last draft or a newer
one, if their revision is at least `level`. Older ones may not have it, but then `later` refuses them.
`DraftInv` asks for it from the saved revision on as soon as the draft is no longer pending, and
from the answer's revision on while the answer is on its way. It rests on `RevisionsKnown` (no answer
is ahead of the server) and on a new draft being newer than everything the tab has sent. The proof
has one lemma for the steps that leave a tab's drafts alone (`CalmStep`), also those of other tabs,
and one for each that does not. `ServerMovesOn` (`DraftsOnlyGetNewer`) and `EditsShow`
(`EditsShowAtOnce`) need the types only, and that `Newest` and `Stamp` never go back.

`SyncProofs`. `ChangesAreHandled` (`UnsavedIsHandled`) is inductive with the types: each callback ends in
`changed`, `rescheduled`, `flush` or `retried`, and `EndsHandled` says what these leave. `StarsAreAsClicked`
(`StarsFollowClicks`) needs `StarsInv`, which is to stars what `ProgressInv` is to drafts, but with equality
in place of "as new as", because a star has no time: `StarFrom` says that the server, the saved state and all
answers from a revision on have the star as clicked. Only a save of this tab changes it at the server, hence
one tab and no late save; an answer that is older than what was sent is refused by its revision.

`ProgressImplementsContract`: what a reader gets, the tabs' pending drafts and the saves on their way are the
three variables of `DraftContract`. Every step maps to one of its steps or a stutter: a keystroke to
`Type`, because a new draft is newer than the pending one; a flush to `Send`; the arrival of a save,
also a late one, to `Arrive`, because `Newest` compares with what a reader gets and not with the row only; a
failed one to `Lose`; a judged submission to `Submit`, but only where no draft is stored. The answer of a save
maps to `Confirm`, which asks that the server has what the tab now forgets; that is `DraftInv` of
`ProgressInv`. Opening and closing map to `Leave`. The run `two_tabs` checks this with late saves and no other
fault or submission; the proof has them all.

`ExecutorProofs`. One inductive invariant, `ExecutorInv`, gives all six properties of run `execution` that
are not liveness. `GraderInv` says what a grader has in each phase: the entries are those of the cases
before the current one, in order, and once it prints there is one for each case unless the whole
grading has failed. `AcceptedIsComplete` follows: a result with an empty error is refused if its entries are
too few, and in order and counted they cover every case. So does `InvalidHasCause`: as `tests` and `cases` agree,
the count is only wrong after a grading that broke off, and only an empty error hides that.
`ClockInv` bounds the clock in each phase: before the set-up by `RunLimit`, within it by `RunLimit` plus
the timer, in the removal by both limits plus the timer; since `Tick` waits while a limit has expired,
the sum is never exceeded (`EndsWithinLimits`). `CauseInv` relates the output counted to the output written
and the failures to the exit code, for `CauseIsTrue`. `OldInv` says that the containers of earlier judges
are among those that `prepare` has still to remove, and that one under way is never old, for
`ReadyIsClean`. The proof has one lemma for each action and part it can disturb.

`RunnerProofs`. One inductive invariant, `IInv`, gives the six properties of `Runner`. `SendInv` is about what is
on its way: `Sends` are the page's submission and those it gave up, each with a UUID that came from a press,
and two with one UUID carry one input, which is also what is recorded; so no attempt makes a second
record (`PressedOnce`) and a retry can never be refused as another submission. `VersionInv` says that the page
is never ahead of the catalog, and that what was refused asks for a version below the current one;
versions do not come back, so it is refused whenever it arrives (`RefusalIsFinal`). `TruthInv` says that what is
on display, and what a poll in flight has read, is what the judge recorded, of the code that was sent;
since the judge keeps what it ended (`JudgeKeeps`), it stays true however late it is shown
(`ShownIsRecorded`, `AcceptedIsTrue`). `GoodPage` relates phase, display, dialog and Stop (`ShownIsActive`). Most
steps are quiet (`QuietPage`): they start and confirm nothing, and one lemma, `QuietStep`, covers them; a press,
an answer to a submission, a poll that is read or shown and a new version have proofs of their own.

Only model-checked: liveness (`AcceptedJobEnds`, `EndsPromptly`, `ShutdownEnds`, `EverythingIsSaved`,
`ExecutionEnds`), which the prover does not reach. Every other property of a passing run is a theorem.

## 6. Where the code and its comments disagree

* `judge/queue.go:15`, "a lease only runs out when its judge stopped". Run `lease_comment`: a claim
  commits, its answer is lost, and the lease runs out with every judge up.
* `judge/queue.go:25`, the queue "keeps each running job's cancel function, so Stop can reach it".
  Run `stop_comment`: the row is running from the commit of the claim, the cancel function is stored
  only after the answer; a Stop in between reaches nobody, and the program runs to its end before
  the job is recorded as canceled.
* `judge/queue.go:124`, "Docker, Neon, or a shutdown gets one more try". Run `code_crash`: a program that ends
  its grader with a nonzero exit code, while Docker works, gets one more try too, and its author is
  told that "the execution runtime was interrupted".

Met while modelling, and not shown by a run:

* `src/src/lib/progress-store.ts:109`, "Keep this tab open while it retries": the message stays after the
  last retry has failed, and nothing retries any more (line 122).
* `src/src/lib/progress-store.ts:25`, "The latest server state": two refreshes of one revision, one before and
  one after a submission was saved, answered in the wrong order, show the problem as unsolved again
  until the next refresh. The solved flags do not belong to the revision.
* `judge/queue.go:15`, "Runs end within 25 s": the limits add up to 40 seconds (`EndsWithinLimits`), still less
  than the lease.
* `judge/executor.go:41`, the executor "always removes" the container: a failed removal is only logged, and a
  create that Docker finishes after the removal leaves one as well. The next start removes both.
* A grading that breaks off with an empty error (`grade-submission.mjs:176`, for a thrown value whose text
  conversion throws `''`) counts as one without error for `useRunner.ts:115`. The count of `grading.go:64`
  catches it unless every case has its entry, so its author reads of an invalid result rather than of
  an error.
* A page that replaces `JSON.stringify` hands the grader an `actual` that is no text
  (`frontend-grader.mjs:82`); `protojson` then refuses the whole result, the other cases included.
* A text that the graders cut in the middle of a surrogate pair (`grade-submission.mjs:14`, `:95`) makes
  `protojson` refuse the whole result, and a submission that may be right fails for good.
* `README.md:41` of the repository calls the local page "localhost:5173" and links to `http://127.0.0.1:5173`.
  Typed as it reads, the page loads (`middleware.ts` accepts that host), but every write has another
  origin and is refused, with the advice to sign in.

## 7. Plan

`Executor` in place of the one step that `JobQueue` takes for an execution, with the lease in the same
clock, so that the fault "lease" is bounded by the limits instead of assumed.

Not modelled: the catalog query and the list filter (read only), rendering beyond what a problem's
page says of an execution, the judge's configuration (read once), generated gRPC code, validation of
fields and texts, and how values are compared inside the graders.
