------------------------------ MODULE Executor ------------------------------
(***************************************************************************)
(* One execution slot of the judge: executor.go runs the Grader in a       *)
(* Docker container, grading.go reads its result.  Each step waits for     *)
(* Docker under a time limit, and each may fail, or take effect and go     *)
(* unanswered.  The judge may stop at any moment; the next one removes the *)
(* containers that it left.                                                *)
(*                                                                         *)
(* Time passes in ticks, but never beyond a limit that the judge waits     *)
(* for: it reacts to an expired context before the next tick.              *)
(***************************************************************************)
EXTENDS Grader

CONSTANTS
    Name,           \* container names: each stands for a fresh one whenever no container has it
    RunLimit,       \* ticks that an execution may take: 20 seconds
    SetupLimit,     \* ticks for creating and attaching: 10 seconds
    RemoveLimit,    \* ticks for the removal: 10 seconds
    MaxOutput       \* units of output that the judge accepts: 512,000 bytes

ASSUME ExecutorAssumption ==
    /\ Name # {}
    /\ RunLimit \in Nat /\ SetupLimit \in Nat /\ RemoveLimit \in Nat
    /\ MaxOutput \in Nat

VARIABLES
    judge,      \* "down", "preparing" or "ready"
    listed,     \* leftovers that prepare has still to remove
    containers, \* the containers in Docker
    run         \* the execution in the slot, or the last one

vars == <<graderVars, judge, listed, containers, run>>

\* A container that does not exist. creating: Docker may still finish it; still: its program has
\* not started or has ended.
NoContainer == [state |-> "none", old |-> FALSE]

\* clock: ticks since the start; timer: ticks of the set-up or the removal; bytes: output counted
\* so far; read: the output kept or dropped, by its kind; failures: whether Docker failed.
NewRun(name) ==
    [phase |-> "idle", name |-> name, clock |-> 0, timer |-> 0, stopped |-> FALSE, bytes |-> 0,
     read |-> NoOutput, failures |-> FALSE, outcome |-> "none"]

Resting == NewRun(CHOOSE n \in Name : TRUE)

NoProgram(kind, mode) == [NewGrader(kind, mode) EXCEPT !.phase = "ended"]

Idle == NoProgram("python", "submit")

Init ==
    /\ judge = "down" /\ listed = {}
    /\ containers = [n \in Name |-> NoContainer]
    /\ run = Resting
    /\ grader = Idle
    /\ wrote = NoOutput

Exists(n) == containers[n].state \in {"still", "running"}

----------------------------------------------------------------------------
(* The start of a judge: prepare and removeLeftovers.                      *)

\* A wrong filter: only containers that still run are listed.
LeftoversRunning == {n \in Name : containers[n].state = "running"}

Leftovers == {n \in Name : Exists(n)}

Prepare ==
    /\ judge = "down"
    /\ judge' = "preparing"
    /\ listed' = Leftovers
    /\ UNCHANGED <<graderVars, containers, run>>

RemoveLeftover(n) ==
    /\ judge = "preparing" /\ n \in listed
    /\ listed' = listed \ {n}
    /\ containers' = [containers EXCEPT ![n] = NoContainer]
    /\ UNCHANGED <<graderVars, judge, run>>

\* Docker, an image or a removal is not there yet; two seconds later everything is tried again.
PrepareFails ==
    /\ judge = "preparing"
    /\ listed' = Leftovers
    /\ UNCHANGED <<graderVars, judge, containers, run>>

Prepared ==
    /\ judge = "preparing" /\ listed = {}
    /\ judge' = "ready"
    /\ UNCHANGED <<graderVars, listed, containers, run>>

\* The judge stops, or crashes, with an execution under way or without. What it asked Docker to
\* create is finished or forgotten before another judge starts.
JudgeStops ==
    /\ judge # "down"
    /\ judge' = "down" /\ listed' = {}
    /\ run' = Resting
    /\ grader' = Idle /\ wrote' = NoOutput
    /\ \E done \in SUBSET {n \in Name : containers[n].state = "creating"} :
           containers' = [n \in Name |->
               CASE containers[n].state = "none" -> NoContainer
                 [] containers[n].state = "creating" ->
                        IF n \in done THEN [NoContainer EXCEPT !.state = "still", !.old = TRUE]
                                      ELSE NoContainer
                 [] OTHER -> [containers[n] EXCEPT !.old = TRUE]]

----------------------------------------------------------------------------
(* An execution: run.                                                      *)

\* Stop, a caller that is gone, or a shutdown cancels ctx; runCtx also ends after the limit.
runCtxDone == run.stopped \/ run.clock >= RunLimit

\* A wrong failed: output above the limit counts as any other error.
failedForAnyCause(cause) ==
    IF run.stopped THEN "canceled"
    ELSE IF run.clock >= RunLimit THEN "timed out" ELSE "container failed"

failed(cause) ==
    IF run.stopped THEN "canceled"
    ELSE IF cause = "output limit" THEN "output limit"
    ELSE IF run.clock >= RunLimit THEN "timed out" ELSE "container failed"

\* The execution is over but for the deferred removal.
Over(outcome) == [run EXCEPT !.phase = "removing", !.timer = 0, !.outcome = outcome]

\* A step is not answered in time, or not with success.
Broken == [run EXCEPT !.phase = "removing", !.timer = 0, !.failures = @ \/ ~runCtxDone,
                      !.outcome = failed("docker")]

At(phase) == judge = "ready" /\ run.phase = phase

Free == {n \in Name : containers[n].state = "none"}

\* Names are fresh: one that no container has is as good as another.
Begin(kind, mode) ==
    /\ At("idle")
    /\ Free # {}
    /\ run' = [NewRun(CHOOSE n \in Free : TRUE) EXCEPT !.phase = "inspecting"]
    /\ grader' = NoProgram(kind, mode) /\ wrote' = NoOutput
    /\ UNCHANGED <<judge, listed, containers>>

Stop ==
    /\ judge = "ready" /\ run.phase \notin {"idle", "returning", "removing"}
    /\ run' = [run EXCEPT !.stopped = TRUE]
    /\ UNCHANGED <<graderVars, judge, listed, containers>>

RunOnly(r) == run' = r /\ UNCHANGED <<graderVars, judge, listed, containers>>

\* The image is inspected before there is anything to remove.
Inspected == At("inspecting") /\ RunOnly([run EXCEPT !.phase = "creating", !.timer = 0])

InspectFails == At("inspecting") /\ RunOnly([Broken EXCEPT !.phase = "returning"])

Created ==
    /\ At("creating")
    /\ run' = [run EXCEPT !.phase = "attaching"]
    /\ containers' = [containers EXCEPT ![run.name].state = "still"]
    /\ UNCHANGED <<graderVars, judge, listed>>

CreateFails ==
    /\ At("creating")
    /\ run' = Broken
    /\ \E state \in {"none", "creating", "still"} :
           containers' = [containers EXCEPT ![run.name].state = state]
    /\ UNCHANGED <<graderVars, judge, listed>>

\* Docker finishes a create that nobody waits for any more.
CreatedLate(n) ==
    /\ containers[n].state = "creating"
    /\ containers' = [containers EXCEPT ![n].state = "still"]
    /\ UNCHANGED <<graderVars, judge, listed, run>>

Attached == At("attaching") /\ RunOnly([run EXCEPT !.phase = "starting"])

AttachFails == At("attaching") /\ RunOnly(Broken)

Starts(r, startsGrader) ==
    /\ run' = r
    /\ containers' = [containers EXCEPT ![run.name].state = "running"]
    /\ grader' = [grader EXCEPT !.phase = IF startsGrader THEN "reading" ELSE @]
    /\ UNCHANGED <<wrote, judge, listed>>

Started == At("starting") /\ Starts([run EXCEPT !.phase = "copying"], TRUE)

\* The program may have been started all the same.
StartFails == At("starting") /\ (RunOnly(Broken) \/ Starts(Broken, FALSE))

\* The program runs as long as the judge follows it; what it does afterwards has no consequence.
Follows == At("copying") /\ containers[run.name].state = "running"

GraderRuns ==
    /\ Follows
    /\ GraderNext
    /\ containers' = [containers EXCEPT
                          ![run.name].state = IF grader'.phase = "ended" THEN "still" ELSE @]
    /\ UNCHANGED <<judge, listed, run>>

\* A wrong count: one unit too many.
fitsOneMore(bytes) == 0 <= MaxOutput - bytes

fits(bytes) == 1 <= MaxOutput - bytes

\* StdCopy hands over one unit of a stream.
Copied(stream) ==
    /\ At("copying")
    /\ run.read[stream] < wrote[stream]
    /\ RunOnly(IF fits(run.bytes)
               THEN [run EXCEPT !.bytes = @ + 1, !.read[stream] = @ + 1]
               ELSE Over(failed("output limit")))

\* The streams end with the program, or are closed because runCtx is done.
CopyEnds ==
    /\ At("copying")
    /\ runCtxDone \/ (containers[run.name].state = "still" /\ run.read = wrote)
    /\ RunOnly([run EXCEPT !.phase = "waiting"])

\* Reading, sending the payload, or waiting fails.
CopyFails == (At("copying") \/ At("waiting")) /\ RunOnly(Broken)

\* What newExecution expects.
cases == IF grader.mode = "example" THEN 1 ELSE Cases

\* What is kept of the output: stdout, here the part that is not the result.
kept(read) == read.stdout

\* protojson reads texts only, and no half of a character, which is written as an escape.
readable(read) ==
    /\ read.json > 0 /\ grader.whole
    /\ \A i \in DOMAIN grader.entries : grader.entries[i].actual = "text"

\* A wrong grade: the entries are not counted.
countedNever == TRUE

\* An entry for each case, unless there is an error; an empty one is none.
counted == grader.failed = "text" \/ Len(grader.entries) = cases

\* Code that has changed the grader, or that writes beside it, decides what is read instead.
interfered == grader.altered \/ wrote.stdout > 0

\* grade: the JSON result and nothing else.
Graded(outcome) ==
    \/ outcome = IF readable(run.read) /\ counted THEN "result" ELSE "invalid result"
    \/ /\ interfered /\ run.read.json + kept(run.read) > 0
       /\ outcome \in {"result", "invalid result"}

Exited ==
    /\ At("waiting")
    /\ containers[run.name].state = "still"
    /\ \/ /\ ~runCtxDone /\ grader.exit = 0
          /\ \E outcome \in {"result", "invalid result"} : Graded(outcome) /\ RunOnly(Over(outcome))
       \/ ~runCtxDone /\ grader.exit # 0 /\ grader.oom /\ RunOnly(Over("out of memory"))
       \/ ~runCtxDone /\ grader.exit # 0 /\ RunOnly(Over(failed("exit")))
       \/ runCtxDone /\ RunOnly(Over(failed("docker")))

\* The slot is free for another execution.
Idles ==
    /\ run' = Resting
    /\ grader' = Idle /\ wrote' = NoOutput
    /\ UNCHANGED listed

Returns == At("returning") /\ Idles /\ UNCHANGED <<judge, containers>>

\* remove, with the container gone, or not there.
Removed ==
    /\ At("removing")
    /\ Idles
    /\ containers' = [containers EXCEPT ![run.name] = IF @.state = "creating" THEN @ ELSE NoContainer]
    /\ UNCHANGED judge

\* It is only logged.
RemoveFails == At("removing") /\ Idles /\ UNCHANGED <<judge, containers>>

----------------------------------------------------------------------------
(* Time.                                                                   *)

\* Without a limit of its own, the set-up would go on as long as Docker takes.
setupExpiredNever == FALSE

setupExpired == run.timer >= SetupLimit

\* A wrong removal: it has no limit of its own.
TimedSetup == {"creating", "attaching"}

Timed == {"creating", "attaching", "removing"}

\* The judge waits for something whose time is up, or for nothing.
Urgent ==
    /\ judge = "ready"
    /\ \/ run.phase = "returning"
       \/ run.phase \in {"inspecting", "starting", "copying", "waiting"} /\ runCtxDone
       \/ run.phase \in {"creating", "attaching"} /\ setupExpired
       \/ run.phase = "removing" /\ run.timer >= RemoveLimit

AllLimits == RunLimit + SetupLimit + RemoveLimit

\* Bound: nothing is counted beyond the limits.
Later(time) == IF time <= AllLimits THEN time + 1 ELSE time

Tick ==
    /\ ~Urgent
    /\ run.phase # "idle"
    /\ run' = [run EXCEPT !.clock = Later(@), !.timer = IF run.phase \in Timed THEN Later(@) ELSE @]
    /\ UNCHANGED <<graderVars, judge, listed, containers>>

\* A program that no judge follows ends by itself, or timeout kills it after 25 seconds; one that
\* is followed reaches the judge's limit of 20 seconds first.
Ended(n) ==
    /\ containers[n].state = "running"
    /\ ~(Follows /\ n = run.name)
    /\ containers' = [containers EXCEPT ![n].state = "still"]
    /\ UNCHANGED <<graderVars, judge, listed, run>>

----------------------------------------------------------------------------

Preparing == Prepare \/ PrepareFails \/ Prepared \/ \E n \in Name : RemoveLeftover(n)

Answers == Inspected \/ Created \/ Attached \/ Started \/ CopyEnds \/ Exited \/ Removed \/ Returns

Failures == InspectFails \/ CreateFails \/ AttachFails \/ StartFails \/ CopyFails \/ RemoveFails

Copies == \E stream \in {"json", "stdout", "stderr"} : Copied(stream)

Next ==
    \/ Preparing \/ JudgeStops
    \/ \E kind \in Kind, mode \in Mode : Begin(kind, mode)
    \/ Stop \/ Answers \/ Failures \/ Copies \/ GraderRuns \/ Tick
    \/ \E n \in Name : CreatedLate(n) \/ Ended(n)

Spec == Init /\ [][Next]_vars

\* Time goes on, containers end in time, and the judge reacts to what it waits for.
FairSpec ==
    /\ Spec
    /\ WF_vars(Tick) /\ WF_vars(Urgent /\ (Answers \/ Failures))
    /\ \A n \in Name : WF_vars(Ended(n))

----------------------------------------------------------------------------
(* Properties                                                              *)

Outcome == {"none", "canceled", "timed out", "output limit", "out of memory", "container failed",
            "result", "invalid result"}

TypeOK ==
    /\ GraderTypeOK
    /\ judge \in {"down", "preparing", "ready"}
    /\ listed \subseteq Name
    /\ containers \in [Name -> [state : {"none", "creating", "still", "running"}, old : BOOLEAN]]
    /\ run \in [phase : {"idle", "inspecting", "creating", "attaching", "starting", "copying",
                         "waiting", "removing", "returning"},
                name : Name, clock : Nat, timer : Nat, stopped : BOOLEAN, bytes : 0..MaxOutput,
                read : [json : Nat, stdout : Nat, stderr : Nat], failures : BOOLEAN,
                outcome : Outcome]

Written == wrote.json + wrote.stdout + wrote.stderr

\* What an execution ends with is what happened: no limit is blamed that was not broken, the
\* container is not blamed for output above the limit, and a result is never cut (executor.go,
\* "Errors are ctx's own, a limitError, or errContainerFailed").
CauseIsTrue ==
    LET outcome == run.outcome IN
    /\ outcome = "canceled" => run.stopped
    /\ outcome = "timed out" => run.clock >= RunLimit
    /\ outcome = "output limit" => Written > MaxOutput
    /\ outcome = "out of memory" => grader.oom
    /\ outcome = "container failed" => run.failures \/ grader.exit # 0
    /\ outcome \in {"result", "invalid result"} => Written <= MaxOutput /\ grader.exit = 0

\* How the page tells that a submission is accepted: no error, and every entry has passed.
accepted ==
    /\ run.outcome = "result" /\ grader.failed # "text"
    /\ \A i \in DOMAIN grader.entries : grader.entries[i].passed

\* However the grading breaks off, what is accepted has a passing entry for each case: an error may be
\* empty, and without its error an incomplete result looks like success (grading.go, "one entry per
\* case unless it reports an error"). Only code that changes or bypasses the grader is beyond that.
AcceptedIsComplete ==
    accepted /\ ~interfered =>
        \A c \in 1..cases : \E i \in DOMAIN grader.entries :
            grader.entries[i].case = c /\ grader.entries[i].passed

\* Code that only returns and throws what can be printed as text gets an invalid result for one reason
\* only, a text cut inside a character: the judge and both graders agree on how many cases a Run and a
\* submission have. The other causes are the code's: it interferes, ends the process, hands over what
\* is no text, or throws what has no text.
InvalidHasCause ==
    run.outcome = "invalid result" =>
        \/ ~grader.whole
        \/ interfered \/ wrote.json = 0 \/ grader.failed = "blank"
        \/ \E i \in DOMAIN grader.entries : grader.entries[i].actual # "text"

\* No judge executes anything beside a container that an earlier judge left (executor.go,
\* "removes containers an earlier judge left").
ReadyIsClean == judge = "ready" => \A n \in Name : Exists(n) => ~containers[n].old

\* The limits add up: however slow Docker is, and wherever a Stop arrives, the slot is free again
\* after the three limits at the latest, 40 seconds, well before the lease of 60 seconds ends.
EndsWithinLimits == run.clock <= AllLimits

\* Every execution ends, whatever Docker and the learner's code do or fail to do.
ExecutionEnds == run.phase # "idle" ~> run.phase = "idle"

\* queue.go:124, "Docker, Neon, or a shutdown gets one more try": nothing else does.
RetriedIsDocker == run.outcome = "container failed" => run.failures

=============================================================================
