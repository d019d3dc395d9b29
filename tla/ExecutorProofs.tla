--------------------------- MODULE ExecutorProofs ---------------------------
(***************************************************************************)
(* For any number of cases, any limits and any output: what an execution   *)
(* ends with is what happened, nothing incomplete is accepted, the slot is  *)
(* free again within the limits, and no judge executes anything beside a   *)
(* container that an earlier one left.                                     *)
(*                                                                         *)
(* The inductive invariant has independent parts: what the grader has done *)
(* so far (GraderInv), how long the execution has taken (ClockInv), what   *)
(* the judge knows of it (CauseInv), and what an earlier one left (OldInv).*)
(***************************************************************************)
EXTENDS Executor, TLAPS

\* The cases that are over have an entry each, in order. A result that was printed has an entry for
\* each case, or the whole grading has failed.
GraderInv ==
    LET total == tests(grader.kind, grader.mode) IN
    /\ \A i \in DOMAIN grader.entries : grader.entries[i].case = i
    /\ grader.phase \in {"reading", "compiling", "launching"}
          => grader.case = 1 /\ grader.entries = <<>> /\ grader.failed = "no"
    /\ grader.phase \in {"opening", "checking", "closing"}
          => /\ grader.case = Len(grader.entries) + 1 /\ grader.case <= total
             /\ grader.failed = "no"
    /\ grader.phase \in {"finishing", "printing", "lingering"} \/ wrote.json > 0
          => grader.failed # "no" \/ Len(grader.entries) = total
    /\ wrote.json > 0 => grader.phase \in {"lingering", "ended"}

\* An execution belongs to a judge that is ready. Each phase has used up the limits of the phases
\* before it, at most.
ClockInv ==
    /\ judge # "ready" => run.phase = "idle"
    /\ run.phase \in {"idle", "returning", "inspecting"} => run.clock <= RunLimit
    /\ run.phase \in {"creating", "attaching"}
          => run.timer <= SetupLimit /\ run.clock <= RunLimit + run.timer
    /\ run.phase \in {"starting", "copying", "waiting"} => run.clock <= RunLimit + SetupLimit
    /\ run.phase = "removing"
          => run.timer <= RemoveLimit /\ run.clock <= RunLimit + SetupLimit + run.timer

\* Nothing is copied that was not written, and every unit counts. An execution that waits has
\* copied everything, unless its time is up.
CauseInv ==
    /\ run.bytes = run.read.json + run.read.stdout + run.read.stderr
    /\ run.phase \notin {"idle", "removing", "returning"} => run.outcome = "none"
    /\ run.phase \in {"inspecting", "creating", "attaching", "starting"}
          => run.read = NoOutput /\ wrote = NoOutput /\ grader = NoProgram(grader.kind, grader.mode)
    /\ \A stream \in {"json", "stdout", "stderr"} : run.read[stream] <= wrote[stream]
    /\ run.phase = "waiting" => runCtxDone \/ run.read = wrote

\* Only a container of an earlier judge is old, and only until prepare is done.
OldInv ==
    /\ \A n \in Name : containers[n].state \in {"none", "creating"} => ~containers[n].old
    /\ judge = "preparing" => \A n \in Name : containers[n].old => n \in listed
    /\ judge = "ready" => \A n \in Name : ~containers[n].old

----------------------------------------------------------------------------
(* The types of what the steps are made of.                                *)

Run == [phase : {"idle", "inspecting", "creating", "attaching", "starting", "copying", "waiting",
                 "removing", "returning"},
        name : Name, clock : Nat, timer : Nat, stopped : BOOLEAN, bytes : 0..MaxOutput,
        read : [json : Nat, stdout : Nat, stderr : Nat], failures : BOOLEAN, outcome : Outcome]

Container == [state : {"none", "creating", "still", "running"}, old : BOOLEAN]

LEMMA NewRunType == \A n \in Name : NewRun(n) \in Run
BY ExecutorAssumption DEF NewRun, Run, NoOutput, Outcome

LEMMA RestingType == Resting \in Run /\ Resting.phase = "idle" /\ Resting.clock = 0
<1>1. (CHOOSE n \in Name : TRUE) \in Name
    BY ExecutorAssumption
<1> QED BY <1>1, NewRunType DEF Resting, NewRun


\* The sets that the fields of a program belong to have names of their own, for the provers' sake.
Entry == [case : 1..Cases, passed : BOOLEAN, actual : Actual]

Entries     == Seq(Entry)
Case        == 1..Cases
ProgramKind == {"python", "backend", "frontend"}
Failed      == {"no", "text", "blank"}
ExitStatus  == {0, 1, 137}
Phase == {"reading", "compiling", "launching", "opening", "checking", "closing", "finishing",
          "printing", "lingering", "ended"}

Program ==
    [kind : ProgramKind, mode : Mode, phase : Phase, case : Case, passed : BOOLEAN,
     actual : Actual, entries : Entries, failed : Failed, left : BOOLEAN, altered : BOOLEAN,
     whole : BOOLEAN, exit : ExitStatus, oom : BOOLEAN]

Output == [json : 0..MaxWritten, stdout : 0..MaxWritten, stderr : 0..1]

LEMMA GraderTypeParts == GraderTypeOK <=> grader \in Program /\ wrote \in Output
BY DEF GraderTypeOK, Program, Output, Entry, Entries, Case, ProgramKind, Failed,
       ExitStatus, Phase

LEMMA NoOutputType ==
    NoOutput \in Output /\ NoOutput.json = 0 /\ NoOutput.stdout = 0 /\ NoOutput.stderr = 0
BY GraderAssumption DEF NoOutput, Output

LEMMA CaseFacts ==
    /\ 1 \in Case /\ <<>> \in Entries /\ "text" \in Actual
    /\ \A c \in Case, passed \in BOOLEAN, actual \in Actual :
           [case |-> c, passed |-> passed, actual |-> actual] \in Entry
BY GraderAssumption DEF Case, Entries, Entry, Actual

LEMMA NoProgramType ==
    ASSUME NEW kind \in ProgramKind, NEW mode \in Mode
    PROVE  NoProgram(kind, mode) \in Program
BY CaseFacts DEF NoProgram, NewGrader, Program, Phase, Failed, ExitStatus

LEMMA IdleType == Idle \in Program
BY NoProgramType DEF Idle, Mode, ProgramKind

\* The specification has at least one case, and both graders grade as many as newExecution expects.
LEMMA TotalType ==
    ASSUME NEW kind \in ProgramKind, NEW mode \in Mode
    PROVE  tests(kind, mode) \in Case
BY GraderAssumption DEF ProgramKind, Mode, tests, Case

LEMMA TotalIsExpected ==
    ASSUME grader \in Program
    PROVE  cases = tests(grader.kind, grader.mode)
<1>1. grader.kind \in ProgramKind /\ grader.mode \in Mode
    BY DEF Program
<1> QED BY <1>1 DEF ProgramKind, Mode, tests, cases

----------------------------------------------------------------------------
(* The grader.                                                             *)

LEMMA EnteredType ==
    ASSUME grader \in Program, NEW passed \in BOOLEAN, NEW actual \in Actual
    PROVE  Entered(passed, actual) \in Program
<1> DEFINE entries == Append(grader.entries,
                             [case |-> grader.case, passed |-> passed, actual |-> actual])
           last == ~(grader.case < tests(grader.kind, grader.mode))
           next == IF ~last THEN grader.case + 1 ELSE grader.case
<1>1. /\ grader.case \in Case /\ grader.kind \in ProgramKind /\ grader.mode \in Mode
      /\ grader.entries \in Entries
    BY DEF Program
<1>2. entries \in Entries
    BY <1>1, CaseFacts DEF Entries
<1>3. next \in Case
    <2>1. tests(grader.kind, grader.mode) \in Case
        BY <1>1, TotalType
    <2> QED BY <1>1, <2>1, GraderAssumption DEF Case
<1>4. Entered(passed, actual) =
          [grader EXCEPT !.entries = entries, !.passed = FALSE, !.actual = "text", !.case = next,
                         !.phase = IF ~last THEN "opening" ELSE "finishing"]
    BY DEF Entered
<1> HIDE DEF entries, last, next
<1> QED BY <1>2, <1>3, <1>4, CaseFacts DEF Program, Phase

LEMMA GoneType ==
    ASSUME grader \in Program, NEW exit \in ExitStatus
    PROVE  Gone(exit) \in Program
BY CaseFacts DEF Gone, Program, Phase

LEMMA GraderKeepsType ==
    ASSUME grader \in Program, wrote \in Output, GraderNext
    PROVE  grader' \in Program /\ wrote' \in Output
<1>1. CASE Reads \/ compile \/ launch \/ OpenCase \/ Finish \/ CodeAlters
    BY <1>1, CaseFacts DEF Reads, compile, launch, OpenCase, Finish, CodeAlters, Becomes, GivesUp,
                           Program, Phase, Failed
<1>2. CASE OpenFails
    BY <1>2, EnteredType, CaseFacts DEF OpenFails
<1>3. CASE CloseCase
    <2>1. grader.passed \in BOOLEAN /\ grader.actual \in Actual
        BY DEF Program
    <2> QED BY <1>3, <2>1, EnteredType, CaseFacts DEF CloseCase
<1>4. CASE TextFails
    <2>1. \/ \E error \in Failed, entries \in Entries :
                 grader' = [grader EXCEPT !.phase = "finishing", !.failed = error, !.entries = entries]
          \/ grader' = Gone(1)
        BY <1>4, CaseFacts DEF TextFails, GivesUp, Ends, Program, Failed
    <2>2. wrote' = wrote
        BY <1>4 DEF TextFails
    <2>3. CASE grader' = Gone(1)
        BY <2>2, <2>3, GoneType DEF ExitStatus
    <2>4. CASE grader' # Gone(1)
        BY <2>1, <2>2, <2>4 DEF Program, Phase
    <2> QED BY <2>3, <2>4
<1>5. CASE PrintResult
    <2>1. wrote' \in Output
        BY <1>5, GraderAssumption DEF PrintResult, Output
    <2>2. Printed \in Program
        <3>1. Gone(0) \in Program
            BY GoneType DEF ExitStatus
        <3>2. [grader EXCEPT !.phase = "lingering"] \in Program
            BY DEF Program, Phase
        <3> QED BY <3>1, <3>2 DEF Printed
    <2>3. PICK whole \in BOOLEAN : grader' = [Printed EXCEPT !.whole = whole]
        BY <1>5 DEF PrintResult
    <2>4. grader' \in Program
        BY <2>2, <2>3 DEF Program
    <2> QED BY <2>1, <2>4
<1>6. CASE Checked
    BY <1>6 DEF Checked, Program, Phase
<1>7. CASE PrintFails \/ LeftoverEnds \/ CodeExits
    BY <1>7, GoneType DEF PrintFails, LeftoverEnds, CodeExits, Ends, ExitStatus
<1>8. CASE CodeWrites \/ Diagnoses
    BY <1>8, GraderAssumption DEF CodeWrites, Diagnoses, Output
<1>9. CASE OutOfMemory
    <2>1. [Gone(137) EXCEPT !.oom = TRUE] \in Program
        <3>1. Gone(137) \in Program
            BY GoneType DEF ExitStatus
        <3> HIDE DEF Gone
        <3> QED BY <3>1 DEF Program
    <2>2. [grader EXCEPT !.phase = "closing", !.oom = TRUE] \in Program
        BY DEF Program, Phase
    <2> QED BY <1>9, <2>1, <2>2 DEF OutOfMemory
<1> QED BY <1>1, <1>2, <1>3, <1>4, <1>5, <1>6, <1>7, <1>8, <1>9
        DEF GraderNext, GraderSteps, CodeSteps

\* An entry for the case under way: either another case follows, or all have one.
LEMMA EnteredCounts ==
    ASSUME grader \in Program, NEW passed \in BOOLEAN, NEW actual \in Actual,
           grader.case = Len(grader.entries) + 1,
           grader.case <= tests(grader.kind, grader.mode),
           \A i \in DOMAIN grader.entries : grader.entries[i].case = i
    PROVE  LET e == Entered(passed, actual) IN
           /\ e.kind = grader.kind /\ e.mode = grader.mode /\ e.failed = grader.failed
           /\ \A i \in DOMAIN e.entries : e.entries[i].case = i
           /\ \/ /\ e.phase = "opening"
                 /\ e.case = Len(e.entries) + 1 /\ e.case <= tests(grader.kind, grader.mode)
              \/ e.phase = "finishing" /\ Len(e.entries) = tests(grader.kind, grader.mode)
<1> DEFINE total == tests(grader.kind, grader.mode)
           entry == [case |-> grader.case, passed |-> passed, actual |-> actual]
           entries == Append(grader.entries, entry)
<1>1. total \in Nat /\ grader.case \in Nat
    BY TotalType, GraderAssumption DEF Program, Case
<1>2. /\ Len(entries) = grader.case /\ Len(grader.entries) \in Nat
      /\ \A i \in DOMAIN entries : entries[i].case = i
    BY CaseFacts DEF Program, Entries
<1>3. Entered(passed, actual) =
          [grader EXCEPT !.entries = entries, !.passed = FALSE, !.actual = "text",
                         !.case = IF @ < total THEN @ + 1 ELSE @,
                         !.phase = IF grader.case < total THEN "opening" ELSE "finishing"]
    BY DEF Entered
<1> HIDE DEF total, entry, entries
<1>4. CASE grader.case < total
    BY <1>1, <1>2, <1>3, <1>4 DEF Program, total
<1>5. CASE ~(grader.case < total)
    BY <1>1, <1>2, <1>3, <1>5 DEF Program, total
<1> QED BY <1>4, <1>5

LEMMA GraderKeepsInv ==
    ASSUME grader \in Program, wrote \in Output, GraderInv, GraderNext
    PROVE  GraderInv'
<1>1. wrote.json \in Nat /\ grader.phase # "ended"
    BY GraderAssumption DEF Output, GraderNext
<1>2. CASE Reads \/ compile \/ launch
    <2>1. 1 <= tests(grader.kind, grader.mode) /\ Len(<<>>) = 0
        BY TotalType, GraderAssumption DEF Program, Case
    <2>2. grader.case = 1 /\ grader.entries = <<>> /\ wrote.json = 0 /\ grader.failed = "no"
        BY <1>1, <1>2 DEF Reads, compile, launch, GraderInv
    <2>3. /\ wrote' = wrote /\ grader'.case = 1 /\ grader'.entries = <<>>
          /\ grader'.kind = grader.kind /\ grader'.mode = grader.mode
          /\ \/ grader'.phase \in {"compiling", "launching", "opening"} /\ grader'.failed = "no"
             \/ grader'.phase = "finishing" /\ grader'.failed = "text"
        BY <1>2, <2>2 DEF Reads, compile, launch, Becomes, GivesUp, Program
    <2> QED BY <1>1, <2>1, <2>2, <2>3 DEF GraderInv
<1>3. CASE OpenCase \/ Finish \/ Checked \/ CodeAlters
    <2>1. /\ wrote' = wrote /\ grader'.case = grader.case /\ grader'.entries = grader.entries
          /\ grader'.failed = grader.failed
          /\ grader'.kind = grader.kind /\ grader'.mode = grader.mode
          /\ \/ grader'.phase = grader.phase
             \/ grader.phase = "opening" /\ grader'.phase = "checking"
             \/ grader.phase = "checking" /\ grader'.phase = "closing"
             \/ grader.phase = "finishing" /\ grader'.phase = "printing"
        BY <1>3 DEF OpenCase, Finish, Checked, CodeAlters, Becomes, Program
    <2> QED BY <1>1, <2>1 DEF GraderInv
<1>4. CASE OpenFails \/ CloseCase
    <2>1. /\ wrote' = wrote /\ grader.phase \in {"opening", "closing"}
          /\ \E passed \in BOOLEAN, actual \in Actual : grader' = Entered(passed, actual)
        BY <1>4, CaseFacts DEF OpenFails, CloseCase, Program
    <2>2. PICK passed \in BOOLEAN, actual \in Actual : grader' = Entered(passed, actual)
        BY <2>1
    <2> DEFINE e == Entered(passed, actual)
    <2>3. /\ grader.case = Len(grader.entries) + 1 /\ grader.case <= tests(grader.kind, grader.mode)
          /\ grader.failed = "no" /\ \A i \in DOMAIN grader.entries : grader.entries[i].case = i
        BY <2>1 DEF GraderInv
    <2>4. /\ e.kind = grader.kind /\ e.mode = grader.mode /\ e.failed = "no"
          /\ \A i \in DOMAIN e.entries : e.entries[i].case = i
          /\ \/ /\ e.phase = "opening"
                /\ e.case = Len(e.entries) + 1 /\ e.case <= tests(grader.kind, grader.mode)
             \/ e.phase = "finishing" /\ Len(e.entries) = tests(grader.kind, grader.mode)
        BY <2>3, EnteredCounts
    <2>5. grader' = e
        BY <2>2
    <2> HIDE DEF e
    <2>6. ~(wrote.json > 0)
        BY <2>1 DEF GraderInv
    <2> QED BY <1>1, <2>1, <2>4, <2>5, <2>6 DEF GraderInv
<1>5. CASE TextFails
    <2>1. /\ wrote' = wrote /\ grader.phase = "closing"
          /\ \/ /\ grader'.phase = "finishing" /\ grader'.failed \in {"text", "blank"}
                /\ grader'.entries \in {grader.entries, <<>>}
             \/ grader'.phase = "ended" /\ grader'.entries = grader.entries
        BY <1>5 DEF TextFails, GivesUp, Ends, Gone, Program
    <2>2. \A i \in DOMAIN grader'.entries : grader'.entries[i].case = i
        BY <2>1 DEF GraderInv
    <2> QED BY <1>1, <2>1, <2>2 DEF GraderInv
<1>6. CASE PrintResult
    <2>1. /\ grader'.phase \in {"lingering", "ended"}
          /\ grader'.entries = grader.entries /\ grader'.failed = grader.failed
          /\ grader'.kind = grader.kind /\ grader'.mode = grader.mode
        BY <1>6 DEF PrintResult, Printed, Gone, GraderInv, Program
    <2>2. grader.failed # "no" \/ Len(grader.entries) = tests(grader.kind, grader.mode)
        BY <1>6 DEF PrintResult, GraderInv
    <2> QED BY <2>1, <2>2 DEF GraderInv
<1>7. CASE PrintFails \/ LeftoverEnds \/ CodeExits
    <2>1. wrote' = wrote /\ \E exit \in ExitStatus : grader' = Gone(exit)
        BY <1>7 DEF PrintFails, LeftoverEnds, CodeExits, Ends, ExitStatus
    <2> QED BY <1>1, <2>1 DEF Gone, GraderInv, Program
<1>8. CASE CodeWrites \/ Diagnoses
    BY <1>1, <1>8 DEF CodeWrites, Diagnoses, GraderInv, Output
<1>9. CASE OutOfMemory
    <2>1. wrote' = wrote
        BY <1>9 DEF OutOfMemory
    <2>2. CASE grader.kind = "frontend" /\ grader' = [grader EXCEPT !.phase = "closing", !.oom = TRUE]
        <3>1. grader.phase = "checking"
            BY <1>9, <2>2 DEF OutOfMemory, CodeRuns
        <3> QED BY <1>1, <2>1, <2>2, <3>1 DEF GraderInv, Program
    <2>3. CASE grader' = [Gone(137) EXCEPT !.oom = TRUE]
        BY <1>1, <2>1, <2>3 DEF Gone, GraderInv, Program
    <2> QED BY <1>9, <2>2, <2>3 DEF OutOfMemory
<1> QED BY <1>2, <1>3, <1>4, <1>5, <1>6, <1>7, <1>8, <1>9 DEF GraderNext, GraderSteps, CodeSteps

----------------------------------------------------------------------------
(* Types of the executor.                                                  *)

\* TypeOK, with names for its sets.
Typed ==
    /\ grader \in Program /\ wrote \in Output
    /\ judge \in {"down", "preparing", "ready"} /\ listed \subseteq Name
    /\ containers \in [Name -> Container] /\ run \in Run

\* What the judge makes of the result that it has read.
ReadIsTrue == AcceptedIsComplete /\ InvalidHasCause

\* The inductive invariant.
ExecutorInv ==
    Typed /\ GraderInv /\ ClockInv /\ CauseInv /\ CauseIsTrue /\ ReadIsTrue /\ OldInv

LEMMA TypedIsTypeOK == Typed <=> TypeOK
BY GraderTypeParts DEF Typed, TypeOK, Container, Run

LEMMA FailedType ==
    ASSUME NEW cause
    PROVE  failed(cause) \in {"canceled", "output limit", "timed out", "container failed"}
BY DEF failed

LEMMA OverType ==
    ASSUME run \in Run, NEW outcome \in Outcome
    PROVE  Over(outcome) \in Run
BY DEF Over, Run

LEMMA BrokenType == run \in Run => Broken \in Run
BY FailedType DEF Broken, Run, Outcome, runCtxDone

LEMMA ContainerMoves ==
    ASSUME containers \in [Name -> Container], NEW n \in Name,
           NEW state \in {"none", "creating", "still", "running"}
    PROVE  [containers EXCEPT ![n].state = state] \in [Name -> Container]
BY DEF Container

LEMMA ContainerGoes ==
    ASSUME containers \in [Name -> Container], NEW n \in Name
    PROVE  [containers EXCEPT ![n] = NoContainer] \in [Name -> Container]
BY DEF Container, NoContainer

\* An action of the judge that only concerns the slot.
LEMMA RunOnlyType ==
    ASSUME Typed, NEW r \in Run, RunOnly(r)
    PROVE  Typed'
BY DEF Typed, RunOnly, graderVars

LEMMA IdlesType ==
    ASSUME Typed, Idles
    PROVE  grader' \in Program /\ wrote' \in Output /\ listed' \subseteq Name /\ run' \in Run
BY IdleType, NoOutputType, RestingType DEF Typed, Idles

LEMMA AnswersKeepType == Typed /\ (Answers \/ Failures \/ Copies \/ Stop \/ Tick) => Typed'
<1> SUFFICES ASSUME Typed, Answers \/ Failures \/ Copies \/ Stop \/ Tick PROVE Typed'
    OBVIOUS
<1>1. /\ run \in Run /\ Broken \in Run /\ containers \in [Name -> Container]
      /\ grader \in Program /\ run.name \in Name
      /\ \A outcome \in Outcome : Over(outcome) \in Run
    BY BrokenType, OverType DEF Typed, Run
<1>2. CASE Inspected \/ Attached \/ CopyEnds \/ Stop
    <2>1. run' \in Run
        <3>1. CASE Inspected
            BY <1>1, <3>1 DEF Inspected, RunOnly, Run
        <3>2. CASE Attached \/ CopyEnds
            BY <1>1, <3>2 DEF Attached, CopyEnds, RunOnly, Run
        <3>3. CASE Stop
            BY <1>1, <3>3 DEF Stop, Run
        <3> QED BY <1>2, <3>1, <3>2, <3>3
    <2>2. RunOnly(run')
        BY <1>2 DEF Inspected, Attached, CopyEnds, Stop, RunOnly
    <2> QED BY <2>1, <2>2 DEF Typed, RunOnly, graderVars
<1>3. CASE InspectFails \/ AttachFails \/ CopyFails
    <2>1. [Broken EXCEPT !.phase = "returning"] \in Run
        <3> HIDE DEF Broken
        <3> QED BY <1>1 DEF Run
    <2> QED BY <1>1, <1>3, <2>1, RunOnlyType DEF InspectFails, AttachFails, CopyFails
<1>4. CASE Created
    BY <1>1, <1>4, ContainerMoves DEF Typed, Created, Run, graderVars
<1>5. CASE CreateFails
    <2>1. PICK state \in {"none", "creating", "still"} :
              containers' = [containers EXCEPT ![run.name].state = state]
        BY <1>5 DEF CreateFails
    <2> QED BY <1>1, <1>5, <2>1, ContainerMoves DEF Typed, CreateFails, graderVars
<1>6. ASSUME NEW r \in Run, NEW startsGrader \in BOOLEAN, Starts(r, startsGrader)
      PROVE  Typed'
    <2>1. [grader EXCEPT !.phase = IF startsGrader THEN "reading" ELSE @] \in Program
        BY <1>1 DEF Program, Phase
    <2> QED BY <1>1, <1>6, <2>1, ContainerMoves DEF Typed, Starts
<1>7. CASE Started \/ StartFails
    <2>1. [run EXCEPT !.phase = "copying"] \in Run
        BY <1>1 DEF Run
    <2> QED BY <1>1, <1>6, <1>7, <2>1, RunOnlyType DEF Started, StartFails
<1>8. CASE Exited
    <2>1. /\ {"result", "invalid result", "out of memory"} \subseteq Outcome
          /\ \A cause : failed(cause) \in Outcome
        BY FailedType DEF Outcome
    <2> QED BY <1>1, <1>8, <2>1, RunOnlyType DEF Exited
<1>9. CASE Removed \/ RemoveFails \/ Returns
    <2>1. [containers EXCEPT ![run.name] = IF @.state = "creating" THEN @ ELSE NoContainer]
              \in [Name -> Container]
        BY <1>1, ContainerGoes DEF Container, NoContainer
    <2> QED BY <1>1, <1>9, <2>1, IdlesType DEF Typed, Removed, RemoveFails, Returns
<1>10. CASE Copies
    <2>1. PICK stream \in {"json", "stdout", "stderr"} :
              RunOnly(IF fits(run.bytes)
                      THEN [run EXCEPT !.bytes = @ + 1, !.read[stream] = @ + 1]
                      ELSE Over(failed("output limit")))
        BY <1>10 DEF Copies, Copied
    <2>2. ASSUME fits(run.bytes) PROVE [run EXCEPT !.bytes = @ + 1, !.read[stream] = @ + 1] \in Run
        <3>1. [run.read EXCEPT ![stream] = @ + 1] \in [json : Nat, stdout : Nat, stderr : Nat]
            BY <1>1 DEF Run
        <3>2. run.bytes + 1 \in 0..MaxOutput
            BY <1>1, <2>2, ExecutorAssumption DEF fits, Run
        <3> QED BY <1>1, <3>1, <3>2 DEF Run
    <2>3. Over(failed("output limit")) \in Run
        BY <1>1, FailedType DEF Outcome
    <2> QED BY <2>1, <2>2, <2>3, RunOnlyType
<1>11. CASE Tick
    <2>1. \A time \in Nat : Later(time) \in Nat
        BY ExecutorAssumption DEF Later, AllLimits
    <2>2. run' \in Run
        BY <1>1, <1>11, <2>1 DEF Tick, Run
    <2> QED BY <1>11, <2>2 DEF Typed, Tick, graderVars
<1> QED BY <1>2, <1>3, <1>4, <1>5, <1>7, <1>8, <1>9, <1>10, <1>11 DEF Answers, Failures

LEMMA OthersKeepType ==
    ASSUME Typed,
           \/ Preparing \/ JudgeStops \/ GraderRuns
           \/ \E kind \in Kind, mode \in Mode : Begin(kind, mode)
           \/ \E n \in Name : CreatedLate(n) \/ Ended(n)
    PROVE  Typed'
<1>1. CASE Preparing
    BY <1>1, ContainerGoes DEF Typed, Preparing, Prepare, PrepareFails, Prepared, RemoveLeftover, Leftovers, graderVars
<1>2. CASE JudgeStops
    <2>1. containers' \in [Name -> Container]
        <3>1. PICK done \in SUBSET {n \in Name : containers[n].state = "creating"} :
                  containers' = [n \in Name |->
                      CASE containers[n].state = "none" -> NoContainer
                        [] containers[n].state = "creating" ->
                               IF n \in done THEN [NoContainer EXCEPT !.state = "still", !.old = TRUE]
                                             ELSE NoContainer
                        [] OTHER -> [containers[n] EXCEPT !.old = TRUE]]
            BY <1>2 DEF JudgeStops
        <3>2. \A n \in Name : containers[n] \in Container
            BY DEF Typed
        <3> QED BY <3>1, <3>2 DEF Container, NoContainer
    <2> QED BY <1>2, <2>1, IdleType, NoOutputType, RestingType DEF Typed, JudgeStops
<1>3. ASSUME NEW kind \in Kind, NEW mode \in Mode, Begin(kind, mode) PROVE Typed'
    <2>1. NoProgram(kind, mode) \in Program
        BY GraderAssumption, NoProgramType DEF ProgramKind
    <2>2. (CHOOSE n \in Free : TRUE) \in Name
        BY <1>3 DEF Begin, Free
    <2>3. run' \in Run
        BY <1>3, <2>2, NewRunType DEF Begin, Run
    <2> QED BY <1>3, <2>1, <2>3, NoOutputType DEF Typed, Begin
<1>4. CASE GraderRuns
    <2>1. run.name \in Name
        BY DEF Typed, Run
    <2>2. containers' \in [Name -> Container]
        BY <1>4, <2>1 DEF Typed, GraderRuns, Container
    <2> QED BY <1>4, <2>2, GraderKeepsType DEF Typed, GraderRuns
<1>5. ASSUME NEW n \in Name, CreatedLate(n) \/ Ended(n) PROVE Typed'
    <2>1. containers' = [containers EXCEPT ![n].state = "still"]
        BY <1>5 DEF CreatedLate, Ended
    <2>2. containers' \in [Name -> Container]
        BY <2>1, ContainerMoves DEF Typed
    <2> QED BY <1>5, <2>2 DEF Typed, CreatedLate, Ended, graderVars
<1> QED BY <1>1, <1>2, <1>3, <1>4, <1>5

----------------------------------------------------------------------------
(* The grader's work, and the clock.                                       *)

\* Nothing but the grader itself, a start and an end touches the program.
LEMMA GraderInvKept ==
    ASSUME ExecutorInv, [Next]_vars
    PROVE  GraderInv'
<1>1. grader \in Program /\ wrote \in Output /\ GraderInv
    BY DEF ExecutorInv, Typed
<1>2. CASE UNCHANGED graderVars
    BY <1>1, <1>2 DEF graderVars, GraderInv
<1>3. CASE GraderRuns
    BY <1>1, <1>3, GraderKeepsInv DEF GraderRuns
<1>4. ASSUME NEW kind, NEW mode, grader' = NoProgram(kind, mode), wrote' = NoOutput
      PROVE  GraderInv'
    <2>1. grader'.phase = "ended" /\ grader'.entries = <<>> /\ wrote'.json = 0
        BY <1>4, NoOutputType DEF NoProgram, NewGrader
    <2> QED BY <2>1 DEF GraderInv
<1>5. ASSUME NEW r, NEW startsGrader \in BOOLEAN, At("starting"), Starts(r, startsGrader)
      PROVE  GraderInv'
    <2>1. wrote' = NoOutput /\ wrote.json = 0 /\ grader = NoProgram(grader.kind, grader.mode)
        BY <1>5, NoOutputType DEF At, Starts, ExecutorInv, CauseInv
    <2>2. CASE startsGrader
        <3>1. /\ grader'.phase = "reading" /\ grader'.case = 1
              /\ grader'.entries = <<>> /\ grader'.failed = "no"
            BY <1>5, <2>1, <2>2 DEF Starts, NoProgram, NewGrader
        <3> QED BY <2>1, <3>1, NoOutputType DEF GraderInv
    <2>3. CASE ~startsGrader
        BY <1>1, <1>5, <2>1, <2>3 DEF Starts, GraderInv, Program
    <2> QED BY <2>2, <2>3
<1>6. CASE Idles \/ JudgeStops
    BY <1>4, <1>6 DEF Idles, JudgeStops, Idle
<1>7. CASE Started \/ StartFails
    BY <1>2, <1>5, <1>7 DEF Started, StartFails, RunOnly
<1>8. ASSUME NEW kind \in Kind, NEW mode \in Mode, Begin(kind, mode) PROVE GraderInv'
    BY <1>4, <1>8 DEF Begin
<1>9. CASE Stop \/ Tick \/ Preparing \/ Copies
    <2>1. UNCHANGED graderVars
        BY <1>9 DEF Stop, Tick, Preparing, Prepare, PrepareFails, Prepared, RemoveLeftover, Copies,
                    Copied, RunOnly
    <2> QED BY <1>2, <2>1
<1>10. CASE Inspected \/ Created \/ Attached \/ CopyEnds \/ Exited \/ InspectFails \/ CreateFails
            \/ AttachFails \/ CopyFails
    <2>1. UNCHANGED graderVars
        BY <1>10 DEF Inspected, Created, Attached, CopyEnds, Exited, InspectFails, CreateFails,
                     AttachFails, CopyFails, RunOnly
    <2> QED BY <1>2, <2>1
<1>11. CASE Removed \/ RemoveFails \/ Returns
    BY <1>6, <1>11 DEF Removed, RemoveFails, Returns
<1>12. ASSUME NEW n \in Name, CreatedLate(n) \/ Ended(n) PROVE GraderInv'
    BY <1>2, <1>12 DEF CreatedLate, Ended
<1>13. CASE UNCHANGED vars
    BY <1>2, <1>13 DEF vars, graderVars
<1> QED BY <1>3, <1>6, <1>7, <1>8, <1>9, <1>10, <1>11, <1>12, <1>13 DEF Next, Answers, Failures

\* Each phase starts within the bounds of the one before, and Tick stops at the bounds.
LEMMA ClockInvKept ==
    ASSUME ExecutorInv, [Next]_vars
    PROVE  ClockInv'
<1>1. /\ run \in Run /\ ClockInv
      /\ run.clock \in Nat /\ run.timer \in Nat
      /\ RunLimit \in Nat /\ SetupLimit \in Nat /\ RemoveLimit \in Nat
    BY ExecutorAssumption DEF ExecutorInv, Typed, Run
<1>2. CASE UNCHANGED <<judge, run>>
    BY <1>1, <1>2 DEF ClockInv
<1>3. CASE run' = Resting
    BY <1>1, <1>3, RestingType DEF ClockInv
<1>4. ASSUME NEW outcome, run' = Over(outcome), judge = "ready", judge' = judge,
             run.phase \in {"copying", "waiting"}
      PROVE  ClockInv'
    <2>1. run'.phase = "removing" /\ run'.timer = 0 /\ run'.clock = run.clock
        BY <1>1, <1>4 DEF Over, Run
    <2> QED BY <1>1, <1>4, <2>1 DEF ClockInv
<1>5. ASSUME run' = Broken, judge = "ready", judge' = judge,
             run.phase \in {"creating", "attaching", "starting", "copying", "waiting"}
      PROVE  ClockInv'
    <2>1. run'.phase = "removing" /\ run'.timer = 0 /\ run'.clock = run.clock
        BY <1>1, <1>5 DEF Broken, Run
    <2> QED BY <1>1, <1>5, <2>1 DEF ClockInv
<1>6. CASE Inspected \/ Created \/ Attached \/ CopyEnds \/ Started
    <2>1. /\ judge = "ready" /\ judge' = judge /\ run'.clock = run.clock
          /\ \/ run.phase = "inspecting" /\ run'.phase = "creating" /\ run'.timer = 0
             \/ run.phase = "creating" /\ run'.phase = "attaching" /\ run'.timer = run.timer
             \/ run.phase = "attaching" /\ run'.phase = "starting" /\ run'.timer = run.timer
             \/ run.phase = "starting" /\ run'.phase = "copying"
             \/ run.phase = "copying" /\ run'.phase = "waiting"
        BY <1>1, <1>6 DEF Inspected, Created, Attached, CopyEnds, Started, Starts, RunOnly, At, Run
    <2> QED BY <1>1, <2>1 DEF ClockInv
<1>7. CASE InspectFails
    <2>1. /\ judge = "ready" /\ judge' = judge /\ run.phase = "inspecting"
          /\ run'.clock = run.clock /\ run'.phase = "returning"
        BY <1>1, <1>7 DEF InspectFails, RunOnly, At, Broken, Run
    <2> QED BY <1>1, <2>1 DEF ClockInv
<1>8. CASE CreateFails \/ AttachFails \/ StartFails \/ CopyFails
    <2>1. /\ judge = "ready" /\ judge' = judge /\ run' = Broken
          /\ run.phase \in {"creating", "attaching", "starting", "copying", "waiting"}
        BY <1>8 DEF CreateFails, AttachFails, StartFails, CopyFails, RunOnly, Starts, At
    <2> QED BY <1>5, <2>1
<1>9. CASE Exited
    <2>1. /\ judge = "ready" /\ judge' = judge /\ run.phase = "waiting"
          /\ \E outcome : run' = Over(outcome)
        BY <1>9 DEF Exited, RunOnly, At
    <2> QED BY <1>4, <2>1
<1>10. CASE Copies
    <2>1. PICK stream \in {"json", "stdout", "stderr"} : Copied(stream)
        BY <1>10 DEF Copies
    <2>2. CASE fits(run.bytes)
        <3>1. /\ judge' = judge /\ run'.clock = run.clock /\ run'.phase = run.phase
              /\ run.phase = "copying" /\ judge = "ready"
            BY <1>1, <2>1, <2>2 DEF Copied, RunOnly, At, Run
        <3> QED BY <1>1, <3>1 DEF ClockInv
    <2>3. CASE ~fits(run.bytes)
        <3>1. /\ judge' = judge /\ judge = "ready" /\ run' = Over(failed("output limit"))
              /\ run.phase = "copying"
            BY <2>1, <2>3 DEF Copied, RunOnly, At
        <3> QED BY <1>4, <3>1
    <2> QED BY <2>2, <2>3
<1>11. CASE Tick
    <2>1. /\ judge' = judge /\ run'.phase = run.phase /\ run.phase # "idle"
          /\ run'.clock = Later(run.clock)
          /\ run'.timer = IF run.phase \in Timed THEN Later(run.timer) ELSE run.timer
        BY <1>1, <1>11 DEF Tick, Run
    <2>2. judge = "ready"
        BY <1>1, <2>1 DEF ClockInv
    <2>3. run'.clock <= run.clock + 1 /\ run'.clock \in Nat
        BY <1>1, <2>1 DEF Later, AllLimits
    <2>4. CASE run.phase \in Timed
        <3>1. run'.timer = run.timer + 1
            BY <1>1, <2>1, <2>4 DEF Later, AllLimits, Timed, ClockInv
        <3> QED BY <1>1, <1>11, <2>1, <2>2, <2>3, <2>4, <3>1
                DEF Tick, Urgent, setupExpired, ClockInv, Timed
    <2>5. CASE run.phase \notin Timed
        <3>1. run.clock < RunLimit /\ run.phase \in {"inspecting", "starting", "copying", "waiting"}
            BY <1>1, <1>11, <2>1, <2>2, <2>5 DEF Tick, Urgent, runCtxDone, Timed, Run
        <3> QED BY <1>1, <2>1, <2>2, <2>3, <3>1 DEF ClockInv
    <2> QED BY <2>4, <2>5
<1>12. CASE Stop
    <2>1. judge' = judge /\ run'.phase = run.phase /\ run'.clock = run.clock /\ run'.timer = run.timer
        BY <1>1, <1>12 DEF Stop, Run
    <2> QED BY <1>1, <2>1 DEF ClockInv
<1>13. CASE JudgeStops \/ Removed \/ RemoveFails \/ Returns
    BY <1>3, <1>13 DEF JudgeStops, Removed, RemoveFails, Returns, Idles
<1>14. CASE Preparing
    <2>1. judge # "ready" /\ run' = run
        BY <1>14 DEF Preparing, Prepare, PrepareFails, Prepared, RemoveLeftover
    <2> QED BY <1>1, <2>1 DEF ClockInv
<1>15. ASSUME NEW kind \in Kind, NEW mode \in Mode, Begin(kind, mode) PROVE ClockInv'
    <2>1. /\ judge' = judge /\ judge = "ready"
          /\ run'.phase = "inspecting" /\ run'.clock = 0
        BY <1>15 DEF Begin, At, NewRun
    <2> QED BY <1>1, <2>1 DEF ClockInv
<1>16. CASE GraderRuns
    BY <1>2, <1>16 DEF GraderRuns
<1>17. ASSUME NEW n \in Name, CreatedLate(n) \/ Ended(n) PROVE ClockInv'
    BY <1>2, <1>17 DEF CreatedLate, Ended
<1>18. CASE UNCHANGED vars
    BY <1>2, <1>18 DEF vars
<1> QED BY <1>6, <1>7, <1>8, <1>9, <1>10, <1>11, <1>12, <1>13, <1>14, <1>15, <1>16, <1>17, <1>18
        DEF Next, Answers, Failures

----------------------------------------------------------------------------
(* What the judge knows of the execution.                                  *)

CauseFacts == CauseInv /\ CauseIsTrue /\ ReadIsTrue

LEMMA NothingRead == run'.outcome \notin {"result", "invalid result"} => ReadIsTrue'
BY DEF ReadIsTrue, AcceptedIsComplete, InvalidHasCause, accepted

LEMMA ReadStays ==
    ASSUME ReadIsTrue, run'.outcome = run.outcome, grader' = grader, wrote' = wrote
    PROVE  ReadIsTrue'
BY DEF ReadIsTrue, AcceptedIsComplete, InvalidHasCause, accepted, interfered, cases

LEMMA AtRest == run' = Resting /\ wrote' \in Output => CauseFacts'
<1> SUFFICES ASSUME run' = Resting, wrote' \in Output PROVE CauseFacts'
    OBVIOUS
<1>1. /\ run'.phase = "idle" /\ run'.outcome = "none" /\ run'.bytes = 0
      /\ run'.read = [json |-> 0, stdout |-> 0, stderr |-> 0]
    BY DEF Resting, NewRun, NoOutput
<1>2. \A stream \in {"json", "stdout", "stderr"} : 0 <= wrote'[stream]
    BY GraderAssumption DEF Output
<1> QED BY <1>1, <1>2, NothingRead DEF CauseFacts, CauseInv, CauseIsTrue

\* Only the phase, the clock or Stop's mark changes, and the outcome is still open.
LEMMA StillOpen ==
    ASSUME run \in Run, CauseFacts, run.outcome = "none",
           run'.outcome = "none", run'.read = run.read, run'.bytes = run.bytes, wrote' = wrote,
           run'.phase \in {"inspecting", "creating", "attaching", "starting"} =>
               grader' = grader /\ run.phase \in {"inspecting", "creating", "attaching", "starting"},
           run'.phase = "waiting" => runCtxDone' \/ run.read = wrote
    PROVE  CauseFacts'
<1>1. CauseInv'
    BY DEF CauseFacts, CauseInv
<1>2. CauseIsTrue' /\ ReadIsTrue'
    BY NothingRead DEF CauseIsTrue
<1> QED BY <1>1, <1>2 DEF CauseFacts

\* The execution is over: its outcome is what happened.
LEMMA NowOver ==
    ASSUME run \in Run, CauseInv, NEW outcome, NEW failures \in BOOLEAN, NEW phase \in {"removing", "returning"},
           run'.outcome = outcome, run'.phase = phase, run'.read = run.read, run'.bytes = run.bytes,
           run'.stopped = run.stopped, run'.clock = run.clock, run'.failures = failures,
           wrote' = wrote, grader'.exit = grader.exit, grader'.oom = grader.oom,
           outcome = "canceled" => run.stopped,
           outcome = "timed out" => run.clock >= RunLimit,
           outcome = "output limit" => Written > MaxOutput,
           outcome = "out of memory" => grader.oom,
           outcome = "container failed" => failures \/ grader.exit # 0,
           outcome \in {"result", "invalid result"} => Written <= MaxOutput /\ grader.exit = 0,
           outcome \in {"result", "invalid result"} => ReadIsTrue'
    PROVE  CauseFacts'
<1>1. CauseInv'
    BY DEF CauseInv
<1>2. Written' = Written
    BY DEF Written
<1>3. CauseIsTrue' /\ ReadIsTrue'
    BY <1>2, NothingRead DEF CauseIsTrue
<1> QED BY <1>1, <1>3 DEF CauseFacts

\* A failure before the limit is Docker's; after it, the limit or a Stop is blamed.
LEMMA NowBroken ==
    ASSUME run \in Run, CauseInv, NEW phase \in {"removing", "returning"},
           run' = [Broken EXCEPT !.phase = phase],
           wrote' = wrote, grader'.exit = grader.exit, grader'.oom = grader.oom
    PROVE  CauseFacts'
<1> DEFINE outcome == failed("docker")
           failures == run.failures \/ ~runCtxDone
<1>1. /\ run'.outcome = outcome /\ run'.phase = phase /\ run'.failures = failures
      /\ run'.read = run.read /\ run'.bytes = run.bytes
      /\ run'.stopped = run.stopped /\ run'.clock = run.clock
    BY DEF Broken, Run
<1>2. /\ outcome \in {"canceled", "timed out", "container failed"}
      /\ outcome = "canceled" => run.stopped
      /\ outcome = "timed out" => run.clock >= RunLimit
      /\ outcome = "container failed" => failures
    BY DEF failed, runCtxDone
<1>3. failures \in BOOLEAN
    BY DEF Run, runCtxDone
<1> HIDE DEF outcome, failures
<1> QED BY <1>1, <1>2, <1>3, NowOver

LEMMA OutputGrows ==
    ASSUME grader \in Program, wrote \in Output, GraderInv, GraderNext
    PROVE  \A stream \in {"json", "stdout", "stderr"} : wrote[stream] <= wrote'[stream]
<1>1. wrote.json \in Nat /\ wrote.stdout \in Nat /\ wrote.stderr \in Nat
    BY GraderAssumption DEF Output
<1>2. CASE UNCHANGED wrote
    BY <1>1, <1>2
<1>3. CASE PrintResult
    <2>1. wrote.json = 0
        BY <1>1, <1>3 DEF PrintResult, GraderInv
    <2>2. PICK size \in 1..MaxWritten : wrote' = [wrote EXCEPT !.json = size]
        BY <1>3 DEF PrintResult
    <2> QED BY <1>1, <2>1, <2>2, GraderAssumption DEF Output
<1>4. CASE CodeWrites
    BY <1>1, <1>4 DEF CodeWrites, Output
<1>5. CASE Diagnoses
    BY <1>1, <1>5 DEF Diagnoses, Output
<1>6. CASE \/ Reads \/ compile \/ launch \/ OpenCase \/ OpenFails \/ CloseCase \/ TextFails \/ Finish
           \/ Checked \/ PrintFails \/ LeftoverEnds \/ CodeAlters \/ CodeExits \/ OutOfMemory
    BY <1>2, <1>6 DEF Reads, compile, launch, OpenCase, OpenFails, CloseCase, TextFails, Finish, Checked,
                      PrintFails, LeftoverEnds, CodeAlters, CodeExits, OutOfMemory
<1> QED BY <1>3, <1>4, <1>5, <1>6 DEF GraderNext, GraderSteps, CodeSteps

LEMMA CopiedKeepsCause ==
    ASSUME ExecutorInv, NEW stream \in {"json", "stdout", "stderr"}, Copied(stream)
    PROVE  CauseFacts'
<1>1. /\ run \in Run /\ CauseInv /\ run.phase = "copying" /\ run.outcome = "none"
      /\ run.read[stream] < wrote[stream]
      /\ grader' = grader /\ wrote' = wrote
    BY DEF ExecutorInv, Typed, Copied, At, RunOnly, graderVars, CauseInv
<1>2. /\ run.bytes = run.read.json + run.read.stdout + run.read.stderr /\ run.bytes \in Nat
      /\ run.read.json <= wrote.json /\ run.read.stdout <= wrote.stdout
      /\ run.read.stderr <= wrote.stderr
    BY <1>1, ExecutorAssumption DEF CauseInv, Run
<1>3. /\ run.read \in [json : Nat, stdout : Nat, stderr : Nat]
      /\ wrote.json \in Nat /\ wrote.stdout \in Nat /\ wrote.stderr \in Nat
    BY <1>1, GraderAssumption DEF Run, Output, ExecutorInv, Typed
<1>4. CASE fits(run.bytes)
    <2> DEFINE read == [run.read EXCEPT ![stream] = @ + 1]
    <2>1. run' = [run EXCEPT !.bytes = @ + 1, !.read = read]
        BY <1>1, <1>4 DEF Copied, RunOnly, Run
    <2>2. /\ run.bytes + 1 = read.json + read.stdout + read.stderr
          /\ \A s \in {"json", "stdout", "stderr"} : read[s] <= wrote[s]
        <3>1. CASE stream = "json"
            BY <1>1, <1>2, <1>3, <3>1
        <3>2. CASE stream = "stdout"
            BY <1>1, <1>2, <1>3, <3>2
        <3>3. CASE stream = "stderr"
            BY <1>1, <1>2, <1>3, <3>3
        <3> QED BY <3>1, <3>2, <3>3
    <2> HIDE DEF read
    <2>3. /\ run'.bytes = run.bytes + 1 /\ run'.read = read /\ run'.outcome = "none"
          /\ run'.phase = "copying"
        BY <1>1, <2>1 DEF Run
    <2> QED BY <1>1, <2>2, <2>3, NothingRead DEF CauseFacts, CauseInv, CauseIsTrue
<1>5. CASE ~fits(run.bytes)
    <2> DEFINE outcome == failed("output limit")
    <2>1. /\ run'.outcome = outcome /\ run'.phase = "removing" /\ run'.failures = run.failures
          /\ run'.read = run.read /\ run'.bytes = run.bytes
          /\ run'.stopped = run.stopped /\ run'.clock = run.clock
        BY <1>1, <1>5 DEF Copied, RunOnly, Over, Run
    <2>2. outcome \in {"canceled", "output limit"} /\ (outcome = "canceled" => run.stopped)
        BY DEF failed
    <2>3. Written > MaxOutput
        <3>1. run.bytes >= MaxOutput
            BY <1>2, <1>5, ExecutorAssumption DEF fits
        <3>2. run.read.json + run.read.stdout + run.read.stderr < wrote.json + wrote.stdout + wrote.stderr
            BY <1>1, <1>2, <1>3
        <3> QED BY <1>2, <1>3, <3>1, <3>2, ExecutorAssumption DEF Written
    <2>4. run.failures \in BOOLEAN
        BY <1>1 DEF Run
    <2> HIDE DEF outcome
    <2> QED BY <1>1, <2>1, <2>2, <2>3, <2>4, NowOver
<1> QED BY <1>4, <1>5

\* Reading is over before the limit: nothing of the output is missing, and none was too much.
LEMMA ExitedKeepsCause ==
    ASSUME ExecutorInv, Exited
    PROVE  CauseFacts'
<1>1. /\ run \in Run /\ CauseInv /\ GraderInv /\ run.phase = "waiting"
      /\ grader' = grader /\ wrote' = wrote /\ grader \in Program /\ wrote \in Output
    BY DEF ExecutorInv, Typed, Exited, At, RunOnly, graderVars
<1>2. ASSUME NEW outcome, run' = Over(outcome),
             outcome = "canceled" => run.stopped,
             outcome = "timed out" => run.clock >= RunLimit,
             outcome # "output limit",
             outcome = "out of memory" => grader.oom,
             outcome = "container failed" => grader.exit # 0,
             outcome \in {"result", "invalid result"} => Written <= MaxOutput /\ grader.exit = 0,
             outcome \in {"result", "invalid result"} => Graded(outcome) /\ run.read = wrote
      PROVE  CauseFacts'
    <2>1. /\ run'.outcome = outcome /\ run'.phase = "removing" /\ run'.failures = run.failures
          /\ run'.read = run.read /\ run'.bytes = run.bytes
          /\ run'.stopped = run.stopped /\ run'.clock = run.clock /\ run.failures \in BOOLEAN
        BY <1>1, <1>2 DEF Over, Run
    <2>2. ASSUME outcome \in {"result", "invalid result"} PROVE ReadIsTrue'
        <3>1. /\ GraderInv' /\ grader' \in Program /\ wrote' \in Output
              /\ (grader.altered \/ wrote.stdout > 0) = interfered'
            BY <1>1 DEF GraderInv, interfered
        <3>2. CASE interfered
            BY <1>1, <2>1, <3>2 DEF ReadIsTrue, AcceptedIsComplete, InvalidHasCause, interfered
        <3>3. CASE ~interfered /\ outcome = "result"
            <4>1. grader.failed # "text" => Len(grader.entries) = cases
                BY <1>2, <2>2, <3>3 DEF Graded, counted
            <4> QED BY <1>1, <2>1, <3>3, <4>1
                    DEF ReadIsTrue, AcceptedIsComplete, InvalidHasCause, accepted, GraderInv,
                        Program, Entries, cases
        <3>4. CASE ~interfered /\ outcome = "invalid result"
            <4>1. ~readable(wrote) \/ ~counted
                BY <1>2, <2>2, <3>4 DEF Graded
            <4>2. wrote.json \in Nat
                BY <1>1, GraderAssumption DEF Output
            <4>3. \/ ~grader.whole \/ wrote.json = 0 \/ grader.failed = "blank"
                  \/ \E i \in DOMAIN grader.entries : grader.entries[i].actual # "text"
                <5>1. CASE ~readable(wrote)
                    BY <4>2, <5>1 DEF readable
                <5>2. CASE ~counted /\ wrote.json > 0
                    <6>1. grader.failed # "no"
                        BY <1>1, <5>2, TotalIsExpected DEF counted, GraderInv
                    <6> QED BY <1>1, <5>2, <6>1 DEF counted, Program, Failed
                <5> QED BY <4>1, <4>2, <5>1, <5>2
            <4> QED BY <1>1, <2>1, <3>4, <4>3
                    DEF ReadIsTrue, AcceptedIsComplete, InvalidHasCause, accepted
        <3> QED BY <2>2, <3>2, <3>3, <3>4
    <2> QED BY <1>1, <1>2, <2>1, <2>2, NowOver
<1>3. ASSUME NEW verdict, verdict \in {"result", "invalid result"}, ~runCtxDone, grader.exit = 0,
             Graded(verdict), RunOnly(Over(verdict))
      PROVE  CauseFacts'
    <2>1. run.read = wrote
        BY <1>1, <1>3 DEF CauseInv
    <2>2. /\ wrote.json \in Nat /\ wrote.stdout \in Nat /\ wrote.stderr \in Nat
        <3>1. wrote \in Output
            BY <1>1
        <3> QED BY <3>1, GraderAssumption DEF Output
    <2>3. Written <= MaxOutput
        <3>1. run.bytes <= MaxOutput /\ run.bytes = run.read.json + run.read.stdout + run.read.stderr
            BY <1>1, ExecutorAssumption DEF CauseInv, Run
        <3> QED BY <2>1, <3>1 DEF Written
    <2> QED BY <1>2, <1>3, <2>1, <2>3 DEF RunOnly
<1>4. CASE ~runCtxDone /\ grader.exit # 0 /\ grader.oom /\ RunOnly(Over("out of memory"))
    BY <1>2, <1>4 DEF RunOnly
<1>5. CASE grader.exit # 0 /\ ~runCtxDone /\ RunOnly(Over(failed("exit")))
    <2>1. failed("exit") = "container failed"
        BY <1>5 DEF failed, runCtxDone
    <2> QED BY <1>2, <1>5, <2>1 DEF RunOnly
<1>6. CASE runCtxDone /\ RunOnly(Over(failed("docker")))
    <2>1. /\ failed("docker") \in {"canceled", "timed out"}
          /\ failed("docker") = "canceled" => run.stopped
          /\ failed("docker") = "timed out" => run.clock >= RunLimit
        BY <1>6 DEF failed, runCtxDone
    <2> QED BY <1>2, <1>6, <2>1 DEF RunOnly
<1> QED BY <1>3, <1>4, <1>5, <1>6 DEF Exited

LEMMA CauseKept ==
    ASSUME ExecutorInv, [Next]_vars
    PROVE  CauseFacts'
<1>1. /\ run \in Run /\ CauseInv /\ CauseFacts /\ ClockInv /\ GraderInv
      /\ grader \in Program /\ wrote \in Output
    BY DEF ExecutorInv, Typed, CauseFacts
<1>2. CASE UNCHANGED <<run, grader, wrote>>
    <2>1. CauseInv' /\ CauseIsTrue'
        BY <1>1, <1>2 DEF CauseFacts, CauseInv, CauseIsTrue, runCtxDone, Written
    <2>2. ReadIsTrue'
        BY <1>1, <1>2, ReadStays DEF CauseFacts
    <2> QED BY <2>1, <2>2 DEF CauseFacts
<1>3. CASE JudgeStops \/ Removed \/ RemoveFails \/ Returns
    BY <1>3, AtRest, NoOutputType DEF JudgeStops, Removed, RemoveFails, Returns, Idles
<1>4. ASSUME NEW kind \in Kind, NEW mode \in Mode, Begin(kind, mode) PROVE CauseFacts'
    <2>1. /\ run'.phase = "inspecting" /\ run'.outcome = "none" /\ run'.bytes = 0
          /\ run'.read = NoOutput /\ wrote' = NoOutput /\ grader' = NoProgram(kind, mode)
        BY <1>4 DEF Begin, NewRun
    <2>2. grader' = NoProgram(grader'.kind, grader'.mode)
        BY <2>1 DEF NoProgram, NewGrader
    <2> QED BY <2>1, <2>2, NoOutputType, NothingRead DEF CauseFacts, CauseInv, CauseIsTrue, NoOutput
<1>5. CASE Stop
    <2>1. /\ run' = [run EXCEPT !.stopped = TRUE] /\ wrote' = wrote /\ grader' = grader
          /\ run.phase \notin {"idle", "removing", "returning"}
        BY <1>5 DEF Stop, graderVars
    <2>2. /\ run'.outcome = "none" /\ run'.read = run.read /\ run'.bytes = run.bytes
          /\ run'.phase = run.phase /\ run.outcome = "none" /\ run'.stopped
        BY <1>1, <2>1 DEF CauseInv, Run
    <2>3. run'.phase = "waiting" => runCtxDone'
        BY <2>2 DEF runCtxDone
    <2> QED BY <1>1, <2>1, <2>2, <2>3, StillOpen
<1>6. CASE Inspected \/ Attached \/ CopyEnds \/ Created
    <2>1. /\ run.outcome = "none" /\ run'.outcome = "none" /\ run'.read = run.read
          /\ run'.bytes = run.bytes /\ run'.stopped = run.stopped /\ run'.clock = run.clock
          /\ wrote' = wrote /\ grader' = grader
        BY <1>1, <1>6 DEF Inspected, Attached, CopyEnds, Created, RunOnly, At, CauseInv, Run, graderVars
    <2>2. \/ run.phase = "inspecting" /\ run'.phase = "creating"
          \/ run.phase = "creating" /\ run'.phase = "attaching"
          \/ run.phase = "attaching" /\ run'.phase = "starting"
          \/ run'.phase = "waiting" /\ (runCtxDone \/ run.read = wrote)
        BY <1>1, <1>6 DEF Inspected, Attached, CopyEnds, Created, RunOnly, At, Run
    <2>3. runCtxDone' = runCtxDone
        BY <2>1 DEF runCtxDone
    <2> QED BY <1>1, <2>1, <2>2, <2>3, StillOpen
<1>7. CASE Started
    <2>1. /\ run.outcome = "none" /\ run'.outcome = "none" /\ run'.read = run.read
          /\ run'.bytes = run.bytes /\ run'.phase = "copying" /\ wrote' = wrote
        BY <1>1, <1>7 DEF Started, Starts, At, CauseInv, Run
    <2> QED BY <1>1, <2>1, StillOpen
<1>8. CASE InspectFails
    BY <1>1, <1>8, NowBroken DEF InspectFails, RunOnly, graderVars
<1>9. CASE CreateFails \/ AttachFails \/ StartFails \/ CopyFails
    <2>1. Broken = [Broken EXCEPT !.phase = "removing"]
        BY <1>1 DEF Broken, Run
    <2>2. /\ run' = Broken /\ wrote' = wrote
          /\ grader' = grader \/ grader' = [grader EXCEPT !.phase = @]
        BY <1>9 DEF CreateFails, AttachFails, StartFails, CopyFails, RunOnly, Starts, graderVars
    <2>3. grader'.exit = grader.exit /\ grader'.oom = grader.oom
        BY <1>1, <2>2 DEF Program
    <2> QED BY <1>1, <2>1, <2>2, <2>3, NowBroken
<1>10. CASE Copies
    BY <1>10, CopiedKeepsCause DEF Copies
<1>11. CASE Exited
    BY <1>11, ExitedKeepsCause
<1>12. CASE GraderRuns
    <2>1. run' = run /\ run.phase = "copying" /\ run.outcome = "none" /\ GraderNext
        BY <1>1, <1>12 DEF GraderRuns, Follows, At, CauseInv
    <2>2. wrote' \in Output
        BY <1>1, <2>1, GraderKeepsType
    <2>3. \A stream \in {"json", "stdout", "stderr"} : run.read[stream] <= wrote'[stream]
        <3>1. \A stream \in {"json", "stdout", "stderr"} :
                  /\ run.read[stream] \in Nat /\ wrote[stream] \in Nat /\ wrote'[stream] \in Nat
                  /\ run.read[stream] <= wrote[stream]
            BY <1>1, <2>2, GraderAssumption DEF Run, Output, CauseInv
        <3> QED BY <1>1, <2>1, <3>1, OutputGrows
    <2> QED BY <1>1, <2>1, <2>3, NothingRead DEF CauseFacts, CauseInv, CauseIsTrue
<1>13. CASE Tick
    <2>1. /\ run'.phase = run.phase /\ run'.outcome = run.outcome /\ run'.read = run.read
          /\ run'.bytes = run.bytes /\ run'.stopped = run.stopped
          /\ run'.failures = run.failures /\ run'.clock = Later(run.clock)
          /\ wrote' = wrote /\ grader' = grader
        BY <1>1, <1>13 DEF Tick, Run, graderVars
    <2>2. run.clock \in Nat /\ run'.clock \in Nat /\ run.clock <= run'.clock
        BY <1>1, <2>1 DEF Later, Run
    <2>3. runCtxDone => runCtxDone'
        BY <2>1, <2>2, ExecutorAssumption DEF runCtxDone
    <2>4. CauseInv'
        BY <1>1, <2>1, <2>3 DEF CauseInv
    <2>5. CauseIsTrue'
        <3>1. run.clock >= RunLimit => run'.clock >= RunLimit
            BY <2>2, ExecutorAssumption
        <3>2. Written' = Written
            BY <2>1 DEF Written
        <3> QED BY <1>1, <2>1, <3>1, <3>2 DEF CauseFacts, CauseIsTrue
    <2> QED BY <1>1, <2>1, <2>4, <2>5, ReadStays DEF CauseFacts
<1>14. CASE Preparing
    BY <1>2, <1>14 DEF Preparing, Prepare, PrepareFails, Prepared, RemoveLeftover, graderVars
<1>15. ASSUME NEW n \in Name, CreatedLate(n) \/ Ended(n) PROVE CauseFacts'
    BY <1>2, <1>15 DEF CreatedLate, Ended, graderVars
<1>16. CASE UNCHANGED vars
    BY <1>2, <1>16 DEF vars, graderVars
<1> QED BY <1>3, <1>4, <1>5, <1>6, <1>7, <1>8, <1>9, <1>10, <1>11, <1>12, <1>13, <1>14, <1>15, <1>16
        DEF Next, Answers, Failures

----------------------------------------------------------------------------
(* Leftovers.                                                              *)

\* A container only gets old when the judge stops, and then it is listed before the next is ready.
LEMMA OldInvKept ==
    ASSUME ExecutorInv, [Next]_vars
    PROVE  OldInv'
<1>1. /\ containers \in [Name -> Container] /\ OldInv /\ run.name \in Name
      /\ judge \in {"down", "preparing", "ready"} /\ ClockInv
    BY DEF ExecutorInv, Typed, Run
<1>2. CASE UNCHANGED <<containers, judge, listed>>
    BY <1>1, <1>2 DEF OldInv
<1>3. ASSUME NEW n \in Name, NEW state \in {"none", "creating", "still", "running"},
             ~containers[n].old,
             containers' = [containers EXCEPT ![n].state = state],
             UNCHANGED <<judge, listed>>
      PROVE  OldInv'
    BY <1>1, <1>3 DEF OldInv, Container
<1>4. ASSUME NEW n \in Name, containers' = [containers EXCEPT ![n] = NoContainer],
             judge' = judge, listed' = listed \/ listed' = listed \ {n}
      PROVE  OldInv'
    BY <1>1, <1>4 DEF OldInv, Container, NoContainer
<1>5. CASE Prepare \/ PrepareFails
    <2>1. \A n \in Name : containers[n].old => n \in Leftovers
        BY <1>1 DEF OldInv, Container, Leftovers, Exists
    <2> QED BY <1>1, <1>5, <2>1 DEF Prepare, PrepareFails, OldInv
<1>6. CASE Prepared
    BY <1>1, <1>6 DEF Prepared, OldInv
<1>7. ASSUME NEW n \in Name, RemoveLeftover(n) PROVE OldInv'
    BY <1>4, <1>7 DEF RemoveLeftover
<1>8. CASE JudgeStops
    <2>1. PICK done \in SUBSET {n \in Name : containers[n].state = "creating"} :
              containers' = [n \in Name |->
                  CASE containers[n].state = "none" -> NoContainer
                    [] containers[n].state = "creating" ->
                           IF n \in done THEN [NoContainer EXCEPT !.state = "still", !.old = TRUE]
                                         ELSE NoContainer
                    [] OTHER -> [containers[n] EXCEPT !.old = TRUE]]
        BY <1>8 DEF JudgeStops
    <2>2. \A n \in Name : containers'[n].state \in {"none", "creating"} => ~containers'[n].old
        BY <1>1, <2>1 DEF Container, NoContainer
    <2> QED BY <1>8, <2>2 DEF JudgeStops, OldInv
<1>9. CASE Created \/ CreateFails \/ Started \/ StartFails \/ GraderRuns
    <2>1. ~containers[run.name].old /\ UNCHANGED <<judge, listed>>
        BY <1>1, <1>9 DEF Created, CreateFails, Started, StartFails, Starts, RunOnly, GraderRuns,
                          Follows, At, OldInv
    <2>2. \/ UNCHANGED containers
          \/ \E state \in {"none", "creating", "still", "running"} :
                 containers' = [containers EXCEPT ![run.name].state = state]
        BY <1>1, <1>9 DEF Created, CreateFails, Started, StartFails, Starts, RunOnly, GraderRuns, Container
    <2> QED BY <1>1, <1>2, <1>3, <2>1, <2>2
<1>10. ASSUME NEW n \in Name, CreatedLate(n) PROVE OldInv'
    BY <1>1, <1>3, <1>10 DEF CreatedLate, OldInv
<1>11. ASSUME NEW n \in Name, Ended(n) PROVE OldInv'
    BY <1>1, <1>11 DEF Ended, OldInv, Container
<1>12. CASE Removed
    <2>1. UNCHANGED <<judge, listed>>
        BY <1>12 DEF Removed, Idles
    <2>2. CASE containers[run.name].state = "creating"
        <3>1. containers' = containers
            BY <1>1, <1>12, <2>2 DEF Removed, Container
        <3> QED BY <1>2, <2>1, <3>1
    <2>3. CASE containers[run.name].state # "creating"
        <3>1. containers' = [containers EXCEPT ![run.name] = NoContainer]
            BY <1>12, <2>3 DEF Removed
        <3> QED BY <1>1, <1>4, <2>1, <3>1
    <2> QED BY <2>2, <2>3
<1>13. CASE Inspected \/ Attached \/ CopyEnds \/ Exited \/ InspectFails \/ AttachFails \/ CopyFails
            \/ RemoveFails \/ Returns \/ Stop \/ Tick \/ Copies \/ UNCHANGED vars
    BY <1>2, <1>13 DEF Inspected, Attached, CopyEnds, Exited, InspectFails, AttachFails, CopyFails,
                       RemoveFails, Returns, Idles, Stop, Tick, Copies, Copied, RunOnly, vars
<1>14. ASSUME NEW kind \in Kind, NEW mode \in Mode, Begin(kind, mode) PROVE OldInv'
    BY <1>2, <1>14 DEF Begin
<1> QED BY <1>5, <1>6, <1>7, <1>8, <1>9, <1>10, <1>11, <1>12, <1>13, <1>14
        DEF Next, Preparing, Answers, Failures

----------------------------------------------------------------------------
(* The theorems.                                                           *)

LEMMA InitInv == Init => ExecutorInv
<1> SUFFICES ASSUME Init PROVE ExecutorInv
    OBVIOUS
<1>1. Typed
    BY IdleType, NoOutputType, RestingType DEF Init, Typed, Container, NoContainer
<1>2. GraderInv
    BY NoOutputType DEF Init, Idle, NoProgram, NewGrader, GraderInv
<1>3. ClockInv
    BY RestingType, ExecutorAssumption DEF Init, ClockInv
<1>4. CauseInv /\ CauseIsTrue /\ ReadIsTrue
    BY NoOutputType DEF Init, Resting, NewRun, CauseInv, CauseIsTrue, ReadIsTrue, AcceptedIsComplete,
                        accepted, InvalidHasCause, NoOutput
<1>5. OldInv
    BY DEF Init, OldInv, NoContainer
<1> QED BY <1>1, <1>2, <1>3, <1>4, <1>5 DEF ExecutorInv

LEMMA NextInv == ExecutorInv /\ [Next]_vars => ExecutorInv'
<1> SUFFICES ASSUME ExecutorInv, [Next]_vars PROVE ExecutorInv'
    OBVIOUS
<1>1. Typed'
    <2>1. Typed
        BY DEF ExecutorInv
    <2>2. CASE UNCHANGED vars
        BY <2>1, <2>2 DEF Typed, vars, graderVars
    <2> QED BY <2>1, <2>2, AnswersKeepType, OthersKeepType DEF Next
<1> QED BY <1>1, GraderInvKept, ClockInvKept, CauseKept, OldInvKept DEF ExecutorInv, CauseFacts

\* Where the execution is, how long it took and what is known of it, at any time.
THEOREM ExecutorInvariant == Spec => []ExecutorInv
BY InitInv, NextInv, PTL DEF Spec

\* The variables keep their types: the output counted never exceeds the limit.
THEOREM TypeCorrect == Spec => []TypeOK
<1>1. ExecutorInv => TypeOK
    BY TypedIsTypeOK DEF ExecutorInv
<1> QED BY <1>1, ExecutorInvariant, PTL

\* However the grading breaks off, and for any number of cases: what is accepted has a passing entry
\* for each case, unless the code has changed or bypassed the grader.
THEOREM NothingIncompleteIsAccepted == Spec => []AcceptedIsComplete
<1>1. ExecutorInv => AcceptedIsComplete
    BY DEF ExecutorInv, ReadIsTrue
<1> QED BY <1>1, ExecutorInvariant, PTL

\* What an execution ends with is what happened.
THEOREM NoFalseBlame == Spec => []CauseIsTrue
<1>1. ExecutorInv => CauseIsTrue
    BY DEF ExecutorInv
<1> QED BY <1>1, ExecutorInvariant, PTL

\* Judge and graders agree on the number of cases: what else makes a result invalid is a text cut
\* inside a character, or what the code has done.
THEOREM GradersKeepTheContract == Spec => []InvalidHasCause
<1>1. ExecutorInv => InvalidHasCause
    BY DEF ExecutorInv, ReadIsTrue
<1> QED BY <1>1, ExecutorInvariant, PTL

\* A judge that executes anything has removed what an earlier one left.
THEOREM NothingIsLeftOver == Spec => []ReadyIsClean
<1>1. ExecutorInv => ReadyIsClean
    BY DEF ExecutorInv, OldInv, ReadyIsClean
<1> QED BY <1>1, ExecutorInvariant, PTL

\* The slot is free again within the sum of the three limits.
THEOREM LimitsAddUp == Spec => []EndsWithinLimits
<1>1. ExecutorInv => EndsWithinLimits
    <2> SUFFICES ASSUME ExecutorInv PROVE EndsWithinLimits
        OBVIOUS
    <2>1. run \in Run /\ ClockInv
        BY DEF ExecutorInv, Typed
    <2>2. run.clock \in Nat /\ run.timer \in Nat
        BY <2>1 DEF Run
    <2> QED BY <2>1, <2>2, ExecutorAssumption DEF ClockInv, EndsWithinLimits, AllLimits, Run
<1> QED BY <1>1, ExecutorInvariant, PTL

=============================================================================
