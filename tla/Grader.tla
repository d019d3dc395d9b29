------------------------------- MODULE Grader -------------------------------
(***************************************************************************)
(* The program in a grading container: grade_submission.py, or             *)
(* grade-submission.mjs with backend-grader.mjs or frontend-grader.mjs.    *)
(* It reads one request, checks the learner's code case by case and prints *)
(* one JSON result.                                                        *)
(*                                                                         *)
(* The learner's code runs inside it, except for frontend exercises, which *)
(* run in a browser: it may return, throw, never return, write where the   *)
(* result goes, leave work behind, change the grader's own objects, or     *)
(* take the whole process down.  Which verdict a check comes to is open,   *)
(* and with it which fixtures it has seen.                                 *)
(***************************************************************************)
EXTENDS Naturals, Sequences

CONSTANTS
    Kind,       \* kinds of graders: "python", "backend", "frontend"
    Cases,      \* how many cases the specification has
    MaxWritten  \* bound: units that the code writes past the grader, and units of a result

ASSUME GraderAssumption ==
    /\ Kind \subseteq {"python", "backend", "frontend"}
    /\ Cases \in Nat \ {0} /\ MaxWritten \in Nat \ {0}

VARIABLES
    grader,     \* the program
    wrote       \* units it wrote: of its result, of other output and of diagnostics

graderVars == <<grader, wrote>>

Mode == {"example", "submit"}

\* A wrong slice: every case is graded for a Run, too.
testsAll(kind, mode) == Cases

tests(kind, mode) ==
    IF kind = "python" THEN (IF mode = "submit" THEN Cases ELSE 1)
                       ELSE (IF mode = "example" THEN 1 ELSE Cases)

NoOutput == [json |-> 0, stdout |-> 0, stderr |-> 0]

\* What is in the place of a text: protojson refuses anything else; some of it cannot be printed.
Actual == {"text", "odd", "unprintable"}

\* case: the one being graded; passed, actual: what its check returned; failed: whether the whole
\* grading failed, with an error that is a text or is empty; left: whether the code left work behind;
\* altered: whether it changed objects that the grader uses; whole: no text of the result was cut, or
\* printed, in the middle of a character.
NewGrader(kind, mode) ==
    [kind |-> kind, mode |-> mode, phase |-> "reading", case |-> 1, passed |-> FALSE,
     actual |-> "text", entries |-> <<>>, failed |-> "no", left |-> FALSE, altered |-> FALSE,
     whole |-> TRUE, exit |-> 0, oom |-> FALSE]

Becomes(phase) == grader' = [grader EXCEPT !.phase = phase]

\* The process is gone.
Gone(exit) ==
    [grader EXCEPT !.phase = "ended", !.exit = exit, !.passed = FALSE, !.actual = "text"]

Ends(exit) == grader' = Gone(exit)

\* The whole grading fails, with the entries it has or without.
GivesUp(error, entries) ==
    grader' = [grader EXCEPT !.phase = "finishing", !.failed = error, !.entries = entries]

Reads ==
    /\ grader.phase = "reading"
    /\ Becomes(IF grader.kind = "python" THEN "opening" ELSE "compiling")
    /\ UNCHANGED wrote

compile ==
    /\ grader.phase = "compiling"
    /\ GivesUp("text", <<>>) \/ Becomes(IF grader.kind = "backend" THEN "opening" ELSE "launching")
    /\ UNCHANGED wrote

launch ==
    /\ grader.phase = "launching"
    /\ GivesUp("text", <<>>) \/ Becomes("opening")
    /\ UNCHANGED wrote

\* What follows the entry of a case.
Entered(passed, actual) ==
    [grader EXCEPT !.entries = Append(@, [case |-> grader.case, passed |-> passed, actual |-> actual]),
                   !.passed = FALSE, !.actual = "text",
                   !.case = IF @ < tests(grader.kind, grader.mode) THEN @ + 1 ELSE @,
                   !.phase = IF grader.case < tests(grader.kind, grader.mode)
                             THEN "opening" ELSE "finishing"]

\* The database, or the page, of a case is there.
OpenCase == grader.phase = "opening" /\ Becomes("checking") /\ UNCHANGED wrote

\* The disk is full, or the browser has crashed.
OpenFails == grader.phase = "opening" /\ grader' = Entered(FALSE, "text") /\ UNCHANGED wrote

\* The code is imported and checked, and returns or throws. Code in a page may change what is handed
\* over as its result, and so may Python's own strings; a backend check returns one of the grader's.
Checked ==
    /\ grader.phase = "checking"
    /\ \E passed \in BOOLEAN, leaves \in BOOLEAN, actual \in Actual :
           /\ leaves => grader.kind # "frontend"
           /\ actual # "text" => grader.kind = "python" \/ (grader.kind = "frontend" /\ passed)
           /\ grader' = [grader EXCEPT !.phase = "closing", !.passed = passed, !.actual = actual,
                                       !.left = @ \/ leaves]
    /\ UNCHANGED wrote

\* The finally of a case; a failure in it is the case's failure.
CloseCase ==
    /\ grader.phase = "closing"
    /\ \/ grader' = Entered(grader.passed, grader.actual)
       \/ grader' = Entered(FALSE, "text")
    /\ UNCHANGED wrote

\* What the code has thrown cannot be turned into a text, and throws again: errorText, or str. The
\* next handler outside has the same trouble, or an empty text; the last one has no entries.
TextFails ==
    /\ grader.phase = "closing" /\ grader.kind # "frontend" /\ ~grader.passed
    /\ \/ grader.kind = "backend" /\ \E error \in {"text", "blank"}, entries \in {grader.entries, <<>>} :
              GivesUp(error, entries)
       \/ grader.kind = "python" /\ GivesUp("text", <<>>)
       \/ Ends(1)
    /\ UNCHANGED wrote

Finish ==
    /\ grader.phase = "finishing"
    /\ Becomes("printing")
    /\ UNCHANGED wrote

\* JavaScript then exits, if it still can; Python waits for threads that the code left behind.
Printed ==
    IF grader.altered \/ (grader.kind = "python" /\ grader.left)
    THEN [grader EXCEPT !.phase = "lingering"] ELSE Gone(0)

\* Texts come from the learner's code, and bounded and append cut them anywhere.
PrintResult ==
    /\ grader.phase = "printing"
    /\ \A i \in DOMAIN grader.entries : grader.entries[i].actual # "unprintable"
    /\ \E size \in 1..MaxWritten : wrote' = [wrote EXCEPT !.json = size]
    /\ \E whole \in BOOLEAN : grader' = [Printed EXCEPT !.whole = whole]

\* Nobody catches it: a BigInt, or an object of Python.
PrintFails ==
    /\ grader.phase = "printing"
    /\ \E i \in DOMAIN grader.entries : grader.entries[i].actual = "unprintable"
    /\ Ends(1)
    /\ UNCHANGED wrote

LeftoverEnds == grader.phase = "lingering" /\ Ends(0) /\ UNCHANGED wrote

GraderSteps ==
    \/ Reads \/ compile \/ launch \/ OpenCase \/ OpenFails \/ CloseCase \/ TextFails \/ Finish
    \/ PrintResult \/ PrintFails \/ LeftoverEnds

\* The learner's code is at work in the grader's own process, if only by what it changed there.
CodeRuns ==
    /\ grader.kind # "frontend"
    /\ grader.phase \in {"checking", "closing"} \/ grader.left \/ grader.altered

CodeAlters ==
    /\ CodeRuns
    /\ grader' = [grader EXCEPT !.altered = TRUE]
    /\ UNCHANGED wrote

\* It exits, or fails where nobody catches it.
CodeExits == CodeRuns /\ (\E exit \in {0, 1} : Ends(exit)) /\ UNCHANGED wrote

CodeWrites ==
    /\ CodeRuns
    /\ wrote.stdout < MaxWritten
    /\ wrote' = [wrote EXCEPT !.stdout = @ + 1]
    /\ UNCHANGED grader

\* Warnings of the runtime.
Diagnoses ==
    /\ wrote.stderr = 0
    /\ wrote' = [wrote EXCEPT !.stderr = 1]
    /\ UNCHANGED grader

\* The container has used up its memory. The kernel kills the grader, or the browser, and then the
\* check fails like any other.
OutOfMemory ==
    /\ grader.phase = "checking" \/ CodeRuns
    /\ \/ grader.kind = "frontend" /\ grader' = [grader EXCEPT !.phase = "closing", !.oom = TRUE]
       \/ grader' = [Gone(137) EXCEPT !.oom = TRUE]
    /\ UNCHANGED wrote

CodeSteps == Checked \/ CodeAlters \/ CodeExits \/ CodeWrites \/ Diagnoses \/ OutOfMemory

GraderNext == grader.phase # "ended" /\ (GraderSteps \/ CodeSteps)

----------------------------------------------------------------------------
(* Properties                                                              *)

GraderTypeOK ==
    /\ grader \in [kind : {"python", "backend", "frontend"}, mode : Mode,
                   phase : {"reading", "compiling", "launching", "opening", "checking", "closing",
                            "finishing", "printing", "lingering", "ended"},
                   case : 1..Cases, passed : BOOLEAN, actual : Actual,
                   entries : Seq([case : 1..Cases, passed : BOOLEAN, actual : Actual]),
                   failed : {"no", "text", "blank"}, left : BOOLEAN, altered : BOOLEAN,
                   whole : BOOLEAN, exit : {0, 1, 137}, oom : BOOLEAN]
    /\ wrote \in [json : 0..MaxWritten, stdout : 0..MaxWritten, stderr : 0..1]

=============================================================================
