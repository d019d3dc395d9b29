--------------------------- MODULE JudgeContract ---------------------------
(***************************************************************************)
(* What the judge promises about every submission, with no mention of      *)
(* rows, leases, slots or machines: proto/judge.proto, the README and the  *)
(* comments of judge/queue.go and judge/store.go state it in prose.        *)
(*                                                                         *)
(*   - a submission is recorded once and ends at most once, in one of      *)
(*     three ways, and what it ended with never changes;                   *)
(*   - at most two executions are ever granted to it;                      *)
(*   - it completes or fails only after an execution was granted;          *)
(*   - a Stop confirmed while it is pending wins over any result.          *)
(*                                                                         *)
(* JobStore implements this module (JobStore!Contract).                    *)
(***************************************************************************)
EXTENDS Naturals

CONSTANT Job

VARIABLES
    outcome,    \* what the world sees of each submission
    stopped,    \* a Stop was confirmed before it ended
    grants      \* executions granted so far

vars == <<outcome, stopped, grants>>

Ends == {"completed", "failed", "canceled"}

MaxGrants == 2

Init ==
    /\ outcome = [j \in Job |-> "none"]
    /\ stopped = [j \in Job |-> FALSE]
    /\ grants = [j \in Job |-> 0]

\* A submission is recorded.
Submit(j) ==
    /\ outcome[j] = "none"
    /\ outcome' = [outcome EXCEPT ![j] = "pending"]
    /\ UNCHANGED <<stopped, grants>>

\* Some judge is allowed to execute the submission.
Grant(j) ==
    /\ outcome[j] = "pending"
    /\ ~stopped[j]
    /\ grants[j] < MaxGrants
    /\ grants' = [grants EXCEPT ![j] = @ + 1]
    /\ UNCHANGED <<outcome, stopped>>

\* Stop: the submission ends at once, or later.
Stop(j) ==
    /\ outcome[j] = "pending"
    /\ ~stopped[j]
    /\ stopped' = [stopped EXCEPT ![j] = TRUE]
    /\ \E now \in {"pending", "canceled"} : outcome' = [outcome EXCEPT ![j] = now]
    /\ UNCHANGED grants

\* A stopped submission can only be canceled; any other one was executed.
End(j, how) ==
    /\ outcome[j] = "pending"
    /\ IF stopped[j] THEN how = "canceled"
                     ELSE how \in {"completed", "failed"} /\ grants[j] > 0
    /\ outcome' = [outcome EXCEPT ![j] = how]
    /\ UNCHANGED <<stopped, grants>>

Next ==
    \E j \in Job :
        \/ Submit(j)
        \/ Grant(j)
        \/ Stop(j)
        \/ \E how \in Ends : End(j, how)

Spec == Init /\ [][Next]_vars

============================================================================
