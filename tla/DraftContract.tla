--------------------------- MODULE DraftContract ---------------------------
(***************************************************************************)
(* What autosave promises about the code of a problem, with no mention of  *)
(* timers, retries, revisions, reads or rows.  The comments of             *)
(* src/lib/progress-store.ts and src/schemas/progress.ts say it in prose.  *)
(*                                                                         *)
(*   - what a reader gets only changes to a newer draft, one that was      *)
(*     typed or submitted, however late and in whatever order drafts       *)
(*     arrive;                                                             *)
(*   - what is typed replaces only what is older in the same tab;          *)
(*   - a tab forgets a draft only when storage has it or something newer,  *)
(*     or when it is closed.                                               *)
(*                                                                         *)
(* ProgressStore implements this module (ProgressStore!Contract).          *)
(***************************************************************************)
EXTENDS Naturals

CONSTANTS Tab, Problem, Code, None

VARIABLES
    stored,     \* per problem: the draft that a reader gets
    unsaved,    \* per tab and problem: the draft that storage may not have yet
    travelling  \* what is on its way from a tab to storage: drafts, per problem

vars == <<stored, unsaved, travelling>>

Draft == [at : Nat, value : Code]

nothing == [p \in Problem |-> None]

\* a is as new as b, if there is a b.
AsNew(a, b) == b # None => a # None /\ a.at >= b.at

Init ==
    /\ stored = nothing
    /\ unsaved = [t \in Tab |-> nothing]
    /\ travelling = {}

\* A newer draft of one problem.
Type(t, p) ==
    /\ unsaved'[t][p] \in Draft
    /\ unsaved[t][p] # None => unsaved'[t][p].at > unsaved[t][p].at
    /\ unsaved' = [unsaved EXCEPT ![t] = [@ EXCEPT ![p] = unsaved'[t][p]]]
    /\ UNCHANGED <<stored, travelling>>

Send(t) ==
    /\ travelling' = travelling \cup {unsaved[t]}
    /\ UNCHANGED <<stored, unsaved>>

\* The same drafts may be on their way more than once.
Gone(drafts) == travelling' \in {travelling, travelling \ {drafts}}

\* Drafts arrive; where storage has one as new, it stays.
Arrive(drafts) ==
    /\ stored' = [p \in Problem |-> IF AsNew(stored[p], drafts[p]) THEN stored[p] ELSE drafts[p]]
    /\ Gone(drafts)
    /\ UNCHANGED unsaved

Lose(drafts) ==
    /\ Gone(drafts)
    /\ UNCHANGED <<stored, unsaved>>

\* The tab learns that storage has some of its drafts, or newer ones.
Confirm(t, problems) ==
    /\ \A p \in problems : AsNew(stored[p], unsaved[t][p])
    /\ unsaved' = [unsaved EXCEPT ![t] = [p \in Problem |-> IF p \in problems THEN None ELSE @[p]]]
    /\ UNCHANGED <<stored, travelling>>

\* The tab is closed; its last drafts may be sent or lost.
Leave(t) ==
    /\ unsaved' = [unsaved EXCEPT ![t] = nothing]
    /\ travelling' \subseteq travelling \cup {unsaved[t]}
    /\ UNCHANGED stored

\* A submission shows as a draft where none is stored, if it is the latest.
Submit(p) ==
    /\ stored'[p] \in Draft
    /\ AsNew(stored'[p], stored[p])
    /\ stored' = [stored EXCEPT ![p] = stored'[p]]
    /\ UNCHANGED <<unsaved, travelling>>

Next ==
    \/ \E t \in Tab :
        \/ \E p \in Problem : Type(t, p)
        \/ \E problems \in SUBSET Problem : Confirm(t, problems)
        \/ Send(t)
        \/ Leave(t)
    \/ \E drafts \in travelling : Arrive(drafts) \/ Lose(drafts)
    \/ \E p \in Problem : Submit(p)

Spec == Init /\ [][Next]_vars

============================================================================
