--------------------------- MODULE ProgressStore ---------------------------
(***************************************************************************)
(* Drafts and stars: the autosave of every open browser tab                *)
(* (src/lib/progress-store.ts, driven by AppProvider), and the server's    *)
(* profile row and submission history (src/server/db/progress.ts).         *)
(*                                                                         *)
(* JavaScript runs one callback at a time, so a step of a tab is what runs *)
(* between two awaits.  A write is one transaction under the profile's row *)
(* lock; a read is two queries without a transaction, hence two steps.     *)
(* A tab's view is always its saved state with the pending changes on top: *)
(* every callback that changes either ends in publish.                     *)
(***************************************************************************)
EXTENDS Naturals, FiniteSets

CONSTANTS
    Tab,            \* browser tabs, on any number of devices
    Problem, Code,
    Now,            \* what Date.now() may answer: the devices' clocks need not agree
    None,           \* no draft, no change
    Fault,          \* the kinds of fault that may happen, see Faults
    MaxFaults,      \* bound: faults in one behaviour
    MaxEdits,       \* bound: edits in one behaviour
    MaxSubmissions, \* bound: finished submissions in one behaviour
    MaxReads        \* bound: refreshes in flight in one tab

Faults == {"refused", "timeout", "late", "read"}

\* The timestamp of a draft is in milliseconds.
Draft == [at : Nat, value : Code]

ASSUME ProgressAssumption ==
    /\ None \notin Draft
    /\ None \notin BOOLEAN
    /\ Now \subseteq Nat
    /\ Fault \subseteq Faults
    /\ {MaxFaults, MaxEdits, MaxSubmissions, MaxReads} \subseteq Nat

VARIABLES
    profile,        \* the profile row
    history,        \* per problem: solved, and the latest submitted code
    late,           \* saves that a tab gave up, but that still may arrive
    tabs,           \* the ProgressStore of each tab
    reads,          \* requests for the state, and their answers
    mine,           \* history: what the user did last in each tab
    edits, submissions, faults

serverVars == <<profile, history, late>>
counters   == <<edits, submissions, faults>>
vars       == <<serverVars, tabs, reads, mine, counters>>

----------------------------------------------------------------------------
(* States and changes, as both sides use them.                             *)

Drafts  == [Problem -> Draft \cup {None}]
State   == [revision : Nat, drafts : Drafts, stars : SUBSET Problem, solved : SUBSET Problem]
Changes == [drafts : Drafts, stars : [Problem -> BOOLEAN \cup {None}]]

noChanges == [drafts |-> [p \in Problem |-> None], stars |-> [p \in Problem |-> None]]

Profile == [revision : Nat, drafts : Drafts, stars : SUBSET Problem]
NewProfile == [revision |-> 0, drafts |-> [p \in Problem |-> None], stars |-> {}]

\* A wrong Newest: a late save replaces newer code.
NewestAsSent(previous, draft) == IF draft # None THEN draft ELSE previous

Newest(previous, draft) ==
    IF draft # None /\ (previous = None \/ draft.at > previous.at) THEN draft ELSE previous

applyProgressChanges(state, changes) ==
    [state EXCEPT
        !.drafts = [p \in Problem |-> Newest(state.drafts[p], changes.drafts[p])],
        !.stars = {p \in Problem : IF changes.stars[p] = None THEN p \in state.stars
                                                              ELSE changes.stars[p]}]

\* A problem submitted without a saved draft shows its latest submitted code.
readState(row, past) ==
    [revision |-> row.revision,
     drafts |-> [p \in Problem |-> IF row.drafts[p] # None THEN row.drafts[p] ELSE past[p].latest],
     stars |-> row.stars,
     solved |-> {p \in Problem : past[p].solved}]

ServerState == readState(profile, history)

----------------------------------------------------------------------------
(* A tab.                                                                  *)

RETRIES == 3    \* the length of RETRY_DELAYS

NoState == readState(NewProfile, [p \in Problem |-> [solved |-> FALSE, latest |-> None]])

\* saving: no save, one whose request is on its way, one whose answer is.
Closed == [pc |-> "closed", saved |-> NoState, pending |-> noChanges, timer |-> FALSE,
           saving |-> "no", sent |-> noChanges, answer |-> NoState, failures |-> 0, warning |-> "no"]

Init ==
    /\ profile = NewProfile
    /\ history = [p \in Problem |-> [solved |-> FALSE, latest |-> None]]
    /\ late = {}
    /\ tabs = [t \in Tab |-> Closed]
    /\ reads = {}
    /\ mine = [t \in Tab |-> noChanges]
    /\ edits = 0 /\ submissions = 0 /\ faults = 0

Fails(kind) ==
    /\ kind \in Fault
    /\ faults < MaxFaults
    /\ faults' = faults + 1

view(tab) == applyProgressChanges(tab.saved, tab.pending)

dirty(tab) == tab.pending # noChanges

Update(t, tab) == tabs' = [tabs EXCEPT ![t] = tab]

----------------------------------------------------------------------------
(* Edits.                                                                  *)

changed(tab) == [tab EXCEPT !.failures = 0, !.warning = "no", !.timer = TRUE]

\* A wrong timestamp: the device's clock, whatever is on screen.
StampByClock(previous, now) == now

\* Newer than the draft on screen.
Stamp(previous, now) ==
    IF previous # None /\ previous.at + 1 > now THEN previous.at + 1 ELSE now

Edited(t) ==
    /\ tabs[t].pc = "open"
    /\ edits < MaxEdits
    /\ edits' = edits + 1
    /\ UNCHANGED <<serverVars, reads, submissions, faults>>

setDraft(t, p, code, now) ==
    LET previous == view(tabs[t]).drafts[p]
        draft    == [at |-> Stamp(previous, now), value |-> code]
    IN  /\ Edited(t)
        /\ previous # None => previous.value # code
        /\ Update(t, changed([tabs[t] EXCEPT !.pending.drafts[p] = draft]))
        /\ mine' = [mine EXCEPT ![t].drafts[p] = draft]

\* A click on the star of a problem in the list.
setStar(t, p) ==
    LET starred == p \notin view(tabs[t]).stars
    IN  /\ Edited(t)
        /\ Update(t, changed([tabs[t] EXCEPT !.pending.stars[p] = starred]))
        /\ mine' = [mine EXCEPT ![t].stars[p] = starred]

----------------------------------------------------------------------------
(* Saving.                                                                 *)

\* One save at a time: while one is in flight, flush only clears the timer.
flush(tab) ==
    IF tab.saving = "no" /\ dirty(tab)
    THEN [tab EXCEPT !.timer = FALSE, !.saving = "sent", !.sent = tab.pending]
    ELSE [tab EXCEPT !.timer = FALSE]

TimerFires(t) ==
    /\ tabs[t].timer
    /\ Update(t, flush(tabs[t]))
    /\ UNCHANGED <<serverVars, reads, mine, counters>>

\* The page is hidden or left.
Hide(t) ==
    /\ tabs[t].pc = "open"
    /\ Update(t, flush(tabs[t]))
    /\ UNCHANGED <<serverVars, reads, mine, counters>>

\* writeState, on the current row: it is locked, and every problem's draft is stored.
Write(changes) ==
    LET next == applyProgressChanges(ServerState, changes)
    IN  profile' = [revision |-> profile.revision + 1, drafts |-> next.drafts, stars |-> next.stars]

SaveArrives(t) ==
    /\ tabs[t].saving = "sent"
    /\ Write(tabs[t].sent)
    /\ Update(t, [tabs[t] EXCEPT !.saving = "answered", !.answer = readState(profile', history)])
    /\ UNCHANGED <<history, late, reads, mine, counters>>

LateSaveArrives(changes) ==
    /\ Write(changes)
    /\ late' = late \ {changes}
    /\ UNCHANGED <<history, tabs, reads, mine, counters>>

\* A wrong later: whatever answers last is the latest.
laterAnyOrder(saved, latest) == latest

later(saved, latest) == IF latest.revision >= saved.revision THEN latest ELSE saved

\* A wrong confirmed: what was changed while the save was in flight is dropped too.
confirmedAll(tab) == noChanges

\* What was changed while the save was in flight stays pending. A draft is compared by identity;
\* no two drafts of a tab have the same time, so that is equality.
confirmed(tab) ==
    [drafts |-> [p \in Problem |-> IF tab.pending.drafts[p] = tab.sent.drafts[p]
                                   THEN None ELSE tab.pending.drafts[p]],
     stars |-> [p \in Problem |-> IF tab.pending.stars[p] = tab.sent.stars[p]
                                  THEN None ELSE tab.pending.stars[p]]]

NotSaving(tab) == [tab EXCEPT !.saving = "no", !.sent = noChanges, !.answer = NoState]

\* A wrong end of save or refresh: what is still unsaved waits for the next edit.
rescheduledNever(tab) == tab

rescheduled(tab) == [tab EXCEPT !.timer = @ \/ dirty(tab)]

\* The answer of a save: save, after its await.
Saved(t) ==
    /\ tabs[t].saving = "answered"
    /\ Update(t, rescheduled(NotSaving([tabs[t] EXCEPT
           !.saved = later(@, tabs[t].answer), !.pending = confirmed(tabs[t]),
           !.failures = 0, !.warning = "no"])))
    /\ UNCHANGED <<serverVars, reads, mine, counters>>

\* A wrong catch: one retry too few.
retriedOneLess(tab) ==
    IF tab.failures + 1 < RETRIES
    THEN [tab EXCEPT !.failures = @ + 1, !.timer = TRUE]
    ELSE tab

\* A wrong catch: a failure is counted twice.
retriedCountedTwice(tab) ==
    IF tab.failures < RETRIES
    THEN [tab EXCEPT !.failures = @ + 2, !.timer = TRUE]
    ELSE tab

retried(tab) ==
    IF tab.failures < RETRIES
    THEN [tab EXCEPT !.failures = @ + 1, !.timer = TRUE]
    ELSE tab

\* The catch of save, with the warning it shows.
SaveFails(t, warning) ==
    Update(t, retried([NotSaving(tabs[t]) EXCEPT !.warning = warning]))

\* The API answers with an error; nothing is stored.
SaveRefused(t) ==
    /\ tabs[t].saving = "sent"
    /\ Fails("refused")
    /\ SaveFails(t, "not saved yet")
    /\ UNCHANGED <<serverVars, reads, mine, edits, submissions>>

\* No answer within 8 seconds, or the connection breaks. The request may still arrive.
SaveTimesOut(t) ==
    /\ tabs[t].saving # "no"
    /\ Fails("timeout")
    /\ SaveFails(t, "failed")
    /\ \/ UNCHANGED late
       \/ /\ tabs[t].saving = "sent" /\ "late" \in Fault
          /\ late' = late \cup {tabs[t].sent}
    /\ UNCHANGED <<profile, history, reads, mine, edits, submissions>>

----------------------------------------------------------------------------
(* Loading and refreshing.                                                 *)

ReadsOf(t) == {r \in reads : r.tab = t}

NewRead(t) == [tab |-> t, pc |-> "sent", row |-> NewProfile, state |-> NoState]

\* AppProvider opens the store.
Open(t) ==
    /\ tabs[t].pc = "closed"
    /\ Update(t, [Closed EXCEPT !.pc = "opening"])
    /\ reads' = reads \cup {NewRead(t)}
    /\ UNCHANGED <<serverVars, mine, counters>>

\* The page gets the focus, is shown or goes online; a list or a problem opens; a submission ends.
refresh(t) ==
    /\ tabs[t].pc = "open"
    /\ Cardinality(ReadsOf(t)) < MaxReads
    /\ reads' = reads \cup {NewRead(t)}
    /\ UNCHANGED <<serverVars, tabs, mine, counters>>

\* The Retry button of the warning.
retry(t) ==
    LET tab == [tabs[t] EXCEPT !.failures = 0]
    IN  /\ tabs[t].pc = "open" /\ tabs[t].warning # "no"
        /\ IF dirty(tab)
           THEN Update(t, flush(tab)) /\ UNCHANGED reads
           ELSE /\ Cardinality(ReadsOf(t)) < MaxReads
                /\ Update(t, tab)
                /\ reads' = reads \cup {NewRead(t)}
        /\ UNCHANGED <<serverVars, mine, counters>>

\* The two queries of readState.
ReadProfile(r) ==
    /\ r.pc = "sent"
    /\ reads' = (reads \ {r}) \cup {[r EXCEPT !.pc = "row", !.row = profile]}
    /\ UNCHANGED <<serverVars, tabs, mine, counters>>

ReadHistory(r) ==
    /\ r.pc = "row"
    /\ reads' = (reads \ {r}) \cup {[r EXCEPT !.pc = "answered", !.row = NewProfile,
                                             !.state = readState(r.row, history)]}
    /\ UNCHANGED <<serverVars, tabs, mine, counters>>

\* The answer: of open for a store that is still loading, of refresh otherwise.
Loaded(r) ==
    LET tab == tabs[r.tab]
    IN  /\ r.pc = "answered"
        /\ Update(r.tab, IF tab.pc = "opening"
               THEN [tab EXCEPT !.pc = "open", !.saved = r.state]
               ELSE rescheduled([tab EXCEPT !.saved = later(@, r.state), !.warning = "no"]))
        /\ reads' = reads \ {r}
        /\ UNCHANGED <<serverVars, mine, counters>>

\* The request fails; the page offers to open the store again, or warns.
LoadFails(r) ==
    /\ Fails("read")
    /\ Update(r.tab, IF tabs[r.tab].pc = "opening" THEN Closed
                     ELSE [tabs[r.tab] EXCEPT !.warning = "failed"])
    /\ reads' = reads \ {r}
    /\ UNCHANGED <<serverVars, mine, edits, submissions>>

\* The tab is closed: pagehide flushes, then the store is gone. The save in flight, or the one
\* that is flushed, is lost or arrives late.
Close(t) ==
    /\ tabs[t].pc # "closed"
    /\ Update(t, Closed)
    /\ reads' = reads \ ReadsOf(t)
    /\ mine' = [mine EXCEPT ![t] = noChanges]
    /\ \/ UNCHANGED late
       \/ /\ "late" \in Fault
          /\ \/ tabs[t].saving = "sent" /\ late' = late \cup {tabs[t].sent}
             \/ tabs[t].saving = "no" /\ dirty(tabs[t]) /\ late' = late \cup {tabs[t].pending}
    /\ UNCHANGED <<profile, history, counters>>

\* The database saves a judged submission; finish_execution is not in the repository, so whether
\* it counts as a revision of the profile is open.
FinishSubmission(p, code, at, accepted) ==
    /\ submissions < MaxSubmissions
    /\ submissions' = submissions + 1
    /\ history[p].latest # None => history[p].latest.at <= at
    /\ history' = [history EXCEPT ![p] = [solved |-> @.solved \/ accepted,
                                          latest |-> [at |-> at, value |-> code]]]
    /\ \E counted \in {0, 1} : profile' = [profile EXCEPT !.revision = @ + counted]
    /\ UNCHANGED <<late, tabs, reads, mine, edits, faults>>

----------------------------------------------------------------------------
Edit(t) ==
    \E p \in Problem :
        \/ \E code \in Code, now \in Now : setDraft(t, p, code, now)
        \/ setStar(t, p)

TabStep(t) ==
    \/ Edit(t) \/ TimerFires(t) \/ Hide(t) \/ retry(t) \/ refresh(t) \/ Open(t) \/ Close(t)
    \/ SaveArrives(t) \/ Saved(t) \/ SaveRefused(t) \/ SaveTimesOut(t)

Next ==
    \/ \E t \in Tab : TabStep(t)
    \/ \E r \in reads : ReadProfile(r) \/ ReadHistory(r) \/ Loaded(r) \/ LoadFails(r)
    \/ \E changes \in late : LateSaveArrives(changes)
    \/ \E p \in Problem, code \in Code, at \in Now, accepted \in BOOLEAN :
           FinishSubmission(p, code, at, accepted)

Spec == Init /\ [][Next]_vars

\* Timers fire, and the requests of a save are answered, if only with a fault.
FairSpec ==
    /\ Spec
    /\ \A t \in Tab :
        WF_vars(TimerFires(t)) /\ WF_vars(SaveArrives(t)) /\ WF_vars(Saved(t))

----------------------------------------------------------------------------
(* Properties                                                              *)

TabState == [pc : {"closed", "opening", "open"}, saved : State, pending : Changes,
             timer : BOOLEAN, saving : {"no", "sent", "answered"}, sent : Changes,
             answer : State, failures : 0..RETRIES, warning : {"no", "not saved yet", "failed"}]

Read == [tab : Tab, pc : {"sent", "row", "answered"}, row : Profile, state : State]

TypeOK ==
    /\ profile \in Profile
    /\ history \in [Problem -> [solved : BOOLEAN, latest : Draft \cup {None}]]
    /\ late \subseteq Changes
    /\ tabs \in [Tab -> TabState]
    /\ reads \subseteq Read
    /\ mine \in [Tab -> Changes]
    /\ edits \in Nat /\ submissions \in Nat /\ faults \in Nat

\* a is a draft at least as new as b, if there is a b.
AsNew(a, b) == b # None => a # None /\ a.at >= b.at

\* The draft a reader would get for a problem never goes back in time, whoever saves how late, and
\* also where it comes from the submissions (schemas/progress.ts, "a late save can't replace newer
\* code").
DraftsOnlyGetNewer ==
    [][\A p \in Problem : AsNew(ServerState'.drafts[p], ServerState.drafts[p])]_vars

\* What was typed last in an open tab is still pending there until the server has it or something
\* newer: neither a failed save, nor an edit during a save, nor a refresh loses it.
NoEditLost ==
    \A t \in Tab, p \in Problem :
        \/ tabs[t].pending.drafts[p] = mine[t].drafts[p]
        \/ AsNew(ServerState.drafts[p], mine[t].drafts[p])

\* The editor never falls back to code older than what was typed in it last, in whatever order
\* saves and refreshes are answered.
EditorNeverGoesBack ==
    \A t \in Tab, p \in Problem : AsNew(view(tabs[t]).drafts[p], mine[t].drafts[p])

\* What is typed shows at once, even when another device's clock is ahead (setDraft, "Stay newer
\* than the draft on screen").
EditsShowAtOnce ==
    [][\A t \in Tab, p \in Problem :
          mine'[t].drafts[p] \notin {mine[t].drafts[p], None}
              => view(tabs'[t]).drafts[p] = mine'[t].drafts[p]]_vars

\* With one tab, and no save that arrives late, a star is always shown as it was clicked last.
StarsFollowClicks ==
    (\A t, u \in Tab : t = u) /\ "late" \notin Fault =>
        \A t \in Tab, p \in Problem :
            mine[t].stars[p] # None => (p \in view(tabs[t]).stars) = mine[t].stars[p]

\* Unsaved changes are never forgotten: a save is on its way or scheduled, or a warning offers one.
UnsavedIsHandled ==
    \A t \in Tab :
        dirty(tabs[t]) => tabs[t].timer \/ tabs[t].saving # "no" \/ tabs[t].warning # "no"

\* A tab that stays open saves everything, without any help, if at most RETRIES requests fail.
EverythingIsSaved == \A t \in Tab : dirty(tabs[t]) ~> ~dirty(tabs[t])

----------------------------------------------------------------------------
(* The refinement: what the store implements.                              *)

stored == ServerState.drafts

unsaved == [t \in Tab |-> tabs[t].pending.drafts]

\* The drafts of saves whose requests may still reach the server.
travelling ==
    {tabs[t].sent.drafts : t \in {u \in Tab : tabs[u].saving = "sent"}}
        \cup {changes.drafts : changes \in late}

Contract == INSTANCE DraftContract

\* Drafts are a register for each problem that only moves on in time, written by all tabs: only
\* what was typed or submitted is ever read, and a tab forgets a draft only when the server has it
\* or something newer (DraftContract).
ImplementsContract == Contract!Spec

=============================================================================
