------------------------ MODULE ProgressStoreProofs ------------------------
(***************************************************************************)
(* For any number of tabs, problems, devices and faults: no edit is lost,  *)
(* no editor falls back to older code, and drafts only get newer.          *)
(***************************************************************************)
EXTENDS ProgressStore, TLAPS

History == [Problem -> [solved : BOOLEAN, latest : Draft \cup {None}]]

----------------------------------------------------------------------------
(* The operators both sides use.                                           *)

LEMMA NewestIsNew ==
    ASSUME NEW a \in Draft \cup {None}, NEW b \in Draft \cup {None}
    PROVE  /\ Newest(a, b) \in Draft \cup {None}
           /\ AsNew(Newest(a, b), a)
           /\ AsNew(Newest(a, b), b)
BY ProgressAssumption DEF Newest, AsNew, Draft

LEMMA AsNewIsTransitive ==
    ASSUME NEW a \in Draft \cup {None}, NEW b \in Draft \cup {None}, NEW c \in Draft \cup {None},
           AsNew(a, b), AsNew(b, c)
    PROVE  AsNew(a, c)
BY ProgressAssumption DEF AsNew, Draft

LEMMA ApplyShape ==
    ASSUME NEW state \in State, NEW changes \in Changes
    PROVE  /\ applyProgressChanges(state, changes) \in State
           /\ applyProgressChanges(state, changes).revision = state.revision
           /\ \A p \in Problem : applyProgressChanges(state, changes).drafts[p]
                                     = Newest(state.drafts[p], changes.drafts[p])
<1> DEFINE drafts == [p \in Problem |-> Newest(state.drafts[p], changes.drafts[p])]
           stars == {p \in Problem : IF changes.stars[p] = None THEN p \in state.stars
                                                                ELSE changes.stars[p]}
<1>1. drafts \in Drafts
    BY NewestIsNew DEF Drafts, State, Changes
<1>2. applyProgressChanges(state, changes) = [state EXCEPT !.drafts = drafts, !.stars = stars]
    BY DEF applyProgressChanges
<1>3. stars \subseteq Problem
    OBVIOUS
<1> HIDE DEF drafts, stars
<1>4. /\ applyProgressChanges(state, changes) \in State
      /\ applyProgressChanges(state, changes).revision = state.revision
      /\ applyProgressChanges(state, changes).drafts = drafts
    BY <1>1, <1>2, <1>3 DEF State
<1> QED BY <1>4 DEF drafts

LEMMA ReadShape ==
    ASSUME NEW row \in Profile, NEW past \in History
    PROVE  /\ readState(row, past) \in State
           /\ readState(row, past).revision = row.revision
           /\ \A p \in Problem : AsNew(readState(row, past).drafts[p], row.drafts[p])
<1>1. \A p \in Problem : past[p].latest \in Draft \cup {None} /\ row.drafts[p] \in Draft \cup {None}
    BY DEF History, Profile, Drafts
<1>2. readState(row, past) \in State
    BY <1>1 DEF readState, State, Profile, Drafts
<1> QED BY <1>1, <1>2, ProgressAssumption DEF readState, AsNew, Draft, Profile

\* A write moves the revision and no draft back.
LEMMA WriteMovesOn ==
    ASSUME profile \in Profile, history \in History, NEW changes \in Changes, Write(changes)
    PROVE  /\ profile' \in Profile
           /\ profile'.revision = profile.revision + 1
           /\ \A p \in Problem : /\ AsNew(profile'.drafts[p], profile.drafts[p])
                                 /\ AsNew(profile'.drafts[p], ServerState.drafts[p])
                                 /\ AsNew(profile'.drafts[p], changes.drafts[p])
<1> DEFINE next == applyProgressChanges(ServerState, changes)
<1>1. ServerState \in State /\ \A p \in Problem : AsNew(ServerState.drafts[p], profile.drafts[p])
    BY ReadShape DEF ServerState
<1>2. next \in State /\ \A p \in Problem : next.drafts[p] = Newest(ServerState.drafts[p], changes.drafts[p])
    BY <1>1, ApplyShape
<1>3. profile' = [revision |-> profile.revision + 1, drafts |-> next.drafts, stars |-> next.stars]
    BY DEF Write
<1> HIDE DEF next
<1>4. profile' \in Profile /\ profile'.revision = profile.revision + 1
    BY <1>2, <1>3 DEF Profile, State
<1>5. ASSUME NEW p \in Problem
      PROVE  /\ AsNew(profile'.drafts[p], profile.drafts[p])
             /\ AsNew(profile'.drafts[p], ServerState.drafts[p])
             /\ AsNew(profile'.drafts[p], changes.drafts[p])
    <2>1. /\ profile.drafts[p] \in Draft \cup {None} /\ ServerState.drafts[p] \in Draft \cup {None}
          /\ changes.drafts[p] \in Draft \cup {None}
        BY <1>1 DEF Profile, State, Changes, Drafts
    <2>2. profile'.drafts[p] = Newest(ServerState.drafts[p], changes.drafts[p])
        BY <1>2, <1>3
    <2> QED BY <1>1, <2>1, <2>2, NewestIsNew, AsNewIsTransitive
<1> QED BY <1>4, <1>5

----------------------------------------------------------------------------
(* Types.                                                                  *)

LEMMA NoStateShape ==
    /\ NewProfile \in Profile
    /\ NoState \in State
    /\ noChanges \in Changes
    /\ Closed \in TabState
<1>1. NewProfile \in Profile
    BY DEF NewProfile, Profile, Drafts
<1>2. [p \in Problem |-> [solved |-> FALSE, latest |-> None]] \in History
    BY DEF History
<1>3. NoState \in State
    BY <1>1, <1>2, ReadShape DEF NoState
<1>4. noChanges \in Changes
    BY DEF noChanges, Changes, Drafts
<1>5. Closed \in TabState
    BY <1>3, <1>4 DEF Closed, TabState, RETRIES
<1> QED BY <1>1, <1>3, <1>4, <1>5

LEMMA FailureCounts ==
    /\ 0 \in 0..RETRIES
    /\ \A n \in 0..RETRIES : n < RETRIES => n + 1 \in 0..RETRIES
BY DEF RETRIES

LEMMA TabShapes ==
    ASSUME NEW tab \in TabState
    PROVE  /\ changed(tab) \in TabState
           /\ NotSaving(tab) \in TabState
           /\ rescheduled(tab) \in TabState
           /\ retried(tab) \in TabState
           /\ confirmed(tab) \in Changes
           /\ view(tab) \in State
<1>1. changed(tab) \in TabState
    BY FailureCounts DEF changed, TabState
<1>2. NotSaving(tab) \in TabState
    BY NoStateShape DEF NotSaving, TabState
<1>3. rescheduled(tab) \in TabState
    <2>1. dirty(tab) \in BOOLEAN
        BY DEF dirty
    <2> HIDE DEF dirty
    <2> QED BY <2>1 DEF rescheduled, TabState
<1>4. retried(tab) \in TabState
    BY FailureCounts DEF retried, TabState
<1>5. confirmed(tab) \in Changes
    BY DEF confirmed, TabState, Changes, Drafts
<1>6. view(tab) \in State
    BY ApplyShape DEF view, TabState
<1> QED BY <1>1, <1>2, <1>3, <1>4, <1>5, <1>6

LEMMA InitType == Init => TypeOK
BY NoStateShape DEF Init, TypeOK, History

LEMMA FailsType == ASSUME TypeOK, NEW kind, Fails(kind) PROVE faults' \in Nat
BY DEF TypeOK, Fails

\* One tab moves; the rest of its step is typed.
LEMMA TabType ==
    ASSUME TypeOK, NEW t \in Tab, NEW tab \in TabState, Update(t, tab)
    PROVE  tabs' \in [Tab -> TabState]
BY DEF TypeOK, Update

LEMMA MineType ==
    ASSUME TypeOK, NEW t \in Tab, NEW p \in Problem, NEW draft \in Draft
    PROVE  [mine EXCEPT ![t].drafts[p] = draft] \in [Tab -> Changes]
BY DEF TypeOK, Changes, Drafts

LEMMA StarType ==
    ASSUME TypeOK, NEW t \in Tab, NEW p \in Problem, NEW star \in BOOLEAN
    PROVE  [mine EXCEPT ![t].stars[p] = star] \in [Tab -> Changes]
BY DEF TypeOK, Changes, Drafts

LEMMA EditType ==
    ASSUME TypeOK, NEW t \in Tab, Edit(t)
    PROVE  TypeOK'
<1>1. tabs[t] \in TabState /\ view(tabs[t]) \in State /\ edits' \in Nat
    <2>1. tabs[t] \in TabState
        BY DEF TypeOK
    <2>2. Edited(t)
        BY DEF Edit, setDraft, setStar
    <2>3. edits' \in Nat
        BY <2>2 DEF TypeOK, Edited
    <2> QED BY <2>1, <2>3, TabShapes
<1>2. ASSUME NEW p \in Problem, NEW code \in Code, NEW now \in Now, setDraft(t, p, code, now)
      PROVE  TypeOK'
    <2> DEFINE previous == view(tabs[t]).drafts[p]
               draft == [at |-> Stamp(previous, now), value |-> code]
               tab == [tabs[t] EXCEPT !.pending.drafts[p] = draft]
    <2>1. Stamp(previous, now) \in Nat
        <3>1. previous \in Draft \cup {None} /\ now \in Nat
            BY <1>1, ProgressAssumption DEF State, Drafts
        <3> HIDE DEF previous
        <3> QED BY <3>1 DEF Stamp, Draft
    <2>2. draft \in Draft
        BY <2>1 DEF Draft
    <2>3. Update(t, changed(tab)) /\ mine' = [mine EXCEPT ![t].drafts[p] = draft]
        BY <1>2 DEF setDraft
    <2>4. UNCHANGED <<serverVars, reads, submissions, faults>>
        BY <1>2 DEF setDraft, Edited
    <2> HIDE DEF draft
    <2>5. tab \in TabState
        BY <1>1, <2>2 DEF TabState, Changes, Drafts
    <2> HIDE DEF tab
    <2>6. mine' \in [Tab -> Changes] /\ tabs' \in [Tab -> TabState]
        BY <2>2, <2>3, <2>5, MineType, TabType, TabShapes
    <2> QED BY <1>1, <2>4, <2>6 DEF TypeOK, serverVars
<1>3. ASSUME NEW p \in Problem, setStar(t, p) PROVE TypeOK'
    <2> DEFINE starred == p \notin view(tabs[t]).stars
               tab == [tabs[t] EXCEPT !.pending.stars[p] = starred]
    <2>1. starred \in BOOLEAN
        OBVIOUS
    <2>2. Update(t, changed(tab)) /\ mine' = [mine EXCEPT ![t].stars[p] = starred]
        BY <1>3 DEF setStar
    <2>3. UNCHANGED <<serverVars, reads, submissions, faults>>
        BY <1>3 DEF setStar, Edited
    <2> HIDE DEF starred
    <2>4. tab \in TabState
        BY <1>1, <2>1 DEF TabState, Changes
    <2> HIDE DEF tab
    <2>5. mine' \in [Tab -> Changes]
        BY <2>1, <2>2, StarType
    <2>6. tabs' \in [Tab -> TabState]
        BY <2>2, <2>4, TabType, TabShapes
    <2> QED BY <1>1, <2>3, <2>5, <2>6 DEF TypeOK, serverVars
<1> QED BY <1>2, <1>3 DEF Edit

LEMMA FlushShape ==
    ASSUME NEW tab \in TabState
    PROVE  /\ flush(tab) \in TabState
           /\ flush(tab).pc = tab.pc /\ flush(tab).saved = tab.saved /\ flush(tab).pending = tab.pending
           /\ \/ /\ flush(tab).saving = tab.saving
                 /\ flush(tab).sent = tab.sent
                 /\ flush(tab).answer = tab.answer
              \/ flush(tab).saving # "answered" /\ flush(tab).sent = tab.pending
<1>1. \/ flush(tab) = [tab EXCEPT !.timer = FALSE, !.saving = "sent", !.sent = tab.pending]
      \/ flush(tab) = [tab EXCEPT !.timer = FALSE]
    BY DEF flush
<1> QED BY <1>1 DEF TabState

LEMMA SavingType ==
    ASSUME TypeOK, NEW t \in Tab,
           SaveArrives(t) \/ Saved(t) \/ SaveRefused(t) \/ SaveTimesOut(t)
    PROVE  TypeOK'
<1>1. tabs[t] \in TabState /\ tabs[t].sent \in Changes
    BY DEF TypeOK, TabState
<1>2. CASE SaveArrives(t)
    <2>1. profile' \in Profile
        BY <1>1, <1>2, WriteMovesOn DEF SaveArrives, TypeOK, History
    <2>2. readState(profile', history) \in State
        BY <2>1, ReadShape DEF TypeOK, History
    <2>3. [tabs[t] EXCEPT !.saving = "answered", !.answer = readState(profile', history)] \in TabState
        BY <1>1, <2>2 DEF TabState
    <2>4. tabs' \in [Tab -> TabState]
        BY <1>2, <2>3, TabType DEF SaveArrives
    <2> QED BY <1>2, <2>1, <2>4 DEF SaveArrives, TypeOK, counters
<1>3. CASE Saved(t)
    <2> DEFINE tab == [tabs[t] EXCEPT !.saved = later(@, tabs[t].answer), !.pending = confirmed(tabs[t]),
                                      !.failures = 0, !.warning = "no"]
    <2>1. later(tabs[t].saved, tabs[t].answer) \in State
        BY <1>1 DEF later, TabState
    <2>2. tab \in TabState
        BY <1>1, <2>1, TabShapes, FailureCounts DEF TabState
    <2>3. Update(t, rescheduled(NotSaving(tab)))
        BY <1>3 DEF Saved
    <2> HIDE DEF tab
    <2>4. tabs' \in [Tab -> TabState]
        BY <2>2, <2>3, TabShapes, TabType
    <2> QED BY <1>3, <2>4 DEF Saved, TypeOK, serverVars, counters
<1>4. ASSUME NEW warning \in {"no", "not saved yet", "failed"}, SaveFails(t, warning)
      PROVE  tabs' \in [Tab -> TabState]
    <2>1. [NotSaving(tabs[t]) EXCEPT !.warning = warning] \in TabState
        <3>1. NotSaving(tabs[t]) \in TabState
            BY <1>1, TabShapes
        <3> QED BY <3>1 DEF TabState
    <2> QED BY <1>4, <2>1, TabShapes, TabType DEF SaveFails
<1>5. CASE SaveRefused(t)
    BY <1>4, <1>5, FailsType DEF SaveRefused, TypeOK, serverVars
<1>6. CASE SaveTimesOut(t)
    <2>1. late' \subseteq Changes
        BY <1>1, <1>6 DEF SaveTimesOut, TypeOK
    <2> QED BY <1>4, <1>6, <2>1, FailsType DEF SaveTimesOut, TypeOK
<1> QED BY <1>2, <1>3, <1>5, <1>6

LEMMA NewReadType == ASSUME NEW t \in Tab PROVE NewRead(t) \in Read
BY NoStateShape DEF NewRead, Read

LEMMA TabStepType ==
    ASSUME TypeOK, NEW t \in Tab, TabStep(t)
    PROVE  TypeOK'
<1>1. tabs[t] \in TabState
    BY DEF TypeOK
<1>2. CASE TimerFires(t) \/ Hide(t)
    BY <1>1, <1>2, FlushShape, TabType DEF TimerFires, Hide, TypeOK, serverVars, counters
<1>3. CASE retry(t)
    <2> DEFINE tab == [tabs[t] EXCEPT !.failures = 0]
    <2>1. tab \in TabState
        BY <1>1, FailureCounts DEF TabState
    <2>2. /\ \/ Update(t, flush(tab)) /\ UNCHANGED reads
             \/ Update(t, tab) /\ reads' = reads \cup {NewRead(t)}
          /\ UNCHANGED <<serverVars, mine, counters>>
        BY <1>3 DEF retry
    <2> HIDE DEF tab
    <2> QED BY <2>1, <2>2, FlushShape, TabType, NewReadType DEF TypeOK, serverVars, counters
<1>4. CASE refresh(t)
    BY <1>4, NewReadType DEF refresh, TypeOK, serverVars, counters
<1>5. CASE Open(t)
    <2>1. [Closed EXCEPT !.pc = "opening"] \in TabState
        BY NoStateShape DEF TabState
    <2> QED BY <1>5, <2>1, TabType, NewReadType DEF Open, TypeOK, serverVars, counters
<1>6. CASE Close(t)
    <2>1. mine' \in [Tab -> Changes]
        BY <1>6, NoStateShape DEF Close, TypeOK
    <2>2. late' \subseteq Changes
        BY <1>1, <1>6 DEF Close, TypeOK, TabState
    <2>3. tabs' \in [Tab -> TabState]
        BY <1>6, NoStateShape, TabType DEF Close
    <2> QED BY <1>6, <2>1, <2>2, <2>3 DEF Close, TypeOK, counters
<1> QED BY <1>2, <1>3, <1>4, <1>5, <1>6, EditType, SavingType DEF TabStep

LEMMA ReadStepType ==
    ASSUME TypeOK, NEW r \in reads, ReadProfile(r) \/ ReadHistory(r) \/ Loaded(r) \/ LoadFails(r)
    PROVE  TypeOK'
<1>1. r \in Read /\ r.tab \in Tab /\ tabs[r.tab] \in TabState
    BY DEF TypeOK, Read
<1>2. CASE ReadProfile(r)
    <2>1. [r EXCEPT !.pc = "row", !.row = profile] \in Read
        BY <1>1 DEF Read, TypeOK
    <2> QED BY <1>2, <2>1 DEF ReadProfile, TypeOK, serverVars, counters
<1>3. CASE ReadHistory(r)
    <2>1. readState(r.row, history) \in State
        BY <1>1, ReadShape DEF Read, TypeOK, History
    <2>2. [r EXCEPT !.pc = "answered", !.row = NewProfile, !.state = readState(r.row, history)] \in Read
        BY <1>1, <2>1, NoStateShape DEF Read
    <2> QED BY <1>3, <2>2 DEF ReadHistory, TypeOK, serverVars, counters
<1>4. CASE Loaded(r)
    <2> DEFINE tab == tabs[r.tab]
    <2>1. [tab EXCEPT !.pc = "open", !.saved = r.state] \in TabState
        BY <1>1 DEF TabState, Read
    <2>2. later(tab.saved, r.state) \in State
        BY <1>1 DEF later, TabState, Read
    <2>3. [tab EXCEPT !.saved = later(@, r.state), !.warning = "no"] \in TabState
        BY <1>1, <2>2 DEF TabState
    <2>4. tabs' \in [Tab -> TabState]
        <3>1. \/ Update(r.tab, [tab EXCEPT !.pc = "open", !.saved = r.state])
              \/ Update(r.tab, rescheduled([tab EXCEPT !.saved = later(@, r.state), !.warning = "no"]))
            BY <1>4 DEF Loaded
        <3> HIDE DEF tab
        <3> QED BY <1>1, <2>1, <2>3, <3>1, TabShapes, TabType
    <2> QED BY <1>4, <2>4 DEF Loaded, TypeOK, serverVars, counters
<1>5. CASE LoadFails(r)
    <2>1. [tabs[r.tab] EXCEPT !.warning = "failed"] \in TabState
        BY <1>1 DEF TabState
    <2>2. tabs' \in [Tab -> TabState]
        BY <1>1, <1>5, <2>1, NoStateShape, TabType DEF LoadFails
    <2> QED BY <1>5, <2>2, FailsType DEF LoadFails, TypeOK, serverVars
<1> QED BY <1>2, <1>3, <1>4, <1>5

LEMMA StepType == TypeOK /\ [Next]_vars => TypeOK'
<1> SUFFICES ASSUME TypeOK, [Next]_vars PROVE TypeOK'
    OBVIOUS
<1>1. ASSUME NEW changes \in late, LateSaveArrives(changes) PROVE TypeOK'
    <2>1. profile' \in Profile
        BY <1>1, WriteMovesOn DEF LateSaveArrives, TypeOK, History
    <2> QED BY <1>1, <2>1 DEF LateSaveArrives, TypeOK, counters
<1>2. ASSUME NEW p \in Problem, NEW code \in Code, NEW at \in Now, NEW accepted \in BOOLEAN,
             FinishSubmission(p, code, at, accepted)
      PROVE  TypeOK'
    <2>1. [at |-> at, value |-> code] \in Draft
        BY ProgressAssumption DEF Draft
    <2>2. history' \in History
        BY <1>2, <2>1 DEF FinishSubmission, TypeOK, History
    <2>3. profile' \in Profile
        <3>1. PICK counted \in {0, 1} : profile' = [profile EXCEPT !.revision = @ + counted]
            BY <1>2 DEF FinishSubmission
        <3>2. profile \in Profile /\ counted \in Nat
            BY DEF TypeOK
        <3> QED BY <3>1, <3>2 DEF Profile
    <2>4. submissions' \in Nat
        BY <1>2 DEF FinishSubmission, TypeOK
    <2> QED BY <1>2, <2>2, <2>3, <2>4 DEF FinishSubmission, TypeOK, History
<1>3. CASE UNCHANGED vars
    BY <1>3 DEF TypeOK, vars, serverVars, counters
<1> QED BY <1>1, <1>2, <1>3, TabStepType, ReadStepType DEF Next

\* The types of all variables.
THEOREM ProgressTypes == Spec => []TypeOK
BY InitType, StepType, PTL DEF Spec

----------------------------------------------------------------------------
(* The inductive invariant, tab by tab.  What was typed last is pending, or *)
(* every state that may still replace the saved one has it.                *)

Covers(state, level, t, p) == state.revision >= level => AsNew(state.drafts[p], mine[t].drafts[p])

\* The server, and every state of at least this revision that a tab has or may be answered with,
\* have what was typed last in the tab, or something newer.
CoveredFrom(t, p, level) ==
    /\ AsNew(profile.drafts[p], mine[t].drafts[p])
    /\ Covers(tabs[t].saved, level, t, p)
    /\ tabs[t].saving = "answered" => Covers(tabs[t].answer, level, t, p)
    /\ \A r \in ReadsOf(t) :
           /\ r.pc = "row" => Covers(r.row, level, t, p)
           /\ r.pc = "answered" => Covers(r.state, level, t, p)

\* No answer is ahead of the server.
RevisionsKnown(t) ==
    /\ tabs[t].saved.revision <= profile.revision
    /\ tabs[t].saving = "answered" => tabs[t].answer.revision <= profile.revision
    /\ \A r \in ReadsOf(t) :
           /\ r.pc = "row" => r.row.revision <= profile.revision
           /\ r.pc = "answered" => r.state.revision <= profile.revision

DraftInv(t, p) ==
    /\ tabs[t].pending.drafts[p] \in {None, mine[t].drafts[p]}
    /\ AsNew(mine[t].drafts[p], tabs[t].sent.drafts[p])
    /\ tabs[t].pc # "open" => mine[t].drafts[p] = None
    /\ tabs[t].pending.drafts[p] # mine[t].drafts[p] => CoveredFrom(t, p, tabs[t].saved.revision)
    /\ tabs[t].saving = "answered" /\ tabs[t].sent.drafts[p] = mine[t].drafts[p]
           => CoveredFrom(t, p, tabs[t].answer.revision)

TabInv(t) == RevisionsKnown(t) /\ \A p \in Problem : DraftInv(t, p)

ProgressInv == TypeOK /\ \A t \in Tab : TabInv(t)

\* What the types say of the parts of a tab.
LEMMA TabFacts ==
    ASSUME TypeOK, NEW t \in Tab
    PROVE  /\ profile.revision \in Nat
           /\ tabs[t].saved.revision \in Nat
           /\ tabs[t].answer.revision \in Nat
           /\ \A r \in ReadsOf(t) : r.row.revision \in Nat /\ r.state.revision \in Nat
           /\ \A p \in Problem :
                  /\ profile.drafts[p] \in Draft \cup {None}
                  /\ mine[t].drafts[p] \in Draft \cup {None}
                  /\ tabs[t].saved.drafts[p] \in Draft \cup {None}
                  /\ tabs[t].answer.drafts[p] \in Draft \cup {None}
                  /\ tabs[t].pending.drafts[p] \in Draft \cup {None}
                  /\ tabs[t].sent.drafts[p] \in Draft \cup {None}
                  /\ \A r \in ReadsOf(t) : /\ r.row.drafts[p] \in Draft \cup {None}
                                           /\ r.state.drafts[p] \in Draft \cup {None}
<1>1. profile \in Profile /\ tabs[t] \in TabState /\ mine[t] \in Changes /\ ReadsOf(t) \subseteq Read
    BY DEF TypeOK, ReadsOf
<1>2. profile.revision \in Nat /\ profile.drafts \in Drafts
    BY <1>1 DEF Profile
<1>3. /\ tabs[t].saved \in State /\ tabs[t].answer \in State
      /\ tabs[t].pending \in Changes /\ tabs[t].sent \in Changes
    BY <1>1 DEF TabState
<1>4. /\ tabs[t].saved.revision \in Nat /\ tabs[t].answer.revision \in Nat
      /\ tabs[t].saved.drafts \in Drafts /\ tabs[t].answer.drafts \in Drafts
      /\ tabs[t].pending.drafts \in Drafts /\ tabs[t].sent.drafts \in Drafts
    BY <1>3 DEF State, Changes
<1>5. mine[t].drafts \in Drafts
    BY <1>1 DEF Changes
<1>6. ASSUME NEW r \in ReadsOf(t)
      PROVE  /\ r.row.revision \in Nat /\ r.state.revision \in Nat
             /\ r.row.drafts \in Drafts /\ r.state.drafts \in Drafts
    <2>1. r.row \in Profile /\ r.state \in State
        BY <1>1 DEF Read
    <2> QED BY <2>1 DEF Profile, State
<1> QED BY <1>2, <1>4, <1>5, <1>6 DEF Drafts

\* A step of another tab, or one that leaves the saved state and the drafts of this one alone: the
\* server may move on, a save may start or fail, and requests may be made or dropped.
LEMMA CalmStep ==
    ASSUME TypeOK, NEW t \in Tab, TabInv(t), TypeOK',
           profile.revision <= profile'.revision,
           \A p \in Problem : AsNew(profile'.drafts[p], profile.drafts[p]),
           tabs'[t].pc = tabs[t].pc,
           tabs'[t].saved = tabs[t].saved,
           tabs'[t].pending.drafts = tabs[t].pending.drafts,
           mine'[t].drafts = mine[t].drafts,
           \/ /\ tabs'[t].saving = tabs[t].saving
              /\ tabs'[t].sent = tabs[t].sent
              /\ tabs'[t].answer = tabs[t].answer
           \/ /\ tabs'[t].saving # "answered"
              /\ tabs'[t].sent \in {noChanges, tabs[t].pending},
           \A r \in ReadsOf(t)' : r \in ReadsOf(t) \/ r.pc = "sent"
    PROVE  TabInv(t)'
<1>1. RevisionsKnown(t)'
    <2>1. \A n \in Nat : n <= profile.revision => n <= profile'.revision
        BY TabFacts DEF TypeOK, Profile
    <2>2. tabs'[t].saved.revision <= profile'.revision
        BY <2>1, TabFacts DEF TabInv, RevisionsKnown
    <2>3. tabs'[t].saving = "answered" => tabs'[t].answer.revision <= profile'.revision
        BY <2>1, TabFacts DEF TabInv, RevisionsKnown
    <2>4. ASSUME NEW r \in ReadsOf(t)'
          PROVE  /\ r.pc = "row" => r.row.revision <= profile'.revision
                 /\ r.pc = "answered" => r.state.revision <= profile'.revision
        <3>1. CASE r \in ReadsOf(t)
            BY <2>1, <3>1, TabFacts DEF TabInv, RevisionsKnown
        <3> QED BY <2>4, <3>1
    <2> QED BY <2>2, <2>3, <2>4 DEF RevisionsKnown
<1>2. ASSUME NEW p \in Problem PROVE DraftInv(t, p)'
    <2>1. DraftInv(t, p)
        BY DEF TabInv
    <2>2. AsNew(profile.drafts[p], mine[t].drafts[p]) => AsNew(profile'.drafts[p], mine[t].drafts[p])
        <3>1. profile'.drafts[p] \in Draft \cup {None}
            BY DEF TypeOK, Profile, Drafts
        <3> QED BY <3>1, TabFacts, AsNewIsTransitive
    <2>3. ASSUME NEW level \in Nat, CoveredFrom(t, p, level) PROVE CoveredFrom(t, p, level)'
        BY <2>2, <2>3 DEF CoveredFrom, Covers
    <2>4. AsNew(mine'[t].drafts[p], tabs'[t].sent.drafts[p])
        <3>1. noChanges.drafts[p] = None
            BY DEF noChanges
        <3>2. AsNew(mine[t].drafts[p], None)
            BY DEF AsNew
        <3>3. AsNew(mine[t].drafts[p], mine[t].drafts[p])
            BY TabFacts DEF AsNew, Draft
        <3>4. AsNew(mine[t].drafts[p], tabs[t].pending.drafts[p])
            BY <2>1, <3>2, <3>3 DEF DraftInv
        <3> QED BY <2>1, <3>1, <3>2, <3>4 DEF DraftInv
    <2>5. (tabs[t].pending.drafts[p] # mine[t].drafts[p] => CoveredFrom(t, p, tabs[t].saved.revision))'
        BY <2>1, <2>3, TabFacts DEF DraftInv
    <2>6. (tabs[t].saving = "answered" /\ tabs[t].sent.drafts[p] = mine[t].drafts[p]
              => CoveredFrom(t, p, tabs[t].answer.revision))'
        BY <2>1, <2>3, TabFacts DEF DraftInv
    <2> QED BY <2>1, <2>4, <2>5, <2>6 DEF DraftInv
<1> QED BY <1>1, <1>2 DEF TabInv

\* A tab that has just been closed or opened has nothing to lose.
LEMMA FreshStep ==
    ASSUME TypeOK, NEW t \in Tab, TabInv(t),
           profile' = profile,
           tabs'[t].saved = NoState, tabs'[t].pending = noChanges,
           tabs'[t].saving = "no", tabs'[t].sent = noChanges,
           \A p \in Problem : mine'[t].drafts[p] = None,
           \A r \in ReadsOf(t)' : r \in ReadsOf(t) \/ r.pc = "sent"
    PROVE  TabInv(t)'
<1>1. NoState.revision = 0
    BY DEF NoState, readState, NewProfile
<1>2. RevisionsKnown(t)'
    BY <1>1, TabFacts DEF TabInv, RevisionsKnown
<1>3. \A p \in Problem : noChanges.drafts[p] = None
    BY DEF noChanges
<1>4. \A p \in Problem : DraftInv(t, p)'
    BY <1>3 DEF DraftInv, AsNew
<1> QED BY <1>2, <1>4 DEF TabInv

\* The server never goes back, and a step of one tab leaves the other tabs alone.
Onward ==
    /\ profile.revision <= profile'.revision
    /\ \A p \in Problem : AsNew(profile'.drafts[p], profile.drafts[p])

LEMMA UnchangedIsOnward == TypeOK /\ profile' = profile => Onward
<1> SUFFICES ASSUME TypeOK, profile' = profile PROVE Onward
    OBVIOUS
<1>1. profile.revision \in Nat /\ \A p \in Problem : profile.drafts[p] \in Draft \cup {None}
    BY DEF TypeOK, Profile, Drafts
<1> QED BY <1>1 DEF Onward, AsNew, Draft

LEMMA WriteIsOnward ==
    ASSUME TypeOK, NEW changes \in Changes, Write(changes)
    PROVE  Onward
<1>1. profile \in Profile /\ history \in History
    BY DEF TypeOK, History
<1>2. /\ profile'.revision = profile.revision + 1
      /\ \A p \in Problem : AsNew(profile'.drafts[p], profile.drafts[p])
    BY <1>1, WriteMovesOn
<1> QED BY <1>1, <1>2 DEF Onward, Profile

\* What a step of tab t may touch.
OnlyTab(t) ==
    /\ \A u \in Tab \ {t} : tabs'[u] = tabs[u] /\ mine'[u] = mine[u]
    /\ \A u \in Tab : \A r \in ReadsOf(u)' : r \in ReadsOf(u) \/ r.pc = "sent"

LEMMA OnlyTabShape ==
    ASSUME TypeOK, NEW t \in Tab, TabStep(t)
    PROVE  OnlyTab(t)
<1>1. \A tab : Update(t, tab) => \A u \in Tab \ {t} : tabs'[u] = tabs[u]
    BY DEF Update, TypeOK
<1>2. \A u \in Tab : \A r \in ReadsOf(u)' : r \in reads /\ r.tab = u => r \in ReadsOf(u)
    BY DEF ReadsOf
<1>3. \A u \in Tab : \A r \in ReadsOf(u)' : r \in reads' /\ r.tab = u
    BY DEF ReadsOf
<1>4. NewRead(t).pc = "sent"
    BY DEF NewRead
<1>6. CASE Edit(t)
    <2>1. \A u \in Tab \ {t} : tabs'[u] = tabs[u]
        BY <1>1, <1>6 DEF Edit, setDraft, setStar
    <2>2. \A u \in Tab \ {t} : mine'[u] = mine[u]
        BY <1>6 DEF Edit, setDraft, setStar, TypeOK
    <2>3. reads' = reads
        BY <1>6 DEF Edit, setDraft, setStar, Edited
    <2> QED BY <2>1, <2>2, <2>3, <1>2, <1>3 DEF OnlyTab
<1>7. CASE TimerFires(t) \/ Hide(t)
    BY <1>1, <1>2, <1>3, <1>7 DEF TimerFires, Hide, OnlyTab
<1>8. CASE retry(t)
    <2>1. \A u \in Tab \ {t} : tabs'[u] = tabs[u] /\ mine'[u] = mine[u]
        BY <1>1, <1>8 DEF retry
    <2>2. reads' = reads \/ reads' = reads \cup {NewRead(t)}
        BY <1>8 DEF retry
    <2> QED BY <1>2, <1>3, <1>4, <2>1, <2>2 DEF OnlyTab
<1>9. CASE refresh(t)
    BY <1>2, <1>3, <1>4, <1>9 DEF refresh, OnlyTab
<1>10. CASE Open(t)
    BY <1>1, <1>2, <1>3, <1>4, <1>10 DEF Open, OnlyTab
<1>11. CASE Close(t)
    <2>1. \A u \in Tab \ {t} : mine'[u] = mine[u]
        BY <1>11 DEF Close, TypeOK
    <2>2. reads' \subseteq reads
        BY <1>11 DEF Close
    <2> QED BY <1>1, <1>2, <1>3, <1>11, <2>1, <2>2 DEF Close, OnlyTab
<1>12. CASE SaveArrives(t) \/ Saved(t) \/ SaveRefused(t) \/ SaveTimesOut(t)
    BY <1>1, <1>2, <1>3, <1>12
       DEF SaveArrives, Saved, SaveRefused, SaveTimesOut, SaveFails, OnlyTab
<1> QED BY <1>6, <1>7, <1>8, <1>9, <1>10, <1>11, <1>12 DEF TabStep

LEMMA OtherTabs ==
    ASSUME TypeOK, TypeOK', Onward, NEW t, OnlyTab(t), NEW u \in Tab \ {t}, TabInv(u)
    PROVE  TabInv(u)'
BY CalmStep DEF Onward, OnlyTab

\* The steps of a tab that leave its saved state and drafts alone, and that start it afresh.
LEMMA CalmSteps ==
    ASSUME TypeOK, TypeOK', NEW t \in Tab, OnlyTab(t), TabInv(t),
           \/ TimerFires(t) \/ Hide(t) \/ retry(t) \/ refresh(t) \/ SaveRefused(t) \/ SaveTimesOut(t)
           \/ \E p \in Problem : setStar(t, p)
    PROVE  TabInv(t)'
<1>1. profile' = profile
    BY DEF TimerFires, Hide, retry, refresh, SaveRefused, SaveTimesOut, setStar, Edited, serverVars
<1>2. tabs[t] \in TabState
    BY DEF TypeOK
<1>3. CASE TimerFires(t) \/ Hide(t)
    BY <1>1, <1>2, <1>3, UnchangedIsOnward, FlushShape, CalmStep
       DEF TimerFires, Hide, Update, TypeOK, Onward, OnlyTab
<1>4. CASE retry(t)
    <2> DEFINE tab == [tabs[t] EXCEPT !.failures = 0]
    <2>1. tab \in TabState
        BY <1>2, FailureCounts DEF TabState
    <2>2. /\ tab.pc = tabs[t].pc /\ tab.saved = tabs[t].saved /\ tab.pending = tabs[t].pending
          /\ tab.saving = tabs[t].saving /\ tab.sent = tabs[t].sent /\ tab.answer = tabs[t].answer
        BY <1>2 DEF TabState
    <2>3. mine' = mine /\ (Update(t, flush(tab)) \/ Update(t, tab))
        BY <1>4 DEF retry
    <2> HIDE DEF tab
    <2>4. mine' = mine /\ (tabs'[t] = flush(tab) \/ tabs'[t] = tab)
        BY <2>3 DEF Update, TypeOK
    <2> QED BY <1>1, <2>1, <2>2, <2>4, UnchangedIsOnward, FlushShape, CalmStep DEF Onward, OnlyTab
<1>5. CASE refresh(t)
    BY <1>1, <1>5, UnchangedIsOnward, CalmStep DEF refresh, Onward, OnlyTab
<1>6. CASE SaveRefused(t) \/ SaveTimesOut(t)
    <2>1. PICK warning \in {"not saved yet", "failed"} :
              tabs'[t] = retried([NotSaving(tabs[t]) EXCEPT !.warning = warning])
        BY <1>6 DEF SaveRefused, SaveTimesOut, SaveFails, Update, TypeOK
    <2>2. /\ tabs'[t].pc = tabs[t].pc /\ tabs'[t].saved = tabs[t].saved
          /\ tabs'[t].pending = tabs[t].pending
          /\ tabs'[t].saving = "no" /\ tabs'[t].sent = noChanges
        BY <1>2, <2>1 DEF retried, NotSaving, TabState
    <2>3. mine' = mine
        BY <1>6 DEF SaveRefused, SaveTimesOut
    <2> QED BY <1>1, <2>2, <2>3, UnchangedIsOnward, CalmStep DEF Onward, OnlyTab
<1>7. ASSUME NEW p \in Problem, setStar(t, p) PROVE TabInv(t)'
    <2>1. PICK starred : /\ tabs' = [tabs EXCEPT ![t] = changed([tabs[t] EXCEPT !.pending.stars[p] = starred])]
                         /\ mine' = [mine EXCEPT ![t].stars[p] = starred]
        BY <1>7 DEF setStar, Update
    <2>3. mine'[t].drafts = mine[t].drafts
        BY <2>1 DEF TypeOK, Changes
    <2>2. /\ tabs'[t].pc = tabs[t].pc /\ tabs'[t].saved = tabs[t].saved
          /\ tabs'[t].pending.drafts = tabs[t].pending.drafts
          /\ tabs'[t].saving = tabs[t].saving /\ tabs'[t].sent = tabs[t].sent
          /\ tabs'[t].answer = tabs[t].answer
        BY <1>2, <2>1 DEF changed, TypeOK, TabState, Changes
    <2> QED BY <1>1, <2>2, <2>3, UnchangedIsOnward, CalmStep DEF Onward, OnlyTab
<1> QED BY <1>3, <1>4, <1>5, <1>6, <1>7

LEMMA ClosedShape ==
    /\ Closed.pc = "closed" /\ Closed.saved = NoState /\ Closed.pending = noChanges
    /\ Closed.saving = "no" /\ Closed.sent = noChanges
    /\ [Closed EXCEPT !.pc = "opening"].saved = NoState
    /\ [Closed EXCEPT !.pc = "opening"].pending = noChanges
    /\ [Closed EXCEPT !.pc = "opening"].saving = "no"
    /\ [Closed EXCEPT !.pc = "opening"].sent = noChanges
BY DEF Closed

LEMMA FreshSteps ==
    ASSUME TypeOK, TypeOK', NEW t \in Tab, OnlyTab(t), TabInv(t), Open(t) \/ Close(t)
    PROVE  TabInv(t)'
<1>1. profile' = profile
    BY DEF Open, Close, serverVars
<1>2. \A p \in Problem : mine'[t].drafts[p] = None
    <2>1. CASE Open(t)
        BY <2>1 DEF Open, TabInv, DraftInv
    <2>2. CASE Close(t)
        BY <2>2 DEF Close, noChanges, TypeOK
    <2> QED BY <2>1, <2>2
<1>3. tabs'[t] = [Closed EXCEPT !.pc = "opening"] \/ tabs'[t] = Closed
    BY DEF Open, Close, Update, TypeOK
<1> QED BY <1>1, <1>2, <1>3, ClosedShape, FreshStep DEF OnlyTab

\* The draft on screen is as new as what was typed last: EditorNeverGoesBack, for one tab.
LEMMA ViewIsAsNew ==
    ASSUME TypeOK, NEW t \in Tab, TabInv(t), NEW p \in Problem
    PROVE  /\ view(tabs[t]).drafts[p] \in Draft \cup {None}
           /\ AsNew(view(tabs[t]).drafts[p], mine[t].drafts[p])
<1>1. DraftInv(t, p)
    BY DEF TabInv
<1>2. tabs[t].saved \in State /\ tabs[t].pending \in Changes
    BY DEF TypeOK, TabState
<1>3. view(tabs[t]).drafts[p] = Newest(tabs[t].saved.drafts[p], tabs[t].pending.drafts[p])
    BY <1>2, ApplyShape DEF view
<1>6. /\ tabs[t].saved.drafts[p] \in Draft \cup {None} /\ tabs[t].pending.drafts[p] \in Draft \cup {None}
      /\ mine[t].drafts[p] \in Draft \cup {None} /\ tabs[t].saved.revision \in Nat
    BY TabFacts
<1>4. CASE tabs[t].pending.drafts[p] = mine[t].drafts[p]
    BY <1>3, <1>4, <1>6, NewestIsNew
<1>5. CASE tabs[t].pending.drafts[p] # mine[t].drafts[p]
    <2>1. AsNew(tabs[t].saved.drafts[p], mine[t].drafts[p])
        BY <1>1, <1>5, <1>6 DEF DraftInv, CoveredFrom, Covers
    <2>2. AsNew(view(tabs[t]).drafts[p], tabs[t].saved.drafts[p])
        BY <1>3, <1>6, NewestIsNew
    <2>3. view(tabs[t]).drafts[p] \in Draft \cup {None}
        BY <1>3, <1>6, NewestIsNew
    <2> QED BY <1>6, <2>1, <2>2, <2>3, AsNewIsTransitive
<1> QED BY <1>4, <1>5

\* A new draft is newer than everything the tab has, also than what it has just sent.
LEMMA DraftStep ==
    ASSUME TypeOK, TypeOK', NEW t \in Tab, OnlyTab(t), TabInv(t),
           NEW p \in Problem, NEW code \in Code, NEW now \in Now, setDraft(t, p, code, now)
    PROVE  TabInv(t)'
<1> DEFINE previous == view(tabs[t]).drafts[p]
           draft == [at |-> Stamp(previous, now), value |-> code]
<1>1. /\ previous \in Draft \cup {None}
      /\ AsNew(previous, mine[t].drafts[p])
    BY ViewIsAsNew
<1>2. /\ tabs' = [tabs EXCEPT ![t] = changed([tabs[t] EXCEPT !.pending.drafts[p] = draft])]
      /\ mine' = [mine EXCEPT ![t].drafts[p] = draft]
      /\ tabs[t].pc = "open" /\ profile' = profile /\ reads' = reads
    BY DEF setDraft, Update, Edited, serverVars
<1> HIDE DEF previous
<1>3. now \in Nat /\ code \in Code
    BY ProgressAssumption
<1>4. draft \in Draft /\ (previous # None => draft.at > previous.at)
    BY <1>1, <1>3 DEF Stamp, Draft
<1> HIDE DEF draft
<1>5. AsNew(draft, tabs[t].sent.drafts[p]) /\ draft # tabs[t].sent.drafts[p]
    <2>1. /\ tabs[t].sent.drafts[p] \in Draft \cup {None}
          /\ mine[t].drafts[p] \in Draft \cup {None}
        BY TabFacts
    <2>2. AsNew(previous, tabs[t].sent.drafts[p])
        BY <1>1, <2>1, AsNewIsTransitive DEF TabInv, DraftInv
    <2> QED BY <1>1, <1>4, <2>1, <2>2, ProgressAssumption DEF AsNew, Draft
<1>6. tabs[t] \in TabState /\ mine[t] \in Changes
    BY DEF TypeOK
<1>7. /\ tabs'[t].pc = "open" /\ tabs'[t].saved = tabs[t].saved
      /\ tabs'[t].saving = tabs[t].saving /\ tabs'[t].sent = tabs[t].sent
      /\ tabs'[t].answer = tabs[t].answer
      /\ tabs'[t].pending.drafts = [tabs[t].pending.drafts EXCEPT ![p] = draft]
    BY <1>2, <1>6 DEF changed, TypeOK, TabState, Changes
<1>8. mine'[t].drafts = [mine[t].drafts EXCEPT ![p] = draft]
    BY <1>2, <1>6 DEF TypeOK
<1>9. tabs[t].pending.drafts \in Drafts /\ mine[t].drafts \in Drafts
    BY <1>6 DEF TabState, Changes
<1>10. RevisionsKnown(t)'
    BY <1>2, <1>7 DEF TabInv, RevisionsKnown, ReadsOf
<1>11. ASSUME NEW q \in Problem PROVE DraftInv(t, q)'
    <2>1. CASE q = p
        <3>1. tabs'[t].pending.drafts[q] = draft /\ mine'[t].drafts[q] = draft
            BY <1>7, <1>8, <1>9, <2>1 DEF Drafts
        <3> QED BY <1>5, <1>7, <2>1, <3>1 DEF DraftInv
    <2>2. CASE q # p
        <3>1. /\ tabs'[t].pending.drafts[q] = tabs[t].pending.drafts[q]
              /\ mine'[t].drafts[q] = mine[t].drafts[q]
            BY <1>7, <1>8, <1>9, <2>2 DEF Drafts
        <3>2. DraftInv(t, q)
            BY DEF TabInv
        <3> QED BY <1>2, <1>7, <3>1, <3>2 DEF DraftInv, CoveredFrom, Covers, ReadsOf
    <2> QED BY <2>1, <2>2
<1> QED BY <1>10, <1>11 DEF TabInv

\* The server has what was sent, and answers with it.
LEMMA ArrivalStep ==
    ASSUME TypeOK, TypeOK', NEW t \in Tab, TabInv(t), SaveArrives(t)
    PROVE  TabInv(t)'
<1>1. /\ tabs[t] \in TabState /\ profile \in Profile /\ history \in History
      /\ tabs[t].sent \in Changes /\ Write(tabs[t].sent)
    BY DEF TypeOK, TabState, History, SaveArrives
<1>2. /\ profile' \in Profile /\ profile'.revision = profile.revision + 1
      /\ \A p \in Problem : /\ AsNew(profile'.drafts[p], profile.drafts[p])
                            /\ AsNew(profile'.drafts[p], tabs[t].sent.drafts[p])
    BY <1>1, WriteMovesOn
<1>3. /\ tabs'[t].pc = tabs[t].pc /\ tabs'[t].saved = tabs[t].saved
      /\ tabs'[t].pending = tabs[t].pending /\ tabs'[t].sent = tabs[t].sent
      /\ tabs'[t].answer = readState(profile', history)
      /\ mine' = mine /\ reads' = reads
    BY <1>1 DEF SaveArrives, Update, TypeOK, TabState
<1>4. /\ tabs'[t].answer \in State
      /\ tabs'[t].answer.revision = profile'.revision
      /\ \A p \in Problem : AsNew(tabs'[t].answer.drafts[p], profile'.drafts[p])
    BY <1>1, <1>2, <1>3, ReadShape
<1>5. /\ tabs[t].saved.revision < profile'.revision
      /\ \A r \in ReadsOf(t) : /\ r.pc = "row" => r.row.revision < profile'.revision
                               /\ r.pc = "answered" => r.state.revision < profile'.revision
    <2>1. \A n \in Nat : n <= profile.revision => n < profile'.revision
        BY <1>2, TabFacts
    <2> QED BY <2>1, TabFacts DEF TabInv, RevisionsKnown
<1>6. RevisionsKnown(t)'
    <2>1. \A n \in Nat : n < profile'.revision => n <= profile'.revision
        BY <1>2 DEF Profile
    <2>2. profile'.revision <= profile'.revision
        BY <1>2 DEF Profile
    <2> QED BY <1>3, <1>4, <1>5, <2>1, <2>2, TabFacts DEF RevisionsKnown, ReadsOf
<1>7. ASSUME NEW p \in Problem PROVE DraftInv(t, p)'
    <2>1. DraftInv(t, p)
        BY DEF TabInv
    <2>2. /\ profile'.drafts[p] \in Draft \cup {None} /\ mine[t].drafts[p] \in Draft \cup {None}
          /\ profile.drafts[p] \in Draft \cup {None} /\ tabs[t].sent.drafts[p] \in Draft \cup {None}
        BY <1>2, TabFacts DEF Profile, Drafts
    <2>3. tabs'[t].answer.drafts[p] \in Draft \cup {None}
        BY <1>4 DEF State, Drafts
    <2>4. AsNew(profile'.drafts[p], mine[t].drafts[p])
              => AsNew(tabs'[t].answer.drafts[p], mine[t].drafts[p])
        BY <1>4, <2>2, <2>3, AsNewIsTransitive
    <2>5. ASSUME tabs[t].pending.drafts[p] # mine[t].drafts[p]
          PROVE  CoveredFrom(t, p, tabs[t].saved.revision)'
        <3>1. CoveredFrom(t, p, tabs[t].saved.revision)
            BY <2>1, <2>5 DEF DraftInv
        <3>2. AsNew(profile'.drafts[p], mine[t].drafts[p])
            BY <1>2, <2>2, <3>1, AsNewIsTransitive DEF CoveredFrom
        <3> QED BY <1>3, <2>4, <3>1, <3>2 DEF CoveredFrom, Covers, ReadsOf
    <2>6. ASSUME tabs[t].sent.drafts[p] = mine[t].drafts[p]
          PROVE  CoveredFrom(t, p, tabs[t].answer.revision)'
        <3>1. AsNew(profile'.drafts[p], mine[t].drafts[p])
            BY <1>2, <2>6
        <3>2. profile'.revision \in Nat /\ \A n \in Nat : n < profile'.revision => ~ (n >= profile'.revision)
            BY <1>2 DEF Profile
        <3> QED BY <1>3, <1>4, <1>5, <2>4, <3>1, <3>2, TabFacts DEF CoveredFrom, Covers, ReadsOf
    <2> QED BY <1>3, <2>1, <2>5, <2>6 DEF DraftInv
<1> QED BY <1>6, <1>7 DEF TabInv

\* later keeps the newer state, and what both states cover is still covered.
LEMMA LaterCovers ==
    ASSUME NEW saved \in State, NEW latest \in State
    PROVE  /\ later(saved, latest) \in {saved, latest}
           /\ later(saved, latest).revision >= saved.revision
           /\ later(saved, latest).revision >= latest.revision
BY DEF later, State

LEMMA LowerLevel ==
    ASSUME TypeOK, NEW t \in Tab, NEW p \in Problem, NEW level \in Nat, NEW higher \in Nat,
           higher >= level, CoveredFrom(t, p, level)
    PROVE  CoveredFrom(t, p, higher)
<1>1. \A n \in Nat : n >= higher => n >= level
    OBVIOUS
<1> QED BY <1>1, TabFacts DEF CoveredFrom, Covers

\* A saved state replaced by the answer of a save or of a refresh covers what both cover.
LEMMA AnswerCovers ==
    ASSUME TypeOK, TypeOK', NEW t \in Tab, NEW p \in Problem, NEW level \in Nat,
           CoveredFrom(t, p, level), NEW latest \in State, Covers(latest, level, t, p),
           profile' = profile, mine' = mine,
           tabs'[t].saved = later(tabs[t].saved, latest),
           tabs'[t].saving = "answered" => tabs[t].saving = "answered" /\ tabs'[t].answer = tabs[t].answer,
           ReadsOf(t)' \subseteq ReadsOf(t)
    PROVE  CoveredFrom(t, p, level)'
<1>1. tabs[t].saved \in State
    BY DEF TypeOK, TabState
<1>2. tabs'[t].saved \in {tabs[t].saved, latest}
    BY <1>1, LaterCovers
<1> QED BY <1>2 DEF CoveredFrom, Covers

\* The answer of a save: what was sent is covered by it, and the rest stays pending.
LEMMA SavedStep ==
    ASSUME TypeOK, TypeOK', NEW t \in Tab, TabInv(t), Saved(t)
    PROVE  TabInv(t)'
<1>1. /\ tabs[t] \in TabState /\ tabs[t].saved \in State /\ tabs[t].answer \in State
      /\ tabs[t].pending \in Changes /\ confirmed(tabs[t]) \in Changes
    BY TabShapes DEF TypeOK, TabState
<1>2. /\ tabs'[t].pc = tabs[t].pc /\ tabs'[t].saving = "no" /\ tabs'[t].sent = noChanges
      /\ tabs'[t].saved = later(tabs[t].saved, tabs[t].answer)
      /\ tabs'[t].pending = confirmed(tabs[t])
      /\ tabs[t].saving = "answered"
      /\ profile' = profile /\ mine' = mine /\ reads' = reads
    <2> DEFINE tab == [tabs[t] EXCEPT !.saved = later(@, tabs[t].answer), !.pending = confirmed(tabs[t]),
                                      !.failures = 0, !.warning = "no"]
    <2>1. tabs'[t] = rescheduled(NotSaving(tab))
        BY DEF Saved, Update, TypeOK
    <2>2. /\ tab.pc = tabs[t].pc /\ tab.saved = later(tabs[t].saved, tabs[t].answer)
          /\ tab.pending = confirmed(tabs[t]) /\ tab \in TabState
        BY <1>1, LaterCovers, FailureCounts DEF TabState
    <2> HIDE DEF tab
    <2> QED BY <2>1, <2>2 DEF rescheduled, NotSaving, TabState, Saved, serverVars
<1>3. tabs'[t].saved \in {tabs[t].saved, tabs[t].answer} /\ tabs'[t].saved.revision \in Nat
    BY <1>1, <1>2, LaterCovers DEF State
<1>4. /\ tabs'[t].saved.revision >= tabs[t].saved.revision
      /\ tabs'[t].saved.revision >= tabs[t].answer.revision
    BY <1>1, <1>2, LaterCovers
<1>5. RevisionsKnown(t)'
    BY <1>2, <1>3 DEF TabInv, RevisionsKnown, ReadsOf
<1>6. ASSUME NEW p \in Problem PROVE DraftInv(t, p)'
    <2>1. DraftInv(t, p)
        BY DEF TabInv
    <2>2. tabs'[t].pending.drafts[p] = IF tabs[t].pending.drafts[p] = tabs[t].sent.drafts[p]
                                       THEN None ELSE tabs[t].pending.drafts[p]
        BY <1>2 DEF confirmed
    <2>3. AsNew(mine'[t].drafts[p], tabs'[t].sent.drafts[p])
        BY <1>2 DEF noChanges, AsNew
    <2>4. ASSUME tabs'[t].pending.drafts[p] # mine[t].drafts[p]
          PROVE  CoveredFrom(t, p, tabs[t].saved.revision)'
        <3>1. PICK level \in Nat : level = tabs'[t].saved.revision
            BY <1>3
        <3>2. CoveredFrom(t, p, tabs[t].saved.revision) \/ CoveredFrom(t, p, tabs[t].answer.revision)
            BY <1>2, <2>1, <2>2, <2>4 DEF DraftInv
        <3>3. CoveredFrom(t, p, level)
            BY <1>4, <3>1, <3>2, LowerLevel, TabFacts
        <3>4. Covers(tabs[t].answer, level, t, p)
            BY <1>2, <3>3 DEF CoveredFrom
        <3>5. CoveredFrom(t, p, level)'
            BY <1>1, <1>2, <3>3, <3>4, AnswerCovers DEF ReadsOf
        <3> QED BY <3>1, <3>5
    <2> QED BY <1>2, <2>1, <2>2, <2>3, <2>4 DEF DraftInv
<1> QED BY <1>5, <1>6 DEF TabInv

\* The answer of a refresh, or the first state of a store.
LEMMA LoadedStep ==
    ASSUME TypeOK, TypeOK', NEW t \in Tab, TabInv(t), NEW r \in ReadsOf(t), Loaded(r)
    PROVE  TabInv(t)'
<1>1. /\ tabs[t] \in TabState /\ tabs[t].saved \in State /\ r.state \in State /\ r.tab = t
    BY DEF TypeOK, TabState, ReadsOf, Read
<1>2. /\ r.pc = "answered" /\ profile' = profile /\ mine' = mine /\ ReadsOf(t)' \subseteq ReadsOf(t)
    BY DEF Loaded, serverVars, ReadsOf
<1>3. /\ r.state.revision <= profile.revision
    BY <1>2 DEF TabInv, RevisionsKnown
<1>4. CASE tabs[t].pc = "opening"
    <2>1. /\ tabs'[t].saved = r.state /\ tabs'[t].pending = tabs[t].pending
          /\ tabs'[t].saving = tabs[t].saving /\ tabs'[t].sent = tabs[t].sent
          /\ tabs'[t].answer = tabs[t].answer
        BY <1>1, <1>4 DEF Loaded, Update, TypeOK, TabState
    <2>2. \A p \in Problem : mine[t].drafts[p] = None
        BY <1>4 DEF TabInv, DraftInv
    <2>3. RevisionsKnown(t)'
        BY <1>2, <1>3, <2>1 DEF TabInv, RevisionsKnown
    <2>4. \A p \in Problem : DraftInv(t, p)'
        BY <1>2, <2>1, <2>2 DEF TabInv, DraftInv, CoveredFrom, Covers, AsNew
    <2> QED BY <2>3, <2>4 DEF TabInv
<1>5. CASE tabs[t].pc # "opening"
    <2>1. /\ tabs'[t].saved = later(tabs[t].saved, r.state)
          /\ tabs'[t].pc = tabs[t].pc /\ tabs'[t].pending = tabs[t].pending
          /\ tabs'[t].saving = tabs[t].saving /\ tabs'[t].sent = tabs[t].sent
          /\ tabs'[t].answer = tabs[t].answer
        <3> DEFINE tab == [tabs[t] EXCEPT !.saved = later(@, r.state), !.warning = "no"]
        <3>1. tabs'[t] = rescheduled(tab)
            BY <1>1, <1>5 DEF Loaded, Update, TypeOK
        <3>2. /\ tab.saved = later(tabs[t].saved, r.state)
              /\ tab.pc = tabs[t].pc /\ tab.pending = tabs[t].pending
              /\ tab.saving = tabs[t].saving /\ tab.sent = tabs[t].sent /\ tab.answer = tabs[t].answer
              /\ tab \in TabState
            BY <1>1, LaterCovers DEF TabState
        <3> HIDE DEF tab
        <3> QED BY <3>1, <3>2 DEF rescheduled, TabState
    <2>2. /\ tabs'[t].saved \in {tabs[t].saved, r.state} /\ tabs'[t].saved.revision \in Nat
          /\ tabs'[t].saved.revision >= tabs[t].saved.revision
        BY <1>1, <2>1, LaterCovers DEF State
    <2>3. RevisionsKnown(t)'
        BY <1>2, <1>3, <2>1, <2>2 DEF TabInv, RevisionsKnown
    <2>4. ASSUME NEW p \in Problem PROVE DraftInv(t, p)'
        <3>1. DraftInv(t, p)
            BY DEF TabInv
        <3>2. ASSUME NEW level \in Nat, CoveredFrom(t, p, level) PROVE CoveredFrom(t, p, level)'
            <4>1. Covers(r.state, level, t, p)
                BY <1>2, <3>2 DEF CoveredFrom
            <4> QED BY <1>1, <1>2, <2>1, <3>2, <4>1, AnswerCovers
        <3>3. PICK level \in Nat : level = tabs'[t].saved.revision
            BY <2>2
        <3>4. (tabs[t].pending.drafts[p] # mine[t].drafts[p] => CoveredFrom(t, p, tabs[t].saved.revision))'
            <4>1. CoveredFrom(t, p, tabs[t].saved.revision) => CoveredFrom(t, p, level)
                BY <2>2, <3>3, LowerLevel, TabFacts
            <4>2. CoveredFrom(t, p, tabs[t].saved.revision) => CoveredFrom(t, p, level)'
                BY <3>2, <4>1
            <4> QED BY <1>2, <2>1, <3>1, <3>3, <4>2 DEF DraftInv
        <3>5. (tabs[t].saving = "answered" /\ tabs[t].sent.drafts[p] = mine[t].drafts[p]
                  => CoveredFrom(t, p, tabs[t].answer.revision))'
            BY <1>2, <2>1, <3>1, <3>2, TabFacts DEF DraftInv
        <3> QED BY <1>2, <2>1, <3>1, <3>4, <3>5 DEF DraftInv
    <2> QED BY <2>3, <2>4 DEF TabInv
<1> QED BY <1>4, <1>5

\* The two queries: their answers are no newer than the server, and cover what it covers.
LEMMA QueryStep ==
    ASSUME TypeOK, TypeOK', NEW t \in Tab, TabInv(t), NEW r \in ReadsOf(t),
           ReadProfile(r) \/ ReadHistory(r)
    PROVE  TabInv(t)'
<1>1. /\ profile' = profile /\ tabs' = tabs /\ mine' = mine
      /\ profile \in Profile /\ history \in History /\ r.row \in Profile /\ r.tab = t
    BY DEF ReadProfile, ReadHistory, serverVars, TypeOK, History, ReadsOf, Read
<1>2. PICK s : /\ ReadsOf(t)' \subseteq ReadsOf(t) \cup {s}
               /\ \/ s.pc = "row" /\ s.row = profile
                  \/ s.pc = "answered" /\ s.state = readState(r.row, history) /\ r.pc = "row"
    <2>1. CASE ReadProfile(r)
        <3> DEFINE s == [r EXCEPT !.pc = "row", !.row = profile]
        <3>1. s.pc = "row" /\ s.row = profile /\ s.tab = t
            BY <1>1 DEF TypeOK, ReadsOf, Read
        <3>2. reads' = (reads \ {r}) \cup {s}
            BY <2>1 DEF ReadProfile
        <3> HIDE DEF s
        <3> QED BY <3>1, <3>2 DEF ReadsOf
    <2>2. CASE ReadHistory(r)
        <3> DEFINE s == [r EXCEPT !.pc = "answered", !.row = NewProfile,
                                  !.state = readState(r.row, history)]
        <3>1. s.pc = "answered" /\ s.state = readState(r.row, history) /\ s.tab = t /\ r.pc = "row"
            BY <1>1, <2>2 DEF TypeOK, ReadsOf, Read, ReadHistory
        <3>2. reads' = (reads \ {r}) \cup {s}
            BY <2>2 DEF ReadHistory
        <3> HIDE DEF s
        <3> QED BY <3>1, <3>2 DEF ReadsOf
    <2> QED BY <2>1, <2>2
<1>3. /\ readState(r.row, history).revision = r.row.revision
      /\ readState(r.row, history) \in State
      /\ \A p \in Problem : AsNew(readState(r.row, history).drafts[p], r.row.drafts[p])
    BY <1>1, ReadShape
<1>4. RevisionsKnown(t)'
    BY <1>1, <1>2, <1>3, TabFacts DEF TabInv, RevisionsKnown
<1>5. ASSUME NEW p \in Problem PROVE DraftInv(t, p)'
    <2>1. DraftInv(t, p)
        BY DEF TabInv
    <2>2. AsNew(r.row.drafts[p], mine[t].drafts[p])
              => AsNew(readState(r.row, history).drafts[p], mine[t].drafts[p])
        <3>1. readState(r.row, history).drafts[p] \in Draft \cup {None}
            BY <1>3 DEF State, Drafts
        <3> QED BY <1>3, <3>1, TabFacts, AsNewIsTransitive
    <2>3. ASSUME NEW level \in Nat, CoveredFrom(t, p, level) PROVE CoveredFrom(t, p, level)'
        BY <1>1, <1>2, <1>3, <2>2, <2>3 DEF CoveredFrom, Covers
    <2> QED BY <1>1, <2>1, <2>3, TabFacts DEF DraftInv
<1> QED BY <1>4, <1>5 DEF TabInv

LEMMA LoadFailsStep ==
    ASSUME TypeOK, TypeOK', NEW t \in Tab, TabInv(t), NEW r \in ReadsOf(t), LoadFails(r)
    PROVE  TabInv(t)'
<1>1. /\ profile' = profile /\ mine' = mine /\ r.tab = t
      /\ \A s \in ReadsOf(t)' : s \in ReadsOf(t)
    BY DEF LoadFails, serverVars, ReadsOf
<1>2. CASE tabs[t].pc = "opening"
    <2>1. tabs'[t] = Closed
        BY <1>1, <1>2 DEF LoadFails, Update, TypeOK
    <2>2. \A p \in Problem : mine'[t].drafts[p] = None
        BY <1>1, <1>2 DEF TabInv, DraftInv
    <2> QED BY <1>1, <2>1, <2>2, ClosedShape, FreshStep
<1>3. CASE tabs[t].pc # "opening"
    <2>1. /\ tabs'[t].pc = tabs[t].pc /\ tabs'[t].saved = tabs[t].saved
          /\ tabs'[t].pending = tabs[t].pending /\ tabs'[t].saving = tabs[t].saving
          /\ tabs'[t].sent = tabs[t].sent /\ tabs'[t].answer = tabs[t].answer
        <3>1. tabs' = [tabs EXCEPT ![t] = [tabs[t] EXCEPT !.warning = "failed"]]
            BY <1>1, <1>3 DEF LoadFails, Update
        <3>2. tabs'[t] = [tabs[t] EXCEPT !.warning = "failed"] /\ tabs[t] \in TabState
            BY <3>1 DEF TypeOK
        <3> QED BY <3>2 DEF TabState
    <2>2. /\ profile.revision <= profile'.revision
          /\ \A p \in Problem : AsNew(profile'.drafts[p], profile.drafts[p])
        BY <1>1, UnchangedIsOnward DEF Onward
    <2>3. /\ mine'[t].drafts = mine[t].drafts
          /\ \A s \in ReadsOf(t)' : s \in ReadsOf(t) \/ s.pc = "sent"
          /\ tabs'[t].pending.drafts = tabs[t].pending.drafts
        BY <1>1, <2>1
    <2> QED BY <2>1, <2>2, <2>3, CalmStep
<1> QED BY <1>2, <1>3

\* A request of one tab leaves the others alone.
LEMMA ReadShapes ==
    ASSUME TypeOK, NEW r \in reads,
           ReadProfile(r) \/ ReadHistory(r) \/ Loaded(r) \/ LoadFails(r)
    PROVE  /\ r.tab \in Tab /\ r \in ReadsOf(r.tab)
           /\ profile' = profile
           /\ \A u \in Tab \ {r.tab} : /\ tabs'[u] = tabs[u] /\ mine'[u] = mine[u]
                                       /\ ReadsOf(u)' \subseteq ReadsOf(u)
<1>1. r \in Read /\ r.tab \in Tab /\ r \in ReadsOf(r.tab)
    BY DEF TypeOK, Read, ReadsOf
<1>2. profile' = profile /\ mine' = mine
    BY DEF ReadProfile, ReadHistory, Loaded, LoadFails, serverVars
<1>3. \A u \in Tab \ {r.tab} : tabs'[u] = tabs[u]
    BY <1>1 DEF ReadProfile, ReadHistory, Loaded, LoadFails, Update, TypeOK
<1>4. \E s : s.tab = r.tab /\ reads' \subseteq reads \cup {s}
    <2>1. CASE ReadProfile(r)
        <3>1. [r EXCEPT !.pc = "row", !.row = profile].tab = r.tab
            BY <1>1 DEF Read
        <3> QED BY <2>1, <3>1 DEF ReadProfile
    <2>2. CASE ReadHistory(r)
        <3>1. [r EXCEPT !.pc = "answered", !.row = NewProfile, !.state = readState(r.row, history)].tab = r.tab
            BY <1>1 DEF Read
        <3> QED BY <2>2, <3>1 DEF ReadHistory
    <2>3. CASE Loaded(r) \/ LoadFails(r)
        BY <2>3 DEF Loaded, LoadFails
    <2> QED BY <2>1, <2>2, <2>3
<1> QED BY <1>1, <1>2, <1>3, <1>4 DEF ReadsOf

----------------------------------------------------------------------------
(* The theorems.                                                           *)

LEMMA ProgressInvInit == Init => ProgressInv
<1> SUFFICES ASSUME Init PROVE ProgressInv
    OBVIOUS
<1>1. TypeOK
    BY InitType
<1>2. \A t \in Tab : tabs[t] = Closed /\ mine[t] = noChanges /\ reads = {} /\ profile.revision = 0
    BY DEF Init, NewProfile
<1>3. Closed.saved.revision = 0
    BY ClosedShape DEF NoState, readState, NewProfile
<1>4. /\ Closed.pending = noChanges /\ Closed.sent = noChanges
      /\ \A p \in Problem : noChanges.drafts[p] = None
    BY ClosedShape DEF noChanges
<1>5. ASSUME NEW t \in Tab PROVE TabInv(t)
    <2>1. RevisionsKnown(t)
        BY <1>2, <1>3, ClosedShape DEF RevisionsKnown, ReadsOf
    <2>2. \A p \in Problem : DraftInv(t, p)
        BY <1>2, <1>4, ClosedShape DEF DraftInv, AsNew
    <2> QED BY <2>1, <2>2 DEF TabInv
<1> QED BY <1>1, <1>5 DEF ProgressInv

LEMMA ProgressInvStep == ProgressInv /\ [Next]_vars => ProgressInv'
<1> SUFFICES ASSUME ProgressInv, [Next]_vars PROVE ProgressInv'
    OBVIOUS
<1>1. TypeOK /\ TypeOK'
    BY StepType DEF ProgressInv
<1>2. \A t \in Tab : TabInv(t)
    BY DEF ProgressInv
<1>3. ASSUME NEW t \in Tab, TabStep(t) PROVE \A u \in Tab : TabInv(u)'
    <2>1. OnlyTab(t)
        BY <1>1, <1>3, OnlyTabShape
    <2>2. Onward
        <3>1. CASE SaveArrives(t)
            <4>1. tabs[t].sent \in Changes
                BY <1>1 DEF TypeOK, TabState
            <4> QED BY <1>1, <3>1, <4>1, WriteIsOnward DEF SaveArrives
        <3>2. CASE ~SaveArrives(t)
            <4>1. profile' = profile
                BY <1>3, <3>2 DEF TabStep, Edit, setDraft, setStar, Edited, TimerFires, Hide, retry,
                                  refresh, Open, Close, Saved, SaveRefused, SaveTimesOut, serverVars
            <4> QED BY <1>1, <4>1, UnchangedIsOnward
        <3> QED BY <3>1, <3>2
    <2>3. TabInv(t)'
        <3>1. CASE \E p \in Problem, code \in Code, now \in Now : setDraft(t, p, code, now)
            BY <1>1, <1>2, <2>1, <3>1, DraftStep
        <3>2. CASE SaveArrives(t)
            BY <1>1, <1>2, <3>2, ArrivalStep
        <3>3. CASE Saved(t)
            BY <1>1, <1>2, <3>3, SavedStep
        <3>4. CASE Open(t) \/ Close(t)
            BY <1>1, <1>2, <2>1, <3>4, FreshSteps
        <3> QED BY <1>1, <1>2, <1>3, <2>1, <3>1, <3>2, <3>3, <3>4, CalmSteps DEF TabStep, Edit
    <2> QED BY <1>1, <1>2, <2>1, <2>2, <2>3, OtherTabs
<1>4. ASSUME NEW r \in reads, ReadProfile(r) \/ ReadHistory(r) \/ Loaded(r) \/ LoadFails(r)
      PROVE  \A u \in Tab : TabInv(u)'
    <2>1. /\ r.tab \in Tab /\ r \in ReadsOf(r.tab)
          /\ profile' = profile
          /\ \A u \in Tab \ {r.tab} : /\ tabs'[u] = tabs[u] /\ mine'[u] = mine[u]
                                      /\ ReadsOf(u)' \subseteq ReadsOf(u)
        BY <1>1, <1>4, ReadShapes
    <2>2. TabInv(r.tab)'
        BY <1>1, <1>2, <1>4, <2>1, QueryStep, LoadedStep, LoadFailsStep
    <2>3. ASSUME NEW u \in Tab \ {r.tab} PROVE TabInv(u)'
        BY <1>1, <1>2, <2>1, UnchangedIsOnward, CalmStep DEF Onward
    <2> QED BY <2>2, <2>3
<1>5. ASSUME Onward, tabs' = tabs, mine' = mine, reads' = reads PROVE \A u \in Tab : TabInv(u)'
    <2>1. \A u \in Tab : ReadsOf(u)' = ReadsOf(u)
        BY <1>5 DEF ReadsOf
    <2> QED BY <1>1, <1>2, <1>5, <2>1, CalmStep DEF Onward
<1>6. CASE UNCHANGED vars
    <2>1. profile' = profile /\ tabs' = tabs /\ mine' = mine /\ reads' = reads
        BY <1>6 DEF vars, serverVars
    <2>2. \A u \in Tab : TabInv(u)'
        BY <1>1, <1>5, <2>1, UnchangedIsOnward
    <2> QED BY <1>1, <2>2 DEF ProgressInv
<1>7. ASSUME NEW changes \in late, LateSaveArrives(changes) PROVE \A u \in Tab : TabInv(u)'
    <2>1. changes \in Changes
        BY <1>1 DEF TypeOK
    <2> QED BY <1>1, <1>5, <1>7, <2>1, WriteIsOnward DEF LateSaveArrives
<1>8. ASSUME NEW p \in Problem, NEW code \in Code, NEW at \in Now, NEW accepted \in BOOLEAN,
             FinishSubmission(p, code, at, accepted)
      PROVE  \A u \in Tab : TabInv(u)'
    <2>1. PICK counted \in {0, 1} : profile' = [profile EXCEPT !.revision = @ + counted]
        BY <1>8 DEF FinishSubmission
    <2>2. profile \in Profile /\ counted \in Nat
        BY <1>1 DEF TypeOK
    <2>3. profile'.revision = profile.revision + counted /\ profile'.drafts = profile.drafts
        BY <2>1, <2>2 DEF Profile
    <2>4. \A q \in Problem : AsNew(profile.drafts[q], profile.drafts[q])
        BY <1>1, UnchangedIsOnward, TabFacts, <2>2 DEF AsNew, Draft, Profile, Drafts
    <2>5. Onward
        BY <2>2, <2>3, <2>4 DEF Onward, Profile
    <2> QED BY <1>5, <1>8, <2>5 DEF FinishSubmission
<1> QED BY <1>1, <1>3, <1>4, <1>6, <1>7, <1>8 DEF ProgressInv, Next

LEMMA ProgressInvHolds == Spec => []ProgressInv
BY ProgressInvInit, ProgressInvStep, PTL DEF Spec

\* For any tabs, faults and edits: what was typed last is pending until the server has it.
THEOREM EditsAreSafe == Spec => []NoEditLost
<1>1. ProgressInv => NoEditLost
    <2> SUFFICES ASSUME ProgressInv, NEW t \in Tab, NEW p \in Problem,
                        tabs[t].pending.drafts[p] # mine[t].drafts[p]
                 PROVE  AsNew(ServerState.drafts[p], mine[t].drafts[p])
        BY DEF NoEditLost
    <2>1. AsNew(profile.drafts[p], mine[t].drafts[p])
        BY DEF ProgressInv, TabInv, DraftInv, CoveredFrom
    <2>2. profile \in Profile /\ history \in History
        BY DEF ProgressInv, TypeOK, History
    <2>3. /\ AsNew(ServerState.drafts[p], profile.drafts[p])
          /\ ServerState.drafts[p] \in Draft \cup {None}
        BY <2>2, ReadShape DEF ServerState, State, Drafts
    <2>4. profile.drafts[p] \in Draft \cup {None} /\ mine[t].drafts[p] \in Draft \cup {None}
        BY TabFacts DEF ProgressInv
    <2> QED BY <2>1, <2>3, <2>4, AsNewIsTransitive
<1> QED BY <1>1, ProgressInvHolds, PTL

\* For any order of answers, an editor never falls back to older code than was typed in it.
THEOREM EditorsMoveOn == Spec => []EditorNeverGoesBack
<1>1. ProgressInv => EditorNeverGoesBack
    BY ViewIsAsNew DEF ProgressInv, EditorNeverGoesBack
<1> QED BY <1>1, ProgressInvHolds, PTL

\* For any changes that arrive, however late, the drafts that a reader gets only get newer.
THEOREM ServerMovesOn == Spec => DraftsOnlyGetNewer
<1>1. ASSUME TypeOK, [Next]_vars, NEW p \in Problem
      PROVE  AsNew(ServerState'.drafts[p], ServerState.drafts[p])
    <2>1. TypeOK' /\ profile \in Profile /\ history \in History
        BY <1>1, StepType DEF TypeOK, History
    <2>2. profile' \in Profile /\ history' \in History
        BY <2>1 DEF TypeOK, History
    <2>3. /\ ServerState.drafts[p] \in Draft \cup {None} /\ ServerState'.drafts[p] \in Draft \cup {None}
          /\ profile'.drafts[p] \in Draft \cup {None}
        BY <2>1, <2>2, ReadShape DEF ServerState, State, Profile, Drafts
    <2>4. CASE profile' = profile /\ history' = history
        BY <2>3, <2>4 DEF ServerState, AsNew, Draft
    <2>5. ASSUME NEW changes \in Changes, Write(changes), history' = history
          PROVE  AsNew(ServerState'.drafts[p], ServerState.drafts[p])
        <3>1. AsNew(profile'.drafts[p], ServerState.drafts[p])
            BY <2>1, <2>5, WriteMovesOn
        <3>2. AsNew(ServerState'.drafts[p], profile'.drafts[p])
            BY <2>1, <2>2, <2>5, ReadShape DEF ServerState
        <3> QED BY <2>3, <3>1, <3>2, AsNewIsTransitive
    <2>6. ASSUME NEW q \in Problem, NEW code \in Code, NEW at \in Now, NEW accepted \in BOOLEAN,
                 FinishSubmission(q, code, at, accepted)
          PROVE  AsNew(ServerState'.drafts[p], ServerState.drafts[p])
        <3>1. profile'.drafts = profile.drafts
            BY <2>1, <2>6 DEF FinishSubmission, Profile
        <3>2. /\ history[p].latest \in Draft \cup {None} /\ profile.drafts[p] \in Draft \cup {None}
              /\ at \in Nat
            BY <2>1, ProgressAssumption DEF History, Profile, Drafts
        <3>3. AsNew(history'[p].latest, history[p].latest)
            <4>1. history'[p].latest = history[p].latest \/ (q = p /\ history'[p].latest = [at |-> at, value |-> code])
                BY <2>1, <2>6 DEF FinishSubmission, History
            <4>2. history[q].latest # None => history[q].latest.at <= at
                BY <2>6 DEF FinishSubmission
            <4> QED BY <3>2, <4>1, <4>2, ProgressAssumption DEF AsNew, Draft
        <3>4. /\ ServerState.drafts[p]
                     = IF profile.drafts[p] # None THEN profile.drafts[p] ELSE history[p].latest
              /\ ServerState'.drafts[p]
                     = IF profile'.drafts[p] # None THEN profile'.drafts[p] ELSE history'[p].latest
            BY DEF ServerState, readState
        <3> QED BY <3>1, <3>2, <3>3, <3>4 DEF AsNew, Draft
    <2>7. CASE \E t \in Tab : TabStep(t)
        <3>1. PICK t \in Tab : TabStep(t)
            BY <2>7
        <3>2. CASE SaveArrives(t)
            BY <1>1, <2>5, <3>2 DEF SaveArrives, TypeOK, TabState
        <3>3. CASE ~SaveArrives(t)
            BY <2>4, <3>1, <3>3 DEF TabStep, Edit, setDraft, setStar, Edited, TimerFires, Hide, retry,
                                    refresh, Open, Close, Saved, SaveRefused, SaveTimesOut, serverVars
        <3> QED BY <3>2, <3>3
    <2>8. CASE \E r \in reads : ReadProfile(r) \/ ReadHistory(r) \/ Loaded(r) \/ LoadFails(r)
        BY <2>4, <2>8 DEF ReadProfile, ReadHistory, Loaded, LoadFails, serverVars
    <2>9. CASE \E changes \in late : LateSaveArrives(changes)
        BY <1>1, <2>5, <2>9 DEF LateSaveArrives, TypeOK
    <2>10. CASE UNCHANGED vars
        BY <2>4, <2>10 DEF vars, serverVars
    <2> QED BY <1>1, <2>6, <2>7, <2>8, <2>9, <2>10 DEF Next
<1>2. TypeOK /\ [Next]_vars
          => [\A p \in Problem : AsNew(ServerState'.drafts[p], ServerState.drafts[p])]_vars
    BY <1>1
<1> QED BY <1>2, ProgressTypes, PTL DEF Spec, DraftsOnlyGetNewer

\* For any clocks, what is typed shows at once.
THEOREM EditsShow == Spec => EditsShowAtOnce
<1> DEFINE Shows == \A t \in Tab, p \in Problem :
                        mine'[t].drafts[p] \notin {mine[t].drafts[p], None}
                            => view(tabs'[t]).drafts[p] = mine'[t].drafts[p]
<1>1. ASSUME TypeOK, NEW u \in Tab, NEW q \in Problem, NEW code \in Code, NEW now \in Now,
             setDraft(u, q, code, now)
      PROVE  Shows
    <2> DEFINE previous == view(tabs[u]).drafts[q]
               draft == [at |-> Stamp(previous, now), value |-> code]
    <2>1. /\ tabs[u] \in TabState /\ mine[u] \in Changes
          /\ tabs[u].saved \in State /\ tabs[u].pending \in Changes
          /\ tabs[u].saved.drafts[q] \in Draft \cup {None}
          /\ tabs[u].pending.drafts[q] \in Draft \cup {None}
        BY <1>1, TabFacts DEF TypeOK, TabState
    <2>2. previous = Newest(tabs[u].saved.drafts[q], tabs[u].pending.drafts[q])
        BY <2>1, ApplyShape DEF view
    <2>3. previous \in Draft \cup {None} /\ AsNew(previous, tabs[u].saved.drafts[q])
        BY <2>1, <2>2, NewestIsNew
    <2>4. /\ tabs' = [tabs EXCEPT ![u] = changed([tabs[u] EXCEPT !.pending.drafts[q] = draft])]
          /\ mine' = [mine EXCEPT ![u].drafts[q] = draft]
        BY <1>1 DEF setDraft, Update
    <2> HIDE DEF previous
    <2>5. draft \in Draft /\ (previous # None => draft.at > previous.at)
        BY <2>3, ProgressAssumption DEF Stamp, Draft
    <2> HIDE DEF draft
    <2>6. Newest(tabs[u].saved.drafts[q], draft) = draft
        BY <2>1, <2>3, <2>5, ProgressAssumption DEF Newest, AsNew, Draft
    <2>7. /\ tabs'[u].saved = tabs[u].saved
          /\ tabs'[u].pending = [tabs[u].pending EXCEPT !.drafts[q] = draft]
        BY <1>1, <2>1, <2>4 DEF changed, TypeOK, TabState
    <2>8. tabs'[u].pending \in Changes /\ tabs'[u].pending.drafts[q] = draft
        BY <2>1, <2>5, <2>7 DEF Changes, Drafts
    <2>9. view(tabs'[u]).drafts[q] = draft
        <3>1. tabs'[u].saved \in State
            BY <2>1, <2>7
        <3>2. view(tabs'[u]).drafts[q] = Newest(tabs'[u].saved.drafts[q], tabs'[u].pending.drafts[q])
            BY <2>8, <3>1, ApplyShape DEF view
        <3> QED BY <2>6, <2>7, <2>8, <3>2
    <2>10. mine'[u].drafts[q] = draft
        BY <1>1, <2>1, <2>4 DEF TypeOK, Changes, Drafts
    <2>11. \A t \in Tab, p \in Problem : t # u \/ p # q => mine'[t].drafts[p] = mine[t].drafts[p]
        BY <1>1, <2>1, <2>4 DEF TypeOK, Changes, Drafts
    <2> QED BY <2>9, <2>10, <2>11
<1>2. ASSUME TypeOK, \A t \in Tab, p \in Problem : mine'[t].drafts[p] \in {mine[t].drafts[p], None}
      PROVE  Shows
    BY <1>2
<1>3. ASSUME TypeOK, NEW u \in Tab, TabStep(u) PROVE Shows
    <2>1. CASE \E p \in Problem, code \in Code, now \in Now : setDraft(u, p, code, now)
        BY <1>1, <1>3, <2>1
    <2>2. CASE \E p \in Problem : setStar(u, p)
        BY <1>2, <1>3, <2>2 DEF setStar, TypeOK
    <2>5. CASE Close(u)
        BY <1>2, <1>3, <2>5 DEF Close, noChanges, TypeOK
    <2> QED BY <1>2, <1>3, <2>1, <2>2, <2>5
            DEF TabStep, Edit, TimerFires, Hide, retry, refresh, Open, SaveArrives, Saved, SaveRefused, SaveTimesOut
<1>4. ASSUME TypeOK, [Next]_vars PROVE [Shows]_vars
    BY <1>2, <1>3, <1>4 DEF Next, ReadProfile, ReadHistory, Loaded, LoadFails, LateSaveArrives,
                            FinishSubmission, vars
<1>5. TypeOK /\ [Next]_vars => [Shows]_vars
    BY <1>4
<1> QED BY <1>5, ProgressTypes, PTL DEF Spec, EditsShowAtOnce

=============================================================================
