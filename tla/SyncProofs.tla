----------------------------- MODULE SyncProofs -----------------------------
(***************************************************************************)
(* For any number of tabs, problems and faults: unsaved changes are never  *)
(* forgotten; and for any history of one tab, its stars follow its clicks. *)
(***************************************************************************)
EXTENDS ProgressStoreProofs

----------------------------------------------------------------------------
(* Unsaved changes are scheduled, on their way, or warned of.              *)

Handled(tab) == dirty(tab) => tab.timer \/ tab.saving # "no" \/ tab.warning # "no"

\* The ends of a callback that changes a tab.
LEMMA EndsHandled ==
    ASSUME NEW tab \in TabState
    PROVE  /\ Handled(changed(tab))
           /\ Handled(rescheduled(tab))
           /\ Handled(flush(tab))
           /\ tab.warning # "no" => Handled(retried(tab))
<1>1. Handled(changed(tab))
    BY DEF Handled, changed, TabState
<1>2. Handled(rescheduled(tab))
    <2>1. /\ rescheduled(tab).timer = (tab.timer \/ dirty(tab))
          /\ rescheduled(tab).pending = tab.pending
        BY DEF rescheduled, TabState
    <2> QED BY <2>1 DEF Handled, dirty
<1>3. Handled(flush(tab))
    <2>1. CASE tab.saving = "no" /\ dirty(tab)
        BY <2>1 DEF flush, Handled, TabState
    <2>2. CASE ~(tab.saving = "no" /\ dirty(tab))
        <3>1. flush(tab) = [tab EXCEPT !.timer = FALSE]
            BY <2>2 DEF flush
        <3>2. flush(tab).pending = tab.pending /\ flush(tab).saving = tab.saving
            BY <3>1 DEF TabState
        <3> QED BY <2>2, <3>2 DEF Handled, dirty
    <2> QED BY <2>1, <2>2
<1>4. ASSUME tab.warning # "no" PROVE Handled(retried(tab))
    BY <1>4 DEF Handled, retried, TabState
<1> QED BY <1>1, <1>2, <1>3, <1>4

LEMMA HandledStep ==
    ASSUME TypeOK, NEW t \in Tab, Handled(tabs[t]), TabStep(t)
    PROVE  Handled(tabs'[t])
<1>1. tabs[t] \in TabState
    BY DEF TypeOK
<1>2. \A tab : Update(t, tab) => tabs'[t] = tab
    BY DEF Update, TypeOK
<1>3. CASE Edit(t)
    <2>1. ASSUME NEW p \in Problem, NEW code \in Code, NEW now \in Now, setDraft(t, p, code, now)
          PROVE  Handled(tabs'[t])
        <3>1. PICK tab : tabs'[t] = changed([tabs[t] EXCEPT !.pending = tab])
            BY <1>2, <2>1 DEF setDraft
        <3> QED BY <1>1, <3>1 DEF Handled, changed, TabState
    <2>2. ASSUME NEW p \in Problem, setStar(t, p) PROVE Handled(tabs'[t])
        <3>1. PICK tab : tabs'[t] = changed([tabs[t] EXCEPT !.pending = tab])
            BY <1>2, <2>2 DEF setStar
        <3> QED BY <1>1, <3>1 DEF Handled, changed, TabState
    <2> QED BY <1>3, <2>1, <2>2 DEF Edit
<1>4. CASE TimerFires(t) \/ Hide(t)
    BY <1>1, <1>2, <1>4, EndsHandled DEF TimerFires, Hide
<1>5. CASE retry(t)
    <2> DEFINE tab == [tabs[t] EXCEPT !.failures = 0]
    <2>1. tab \in TabState /\ tab.pending = tabs[t].pending
        BY <1>1, FailureCounts DEF TabState
    <2>2. tabs'[t] = flush(tab) \/ (tabs'[t] = tab /\ ~dirty(tab))
        BY <1>2, <1>5 DEF retry
    <2> HIDE DEF tab
    <2> QED BY <2>1, <2>2, EndsHandled DEF Handled
<1>6. CASE refresh(t)
    BY <1>6 DEF refresh
<1>7. CASE Open(t) \/ Close(t)
    <2>1. tabs'[t].pending = noChanges
        BY <1>2, <1>7, ClosedShape DEF Open, Close
    <2> QED BY <2>1 DEF Handled, dirty
<1>8. CASE SaveArrives(t)
    <2>1. tabs'[t].saving = "answered"
        BY <1>1, <1>2, <1>8 DEF SaveArrives, TabState
    <2> QED BY <2>1 DEF Handled
<1>9. CASE Saved(t)
    <2> DEFINE tab == [tabs[t] EXCEPT !.saved = later(@, tabs[t].answer), !.pending = confirmed(tabs[t]),
                                      !.failures = 0, !.warning = "no"]
    <2>1. tab \in TabState
        <3>1. later(tabs[t].saved, tabs[t].answer) \in State
            BY <1>1 DEF later, TabState
        <3> QED BY <1>1, <3>1, TabShapes, FailureCounts DEF TabState
    <2>2. tabs'[t] = rescheduled(NotSaving(tab))
        BY <1>2, <1>9 DEF Saved
    <2> HIDE DEF tab
    <2> QED BY <2>1, <2>2, TabShapes, EndsHandled
<1>10. CASE SaveRefused(t) \/ SaveTimesOut(t)
    <2>1. PICK warning \in {"not saved yet", "failed"} :
              tabs'[t] = retried([NotSaving(tabs[t]) EXCEPT !.warning = warning])
        BY <1>2, <1>10 DEF SaveRefused, SaveTimesOut, SaveFails
    <2> DEFINE tab == [NotSaving(tabs[t]) EXCEPT !.warning = warning]
    <2>2. tab \in TabState /\ tab.warning # "no"
        <3>1. NotSaving(tabs[t]) \in TabState
            BY <1>1, TabShapes
        <3> QED BY <3>1 DEF TabState
    <2> HIDE DEF tab
    <2> QED BY <2>1, <2>2, EndsHandled DEF tab
<1> QED BY <1>3, <1>4, <1>5, <1>6, <1>7, <1>8, <1>9, <1>10 DEF TabStep

\* The answers of a tab's reads.
LEMMA HandledRead ==
    ASSUME TypeOK, NEW r \in reads, Handled(tabs[r.tab]), Loaded(r) \/ LoadFails(r)
    PROVE  Handled(tabs'[r.tab])
<1>1. tabs[r.tab] \in TabState /\ r.state \in State
    BY DEF TypeOK, Read
<1>2. \A tab : Update(r.tab, tab) => tabs'[r.tab] = tab
    BY DEF Update, TypeOK, Read
<1>3. CASE tabs[r.tab].pc = "opening" /\ Loaded(r)
    <2>1. tabs'[r.tab] = [tabs[r.tab] EXCEPT !.pc = "open", !.saved = r.state]
        BY <1>2, <1>3 DEF Loaded
    <2>2. /\ tabs'[r.tab].pending = tabs[r.tab].pending /\ tabs'[r.tab].timer = tabs[r.tab].timer
          /\ tabs'[r.tab].saving = tabs[r.tab].saving /\ tabs'[r.tab].warning = tabs[r.tab].warning
        BY <1>1, <2>1 DEF TabState
    <2> QED BY <2>2 DEF Handled, dirty
<1>4. CASE tabs[r.tab].pc # "opening" /\ Loaded(r)
    <2> DEFINE tab == [tabs[r.tab] EXCEPT !.saved = later(@, r.state), !.warning = "no"]
    <2>1. later(tabs[r.tab].saved, r.state) \in State
        BY <1>1 DEF later, TabState
    <2>2. tab \in TabState
        BY <1>1, <2>1 DEF TabState
    <2>3. tabs'[r.tab] = rescheduled(tab)
        BY <1>2, <1>4 DEF Loaded
    <2> HIDE DEF tab
    <2> QED BY <2>2, <2>3, EndsHandled
<1>5. CASE LoadFails(r)
    <2>1. tabs'[r.tab] = Closed \/ tabs'[r.tab].warning = "failed"
        BY <1>1, <1>2, <1>5 DEF LoadFails, TabState
    <2> QED BY <2>1, ClosedShape DEF Handled, dirty
<1> QED BY <1>3, <1>4, <1>5

\* For any tabs, faults and orders of answers: an unsaved change is never forgotten; a save of it
\* is scheduled or on its way, or a warning offers one.
THEOREM ChangesAreHandled == Spec => []UnsavedIsHandled
<1>1. Init => UnsavedIsHandled
    BY ClosedShape DEF Init, UnsavedIsHandled, dirty
<1>2. ASSUME TypeOK, UnsavedIsHandled, [Next]_vars PROVE UnsavedIsHandled'
    <2>1. \A t \in Tab : Handled(tabs[t])
        BY <1>2 DEF UnsavedIsHandled, Handled
    <2>2. ASSUME NEW t \in Tab, TabStep(t) PROVE \A u \in Tab : Handled(tabs'[u])
        BY <1>2, <2>1, <2>2, HandledStep, OnlyTabShape DEF OnlyTab
    <2>3. ASSUME NEW r \in reads, ReadProfile(r) \/ ReadHistory(r) \/ Loaded(r) \/ LoadFails(r)
          PROVE  \A u \in Tab : Handled(tabs'[u])
        <3>1. r.tab \in Tab /\ \A u \in Tab \ {r.tab} : tabs'[u] = tabs[u]
            BY <1>2, <2>3, ReadShapes
        <3>2. Handled(tabs'[r.tab])
            <4>1. CASE ReadProfile(r) \/ ReadHistory(r)
                BY <2>1, <3>1, <4>1 DEF ReadProfile, ReadHistory
            <4> QED BY <1>2, <2>1, <2>3, <3>1, <4>1, HandledRead
        <3> QED BY <2>1, <3>1, <3>2
    <2>4. ASSUME tabs' = tabs PROVE \A u \in Tab : Handled(tabs'[u])
        <3>1. \A u \in Tab : tabs'[u] = tabs[u]
            BY <2>4
        <3> QED BY <2>1, <3>1
    <2>5. \/ \E t \in Tab : TabStep(t)
          \/ \E r \in reads : ReadProfile(r) \/ ReadHistory(r) \/ Loaded(r) \/ LoadFails(r)
          \/ tabs' = tabs
        BY <1>2 DEF Next, LateSaveArrives, FinishSubmission, vars
    <2>6. \A u \in Tab : Handled(tabs'[u])
        BY <2>2, <2>3, <2>4, <2>5
    <2> QED BY <2>6 DEF UnsavedIsHandled, Handled, dirty
<1>3. TypeOK /\ UnsavedIsHandled /\ [Next]_vars => UnsavedIsHandled'
    BY <1>2
<1> QED BY <1>1, <1>3, ProgressTypes, PTL DEF Spec

----------------------------------------------------------------------------
(* Stars, with one tab and no save that arrives late.                      *)

Alone == (\A t, u \in Tab : t = u) /\ "late" \notin Fault

\* From a revision on, a state has the star as clicked.
StarIn(state, level, p, star) == state.revision >= level => (p \in state.stars <=> star)

\* The server has the star as clicked, and every state this tab has or will get from a revision on.
StarFrom(t, p, level, star) ==
    /\ p \in profile.stars <=> star
    /\ StarIn(tabs[t].saved, level, p, star)
    /\ tabs[t].saving = "answered" => StarIn(tabs[t].answer, level, p, star)
    /\ \A r \in ReadsOf(t) : /\ r.pc = "row" => StarIn(r.row, level, p, star)
                             /\ r.pc = "answered" => StarIn(r.state, level, p, star)

StarInv(t, p) ==
    /\ tabs[t].pending.stars[p] \in {None, mine[t].stars[p]}
    /\ tabs[t].pc # "open" => mine[t].stars[p] = None
    /\ tabs[t].saving \in {"sent", "answered"} /\ tabs[t].sent.stars[p] # None
           => tabs[t].pending.stars[p] # None
    /\ mine[t].stars[p] # None /\ tabs[t].pending.stars[p] = None
           => StarFrom(t, p, tabs[t].saved.revision, mine[t].stars[p])
    /\ tabs[t].saving = "answered" /\ tabs[t].sent.stars[p] # None
           => StarFrom(t, p, tabs[t].answer.revision, tabs[t].sent.stars[p])

StarsInv == Alone => late = {} /\ \A t \in Tab, p \in Problem : StarInv(t, p)

LEMMA AppliedStars ==
    ASSUME NEW state \in State, NEW changes \in Changes, NEW p \in Problem
    PROVE  /\ changes.stars[p] = None =>
                  (p \in applyProgressChanges(state, changes).stars <=> p \in state.stars)
           /\ changes.stars[p] # None =>
                  (p \in applyProgressChanges(state, changes).stars <=> changes.stars[p])
<1> DEFINE drafts == [q \in Problem |-> Newest(state.drafts[q], changes.drafts[q])]
           stars == {q \in Problem : IF changes.stars[q] = None THEN q \in state.stars
                                                                ELSE changes.stars[q]}
<1>1. applyProgressChanges(state, changes) = [state EXCEPT !.drafts = drafts, !.stars = stars]
    BY DEF applyProgressChanges
<1>2. /\ changes.stars[p] = None => (p \in stars <=> p \in state.stars)
      /\ changes.stars[p] # None => (p \in stars <=> changes.stars[p])
    OBVIOUS
<1> HIDE DEF drafts, stars
<1>3. applyProgressChanges(state, changes).stars = stars
    BY <1>1 DEF State
<1> QED BY <1>2, <1>3

\* A write changes the stars that were clicked.
LEMMA WrittenStars ==
    ASSUME TypeOK, NEW changes \in Changes, Write(changes), NEW p \in Problem
    PROVE  /\ changes.stars[p] = None => (p \in profile'.stars <=> p \in profile.stars)
           /\ changes.stars[p] # None => (p \in profile'.stars <=> changes.stars[p])
<1>1. ServerState \in State /\ ServerState.stars = profile.stars
    BY ReadShape DEF ServerState, readState, TypeOK, History
<1>2. profile'.stars = applyProgressChanges(ServerState, changes).stars
    BY DEF Write
<1> QED BY <1>1, <1>2, AppliedStars

LEMMA StarTypes ==
    ASSUME TypeOK, NEW t \in Tab, NEW p \in Problem
    PROVE  /\ mine[t].stars[p] \in BOOLEAN \cup {None}
           /\ tabs[t].pending.stars[p] \in BOOLEAN \cup {None}
           /\ tabs[t].sent.stars[p] \in BOOLEAN \cup {None}
<1>1. mine[t] \in Changes /\ tabs[t].pending \in Changes /\ tabs[t].sent \in Changes
    BY DEF TypeOK, TabState
<1> QED BY <1>1 DEF Changes

\* What holds from a revision on holds from a higher one on.
LEMMA StarHigher ==
    ASSUME TypeOK, NEW t \in Tab, NEW p \in Problem, NEW star, NEW level \in Nat, NEW higher \in Nat,
           higher >= level, StarFrom(t, p, level, star)
    PROVE  StarFrom(t, p, higher, star)
<1>1. \A n \in Nat : n >= higher => n >= level
    OBVIOUS
<1> QED BY <1>1, TabFacts DEF StarFrom, StarIn

\* What a read may become.
ReadsMove(t) ==
    \A r \in ReadsOf(t)' :
        \/ r \in ReadsOf(t)
        \/ r.pc = "sent"
        \/ r.pc = "row" /\ r.row = profile
        \/ /\ r.pc = "answered"
           /\ \E s \in ReadsOf(t) : /\ s.pc = "row"
                                    /\ r.state.revision = s.row.revision
                                    /\ r.state.stars = s.row.stars

\* No save is answered in this step, and the server keeps the star.
LEMMA StarKept ==
    ASSUME TypeOK, NEW t \in Tab, NEW p \in Problem, NEW star, NEW level \in Nat,
           StarFrom(t, p, level, star),
           p \in profile'.stars <=> p \in profile.stars,
           StarIn(tabs'[t].saved, level, p, star),
           tabs'[t].saving = "answered"
               => tabs[t].saving = "answered" /\ tabs'[t].answer = tabs[t].answer,
           ReadsMove(t)
    PROVE  StarFrom(t, p, level, star)'
<1>1. ASSUME NEW r \in ReadsOf(t)'
      PROVE  /\ r.pc = "row" => StarIn(r.row, level, p, star)
             /\ r.pc = "answered" => StarIn(r.state, level, p, star)
    <2>1. CASE r \in ReadsOf(t) \/ r.pc = "sent"
        BY <2>1 DEF StarFrom
    <2>2. CASE r.pc = "row" /\ r.row = profile
        BY <2>2 DEF StarFrom, StarIn
    <2>3. CASE r.pc = "answered" /\ \E s \in ReadsOf(t) : /\ s.pc = "row"
                                                          /\ r.state.revision = s.row.revision
                                                          /\ r.state.stars = s.row.stars
        BY <2>3 DEF StarFrom, StarIn
    <2> QED BY <1>1, <2>1, <2>2, <2>3 DEF ReadsMove
<1> QED BY <1>1 DEF StarFrom

\* A step that leaves the stars of the tab alone: a save may start or fail, requests may be made,
\* answered or dropped.
LEMMA StarCalm ==
    ASSUME TypeOK, NEW t \in Tab, NEW p \in Problem, StarInv(t, p),
           p \in profile'.stars <=> p \in profile.stars,
           tabs'[t].pc = tabs[t].pc,
           tabs'[t].saved = tabs[t].saved,
           tabs'[t].pending.stars[p] = tabs[t].pending.stars[p],
           mine'[t].stars[p] = mine[t].stars[p],
           \/ /\ tabs'[t].saving = tabs[t].saving
              /\ tabs'[t].sent = tabs[t].sent
              /\ tabs'[t].answer = tabs[t].answer
           \/ /\ tabs'[t].saving # "answered"
              /\ tabs'[t].sent \in {noChanges, tabs[t].pending},
           ReadsMove(t)
    PROVE  StarInv(t, p)'
<1>1. ASSUME NEW level \in Nat, NEW star, StarFrom(t, p, level, star)
      PROVE  StarFrom(t, p, level, star)'
    <2>1. StarIn(tabs'[t].saved, level, p, star)
        BY <1>1 DEF StarFrom
    <2> QED BY <1>1, <2>1, StarKept
<1>2. (tabs[t].saving \in {"sent", "answered"} /\ tabs[t].sent.stars[p] # None
          => tabs[t].pending.stars[p] # None)'
    BY DEF StarInv, noChanges
<1>3. (mine[t].stars[p] # None /\ tabs[t].pending.stars[p] = None
          => StarFrom(t, p, tabs[t].saved.revision, mine[t].stars[p]))'
    BY <1>1, TabFacts DEF StarInv
<1>4. (tabs[t].saving = "answered" /\ tabs[t].sent.stars[p] # None
          => StarFrom(t, p, tabs[t].answer.revision, tabs[t].sent.stars[p]))'
    BY <1>1, TabFacts DEF StarInv
<1> QED BY <1>2, <1>3, <1>4 DEF StarInv

\* A click.
LEMMA ClickStep ==
    ASSUME TypeOK, NEW t \in Tab, NEW p \in Problem, StarInv(t, p), OnlyTab(t),
           NEW q \in Problem, setStar(t, q)
    PROVE  StarInv(t, p)'
<1>1. PICK starred \in BOOLEAN :
          /\ tabs' = [tabs EXCEPT ![t] = changed([tabs[t] EXCEPT !.pending.stars[q] = starred])]
          /\ mine' = [mine EXCEPT ![t].stars[q] = starred]
          /\ tabs[t].pc = "open" /\ profile' = profile
    BY DEF setStar, Update, Edited, serverVars
<1>2. tabs[t] \in TabState /\ mine[t] \in Changes /\ tabs[t].pending \in Changes
    BY DEF TypeOK, TabState
<1>3. /\ tabs'[t].pc = "open" /\ tabs'[t].saved = tabs[t].saved
      /\ tabs'[t].saving = tabs[t].saving /\ tabs'[t].sent = tabs[t].sent
      /\ tabs'[t].answer = tabs[t].answer
      /\ tabs'[t].pending.stars = [tabs[t].pending.stars EXCEPT ![q] = starred]
      /\ mine'[t].stars = [mine[t].stars EXCEPT ![q] = starred]
    <2>1. mine'[t].stars = [mine[t].stars EXCEPT ![q] = starred]
        BY <1>1, <1>2 DEF TypeOK, Changes
    <2>2. PICK pending : /\ pending = [tabs[t].pending EXCEPT !.stars[q] = starred]
                         /\ tabs'[t] = changed([tabs[t] EXCEPT !.pending = pending])
        BY <1>1 DEF TypeOK
    <2>3. pending.stars = [tabs[t].pending.stars EXCEPT ![q] = starred]
        BY <1>2, <2>2 DEF Changes
    <2>4. tabs[t].pc = "open"
        BY <1>1
    <2> QED BY <1>2, <2>1, <2>2, <2>3, <2>4 DEF changed, TabState
<1>4. ReadsMove(t)
    BY DEF OnlyTab, ReadsMove
<1>5. CASE q # p
    <2>1. /\ tabs'[t].pending.stars[p] = tabs[t].pending.stars[p]
          /\ mine'[t].stars[p] = mine[t].stars[p]
        BY <1>2, <1>3, <1>5 DEF Changes
    <2> QED BY <1>1, <1>3, <1>4, <2>1, StarCalm
<1>6. CASE q = p
    <2>1. tabs'[t].pending.stars[p] = starred /\ mine'[t].stars[p] = starred
        BY <1>2, <1>3, <1>6 DEF Changes
    <2>2. starred # None
        BY ProgressAssumption
    <2>3. (tabs[t].saving = "answered" /\ tabs[t].sent.stars[p] # None
              => StarFrom(t, p, tabs[t].answer.revision, tabs[t].sent.stars[p]))'
        <3> SUFFICES ASSUME tabs[t].saving = "answered", tabs[t].sent.stars[p] # None
                     PROVE  StarFrom(t, p, tabs[t].answer.revision, tabs[t].sent.stars[p])'
            BY <1>3
        <3> DEFINE level == tabs[t].answer.revision
        <3>1. level \in Nat /\ StarFrom(t, p, level, tabs[t].sent.stars[p])
            BY TabFacts DEF StarInv
        <3>2. PICK n, star : n = level /\ star = tabs[t].sent.stars[p]
            OBVIOUS
        <3>3. StarIn(tabs'[t].saved, n, p, star)
            BY <1>3, <3>1, <3>2 DEF StarFrom
        <3>4. StarFrom(t, p, n, star)'
            BY <1>1, <1>3, <1>4, <3>1, <3>2, <3>3, StarKept
        <3> QED BY <1>3, <3>2, <3>4
    <2> QED BY <1>3, <2>1, <2>2, <2>3 DEF StarInv
<1> QED BY <1>5, <1>6

\* The server has the stars that were sent, and answers with them.
LEMMA StarArrival ==
    ASSUME TypeOK, TypeOK', NEW t \in Tab, RevisionsKnown(t), NEW p \in Problem, StarInv(t, p),
           SaveArrives(t)
    PROVE  StarInv(t, p)'
<1>1. /\ tabs[t] \in TabState /\ profile \in Profile /\ history \in History
      /\ tabs[t].sent \in Changes /\ Write(tabs[t].sent) /\ tabs[t].saving = "sent"
    BY DEF TypeOK, TabState, History, SaveArrives
<1>2. /\ tabs'[t].pc = tabs[t].pc /\ tabs'[t].saved = tabs[t].saved
      /\ tabs'[t].pending = tabs[t].pending /\ tabs'[t].sent = tabs[t].sent
      /\ tabs'[t].saving = "answered"
      /\ tabs'[t].answer = readState(profile', history)
      /\ mine' = mine /\ ReadsOf(t)' = ReadsOf(t)
    BY <1>1 DEF SaveArrives, Update, TypeOK, TabState, ReadsOf
<1>3. tabs'[t].answer.revision = profile'.revision /\ tabs'[t].answer.stars = profile'.stars
    BY <1>2 DEF readState
<1>4. profile'.revision \in Nat /\ profile'.revision = profile.revision + 1
    BY <1>1, WriteMovesOn DEF Profile
<1>5. /\ ~(tabs[t].saved.revision >= profile'.revision)
      /\ \A r \in ReadsOf(t) : /\ r.pc = "row" => ~(r.row.revision >= profile'.revision)
                               /\ r.pc = "answered" => ~(r.state.revision >= profile'.revision)
    <2>1. \A n \in Nat : n <= profile.revision => ~(n >= profile'.revision)
        BY <1>4, TabFacts
    <2> QED BY <2>1, TabFacts DEF RevisionsKnown
<1>6. (mine[t].stars[p] # None /\ tabs[t].pending.stars[p] = None
          => StarFrom(t, p, tabs[t].saved.revision, mine[t].stars[p]))'
    <2> SUFFICES ASSUME mine[t].stars[p] # None, tabs[t].pending.stars[p] = None
                 PROVE  StarFrom(t, p, tabs[t].saved.revision, mine[t].stars[p])'
        BY <1>2
    <2>1. StarFrom(t, p, tabs[t].saved.revision, mine[t].stars[p]) /\ tabs[t].sent.stars[p] = None
        BY <1>1 DEF StarInv
    <2>2. p \in profile'.stars <=> p \in profile.stars
        BY <1>1, <2>1, WrittenStars
    <2> QED BY <1>2, <1>3, <2>1, <2>2 DEF StarFrom, StarIn
<1>7. (tabs[t].saving = "answered" /\ tabs[t].sent.stars[p] # None
          => StarFrom(t, p, tabs[t].answer.revision, tabs[t].sent.stars[p]))'
    <2> SUFFICES ASSUME tabs[t].sent.stars[p] # None
                 PROVE  StarFrom(t, p, tabs[t].answer.revision, tabs[t].sent.stars[p])'
        BY <1>2
    <2>1. p \in profile'.stars <=> tabs[t].sent.stars[p]
        BY <1>1, WrittenStars
    <2> QED BY <1>2, <1>3, <1>5, <2>1 DEF StarFrom, StarIn
<1> QED BY <1>1, <1>2, <1>6, <1>7 DEF StarInv

\* The answer of a save: what was sent is in it, and what was clicked since stays pending.
LEMMA StarSaved ==
    ASSUME TypeOK, TypeOK', NEW t \in Tab, NEW p \in Problem, StarInv(t, p), Saved(t)
    PROVE  StarInv(t, p)'
<1>1. /\ tabs[t] \in TabState /\ tabs[t].saved \in State /\ tabs[t].answer \in State
      /\ tabs[t].pending \in Changes /\ confirmed(tabs[t]) \in Changes
    BY TabShapes DEF TypeOK, TabState
<1>2. /\ tabs'[t].pc = tabs[t].pc /\ tabs'[t].saving = "no" /\ tabs'[t].sent = noChanges
      /\ tabs'[t].saved = later(tabs[t].saved, tabs[t].answer)
      /\ tabs'[t].pending = confirmed(tabs[t])
      /\ tabs[t].saving = "answered"
      /\ profile' = profile /\ mine' = mine /\ reads' = reads
    <2> DEFINE tab == [tabs[t] EXCEPT !.saved = later(@, tabs[t].answer), !.pending = confirmed(tabs[t]),
                                      !.failures = 0, !.warning = "no"]
    <2>1. tabs'[t] = rescheduled(NotSaving(tab))
        BY DEF Saved, Update, TypeOK
    <2>2. /\ tab.pc = tabs[t].pc /\ tab.saved = later(tabs[t].saved, tabs[t].answer)
          /\ tab.pending = confirmed(tabs[t]) /\ tab \in TabState
        BY <1>1, LaterCovers, FailureCounts DEF TabState
    <2> HIDE DEF tab
    <2> QED BY <2>1, <2>2 DEF rescheduled, NotSaving, TabState, Saved, serverVars
<1>3. /\ tabs'[t].saved \in {tabs[t].saved, tabs[t].answer}
      /\ tabs'[t].saved.revision \in Nat
      /\ tabs'[t].saved.revision >= tabs[t].saved.revision
      /\ tabs'[t].saved.revision >= tabs[t].answer.revision
    BY <1>1, <1>2, LaterCovers DEF State
<1>4. tabs'[t].pending.stars[p] = IF tabs[t].pending.stars[p] = tabs[t].sent.stars[p]
                                  THEN None ELSE tabs[t].pending.stars[p]
    BY <1>2 DEF confirmed
<1>5. (mine[t].stars[p] # None /\ tabs[t].pending.stars[p] = None
          => StarFrom(t, p, tabs[t].saved.revision, mine[t].stars[p]))'
    <2> SUFFICES ASSUME mine[t].stars[p] # None, tabs'[t].pending.stars[p] = None
                 PROVE  StarFrom(t, p, tabs[t].saved.revision, mine[t].stars[p])'
        BY <1>2
    <2>0. PICK level \in Nat : level = tabs'[t].saved.revision
        BY <1>3
    <2>1. PICK star : star = mine[t].stars[p]
        OBVIOUS
    <2>2. \/ StarFrom(t, p, tabs[t].saved.revision, star)
          \/ StarFrom(t, p, tabs[t].answer.revision, star)
        BY <1>2, <1>4, <2>1 DEF StarInv
    <2>3. StarFrom(t, p, level, star)
        BY <1>3, <2>0, <2>1, <2>2, StarHigher, TabFacts
    <2>4. StarIn(tabs'[t].saved, level, p, star)
        BY <1>2, <1>3, <2>3 DEF StarFrom
    <2>5. ReadsMove(t)
        BY <1>2 DEF ReadsMove, ReadsOf
    <2>6. StarFrom(t, p, level, star)'
        BY <1>2, <2>3, <2>4, <2>5, StarKept
    <2> QED BY <1>2, <2>0, <2>1, <2>6
<1> QED BY <1>2, <1>4, <1>5 DEF StarInv

\* A typed draft, and the steps that start or fail a save or ask for the state.
LEMMA StarCalmSteps ==
    ASSUME TypeOK, NEW t \in Tab, NEW p \in Problem, StarInv(t, p), OnlyTab(t),
           \/ TimerFires(t) \/ Hide(t) \/ retry(t) \/ refresh(t) \/ SaveRefused(t) \/ SaveTimesOut(t)
           \/ \E q \in Problem, code \in Code, now \in Now : setDraft(t, q, code, now)
    PROVE  StarInv(t, p)'
<1>1. profile' = profile
    BY DEF TimerFires, Hide, retry, refresh, SaveRefused, SaveTimesOut, setDraft, Edited, serverVars
<1>2. tabs[t] \in TabState
    BY DEF TypeOK
<1>3. ReadsMove(t)
    BY DEF OnlyTab, ReadsMove
<1>4. CASE TimerFires(t) \/ Hide(t)
    BY <1>1, <1>2, <1>3, <1>4, FlushShape, StarCalm DEF TimerFires, Hide, Update, TypeOK
<1>5. CASE retry(t)
    <2> DEFINE tab == [tabs[t] EXCEPT !.failures = 0]
    <2>1. tab \in TabState
        BY <1>2, FailureCounts DEF TabState
    <2>2. /\ tab.pc = tabs[t].pc /\ tab.saved = tabs[t].saved /\ tab.pending = tabs[t].pending
          /\ tab.saving = tabs[t].saving /\ tab.sent = tabs[t].sent /\ tab.answer = tabs[t].answer
        BY <1>2 DEF TabState
    <2>3. mine' = mine /\ (Update(t, flush(tab)) \/ Update(t, tab))
        BY <1>5 DEF retry
    <2> HIDE DEF tab
    <2>4. mine' = mine /\ (tabs'[t] = flush(tab) \/ tabs'[t] = tab)
        BY <2>3 DEF Update, TypeOK
    <2> QED BY <1>1, <1>3, <2>1, <2>2, <2>4, FlushShape, StarCalm
<1>6. CASE refresh(t)
    BY <1>1, <1>3, <1>6, StarCalm DEF refresh
<1>7. CASE SaveRefused(t) \/ SaveTimesOut(t)
    <2>1. PICK warning \in {"not saved yet", "failed"} :
              tabs'[t] = retried([NotSaving(tabs[t]) EXCEPT !.warning = warning])
        BY <1>7 DEF SaveRefused, SaveTimesOut, SaveFails, Update, TypeOK
    <2>2. /\ tabs'[t].pc = tabs[t].pc /\ tabs'[t].saved = tabs[t].saved
          /\ tabs'[t].pending = tabs[t].pending
          /\ tabs'[t].saving = "no" /\ tabs'[t].sent = noChanges
        BY <1>2, <2>1 DEF retried, NotSaving, TabState
    <2>3. mine' = mine
        BY <1>7 DEF SaveRefused, SaveTimesOut
    <2> QED BY <1>1, <1>3, <2>2, <2>3, StarCalm
<1>8. ASSUME NEW q \in Problem, NEW code \in Code, NEW now \in Now, setDraft(t, q, code, now)
      PROVE  StarInv(t, p)'
    <2>1. PICK draft :
              /\ tabs' = [tabs EXCEPT ![t] = changed([tabs[t] EXCEPT !.pending.drafts[q] = draft])]
              /\ mine' = [mine EXCEPT ![t].drafts[q] = draft]
        BY <1>8 DEF setDraft, Update
    <2>2. mine'[t].stars = mine[t].stars
        BY <2>1 DEF TypeOK, Changes
    <2>3. PICK pending : /\ pending = [tabs[t].pending EXCEPT !.drafts[q] = draft]
                         /\ tabs'[t] = changed([tabs[t] EXCEPT !.pending = pending])
        BY <2>1 DEF TypeOK
    <2>4. pending.stars = tabs[t].pending.stars
        BY <1>2, <2>3 DEF TabState, Changes
    <2>5. /\ tabs'[t].pc = tabs[t].pc /\ tabs'[t].saved = tabs[t].saved
          /\ tabs'[t].pending.stars = tabs[t].pending.stars
          /\ tabs'[t].saving = tabs[t].saving /\ tabs'[t].sent = tabs[t].sent
          /\ tabs'[t].answer = tabs[t].answer
        BY <1>2, <2>3, <2>4 DEF changed, TabState
    <2> QED BY <1>1, <1>3, <2>2, <2>5, StarCalm
<1> QED BY <1>4, <1>5, <1>6, <1>7, <1>8

\* A tab that has just been closed or opened has no clicks.
LEMMA StarFresh ==
    ASSUME NEW t \in Tab, NEW p \in Problem, mine'[t].stars[p] = None,
           tabs'[t].pending = noChanges, tabs'[t].saving = "no"
    PROVE  StarInv(t, p)'
BY DEF StarInv, noChanges

\* The two queries of a read, and its answer.
LEMMA StarRead ==
    ASSUME TypeOK, NEW t \in Tab, NEW p \in Problem, StarInv(t, p), NEW r \in ReadsOf(t),
           ReadProfile(r) \/ ReadHistory(r) \/ Loaded(r) \/ LoadFails(r)
    PROVE  StarInv(t, p)'
<1>1. /\ r \in Read /\ r.tab = t /\ tabs[t] \in TabState /\ tabs[t].saved \in State /\ r.state \in State
      /\ profile' = profile /\ mine' = mine
    BY DEF TypeOK, TabState, ReadsOf, Read, ReadProfile, ReadHistory, Loaded, LoadFails, serverVars
<1>2. ReadsMove(t)
    <2>1. CASE ReadProfile(r)
        <3>1. PICK s : /\ s = [r EXCEPT !.pc = "row", !.row = profile]
                       /\ reads' = (reads \ {r}) \cup {s}
            BY <2>1 DEF ReadProfile
        <3>2. s.pc = "row" /\ s.row = profile
            BY <1>1, <3>1 DEF Read
        <3> QED BY <3>1, <3>2 DEF ReadsMove, ReadsOf
    <2>2. CASE ReadHistory(r)
        <3>1. PICK s : /\ s = [r EXCEPT !.pc = "answered", !.row = NewProfile,
                                       !.state = readState(r.row, history)]
                       /\ reads' = (reads \ {r}) \cup {s}
                       /\ r.pc = "row"
            BY <2>2 DEF ReadHistory
        <3>2. s.pc = "answered" /\ s.state = readState(r.row, history)
            BY <1>1, <3>1 DEF Read
        <3>3. s.state.revision = r.row.revision /\ s.state.stars = r.row.stars
            BY <3>2 DEF readState
        <3> QED BY <3>1, <3>2, <3>3 DEF ReadsMove, ReadsOf
    <2>3. CASE Loaded(r) \/ LoadFails(r)
        BY <2>3 DEF Loaded, LoadFails, ReadsMove, ReadsOf
    <2> QED BY <2>1, <2>2, <2>3
<1>3. CASE ReadProfile(r) \/ ReadHistory(r)
    BY <1>1, <1>2, <1>3, StarCalm DEF ReadProfile, ReadHistory
<1>4. \A tab : Update(r.tab, tab) => tabs'[t] = tab
    BY <1>1 DEF Update, TypeOK
<1>5. CASE LoadFails(r)
    <2>1. CASE tabs[t].pc = "opening"
        <3>1. tabs'[t] = Closed /\ mine'[t].stars[p] = None
            BY <1>1, <1>4, <1>5, <2>1 DEF LoadFails, StarInv
        <3> QED BY <3>1, ClosedShape, StarFresh
    <2>2. CASE tabs[t].pc # "opening"
        <3>1. tabs'[t] = [tabs[t] EXCEPT !.warning = "failed"]
            BY <1>1, <1>4, <1>5, <2>2 DEF LoadFails
        <3>2. /\ tabs'[t].pc = tabs[t].pc /\ tabs'[t].saved = tabs[t].saved
              /\ tabs'[t].pending = tabs[t].pending /\ tabs'[t].saving = tabs[t].saving
              /\ tabs'[t].sent = tabs[t].sent /\ tabs'[t].answer = tabs[t].answer
            BY <1>1, <3>1 DEF TabState
        <3> QED BY <1>1, <1>2, <3>2, StarCalm
    <2> QED BY <2>1, <2>2
<1>6. CASE Loaded(r)
    <2>1. /\ tabs'[t].pending = tabs[t].pending /\ tabs'[t].saving = tabs[t].saving
          /\ tabs'[t].sent = tabs[t].sent /\ tabs'[t].answer = tabs[t].answer
          /\ tabs'[t].saved \in {tabs[t].saved, r.state}
          /\ \/ tabs[t].pc = "opening"
             \/ tabs'[t].pc = tabs[t].pc /\ tabs'[t].saved.revision >= tabs[t].saved.revision
        <3>1. CASE tabs[t].pc = "opening"
            BY <1>1, <1>4, <1>6, <3>1 DEF Loaded, TabState
        <3>2. CASE tabs[t].pc # "opening"
            <4> DEFINE tab == [tabs[t] EXCEPT !.saved = later(@, r.state), !.warning = "no"]
            <4>1. tabs'[t] = rescheduled(tab)
                BY <1>1, <1>4, <1>6, <3>2 DEF Loaded
            <4>2. /\ tab.saved = later(tabs[t].saved, r.state)
                  /\ tab.pc = tabs[t].pc /\ tab.pending = tabs[t].pending
                  /\ tab.saving = tabs[t].saving /\ tab.sent = tabs[t].sent
                  /\ tab.answer = tabs[t].answer /\ tab \in TabState
                BY <1>1, LaterCovers DEF TabState
            <4> HIDE DEF tab
            <4>3. /\ tabs'[t].saved = later(tabs[t].saved, r.state)
                  /\ tabs'[t].pc = tabs[t].pc /\ tabs'[t].pending = tabs[t].pending
                  /\ tabs'[t].saving = tabs[t].saving /\ tabs'[t].sent = tabs[t].sent
                  /\ tabs'[t].answer = tabs[t].answer
                BY <4>1, <4>2 DEF rescheduled, TabState
            <4> QED BY <1>1, <4>3, LaterCovers
        <3> QED BY <3>1, <3>2
    <2>2. tabs'[t].saved.revision \in Nat
        BY <1>1, <2>1 DEF State
    <2>3. ASSUME NEW level \in Nat, NEW star, StarFrom(t, p, level, star)
          PROVE  StarFrom(t, p, level, star)'
        <3>1. StarIn(tabs'[t].saved, level, p, star)
            BY <1>6, <2>1, <2>3 DEF StarFrom, Loaded
        <3> QED BY <1>1, <1>2, <2>1, <2>3, <3>1, StarKept
    <2>4. (mine[t].stars[p] # None /\ tabs[t].pending.stars[p] = None
              => StarFrom(t, p, tabs[t].saved.revision, mine[t].stars[p]))'
        <3> SUFFICES ASSUME mine[t].stars[p] # None, tabs[t].pending.stars[p] = None
                     PROVE  StarFrom(t, p, tabs[t].saved.revision, mine[t].stars[p])'
            BY <1>1, <2>1
        <3>1. tabs'[t].saved.revision >= tabs[t].saved.revision /\ tabs[t].pc = "open"
            BY <2>1 DEF StarInv
        <3>0. PICK level \in Nat : level = tabs'[t].saved.revision
            BY <2>2
        <3>2. PICK star : star = mine[t].stars[p]
            OBVIOUS
        <3>3. StarFrom(t, p, level, star)
            BY <3>1, <3>0, <3>2, StarHigher, TabFacts DEF StarInv
        <3>4. StarFrom(t, p, level, star)'
            BY <2>3, <3>3
        <3> QED BY <1>1, <3>0, <3>2, <3>4
    <2>5. (tabs[t].saving = "answered" /\ tabs[t].sent.stars[p] # None
              => StarFrom(t, p, tabs[t].answer.revision, tabs[t].sent.stars[p]))'
        BY <2>1, <2>3, TabFacts DEF StarInv
    <2>6. (tabs[t].pc # "open" => mine[t].stars[p] = None)'
        BY <1>1, <2>1 DEF StarInv
    <2> QED BY <1>1, <2>1, <2>4, <2>5, <2>6 DEF StarInv
<1> QED BY <1>3, <1>5, <1>6

LEMMA StarsTabStep ==
    ASSUME TypeOK, TypeOK', NEW t \in Tab, RevisionsKnown(t), TabStep(t),
           NEW p \in Problem, StarInv(t, p)
    PROVE  StarInv(t, p)'
<1>1. OnlyTab(t)
    BY OnlyTabShape
<1>2. CASE \E q \in Problem : setStar(t, q)
    BY <1>1, <1>2, ClickStep
<1>3. CASE Open(t) \/ Close(t)
    <2>1. mine'[t].stars[p] = None
        BY <1>3 DEF Open, Close, StarInv, noChanges, TypeOK
    <2>2. tabs'[t] = [Closed EXCEPT !.pc = "opening"] \/ tabs'[t] = Closed
        BY <1>3 DEF Open, Close, Update, TypeOK
    <2> QED BY <2>1, <2>2, ClosedShape, StarFresh
<1> QED BY <1>1, <1>2, <1>3, StarCalmSteps, StarArrival, StarSaved DEF TabStep, Edit

LEMMA StarsInvStep ==
    ASSUME ProgressInv, ProgressInv', StarsInv, [Next]_vars
    PROVE  StarsInv'
<1> SUFFICES ASSUME Alone PROVE late' = {} /\ \A t \in Tab, p \in Problem : StarInv(t, p)'
    BY DEF StarsInv
<1>1. /\ TypeOK /\ TypeOK' /\ late = {}
      /\ \A t \in Tab : RevisionsKnown(t) /\ \A p \in Problem : StarInv(t, p)
    BY DEF ProgressInv, TabInv, StarsInv
<1>2. late' = {}
    <2>1. ASSUME NEW t \in Tab, TabStep(t) PROVE late' = late
        <3>1. CASE Close(t) \/ SaveTimesOut(t)
            BY <3>1 DEF Close, SaveTimesOut, Alone
        <3> QED BY <2>1, <3>1 DEF TabStep, Edit, setDraft, setStar, Edited, TimerFires, Hide, retry,
                    refresh, Open, SaveArrives, Saved, SaveRefused, serverVars
    <2>2. ASSUME NEW r \in reads, ReadProfile(r) \/ ReadHistory(r) \/ Loaded(r) \/ LoadFails(r)
          PROVE  late' = late
        BY <2>2 DEF ReadProfile, ReadHistory, Loaded, LoadFails, serverVars
    <2> QED BY <1>1, <2>1, <2>2 DEF Next, FinishSubmission, vars, serverVars
<1> SUFFICES ASSUME NEW u \in Tab, NEW p \in Problem PROVE StarInv(u, p)'
    BY <1>2
<1>3. CASE TabStep(u)
    BY <1>1, <1>3, StarsTabStep
<1>4. ASSUME NEW r \in reads, ReadProfile(r) \/ ReadHistory(r) \/ Loaded(r) \/ LoadFails(r)
      PROVE  StarInv(u, p)'
    <2>1. r.tab \in Tab /\ r \in ReadsOf(r.tab)
        BY <1>1, <1>4, ReadShapes
    <2>2. r \in ReadsOf(u)
        BY <2>1 DEF Alone
    <2> QED BY <1>1, <1>4, <2>2, StarRead
<1>5. ASSUME profile'.stars = profile.stars, tabs' = tabs, mine' = mine, reads' = reads
      PROVE  StarInv(u, p)'
    <2>1. ReadsMove(u)
        BY <1>5 DEF ReadsMove, ReadsOf
    <2> QED BY <1>1, <1>5, <2>1, StarCalm
<1>6. ASSUME NEW q \in Problem, NEW code \in Code, NEW at \in Now, NEW accepted \in BOOLEAN,
             FinishSubmission(q, code, at, accepted)
      PROVE  StarInv(u, p)'
    <2>1. profile'.stars = profile.stars
        BY <1>1, <1>6 DEF FinishSubmission, TypeOK, Profile
    <2> QED BY <1>5, <1>6, <2>1 DEF FinishSubmission
<1>7. CASE UNCHANGED vars
    BY <1>5, <1>7 DEF vars, serverVars
<1>8. CASE \E t \in Tab : TabStep(t)
    BY <1>3, <1>8 DEF Alone
<1> QED BY <1>1, <1>4, <1>6, <1>7, <1>8 DEF Next

LEMMA StarsInvInit == Init => StarsInv
<1> SUFFICES ASSUME Init PROVE late = {} /\ \A t \in Tab, p \in Problem : StarInv(t, p)
    BY DEF StarsInv
<1>1. \A t \in Tab : tabs[t].pending = noChanges /\ tabs[t].saving = "no" /\ mine[t] = noChanges
    BY ClosedShape DEF Init
<1> QED BY <1>1 DEF Init, StarInv, noChanges

\* With one tab and no late save, for any edits, refused or unanswered saves and overtaking
\* refreshes: the star on screen is the one clicked last.
THEOREM StarsAreAsClicked == Spec => []StarsFollowClicks
<1>1. ProgressInv /\ StarsInv => StarsFollowClicks
    <2> SUFFICES ASSUME ProgressInv, StarsInv, Alone, NEW t \in Tab, NEW p \in Problem,
                        mine[t].stars[p] # None
                 PROVE  (p \in view(tabs[t]).stars) = mine[t].stars[p]
        BY DEF StarsFollowClicks, Alone
    <2>1. TypeOK /\ StarInv(t, p)
        BY DEF ProgressInv, StarsInv
    <2>2. /\ tabs[t].saved \in State /\ tabs[t].pending \in Changes
          /\ tabs[t].saved.revision \in Nat
        BY <2>1, TabFacts DEF TypeOK, TabState
    <2>3. mine[t].stars[p] \in BOOLEAN
        BY <2>1, StarTypes
    <2>4. p \in view(tabs[t]).stars <=> mine[t].stars[p]
        <3>1. CASE tabs[t].pending.stars[p] = None
            <4>1. StarFrom(t, p, tabs[t].saved.revision, mine[t].stars[p])
                BY <2>1, <3>1 DEF StarInv
            <4>2. p \in tabs[t].saved.stars <=> mine[t].stars[p]
                BY <2>2, <4>1 DEF StarFrom, StarIn
            <4> QED BY <2>2, <3>1, <4>2, AppliedStars DEF view
        <3>2. CASE tabs[t].pending.stars[p] # None
            <4>1. tabs[t].pending.stars[p] = mine[t].stars[p]
                BY <2>1, <3>2 DEF StarInv
            <4> QED BY <2>2, <3>2, <4>1, AppliedStars DEF view
        <3> QED BY <3>1, <3>2
    <2> QED BY <2>3, <2>4
<1>2. ProgressInv /\ ProgressInv' /\ StarsInv /\ [Next]_vars => StarsInv'
    BY StarsInvStep
<1> QED BY <1>1, <1>2, StarsInvInit, ProgressInvHolds, PTL DEF Spec

----------------------------------------------------------------------------
(* The refinement: every step is one of DraftContract, or a stutter.       *)

OthersStay(t) == \A u \in Tab \ {t} : tabs'[u] = tabs[u]

LEMMA Travelling ==
    ASSUME NEW drafts
    PROVE  drafts \in travelling <=>
               \/ \E u \in Tab : tabs[u].saving = "sent" /\ drafts = tabs[u].sent.drafts
               \/ \E changes \in late : drafts = changes.drafts
BY DEF travelling

\* What is on its way after a step of a tab.
LEMMA TravelSteps ==
    ASSUME NEW t \in Tab, OthersStay(t)
    PROVE  /\ /\ late' = late
              /\ \/ tabs'[t].saving = tabs[t].saving /\ tabs'[t].sent = tabs[t].sent
                 \/ tabs[t].saving # "sent" /\ tabs'[t].saving # "sent"
              => travelling' = travelling
           /\ late' = late /\ tabs[t].saving = "no" /\ tabs'[t].saving = "sent"
              => travelling' = travelling \cup {tabs'[t].sent.drafts}
           /\ /\ tabs[t].saving = "sent" /\ tabs'[t].saving # "sent"
              /\ late' = late \/ late' = late \cup {tabs[t].sent}
              => travelling' \in {travelling, travelling \ {tabs[t].sent.drafts}}
<1>1. \A drafts : drafts \in travelling' <=>
          \/ tabs'[t].saving = "sent" /\ drafts = tabs'[t].sent.drafts
          \/ \E u \in Tab \ {t} : tabs[u].saving = "sent" /\ drafts = tabs[u].sent.drafts
          \/ \E changes \in late' : drafts = changes.drafts
    BY DEF travelling, OthersStay
<1>2. \A drafts : drafts \in travelling <=>
          \/ tabs[t].saving = "sent" /\ drafts = tabs[t].sent.drafts
          \/ \E u \in Tab \ {t} : tabs[u].saving = "sent" /\ drafts = tabs[u].sent.drafts
          \/ \E changes \in late : drafts = changes.drafts
    BY DEF travelling
<1>3. ASSUME late' = late, \/ tabs'[t].saving = tabs[t].saving /\ tabs'[t].sent = tabs[t].sent
                           \/ tabs[t].saving # "sent" /\ tabs'[t].saving # "sent"
      PROVE  travelling' = travelling
    <2>1. \A drafts : drafts \in travelling' <=> drafts \in travelling
        BY <1>1, <1>2, <1>3
    <2> QED BY <2>1
<1>4. ASSUME late' = late, tabs[t].saving = "no", tabs'[t].saving = "sent"
      PROVE  travelling' = travelling \cup {tabs'[t].sent.drafts}
    <2>1. \A drafts : drafts \in travelling'
              <=> drafts \in travelling \/ drafts = tabs'[t].sent.drafts
        BY <1>1, <1>2, <1>4
    <2> QED BY <2>1
<1>5. ASSUME tabs[t].saving = "sent", tabs'[t].saving # "sent",
             late' = late \/ late' = late \cup {tabs[t].sent}
      PROVE  travelling' \in {travelling, travelling \ {tabs[t].sent.drafts}}
    <2>1. \A drafts : drafts \in travelling' => drafts \in travelling
        BY <1>1, <1>2, <1>5
    <2>2. \A drafts : drafts \in travelling /\ drafts # tabs[t].sent.drafts => drafts \in travelling'
        BY <1>1, <1>2, <1>5
    <2> QED BY <2>1, <2>2
<1> QED BY <1>3, <1>4, <1>5

LEMMA UnsavedSteps ==
    ASSUME NEW t \in Tab, OthersStay(t)
    PROVE  /\ unsaved[t] = tabs[t].pending.drafts
           /\ unsaved' = [unsaved EXCEPT ![t] = tabs'[t].pending.drafts]
           /\ tabs'[t].pending.drafts = tabs[t].pending.drafts => unsaved' = unsaved
BY DEF unsaved, OthersStay

LEMMA StoredShape ==
    ASSUME TypeOK
    PROVE  /\ stored \in Drafts
           /\ \A p \in Problem : /\ stored[p] \in Draft \cup {None}
                                 /\ AsNew(stored[p], profile.drafts[p])
<1>1. profile \in Profile /\ history \in History
    BY DEF TypeOK, History
<1> QED BY <1>1, ReadShape DEF stored, ServerState, State, Drafts

\* A write stores the drafts that are newer.
LEMMA WriteStores ==
    ASSUME TypeOK, NEW changes \in Changes, Write(changes), history' = history
    PROVE  stored' = [p \in Problem |-> IF Contract!AsNew(stored[p], changes.drafts[p])
                                        THEN stored[p] ELSE changes.drafts[p]]
<1>1. ServerState \in State /\ stored \in Drafts /\ changes.drafts \in Drafts
    BY ReadShape, StoredShape DEF ServerState, TypeOK, History, Changes
<1> DEFINE next == applyProgressChanges(ServerState, changes)
<1>2. next \in State /\ \A p \in Problem : next.drafts[p] = Newest(stored[p], changes.drafts[p])
    BY <1>1, ApplyShape DEF stored
<1>3. profile'.drafts = next.drafts
    BY DEF Write
<1> HIDE DEF next
<1>4. stored' = [p \in Problem |-> IF profile'.drafts[p] # None THEN profile'.drafts[p]
                                                               ELSE history[p].latest]
    BY DEF stored, ServerState, readState
<1>5. stored = [p \in Problem |-> IF profile.drafts[p] # None THEN profile.drafts[p]
                                                              ELSE history[p].latest]
    BY DEF stored, ServerState, readState
<1>6. ASSUME NEW p \in Problem
      PROVE  stored'[p] = IF Contract!AsNew(stored[p], changes.drafts[p])
                          THEN stored[p] ELSE changes.drafts[p]
    <2>1. stored[p] \in Draft \cup {None} /\ changes.drafts[p] \in Draft \cup {None}
        BY <1>1 DEF Drafts
    <2>2. Newest(stored[p], changes.drafts[p]) = IF Contract!AsNew(stored[p], changes.drafts[p])
                                                 THEN stored[p] ELSE changes.drafts[p]
        BY <2>1, ProgressAssumption DEF Newest, Contract!AsNew, Draft
    <2>3. stored[p] = None => history[p].latest = None
        BY <1>5
    <2>4. Newest(stored[p], changes.drafts[p]) = None => stored[p] = None
        BY <2>1, ProgressAssumption DEF Newest
    <2> QED BY <1>2, <1>3, <1>4, <2>2, <2>3, <2>4
<1>7. stored' = [p \in Problem |-> stored'[p]]
    BY <1>4
<1> QED BY <1>6, <1>7

ContractStep == [Contract!Next]_Contract!vars

\* A step that stores nothing, forgets nothing and sends nothing.
LEMMA QuietStep ==
    ASSUME stored' = stored, unsaved' = unsaved, travelling' = travelling
    PROVE  ContractStep
BY DEF ContractStep, Contract!vars

\* The server's part of a step of a tab.
LEMMA StoredStays ==
    ASSUME profile' = profile, history' = history
    PROVE  stored' = stored
BY DEF stored, ServerState

\* A typed draft is newer than the one it replaces.
LEMMA TypeStep ==
    ASSUME TypeOK, TypeOK', NEW t \in Tab, OthersStay(t), TabInv(t),
           NEW p \in Problem, NEW code \in Code, NEW now \in Now, setDraft(t, p, code, now)
    PROVE  ContractStep
<1> DEFINE previous == view(tabs[t]).drafts[p]
           draft == [at |-> Stamp(previous, now), value |-> code]
<1>1. /\ tabs[t] \in TabState /\ tabs[t].saved \in State /\ tabs[t].pending \in Changes
      /\ tabs[t].saved.drafts[p] \in Draft \cup {None}
      /\ tabs[t].pending.drafts[p] \in Draft \cup {None}
      /\ tabs[t].pending.drafts \in Drafts
    BY TabFacts DEF TypeOK, TabState, Changes
<1>2. previous = Newest(tabs[t].saved.drafts[p], tabs[t].pending.drafts[p])
    BY <1>1, ApplyShape DEF view
<1>3. previous \in Draft \cup {None} /\ AsNew(previous, tabs[t].pending.drafts[p])
    BY <1>1, <1>2, NewestIsNew
<1>4. /\ tabs' = [tabs EXCEPT ![t] = changed([tabs[t] EXCEPT !.pending.drafts[p] = draft])]
      /\ late' = late /\ profile' = profile /\ history' = history
    BY DEF setDraft, Update, Edited, serverVars
<1> HIDE DEF previous
<1>5. draft \in Draft /\ (previous # None => draft.at > previous.at)
    BY <1>3, ProgressAssumption DEF Stamp, Draft
<1> HIDE DEF draft
<1>6. tabs[t].pending.drafts[p] # None => draft.at > tabs[t].pending.drafts[p].at
    BY <1>1, <1>3, <1>5, ProgressAssumption DEF AsNew, Draft
<1>7. PICK pending : /\ pending = [tabs[t].pending EXCEPT !.drafts[p] = draft]
                     /\ tabs'[t] = changed([tabs[t] EXCEPT !.pending = pending])
    BY <1>4 DEF TypeOK
<1>8. pending.drafts = [tabs[t].pending.drafts EXCEPT ![p] = draft]
    BY <1>1, <1>7 DEF Changes
<1>9. /\ tabs'[t].pending.drafts = [tabs[t].pending.drafts EXCEPT ![p] = draft]
      /\ tabs'[t].saving = tabs[t].saving /\ tabs'[t].sent = tabs[t].sent
    BY <1>1, <1>7, <1>8 DEF changed, TabState
<1>10. /\ unsaved[t] = tabs[t].pending.drafts
       /\ unsaved' = [unsaved EXCEPT ![t] = [tabs[t].pending.drafts EXCEPT ![p] = draft]]
    BY <1>9, UnsavedSteps
<1>11. unsaved'[t][p] = draft
    BY <1>1, <1>10 DEF unsaved, Drafts
<1>12. travelling' = travelling /\ stored' = stored
    BY <1>4, <1>9, TravelSteps, StoredStays
<1>13. draft \in Contract!Draft
    BY <1>5 DEF Draft, Contract!Draft
<1>14. Contract!Type(t, p)
    BY <1>6, <1>10, <1>11, <1>12, <1>13 DEF Contract!Type
<1> QED BY <1>14 DEF ContractStep, Contract!Next

\* A save starts, or nothing that matters happens.
LEMMA FlushStep ==
    ASSUME TypeOK, NEW t \in Tab, OthersStay(t), late' = late, profile' = profile, history' = history,
           NEW tab \in TabState, tabs'[t] = tab \/ tabs'[t] = flush(tab),
           tab.pending = tabs[t].pending, tab.saving = tabs[t].saving, tab.sent = tabs[t].sent
    PROVE  ContractStep
<1>1. /\ tabs'[t].pending = tabs[t].pending
      /\ \/ tabs'[t].saving = tabs[t].saving /\ tabs'[t].sent = tabs[t].sent
         \/ tabs[t].saving = "no" /\ tabs'[t].saving = "sent" /\ tabs'[t].sent = tabs[t].pending
    BY DEF flush, TabState
<1>2. stored' = stored /\ unsaved' = unsaved /\ unsaved[t] = tabs[t].pending.drafts
    BY <1>1, UnsavedSteps, StoredStays
<1>3. CASE tabs'[t].saving = tabs[t].saving /\ tabs'[t].sent = tabs[t].sent
    BY <1>2, <1>3, TravelSteps, QuietStep
<1>4. CASE tabs[t].saving = "no" /\ tabs'[t].saving = "sent" /\ tabs'[t].sent = tabs[t].pending
    <2>1. travelling' = travelling \cup {unsaved[t]}
        BY <1>2, <1>4, TravelSteps
    <2>2. Contract!Send(t)
        BY <1>2, <2>1 DEF Contract!Send
    <2> QED BY <2>2 DEF ContractStep, Contract!Next
<1> QED BY <1>1, <1>3, <1>4

\* A tab that is opened, closed, or fails to load starts with nothing.
LEMMA LeaveStep ==
    ASSUME TypeOK, NEW t \in Tab, OthersStay(t), profile' = profile, history' = history,
           tabs'[t].pending = noChanges, tabs'[t].saving = "no",
           \/ late' = late
           \/ tabs[t].saving = "sent" /\ late' = late \cup {tabs[t].sent}
           \/ late' = late \cup {tabs[t].pending}
    PROVE  ContractStep
<1>1. /\ unsaved[t] = tabs[t].pending.drafts
      /\ unsaved' = [unsaved EXCEPT ![t] = noChanges.drafts]
      /\ stored' = stored
    BY UnsavedSteps, StoredStays
<1>2. noChanges.drafts = Contract!nothing
    BY DEF noChanges, Contract!nothing
<1>3. travelling' \subseteq travelling \cup {unsaved[t]}
    <2>1. ASSUME NEW drafts \in travelling' PROVE drafts \in travelling \/ drafts = unsaved[t]
        <3>1. \/ \E u \in Tab : tabs'[u].saving = "sent" /\ drafts = tabs'[u].sent.drafts
              \/ \E changes \in late' : drafts = changes.drafts
            BY <2>1 DEF travelling
        <3>2. CASE \E u \in Tab : tabs'[u].saving = "sent" /\ drafts = tabs'[u].sent.drafts
            <4>1. \E u \in Tab : tabs[u].saving = "sent" /\ drafts = tabs[u].sent.drafts
                BY <3>2 DEF OthersStay
            <4> QED BY <4>1, Travelling
        <3>3. CASE \E changes \in late' : drafts = changes.drafts
            <4>1. PICK changes \in late' : drafts = changes.drafts
                BY <3>3
            <4>2. CASE changes \in late
                BY <4>1, <4>2, Travelling
            <4>3. CASE tabs[t].saving = "sent" /\ changes = tabs[t].sent
                BY <4>1, <4>3, Travelling
            <4>4. CASE changes = tabs[t].pending
                BY <1>1, <4>1, <4>4
            <4> QED BY <4>1, <4>2, <4>3, <4>4
        <3> QED BY <3>1, <3>2, <3>3
    <2> QED BY <2>1
<1>4. Contract!Leave(t)
    BY <1>1, <1>2, <1>3 DEF Contract!Leave
<1> QED BY <1>4 DEF ContractStep, Contract!Next

\* A save arrives.
LEMMA ArriveStep ==
    ASSUME TypeOK, NEW t \in Tab, OthersStay(t), SaveArrives(t)
    PROVE  ContractStep
<1>1. tabs[t] \in TabState /\ tabs[t].sent \in Changes /\ tabs[t].saving = "sent"
    BY DEF TypeOK, TabState, SaveArrives
<1>2. /\ tabs'[t].pending = tabs[t].pending /\ tabs'[t].saving = "answered"
      /\ late' = late /\ history' = history
    BY <1>1 DEF SaveArrives, Update, TypeOK, TabState
<1> DEFINE drafts == tabs[t].sent.drafts
<1>3. stored' = [p \in Problem |-> IF Contract!AsNew(stored[p], drafts[p])
                                   THEN stored[p] ELSE drafts[p]]
    BY <1>1, <1>2, WriteStores DEF SaveArrives
<1>4. unsaved' = unsaved /\ travelling' \in {travelling, travelling \ {drafts}}
    BY <1>1, <1>2, UnsavedSteps, TravelSteps
<1>5. drafts \in travelling
    BY <1>1, Travelling
<1> HIDE DEF drafts
<1>6. Contract!Arrive(drafts)
    BY <1>3, <1>4 DEF Contract!Arrive, Contract!Gone
<1> QED BY <1>5, <1>6 DEF ContractStep, Contract!Next

LEMMA LateArriveStep ==
    ASSUME TypeOK, NEW changes \in late, LateSaveArrives(changes)
    PROVE  ContractStep
<1>1. /\ changes \in Changes /\ tabs' = tabs /\ late' = late \ {changes} /\ history' = history
    BY DEF LateSaveArrives, TypeOK
<1> DEFINE drafts == changes.drafts
<1>2. stored' = [p \in Problem |-> IF Contract!AsNew(stored[p], drafts[p])
                                   THEN stored[p] ELSE drafts[p]]
    BY <1>1, WriteStores DEF LateSaveArrives
<1>3. unsaved' = unsaved
    BY <1>1 DEF unsaved
<1>4. travelling' \in {travelling, travelling \ {drafts}}
    <2>1. \A d : d \in travelling' <=>
              \/ \E u \in Tab : tabs[u].saving = "sent" /\ d = tabs[u].sent.drafts
              \/ \E other \in late \ {changes} : d = other.drafts
        BY <1>1 DEF travelling
    <2>2. /\ \A d : d \in travelling' => d \in travelling
          /\ \A d : d \in travelling /\ d # drafts => d \in travelling'
        BY <2>1, Travelling
    <2> QED BY <2>2
<1>5. drafts \in travelling
    BY Travelling
<1> HIDE DEF drafts
<1>6. Contract!Arrive(drafts)
    BY <1>2, <1>3, <1>4 DEF Contract!Arrive, Contract!Gone
<1> QED BY <1>5, <1>6 DEF ContractStep, Contract!Next

\* A save fails: what was sent is lost, or still on its way.
LEMMA FailStep ==
    ASSUME TypeOK, NEW t \in Tab, OthersStay(t), SaveRefused(t) \/ SaveTimesOut(t)
    PROVE  ContractStep
<1>1. PICK warning \in {"not saved yet", "failed"} :
          tabs'[t] = retried([NotSaving(tabs[t]) EXCEPT !.warning = warning])
    BY DEF SaveRefused, SaveTimesOut, SaveFails, Update, TypeOK
<1>2. tabs'[t].pending = tabs[t].pending /\ tabs'[t].saving = "no"
    <2>1. tabs[t] \in TabState
        BY DEF TypeOK
    <2> QED BY <1>1, <2>1 DEF retried, NotSaving, TabState
<1>3. stored' = stored /\ unsaved' = unsaved
    BY <1>2, UnsavedSteps, StoredStays DEF SaveRefused, SaveTimesOut, serverVars
<1>4. CASE tabs[t].saving = "sent"
    <2> DEFINE drafts == tabs[t].sent.drafts
    <2>1. late' = late \/ late' = late \cup {tabs[t].sent}
        BY DEF SaveRefused, SaveTimesOut, serverVars
    <2>2. travelling' \in {travelling, travelling \ {drafts}} /\ drafts \in travelling
        BY <1>2, <1>4, <2>1, TravelSteps, Travelling
    <2> HIDE DEF drafts
    <2>3. Contract!Lose(drafts)
        BY <1>3, <2>2 DEF Contract!Lose, Contract!Gone
    <2> QED BY <2>2, <2>3 DEF ContractStep, Contract!Next
<1>5. CASE tabs[t].saving # "sent"
    <2>1. late' = late
        BY <1>5 DEF SaveRefused, SaveTimesOut, serverVars
    <2>2. travelling' = travelling
        BY <1>2, <1>5, <2>1, TravelSteps
    <2> QED BY <1>3, <2>2, QuietStep
<1> QED BY <1>4, <1>5

\* The answer of a save confirms what was sent: the server has it, or something newer.
LEMMA ConfirmStep ==
    ASSUME TypeOK, NEW t \in Tab, OthersStay(t), TabInv(t), Saved(t)
    PROVE  ContractStep
<1>1. tabs[t] \in TabState /\ tabs[t].saving = "answered"
    BY DEF TypeOK, Saved
<1>2. /\ tabs'[t].pending = confirmed(tabs[t]) /\ tabs'[t].saving = "no"
      /\ late' = late /\ profile' = profile /\ history' = history
    <2> DEFINE tab == [tabs[t] EXCEPT !.saved = later(@, tabs[t].answer), !.pending = confirmed(tabs[t]),
                                      !.failures = 0, !.warning = "no"]
    <2>1. tabs'[t] = rescheduled(NotSaving(tab))
        BY DEF Saved, Update, TypeOK
    <2>2. tab.pending = confirmed(tabs[t]) /\ tab \in TabState
        <3>1. later(tabs[t].saved, tabs[t].answer) \in State
            BY <1>1 DEF later, TabState
        <3> QED BY <1>1, <3>1, TabShapes, FailureCounts DEF TabState
    <2> HIDE DEF tab
    <2> QED BY <2>1, <2>2 DEF rescheduled, NotSaving, TabState, Saved, serverVars
<1> DEFINE problems == {p \in Problem : tabs[t].pending.drafts[p] = tabs[t].sent.drafts[p]}
<1>3. /\ unsaved[t] = tabs[t].pending.drafts
      /\ unsaved' = [unsaved EXCEPT ![t] = confirmed(tabs[t]).drafts]
      /\ stored' = stored /\ travelling' = travelling
    BY <1>1, <1>2, UnsavedSteps, TravelSteps, StoredStays
<1>4. ASSUME NEW p \in problems PROVE Contract!AsNew(stored[p], unsaved[t][p])
    <2>1. /\ DraftInv(t, p)
          /\ tabs[t].pending.drafts[p] = tabs[t].sent.drafts[p]
          /\ mine[t].drafts[p] \in Draft \cup {None}
          /\ profile.drafts[p] \in Draft \cup {None}
          /\ stored[p] \in Draft \cup {None} /\ AsNew(stored[p], profile.drafts[p])
        BY TabFacts, StoredShape DEF TabInv
    <2>2. CASE tabs[t].pending.drafts[p] = None
        BY <1>3, <2>2 DEF Contract!AsNew
    <2>3. CASE tabs[t].pending.drafts[p] # None
        <3>1. tabs[t].pending.drafts[p] = mine[t].drafts[p]
            BY <2>1, <2>3 DEF DraftInv
        <3>2. AsNew(profile.drafts[p], mine[t].drafts[p])
            BY <1>1, <2>1, <3>1 DEF DraftInv, CoveredFrom
        <3>3. AsNew(stored[p], mine[t].drafts[p])
            BY <2>1, <3>2, AsNewIsTransitive
        <3> QED BY <1>3, <3>1, <3>3 DEF AsNew, Contract!AsNew
    <2> QED BY <2>2, <2>3
<1>5. unsaved' = [unsaved EXCEPT ![t] = [p \in Problem |-> IF p \in problems THEN None ELSE @[p]]]
    <2>1. confirmed(tabs[t]).drafts = [p \in Problem |-> IF p \in problems
                                                         THEN None ELSE unsaved[t][p]]
        BY <1>3 DEF confirmed
    <2> HIDE DEF problems
    <2> QED BY <1>3, <2>1 DEF unsaved
<1>6. problems \in SUBSET Problem
    OBVIOUS
<1> HIDE DEF problems
<1>7. Contract!Confirm(t, problems)
    BY <1>3, <1>4, <1>5 DEF Contract!Confirm
<1> QED BY <1>6, <1>7 DEF ContractStep, Contract!Next

LEMMA ContractTabStep ==
    ASSUME TypeOK, TypeOK', NEW t \in Tab, TabInv(t), TabStep(t)
    PROVE  ContractStep
<1>1. OthersStay(t)
    BY OnlyTabShape DEF OnlyTab, OthersStay
<1>2. tabs[t] \in TabState /\ \A tab : Update(t, tab) => tabs'[t] = tab
    BY DEF TypeOK, Update
<1>3. CASE \E p \in Problem, code \in Code, now \in Now : setDraft(t, p, code, now)
    BY <1>1, <1>3, TypeStep
<1>4. CASE \E p \in Problem : setStar(t, p)
    <2>1. PICK p, starred :
              /\ p \in Problem
              /\ tabs' = [tabs EXCEPT ![t] = changed([tabs[t] EXCEPT !.pending.stars[p] = starred])]
              /\ late' = late /\ profile' = profile /\ history' = history
        BY <1>4 DEF setStar, Update, Edited, serverVars
    <2>2. PICK pending : /\ pending = [tabs[t].pending EXCEPT !.stars[p] = starred]
                         /\ tabs'[t] = changed([tabs[t] EXCEPT !.pending = pending])
        BY <2>1 DEF TypeOK
    <2>3. pending.drafts = tabs[t].pending.drafts
        BY <1>2, <2>2 DEF TabState, Changes
    <2>4. /\ tabs'[t].pending.drafts = tabs[t].pending.drafts
          /\ tabs'[t].saving = tabs[t].saving /\ tabs'[t].sent = tabs[t].sent
        BY <1>2, <2>2, <2>3 DEF changed, TabState
    <2> QED BY <1>1, <2>1, <2>4, UnsavedSteps, TravelSteps, StoredStays, QuietStep
<1>5. CASE TimerFires(t) \/ Hide(t)
    BY <1>1, <1>2, <1>5, FlushStep DEF TimerFires, Hide, serverVars
<1>6. CASE retry(t)
    <2> DEFINE tab == [tabs[t] EXCEPT !.failures = 0]
    <2>1. /\ tab \in TabState /\ tab.pending = tabs[t].pending
          /\ tab.saving = tabs[t].saving /\ tab.sent = tabs[t].sent
        BY <1>2, FailureCounts DEF TabState
    <2>2. /\ tabs'[t] = tab \/ tabs'[t] = flush(tab)
          /\ late' = late /\ profile' = profile /\ history' = history
        BY <1>2, <1>6 DEF retry, serverVars
    <2> HIDE DEF tab
    <2> QED BY <1>1, <2>1, <2>2, FlushStep
<1>7. CASE refresh(t)
    BY <1>2, <1>1, <1>7, FlushStep DEF refresh, serverVars
<1>8. CASE Open(t) \/ Close(t)
    <2>1. tabs'[t].pending = noChanges /\ tabs'[t].saving = "no"
        BY <1>2, <1>8, ClosedShape DEF Open, Close
    <2>2. /\ profile' = profile /\ history' = history
          /\ \/ late' = late
             \/ tabs[t].saving = "sent" /\ late' = late \cup {tabs[t].sent}
             \/ late' = late \cup {tabs[t].pending}
        BY <1>8 DEF Open, Close, serverVars
    <2> QED BY <1>1, <2>1, <2>2, LeaveStep
<1> QED BY <1>1, <1>3, <1>4, <1>5, <1>6, <1>7, <1>8, ArriveStep, ConfirmStep, FailStep DEF TabStep, Edit

\* The answer of a read changes no draft, or starts a tab that could not load afresh.
LEMMA ContractReadStep ==
    ASSUME TypeOK, NEW r \in reads, ReadProfile(r) \/ ReadHistory(r) \/ Loaded(r) \/ LoadFails(r)
    PROVE  ContractStep
<1>1. /\ r.tab \in Tab /\ r.state \in State /\ OthersStay(r.tab)
      /\ late' = late /\ profile' = profile /\ history' = history
    BY ReadShapes DEF TypeOK, Read, OthersStay, ReadProfile, ReadHistory, Loaded, LoadFails, serverVars
<1>2. tabs[r.tab] \in TabState /\ \A tab : Update(r.tab, tab) => tabs'[r.tab] = tab
    BY <1>1 DEF TypeOK, Update
<1>3. ASSUME tabs'[r.tab].pending = tabs[r.tab].pending,
             tabs'[r.tab].saving = tabs[r.tab].saving, tabs'[r.tab].sent = tabs[r.tab].sent
      PROVE  ContractStep
    BY <1>1, <1>3, UnsavedSteps, TravelSteps, StoredStays, QuietStep
<1>4. CASE ReadProfile(r) \/ ReadHistory(r)
    BY <1>3, <1>4 DEF ReadProfile, ReadHistory
<1>5. CASE Loaded(r)
    <2>1. CASE tabs[r.tab].pc = "opening"
        <3>1. tabs'[r.tab] = [tabs[r.tab] EXCEPT !.pc = "open", !.saved = r.state]
            BY <1>2, <1>5, <2>1 DEF Loaded
        <3> QED BY <1>2, <1>3, <3>1 DEF TabState
    <2>2. CASE tabs[r.tab].pc # "opening"
        <3> DEFINE tab == [tabs[r.tab] EXCEPT !.saved = later(@, r.state), !.warning = "no"]
        <3>1. tabs'[r.tab] = rescheduled(tab)
            BY <1>2, <1>5, <2>2 DEF Loaded
        <3>2. /\ tab \in TabState /\ tab.pending = tabs[r.tab].pending
              /\ tab.saving = tabs[r.tab].saving /\ tab.sent = tabs[r.tab].sent
            <4>1. later(tabs[r.tab].saved, r.state) \in State
                BY <1>1, <1>2 DEF later, TabState
            <4> QED BY <1>2, <4>1 DEF TabState
        <3> HIDE DEF tab
        <3> QED BY <1>3, <3>1, <3>2 DEF rescheduled, TabState
    <2> QED BY <2>1, <2>2
<1>6. CASE LoadFails(r)
    <2>1. \/ tabs'[r.tab] = Closed
          \/ tabs'[r.tab] = [tabs[r.tab] EXCEPT !.warning = "failed"]
        BY <1>2, <1>6 DEF LoadFails
    <2>2. CASE tabs'[r.tab] = Closed
        BY <1>1, <2>2, ClosedShape, LeaveStep
    <2>3. CASE tabs'[r.tab] = [tabs[r.tab] EXCEPT !.warning = "failed"]
        BY <1>2, <1>3, <2>3 DEF TabState
    <2> QED BY <2>1, <2>2, <2>3
<1> QED BY <1>4, <1>5, <1>6

\* A submission shows as a draft only where none is stored.
LEMMA SubmitStep ==
    ASSUME TypeOK, NEW q \in Problem, NEW code \in Code, NEW at \in Now, NEW accepted \in BOOLEAN,
           FinishSubmission(q, code, at, accepted)
    PROVE  ContractStep
<1> DEFINE draft == [at |-> at, value |-> code]
<1>1. /\ profile \in Profile /\ history \in History /\ draft \in Draft
      /\ history[q].latest \in Draft \cup {None}
    BY ProgressAssumption DEF TypeOK, History, Draft
<1>2. /\ history[q].latest # None => history[q].latest.at <= at
      /\ profile'.drafts = profile.drafts
      /\ history' = [history EXCEPT ![q] = [solved |-> @.solved \/ accepted, latest |-> draft]]
      /\ tabs' = tabs /\ late' = late
    BY <1>1 DEF FinishSubmission, Profile
<1>3. unsaved' = unsaved /\ travelling' = travelling
    BY <1>2 DEF unsaved, travelling
<1>4. /\ stored = [p \in Problem |-> IF profile.drafts[p] # None THEN profile.drafts[p]
                                                                 ELSE history[p].latest]
      /\ stored' = [p \in Problem |-> IF profile.drafts[p] # None THEN profile.drafts[p]
                                                                  ELSE history'[p].latest]
    BY <1>2 DEF stored, ServerState, readState
<1>5. \A p \in Problem : history'[p].latest = IF p = q THEN draft ELSE history[p].latest
    BY <1>1, <1>2 DEF History
<1>6. draft.at = at
    OBVIOUS
<1> HIDE DEF draft
<1>7. CASE profile.drafts[q] # None
    <2>1. \A p \in Problem : stored'[p] = stored[p]
        BY <1>4, <1>5, <1>7
    <2>2. stored' = stored
        BY <1>4, <2>1
    <2> QED BY <1>3, <2>2, QuietStep
<1>8. CASE profile.drafts[q] = None
    <2>1. stored[q] = history[q].latest /\ stored'[q] = draft
        BY <1>4, <1>5, <1>8
    <2>2. Contract!AsNew(draft, stored[q]) /\ draft \in Contract!Draft
        BY <1>1, <1>2, <1>6, <2>1, ProgressAssumption DEF Contract!AsNew, Contract!Draft, Draft
    <2>3. \A p \in Problem \ {q} : stored'[p] = stored[p]
        BY <1>4, <1>5
    <2>4. stored' = [stored EXCEPT ![q] = stored'[q]]
        BY <1>4, <2>3
    <2>5. Contract!Submit(q)
        BY <1>3, <2>1, <2>2, <2>4 DEF Contract!Submit
    <2> QED BY <2>5 DEF ContractStep, Contract!Next
<1> QED BY <1>7, <1>8

\* For any tabs, clocks, faults and orders of arrival: the store and the server together are the
\* register of DraftContract; each step is one of its steps, or leaves its variables alone.
THEOREM ProgressImplementsContract == Spec => ImplementsContract
<1>1. Init => Contract!Init
    <2> SUFFICES ASSUME Init PROVE Contract!Init
        OBVIOUS
    <2>1. stored = Contract!nothing
        BY DEF Init, stored, ServerState, readState, NewProfile, Contract!nothing
    <2>2. \A t \in Tab : tabs[t].pending = noChanges /\ tabs[t].saving = "no"
        BY ClosedShape DEF Init
    <2>3. unsaved = [t \in Tab |-> Contract!nothing]
        BY <2>2 DEF unsaved, noChanges, Contract!nothing
    <2>4. travelling = {}
        BY <2>2 DEF Init, travelling
    <2> QED BY <2>1, <2>3, <2>4 DEF Contract!Init
<1>2. ASSUME ProgressInv, ProgressInv', [Next]_vars PROVE ContractStep
    <2>1. TypeOK /\ TypeOK' /\ \A t \in Tab : TabInv(t)
        BY <1>2 DEF ProgressInv
    <2>2. CASE UNCHANGED vars
        <3>1. stored' = stored
            BY <2>2, StoredStays DEF vars, serverVars
        <3> QED BY <2>2, <3>1, QuietStep DEF vars, serverVars, unsaved, travelling
    <2> QED BY <1>2, <2>1, <2>2, ContractTabStep, ContractReadStep, LateArriveStep, SubmitStep DEF Next
<1>3. ProgressInv /\ ProgressInv' /\ [Next]_vars => [Contract!Next]_Contract!vars
    BY <1>2 DEF ContractStep
<1> QED BY <1>1, <1>3, ProgressInvHolds, PTL DEF Spec, ImplementsContract, Contract!Spec

=============================================================================
