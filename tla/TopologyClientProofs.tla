-------------------------- MODULE TopologyClientProofs --------------------------
(***************************************************************************)
(* The client's journal discipline for any graphs, any request budget, any *)
(* number of activities and any number of claims.                          *)
(***************************************************************************)
EXTENDS TopologyClient, TLAPS

USE GraphAssumption, RecordsAssumption, GenerationAssumption, ActivitiesAssumption

LEMMA Types ==
  /\ NoRequest \notin Request
  /\ NoRequest.route = "none"
  /\ Idle \in Client
  /\ NoJournal \in Journal
  /\ NewJournal \in Journal
  <1>1. NoRequest \notin Request /\ NoRequest.route = "none"
    BY DEF NoRequest, Request, Route
  <1>2. Idle \in Client
    BY DEF Idle, Client, GraphOrNone
  <1>3. NoCoordinates \in Coordinates
    BY DEF NoCoordinates, Coordinates, GraphOrNone, Generation
  <1>4. << >> \in Seq(Record)
    OBVIOUS
  <1>5. NoJournal \in Journal
    BY <1>3, <1>4 DEF NoJournal, Journal
  <1>6. NewJournal \in Journal
    BY <1>3, <1>4 DEF NoJournal, NewJournal, Journal, Phase
  <1> QED
    BY <1>1, <1>2, <1>5, <1>6

LEMMA InitIInv == Init => IInv
  <1> SUFFICES ASSUME Init PROVE IInv
    OBVIOUS
  <1>1. TypeOK
    <2>1. server \in Server
      BY DEF Init, Server, GraphOrNone, Generation
    <2>2. issued \in 0 .. MaxRecords /\ sent \in SUBSET Request
      BY DEF Init
    <2>3. answers \in [Key -> Answer \cup {NoAnswer}]
      BY DEF Init
    <2> QED
      BY <2>1, <2>2, <2>3, Types DEF Init, TypeOK
  <1>2. RecordedBeforeDispatch /\ NoPlanNoApproval /\ AnswersTrue
    BY DEF Init, RecordedBeforeDispatch, NoPlanNoApproval, AnswersTrue
  <1>5. KeysInOrder
    BY DEF Init, KeysInOrder, NoJournal
  <1>3. Placement
    BY DEF Init, Placement, Idle, NoJournal, NoRequest, Coordinate, NoCoordinates, HasPlan
  <1>4. JournalNotAhead
    BY DEF Init, JournalNotAhead, NoJournal, Coordinate, NoCoordinates, HasPlan, HasRun,
           Generation
  <1> QED
    BY <1>1, <1>2, <1>3, <1>4, <1>5 DEF IInv

\* A step that only moves the invocation keeps the invariant if it moves it to a
\* place that fits the journal.
LEMMA ClientMoves ==
  ASSUME IInv, UNCHANGED <<journal, issued, sent, answers, server>>,
         client' \in Client, Placement'
  PROVE  IInv'
  BY DEF IInv, TypeOK, KeysInOrder, RecordedBeforeDispatch, Recorded, NoPlanNoApproval,
         AnswersTrue, StillTrue, JournalNotAhead, Coordinate

LEMMA Returns ==
  ASSUME IInv, UNCHANGED <<journal, issued, sent, answers, server>>, Return
  PROVE  IInv'
  <1>1. client' \in Client
    BY Types DEF Return
  <1>2. Placement'
    BY DEF IInv, Placement, Return, Idle, Coordinate
  <1> QED
    BY <1>1, <1>2, ClientMoves

\* Recording a fresh request: the budget keeps the new key within the keys.
LEMMA RecordRequestIInv ==
  ASSUME IInv, NEW route \in Route, NEW generation \in Generation,
         NEW expected \in GraphOrNone, journal.pending = NoRequest,
         RecordRequest(route, generation, expected), UNCHANGED <<sent, answers, server>>
  PROVE  IInv'
  <1> DEFINE r == [route |-> route, key |-> issued + 1,
                   generation |-> generation, expected |-> expected]
             j == [journal EXCEPT !.pending = r]
  <1>1. CASE WithinBudget /\ ValidJournal(j) /\ journal' = j /\ issued' = issued + 1
             /\ client' = [client EXCEPT !.at = "dispatch"]
    <2>1. issued = Len(journal.history) /\ issued \in Nat /\ issued < MaxRecords
      BY <1>1 DEF IInv, TypeOK, KeysInOrder, WithinBudget
    <2>2. r \in Request
      BY <2>1 DEF Request, Key
    <2>3. /\ journal'.pending = r /\ journal'.history = journal.history
          /\ journal'.coordinates = journal.coordinates /\ journal'.phase = journal.phase
      BY <1>1 DEF IInv, TypeOK, Journal
    <2>4. TypeOK'
      BY <1>1, <2>1, <2>2 DEF IInv, TypeOK, Journal, Client
    <2>5. KeysInOrder'
      BY <1>1, <2>1, <2>2, <2>3, Types DEF IInv, KeysInOrder
    <2>6. RecordedBeforeDispatch'
      <3> SUFFICES ASSUME NEW q \in sent PROVE Recorded(q)'
        BY DEF RecordedBeforeDispatch
      <3>1. q # NoRequest /\ Recorded(q)
        BY Types DEF IInv, TypeOK, RecordedBeforeDispatch
      <3> QED
        BY <2>3, <3>1 DEF Recorded
    <2>7. route = "advance" => journal.phase = "executed"
      BY <1>1, <2>2, <2>3, Types DEF ValidJournal, PendingBound, PendingPhases
    <2>8. client'.at = "dispatch"
      BY <1>1 DEF IInv, TypeOK, Client
    <2>9. Placement'
      BY <2>2, <2>3, <2>7, <2>8, Types DEF IInv, Placement, Coordinate
    <2>10. NoPlanNoApproval' /\ AnswersTrue' /\ JournalNotAhead'
      BY <2>3 DEF IInv, NoPlanNoApproval, AnswersTrue, StillTrue, JournalNotAhead, Coordinate
    <2> QED
      BY <2>4, <2>5, <2>6, <2>9, <2>10 DEF IInv
  <1>2. CASE Return /\ UNCHANGED <<journal, issued>>
    BY <1>2, Returns
  <1> QED
    BY <1>1, <1>2 DEF RecordRequest, GoTo

LEMMA DispatchIInv == IInv /\ Dispatch => IInv'
  <1> SUFFICES ASSUME IInv, Dispatch PROVE IInv'
    OBVIOUS
  <1>1. journal.pending # NoRequest /\ journal.pending \in Request
    BY DEF IInv, TypeOK, Journal, Placement, Dispatch, At
  <1>2. TypeOK'
    BY <1>1 DEF IInv, TypeOK, Dispatch, GoTo, Client
  <1>3. KeysInOrder' /\ NoPlanNoApproval' /\ JournalNotAhead'
    BY DEF IInv, Dispatch, KeysInOrder, NoPlanNoApproval, JournalNotAhead, Coordinate
  <1>4. RecordedBeforeDispatch'
    BY DEF IInv, Dispatch, RecordedBeforeDispatch, Recorded
  <1>5. Placement'
    BY <1>1 DEF IInv, TypeOK, Client, Dispatch, GoTo, Placement, Coordinate
  <1>6. AnswersTrue'
    BY DEF IInv, Dispatch, AnswersTrue, StillTrue
  <1> QED
    BY <1>2, <1>3, <1>4, <1>5, <1>6 DEF IInv

\* The answer under the pending key is the pending request's own, and still true.
LEMMA PendingAnswerTrue ==
  ASSUME IInv, journal.pending # NoRequest, answers[journal.pending.key] # NoAnswer
  PROVE  /\ journal.pending \in Request
         /\ answers[journal.pending.key] \in Answer
         /\ StillTrue(journal.pending, answers[journal.pending.key])
  <1> DEFINE p == journal.pending
  <1>1. p \in Request /\ p.key \in Key
    BY DEF IInv, TypeOK, Journal, Request
  <1>2. answers[p.key] \in Answer
    BY <1>1 DEF IInv, TypeOK
  <1>3. PICK r \in sent : r.key = p.key /\ StillTrue(r, answers[p.key])
    BY <1>1 DEF IInv, AnswersTrue
  <1>4. r = p
    <2>1. p.key = Len(journal.history) + 1 /\ Len(journal.history) \in Nat
      BY DEF IInv, TypeOK, Journal, KeysInOrder
    <2>2. \A i \in 1 .. Len(journal.history) : journal.history[i].key # p.key
      BY <2>1 DEF IInv, KeysInOrder
    <2> QED
      BY <1>3, <2>2 DEF IInv, RecordedBeforeDispatch, Recorded
  <1> QED
    BY <1>1, <1>2, <1>3, <1>4

\* Updating coordinates with well-typed values gives coordinates.
LEMMA CoordinatesUpdates ==
  ASSUME NEW c \in Coordinates
  PROVE  /\ \A b \in BOOLEAN : [c EXCEPT !.plan = TRUE, !.approval = b] \in Coordinates
         /\ [c EXCEPT !.approved = TRUE] \in Coordinates
         /\ [c EXCEPT !.request = TRUE] \in Coordinates
         /\ [c EXCEPT !.advanced = TRUE] \in Coordinates
         /\ \A g \in Generation : [c EXCEPT !.generation = g] \in Coordinates
         /\ \A u \in {"none", "running", "succeeded", "failed"} :
               /\ [c EXCEPT !.run = u] \in Coordinates
               /\ \A s \in CoordinatorStatus :
                     [c EXCEPT !.run = u, !.coordinator = s] \in Coordinates
  BY DEF Coordinates

LEMMA AnswerFields ==
  ASSUME NEW a \in Answer
  PROVE  /\ a.status \in AnswerStatus /\ a.generation \in Generation
         /\ a.run \in {"none", "claimed", "running", "succeeded", "failed"}
  BY DEF Answer

\* One answered request as a record of the history.
LEMMA RecordTyped ==
  ASSUME NEW r \in Request, NEW s \in AnswerStatus \cup {"none"}
  PROVE  [route |-> r.route, key |-> r.key, status |-> s] \in Record
  BY DEF Record, Request

LEMMA ResolvedIInv == IInv /\ Resolved => IInv'
  <1> SUFFICES ASSUME IInv, Resolved PROVE IInv'
    OBVIOUS
  <1> DEFINE r == journal.pending
             a == answers[r.key]
             c == journal.coordinates
  <1>1. r # NoRequest
    BY DEF IInv, Placement, Resolved, At
  <1>2. r \in Request /\ a \in Answer /\ StillTrue(r, a)
    BY <1>1, PendingAnswerTrue DEF Resolved
  <1>3. r.route \in Route /\ r.key \in Key /\ c \in Coordinates /\ journal.history \in Seq(Record)
    BY <1>2 DEF IInv, TypeOK, Journal, Request
  <1>4. ResponseIsBound(r, a) /\ ValidJournal(Resolve(journal, a)) /\ journal' = Resolve(journal, a)
    BY DEF Resolved
  <1>5. UNCHANGED <<issued, sent, answers, server>>
    BY DEF Resolved, OnlyClient
  <1> DEFINE e == [route |-> r.route, key |-> r.key,
                   status |-> IF r.route = "prepare" THEN "none" ELSE a.status]
  <1>6. /\ journal'.pending = NoRequest /\ journal'.phase = PhaseAfter(r.route, a)
        /\ journal'.coordinates = ResponseCoordinates(r, a, c)
        /\ journal'.history = Append(journal.history, e)
    BY <1>4 DEF Resolve
  <1>7. e \in Record
    BY <1>2, AnswerFields, RecordTyped
  <1>8. /\ journal'.history \in Seq(Record) /\ Len(journal'.history) = Len(journal.history) + 1
        /\ \A i \in 1 .. Len(journal.history) : journal'.history[i] = journal.history[i]
        /\ journal'.history[Len(journal.history) + 1] = e
        /\ Len(journal.history) \in Nat
    BY <1>3, <1>6, <1>7
  <1>9. journal'.phase \in Phase
    BY <1>4 DEF ValidJournal
  <1>10. journal'.coordinates \in Coordinates
    <2> USE <1>2, <1>3, <1>4, <1>6, CoordinatesUpdates, AnswerFields
        DEF ResponseCoordinates, ResponseIsBound
    <2>1. CASE r.route = "prepare"
      BY <2>1
    <2>2. CASE r.route = "decide"
      BY <2>2
    <2>3. CASE r.route = "admit"
      BY <2>3
    <2>4. CASE r.route = "claim"
      BY <2>4
    <2>5. CASE r.route = "start"
      <3>1. a.run = "running"
        BY ONLY <1>4, <2>5 DEF ResponseIsBound
      <3>2. journal'.coordinates = [c EXCEPT !.run = a.run]
        BY ONLY <1>6, <2>5 DEF ResponseCoordinates
      <3> QED
        BY ONLY <3>1, <3>2, <1>3, CoordinatesUpdates
    <2>6. CASE r.route = "execute"
      <3>1. journal'.coordinates = [c EXCEPT !.run = a.run, !.coordinator = a.status]
        BY ONLY <1>6, <2>6 DEF ResponseCoordinates
      <3>2. a.run \in {"running", "succeeded", "failed"} /\ a.status \in CoordinatorStatus
        BY ONLY <1>4, <2>6 DEF ResponseIsBound, CoordinatorStatus, StopStatus
      <3> QED
        BY ONLY <3>1, <3>2, <1>3 DEF Coordinates
    <2>7. CASE r.route = "advance"
      BY <2>7
    <2> QED
      BY <1>3, <2>1, <2>2, <2>3, <2>4, <2>5, <2>6, <2>7 DEF Route
  <1>11. journal' \in Journal
    BY <1>4, <1>6, <1>8, <1>9, <1>10 DEF Resolve, Journal
  <1>12. client' \in Client
    BY <1>2, <1>4, <1>3 DEF IInv, TypeOK, Client, Resolved, ResponseIsBound
  <1>13. TypeOK'
    BY <1>5, <1>11, <1>12 DEF IInv, TypeOK
  <1>14. r.key = Len(journal.history) + 1 /\ issued = r.key
    BY <1>1 DEF IInv, KeysInOrder
  <1>15. KeysInOrder'
    BY <1>5, <1>6, <1>8, <1>14 DEF IInv, KeysInOrder
  <1>16. RecordedBeforeDispatch'
    <2> SUFFICES ASSUME NEW q \in sent PROVE Recorded(q)'
      BY <1>5 DEF RecordedBeforeDispatch
    <2>1. Recorded(q)
      BY DEF IInv, RecordedBeforeDispatch
    <2>2. CASE q = r
      BY <2>2, <1>8, <1>6 DEF Recorded
    <2>3. CASE q # r
      BY <2>1, <2>3, <1>8, <1>6 DEF Recorded
    <2> QED
      BY <2>2, <2>3
  <1>17. NoPlanNoApproval' /\ AnswersTrue'
    BY <1>5 DEF IInv, NoPlanNoApproval, AnswersTrue, StillTrue
  <1>18. JournalNotAhead' /\ (HasPlan(Coordinate) => Coordinate.plan)'
    <2> DEFINE d == journal'.coordinates
    <2> USE <1>2, <1>3, <1>4, <1>5, <1>6
        DEF IInv, JournalNotAhead, Placement, StillTrue, ResponseIsBound, PhaseAfter,
            Coordinate, HasPlan, HasRun
    <2>1. CASE r.route = "prepare"
      <3>1. d = [c EXCEPT !.plan = TRUE, !.approval = (a.status = "approval-required")]
        BY <2>1 DEF ResponseCoordinates
      <3>2. /\ d.plan
            /\ d.base = c.base /\ d.approved = c.approved /\ d.request = c.request
            /\ d.generation = c.generation /\ d.coordinator = c.coordinator
        BY ONLY <3>1, <1>3 DEF Coordinates
      <3>3. journal'.phase = "prepared"
        BY <2>1
      <3> HIDE DEF d
      <3>4. server.plan # "none"
        BY <2>1
      <3> QED
        BY <3>2, <3>3, <3>4 DEF d
    <2>2. CASE r.route = "decide"
      BY <2>2 DEF ResponseCoordinates, Coordinates, Answer, Generation
    <2>3. CASE r.route = "admit"
      BY <2>3 DEF ResponseCoordinates, Coordinates, Answer, Generation
    <2>4. CASE r.route = "claim"
      BY <2>4 DEF ResponseCoordinates, Coordinates, Answer, Generation
    <2>5. CASE r.route = "start"
      BY <2>5 DEF ResponseCoordinates, Coordinates, Answer, Generation
    <2>6. CASE r.route = "execute"
      <3>1. /\ d.plan = c.plan /\ d.base = c.base /\ d.approved = c.approved
            /\ d.request = c.request /\ d.generation = c.generation
            /\ d.coordinator = a.status
        <4>1. d = [c EXCEPT !.run = a.run, !.coordinator = a.status]
          BY <2>6 DEF ResponseCoordinates
        <4> QED
          BY ONLY <4>1, <1>3 DEF Coordinates
      <3>2. a.status = "completed" => server.run = "succeeded"
        BY <2>6
      <3>3. \/ a.status = "completed" /\ journal'.phase = "executed"
            \/ a.status # "completed" /\ journal'.phase \in {"executing", "attention-required"}
        BY <2>6 DEF StopStatus
      <3> HIDE DEF d
      <3> QED
        BY <3>1, <3>2, <3>3 DEF d
    <2>7. CASE r.route = "advance"
      BY <2>7 DEF ResponseCoordinates, Coordinates, Answer, Generation
    <2> QED
      BY <1>3, <2>1, <2>2, <2>3, <2>4, <2>5, <2>6, <2>7 DEF Route
  <1>19. /\ client'.at = IF r.route = "prepare" THEN "plan" ELSE "route"
         /\ client'.prepared = IF r.route = "prepare" THEN a.status ELSE "none"
    BY DEF Resolved, IInv, TypeOK, Client
  <1>20. r.route = "prepare" => journal'.coordinates.plan /\ a.status = server'.plan
    BY <1>2, <1>3, <1>5, <1>6 DEF StillTrue, ResponseCoordinates, Coordinates
  <1>21. Placement'
    BY <1>6, <1>18, <1>19, <1>20, Types DEF Placement, Coordinate
  <1> QED
    BY <1>13, <1>15, <1>16, <1>17, <1>18, <1>21 DEF IInv

\* A write that leaves the pending request and the history alone.
LEMMA JournalWrites ==
  ASSUME IInv, journal' \in Journal, client' \in Client,
         journal'.pending = journal.pending, journal'.history = journal.history,
         UNCHANGED <<issued, sent, answers, server>>, Placement', JournalNotAhead'
  PROVE  IInv'
  <1>1. TypeOK'
    BY DEF IInv, TypeOK
  <1>2. KeysInOrder' /\ NoPlanNoApproval'
    BY DEF IInv, KeysInOrder, NoPlanNoApproval
  <1>3. RecordedBeforeDispatch'
    BY DEF IInv, RecordedBeforeDispatch, Recorded
  <1>4. AnswersTrue'
    BY DEF IInv, AnswersTrue, StillTrue
  <1> QED
    BY <1>1, <1>2, <1>3, <1>4 DEF IInv

\* Recording the plan's base, and possibly a phase that claims nothing of the run.
LEMMA PlanRecorded ==
  ASSUME IInv, Coordinate.plan, NEW phase \in Phase \cup {"absent"},
         \/ phase = journal.phase
         \/ /\ phase = "no-changes" => server.plan = "no-changes"
            /\ phase \notin {"executed", "advanced", "converged"}
            /\ journal.pending.route # "advance",
         journal' = [journal EXCEPT !.phase = phase, !.coordinates.base = server.base],
         UNCHANGED <<issued, sent, answers, server>>, client' \in Client,
         client'.at \in {"idle", "approval", "run", "dispatch", "route"},
         client'.at = "dispatch" => journal.pending # NoRequest,
         client'.at = "route" => journal.pending = NoRequest
  PROVE  IInv'
  <1>1. journal.coordinates \in Coordinates /\ server.base \in GraphOrNone
    BY DEF IInv, TypeOK, Journal, Server
  <1>2. [journal.coordinates EXCEPT !.base = server.base] \in Coordinates
    BY <1>1 DEF Coordinates
  <1>3. journal' = [journal EXCEPT !.phase = phase,
                      !.coordinates = [journal.coordinates EXCEPT !.base = server.base]]
    BY DEF IInv, TypeOK, Journal
  <1>4. journal' \in Journal
    BY <1>2, <1>3 DEF IInv, TypeOK, Journal
  <1>5. /\ journal'.pending = journal.pending /\ journal'.history = journal.history
        /\ journal'.phase = phase
        /\ journal'.coordinates = [journal.coordinates EXCEPT !.base = server.base]
    BY <1>3 DEF IInv, TypeOK, Journal
  <1> DEFINE c == journal.coordinates
             d == journal'.coordinates
  <1>6. /\ d.plan = c.plan /\ d.base = server.base /\ d.approved = c.approved
        /\ d.request = c.request /\ d.generation = c.generation
        /\ d.coordinator = c.coordinator
    BY ONLY <1>1, <1>5 DEF Coordinates
  <1>7. Placement'
    BY <1>5, <1>6 DEF IInv, Placement, Coordinate, HasPlan
  <1>8. JournalNotAhead'
    BY <1>5, <1>6 DEF IInv, JournalNotAhead, Coordinate, HasPlan, HasRun
  <1> QED
    BY <1>4, <1>5, <1>7, <1>8, JournalWrites

LEMMA PlanSteps ==
  ASSUME IInv, PlanStart \/ PlanCreate \/ RecordPrepare \/ ResumePrepare
                 \/ FinishReadPlan \/ FinishReadApproval
  PROVE  IInv'
  <1> USE DEF At, OnlyClient
  <1>1. CASE PlanStart
    <2>1. client' \in Client /\ client'.at = "create"
      BY <1>1 DEF PlanStart, IInv, TypeOK, Client, Server, GraphOrNone
    <2>2. Placement'
      BY <1>1, <2>1 DEF PlanStart, IInv, Placement, Coordinate, NoJournal
    <2> QED
      BY <1>1, <2>1, <2>2, ClientMoves DEF PlanStart
  <1>2. CASE PlanCreate
    <2>1. journal = NoJournal /\ journal' = NewJournal
      BY <1>2 DEF PlanCreate, IInv, Placement
    <2>2. client' \in Client /\ client'.at = "record"
      BY <1>2 DEF PlanCreate, GoTo, IInv, TypeOK, Client
    <2>3. /\ journal'.pending = journal.pending /\ journal'.history = journal.history
          /\ journal'.coordinates = NoCoordinates /\ journal'.phase = "planning"
          /\ journal'.pending = NoRequest
      BY <2>1 DEF NewJournal, NoJournal
    <2>4. Placement' /\ JournalNotAhead'
      BY <2>2, <2>3, Types
         DEF Placement, JournalNotAhead, Coordinate, NoCoordinates, HasPlan, HasRun
    <2> QED
      BY <1>2, <2>1, <2>2, <2>3, <2>4, Types, JournalWrites DEF PlanCreate
  <1>3. CASE RecordPrepare
    <2>1. client.expected \in GraphOrNone /\ journal.pending = NoRequest
      BY <1>3 DEF RecordPrepare, IInv, TypeOK, Client, Placement
    <2>2. "prepare" \in Route /\ 0 \in Generation
      BY DEF Route, Generation
    <2> QED
      BY <1>3, <2>1, <2>2, RecordRequestIInv DEF RecordPrepare
  <1>4. CASE ResumePrepare
    <2>1. client' \in Client /\ client'.at = "dispatch"
      BY <1>4 DEF ResumePrepare, GoTo, IInv, TypeOK, Client
    <2>2. Placement'
      BY <1>4, <2>1, Types DEF ResumePrepare, IInv, Placement, Coordinate
    <2> QED
      BY <1>4, <2>1, <2>2, ClientMoves DEF ResumePrepare
  <1>5. ASSUME client.at \in {"plan", "planApproval"}, FinishPrepare,
               UNCHANGED <<issued, sent, answers, server>>
        PROVE  IInv'
    <2> DEFINE phase == CASE client.prepared = "no-changes" -> "no-changes"
                          [] client.prepared = "review-blocked" -> "attention-required"
                          [] OTHER -> "prepared"
    <2>1. /\ Coordinate.plan /\ client.prepared = server.plan
          /\ journal.pending.route # "advance"
      BY <1>5, Types DEF IInv, Placement
    <2>2. /\ phase \in Phase
          /\ phase = "no-changes" => server.plan = "no-changes"
          /\ phase \notin {"executed", "advanced", "converged"}
      BY <2>1 DEF Phase
    <2>3. /\ journal' = [journal EXCEPT !.phase = phase, !.coordinates.base = server.base]
          /\ Return
      BY <1>5 DEF FinishPrepare
    <2>4. client' \in Client /\ client'.at = "idle"
      BY <2>3, Types DEF Return, Idle
    <2>5. phase \in Phase \cup {"absent"}
      BY <2>2
    <2> HIDE DEF phase
    <2>6. /\ client'.at \in {"idle", "approval", "run", "dispatch", "route"}
          /\ client'.at = "dispatch" => journal.pending # NoRequest
          /\ client'.at = "route" => journal.pending = NoRequest
      BY <2>4
    <2> QED
      BY ONLY <1>5, IInv, <2>1, <2>2, <2>3, <2>4, <2>5, <2>6, PlanRecorded
  <1>6. CASE FinishReadPlan
    <2>1. CASE Return /\ UNCHANGED journal
      BY <1>6, <2>1, Returns DEF FinishReadPlan
    <2>2. CASE GoTo("planApproval") /\ UNCHANGED journal
      <3>1. client' \in Client /\ client'.at = "planApproval" /\ client'.prepared = client.prepared
        BY <2>2 DEF GoTo, IInv, TypeOK, Client
      <3>2. Placement'
        BY <1>6, <2>2, <3>1 DEF FinishReadPlan, IInv, Placement, Coordinate
      <3> QED
        BY <1>6, <2>2, <3>1, <3>2, ClientMoves DEF FinishReadPlan
    <2>3. CASE FinishPrepare
      BY <1>5, <1>6, <2>3 DEF FinishReadPlan
    <2> QED
      BY <1>6, <2>1, <2>2, <2>3 DEF FinishReadPlan
  <1>7. CASE FinishReadApproval
    <2>1. CASE FinishPrepare
      BY <1>5, <1>7, <2>1 DEF FinishReadApproval
    <2>2. CASE journal' = [journal EXCEPT !.coordinates.base = server.base] /\ Return
      <3>1. client' \in Client /\ client'.at = "idle"
        BY <2>2, Types DEF Return, Idle
      <3>2. Coordinate.plan /\ journal.pending.route # "advance"
        BY <1>7, Types DEF FinishReadApproval, IInv, Placement
      <3>3. journal' = [journal EXCEPT !.phase = journal.phase, !.coordinates.base = server.base]
        BY <2>2 DEF IInv, TypeOK, Journal
      <3>4. journal.phase \in Phase \cup {"absent"}
        BY DEF IInv, TypeOK, Journal
      <3> QED
        BY <1>7, <3>1, <3>2, <3>3, <3>4, PlanRecorded DEF FinishReadApproval
    <2> QED
      BY <1>7, <2>1, <2>2 DEF FinishReadApproval
  <1> QED
    BY <1>1, <1>2, <1>3, <1>4, <1>6, <1>7

\* apply() goes to a place that fits what is pending.
LEMMA NextPlace ==
  /\ PendingOrNext \in {"dispatch", "route"}
  /\ PendingOrNext = "dispatch" => journal.pending # NoRequest
  /\ PendingOrNext = "route" => journal.pending = NoRequest
  /\ AfterApproval \in {"run", "dispatch", "route"}
  /\ AfterApproval = "dispatch" => journal.pending # NoRequest
  /\ AfterApproval = "route" => journal.pending = NoRequest
  BY DEF PendingOrNext, AfterApproval

\* Moving on to such a place keeps the invariant.
LEMMA Proceeds ==
  ASSUME IInv, UNCHANGED <<journal, issued, sent, answers, server>>, client' \in Client,
         client'.at \in {"graph", "run", "dispatch", "route"},
         client'.at = "dispatch" => journal.pending # NoRequest,
         client'.at = "route" => journal.pending = NoRequest
  PROVE  IInv'
  <1>1. Placement'
    BY DEF IInv, Placement, Coordinate
  <1> QED
    BY <1>1, ClientMoves

LEMMA ApplySteps ==
  ASSUME IInv, \/ ApplyStart
               \/ \E approve, approveDestructive \in BOOLEAN :
                     ReadApproval(approve, approveDestructive)
               \/ ObserveRun \/ ObserveGraph \/ ReplayUnobserved
               \/ Stop \/ RecordAdvance \/ Converge
               \/ \E route \in {"decide", "admit", "claim", "start", "execute"} : RecordStep(route)
  PROVE  IInv'
  <1> USE DEF At, OnlyClient
  <1>1. CASE ApplyStart
    <2>1. Coordinate.plan
      BY <1>1 DEF ApplyStart
    <2>2. journal' = [journal EXCEPT !.phase = journal.phase, !.coordinates.base = server.base]
      BY <1>1 DEF ApplyStart, IInv, TypeOK, Journal, JournalNotAhead, Coordinate
    <2>3. journal.phase \in Phase \cup {"absent"}
      BY DEF IInv, TypeOK, Journal
    <2>4. client'.at = IF Coordinate.approval THEN "approval" ELSE AfterApproval
      BY <1>1 DEF ApplyStart, GoTo, IInv, TypeOK, Client
    <2>5. /\ client'.at \in {"idle", "approval", "run", "dispatch", "route"}
          /\ client'.at = "dispatch" => journal.pending # NoRequest
          /\ client'.at = "route" => journal.pending = NoRequest
      BY <2>4, NextPlace
    <2>6. client' \in Client
      BY <1>1, <2>4, <2>5 DEF ApplyStart, GoTo, IInv, TypeOK, Client
    <2>7. UNCHANGED <<issued, sent, answers, server>>
      BY <1>1 DEF ApplyStart
    <2> QED
      BY ONLY IInv, <2>1, <2>2, <2>3, <2>5, <2>6, <2>7, PlanRecorded
  <1>2. ASSUME NEW approve \in BOOLEAN, NEW approveDestructive \in BOOLEAN,
               ReadApproval(approve, approveDestructive)
        PROVE  IInv'
    <2>1. UNCHANGED <<journal, issued, sent, answers, server>>
      BY <1>2 DEF ReadApproval
    <2>2. CASE Return
      BY <2>1, <2>2, Returns
    <2>3. ASSUME NEW d \in BOOLEAN, client' = [client EXCEPT !.at = AfterApproval, !.decide = d]
          PROVE  IInv'
      <3>1. client'.at = AfterApproval /\ client' \in Client
        BY <2>3, NextPlace DEF IInv, TypeOK, Client
      <3> QED
        BY <2>1, <3>1, NextPlace, Proceeds
    <2>4. CASE GoTo(AfterApproval)
      <3>1. client'.at = AfterApproval /\ client' \in Client
        BY <2>4, NextPlace DEF GoTo, IInv, TypeOK, Client
      <3> QED
        BY <2>1, <3>1, NextPlace, Proceeds
    <2> QED
      BY <1>2, <2>2, <2>3, <2>4 DEF ReadApproval
  <1>3. CASE ObserveRun
    <2>1. UNCHANGED <<journal, issued, sent, answers, server>>
      BY <1>3 DEF ObserveRun
    <2>2. CASE Return
      BY <2>1, <2>2, Returns
    <2>3. CASE client' = [client EXCEPT !.at = "graph", !.observed = server.run]
      <3>1. client' \in Client /\ client'.at = "graph"
        BY <2>3 DEF IInv, TypeOK, Client, Server
      <3> QED
        BY <2>1, <3>1, Proceeds
    <2> QED
      BY <1>3, <2>2, <2>3 DEF ObserveRun
  <1>4. CASE ObserveGraph
    <2>1. UNCHANGED <<journal, issued, sent, answers, server>>
      BY <1>4 DEF ObserveGraph
    <2>2. CASE Return
      BY <2>1, <2>2, Returns
    <2>3. CASE GoTo(PendingOrNext)
      <3>1. client' \in Client /\ client'.at = PendingOrNext
        BY <2>3, NextPlace DEF GoTo, IInv, TypeOK, Client
      <3> QED
        BY <2>1, <3>1, NextPlace, Proceeds
    <2> QED
      BY <1>4, <2>2, <2>3 DEF ObserveGraph
  <1>5. CASE ReplayUnobserved
    <2>1. client' \in Client /\ client'.at = "dispatch"
      BY <1>5 DEF ReplayUnobserved, IInv, TypeOK, Client
    <2> QED
      BY <1>5, <2>1, Proceeds DEF ReplayUnobserved
  <1>6. CASE Stop
    BY <1>6, Returns DEF Stop
  <1>7. CASE RecordAdvance
    <2>1. journal.pending = NoRequest
      BY <1>7 DEF RecordAdvance, IInv, Placement
    <2>2. CASE RecordRequest("advance", Coordinate.generation, server.current)
      <3>1. "advance" \in Route /\ Coordinate.generation \in Generation
            /\ server.current \in GraphOrNone
        BY DEF Route, IInv, TypeOK, Coordinate, Journal, Coordinates, Server, GraphOrNone
      <3> QED
        BY <1>7, <2>1, <2>2, <3>1, RecordRequestIInv DEF RecordAdvance
    <2>3. CASE Return /\ UNCHANGED <<journal, issued>>
      BY <1>7, <2>3, Returns DEF RecordAdvance
    <2> QED
      BY <1>7, <2>2, <2>3 DEF RecordAdvance
  <1>8. CASE Converge
    <2>1. journal.pending = NoRequest /\ journal.phase = "advanced"
      BY <1>8 DEF Converge, NextStep, IInv, Placement
    <2>2. CASE UNCHANGED journal
      BY <1>8, <2>2, Returns DEF Converge
    <2>3. CASE journal' = [journal EXCEPT !.phase = "converged"]
      <3>1. /\ journal' \in Journal /\ journal'.pending = journal.pending
            /\ journal'.history = journal.history /\ journal'.phase = "converged"
            /\ journal'.coordinates = journal.coordinates
        BY <2>3 DEF IInv, TypeOK, Journal, Phase
      <3>2. client' \in Client /\ client'.at = "idle"
        BY <1>8, Types DEF Converge, Return, Idle
      <3>3. Placement' /\ JournalNotAhead'
        BY <1>8, <2>1, <3>1, <3>2, Types
           DEF Converge, IInv, Placement, JournalNotAhead, Coordinate
      <3> QED
        BY <1>8, <3>1, <3>2, <3>3, JournalWrites DEF Converge
    <2> QED
      BY <1>8, <2>2, <2>3 DEF Converge
  <1>9. ASSUME NEW route \in {"decide", "admit", "claim", "start", "execute"}, RecordStep(route)
        PROVE  IInv'
    <2> DEFINE generation == IF route \in {"start", "execute"} THEN Coordinate.generation ELSE 0
    <2>1. journal.pending = NoRequest
      BY <1>9 DEF RecordStep, IInv, Placement
    <2>2. route \in Route /\ generation \in Generation /\ NoGraph \in GraphOrNone
      BY DEF Route, IInv, TypeOK, Coordinate, Journal, Coordinates, Generation, GraphOrNone
    <2>3. RecordRequest(route, generation, NoGraph) /\ UNCHANGED <<sent, answers, server>>
      BY <1>9 DEF RecordStep
    <2> HIDE DEF generation
    <2> QED
      BY ONLY IInv, <2>1, <2>2, <2>3, RecordRequestIInv
  <1> QED
    BY <1>1, <1>2, <1>3, <1>4, <1>5, <1>6, <1>7, <1>8, <1>9

\* What the server, and those who move it, never take back.
ServerKeeps ==
  /\ server.plan # "none" => server'.plan = server.plan /\ server'.base = server.base
  /\ server.approval = "approved" => server'.approval = "approved"
  /\ server.request => server'.request
  /\ server.run # "none" => server'.run # "none"
  /\ server.run = "succeeded" => server'.run = "succeeded"
  /\ server.advanced => server'.advanced

\* Such a step keeps everything but, possibly, AnswersTrue.
LEMMA ServerMoves ==
  ASSUME IInv, UNCHANGED <<journal, client, issued, sent>>,
         server' \in Server, answers' \in [Key -> Answer \cup {NoAnswer}],
         ServerKeeps, NoPlanNoApproval'
  PROVE  /\ AnswersTrue' => IInv'
         /\ \A r \in Request, a \in Answer : StillTrue(r, a) => StillTrue(r, a)'
  <1>1. TypeOK' /\ KeysInOrder' /\ RecordedBeforeDispatch'
    BY DEF IInv, TypeOK, KeysInOrder, RecordedBeforeDispatch, Recorded
  <1>2. Placement' /\ JournalNotAhead'
    BY DEF IInv, Placement, JournalNotAhead, ServerKeeps, Coordinate
  <1>3. \A r \in Request, a \in Answer : StillTrue(r, a) => StillTrue(r, a)'
    BY DEF StillTrue, ServerKeeps
  <1> QED
    BY <1>1, <1>2, <1>3 DEF IInv

LEMMA OtherActorIInv == IInv /\ OtherActor => IInv'
  <1> SUFFICES ASSUME IInv, OtherActor PROVE IInv'
    OBVIOUS
  <1>1. UNCHANGED <<journal, client, issued, sent, answers>>
    BY DEF OtherActor
  <1>2. server' \in Server /\ ServerKeeps /\ NoPlanNoApproval'
    <2> USE DEF IInv, TypeOK, Server, ServerKeeps, NoPlanNoApproval
    <2>1. CASE OtherDecides
      BY <2>1 DEF OtherDecides
    <2>2. CASE OtherClaims
      BY <2>2 DEF OtherClaims, Generation
    <2>3. CASE OtherEndsRun
      BY <2>3 DEF OtherEndsRun
    <2>4. CASE OtherMovesCurrent
      BY <2>4 DEF OtherMovesCurrent
    <2> QED
      BY <2>1, <2>2, <2>3, <2>4 DEF OtherActor
  <1>3. answers' \in [Key -> Answer \cup {NoAnswer}]
    BY <1>1 DEF IInv, TypeOK
  <1>4. AnswersTrue'
    <2> SUFFICES ASSUME NEW k \in Key, answers[k] # NoAnswer
                 PROVE  \E r \in sent : r.key = k /\ StillTrue(r, answers[k])'
      BY <1>1 DEF AnswersTrue
    <2>1. PICK r \in sent : r.key = k /\ StillTrue(r, answers[k])
      BY DEF IInv, AnswersTrue
    <2>2. StillTrue(r, answers[k])'
      BY <1>1, <1>2, <2>1 DEF StillTrue, ServerKeeps
    <2> QED
      BY <2>1, <2>2
  <1> QED
    BY <1>1, <1>2, <1>3, <1>4, ServerMoves

\* Every route's handler moves the server forward and answers truly.
LEMMA HandlerAnswers ==
  ASSUME IInv, NEW r \in sent,
         \/ HandlePrepare(r) \/ HandleDecide(r) \/ HandleAdmit(r) \/ HandleClaim(r)
         \/ HandleStart(r) \/ HandleExecute(r) \/ HandleAdvance(r)
  PROVE  /\ server' \in Server /\ ServerKeeps /\ NoPlanNoApproval'
         /\ \E a \in Answer : answers' = [answers EXCEPT ![r.key] = a] /\ StillTrue(r, a)'
  <1> USE DEF IInv, TypeOK, Server, ServerKeeps, NoPlanNoApproval
  <1>1. r \in Request
    OBVIOUS
  <1>2. CASE HandlePrepare(r)
    <2>1. PICK status \in PrepareStatus, destructive \in BOOLEAN, left \in 0 .. MaxActivities :
            /\ server' = [server EXCEPT
                             !.plan = status, !.base = r.expected,
                             !.destructive = destructive, !.left = left,
                             !.approval = IF status = "approval-required"
                                            THEN "pending" ELSE "none"]
            /\ Reply(r, status, "none", 0)
      BY <1>2 DEF HandlePrepare
    <2>2. r.route = "prepare" /\ server.plan = "none" /\ r.expected \in GraphOrNone
      BY <1>1, <1>2 DEF HandlePrepare, Request
    <2>3. status # "none"
      BY DEF PrepareStatus
    <2>4. server' \in Server /\ ServerKeeps /\ NoPlanNoApproval'
      BY <2>1, <2>2, <2>3
    <2>5. [status |-> status, run |-> "none", generation |-> 0] \in Answer
      BY DEF Answer, AnswerStatus, Generation
    <2>6. StillTrue(r, [status |-> status, run |-> "none", generation |-> 0])'
      BY <2>1, <2>2, <2>3 DEF StillTrue
    <2> QED
      BY <2>1, <2>4, <2>5, <2>6 DEF Reply
  <1>3. CASE HandleDecide(r)
    <2> DEFINE state == IF server.approval = "pending" THEN "approved" ELSE server.approval
               a == [status |-> state, run |-> "none", generation |-> 0]
    <2>1. /\ r.route = "decide" /\ state \in {"approved", "rejected"}
          /\ server' = [server EXCEPT !.approval = state]
          /\ answers' = [answers EXCEPT ![r.key] = a]
      BY <1>3 DEF HandleDecide, Reply
    <2> HIDE DEF state
    <2>2. server' \in Server /\ ServerKeeps /\ NoPlanNoApproval'
      <3>1. server.plan # "none" /\ (server.approval = "approved" => state = "approved")
        BY <1>3 DEF HandleDecide, state
      <3> QED
        BY <2>1, <3>1
    <2>3. a \in Answer
      BY <2>1 DEF Answer, AnswerStatus, Generation
    <2>4. PICK b \in Answer : b = a
      BY <2>3
    <2>5. StillTrue(r, b)'
      <3>1. b.status = state
        BY <2>4
      <3>2. server'.approval = state
        BY <2>1
      <3> QED
        BY <2>1, <3>1, <3>2 DEF StillTrue
    <2> QED
      BY <2>1, <2>2, <2>4, <2>5
  <1>4. CASE HandleAdmit(r)
    <2>1. r.route = "admit" /\ server' = [server EXCEPT !.request = TRUE]
      BY <1>4 DEF HandleAdmit
    <2>2. [status |-> "admitted", run |-> "none", generation |-> 0] \in Answer
      BY DEF Answer, AnswerStatus, Generation
    <2>3. StillTrue(r, [status |-> "admitted", run |-> "none", generation |-> 0])'
      BY <2>1 DEF StillTrue
    <2> QED
      BY <1>4, <2>1, <2>2, <2>3 DEF HandleAdmit, Reply
  <1>5. CASE HandleClaim(r)
    <2> DEFINE a == [status |-> "claimed", run |-> "claimed", generation |-> server.generation + 1]
    <2>1. /\ r.route = "claim" /\ server.run = "none"
          /\ server' = [server EXCEPT !.run = "claimed", !.generation = server.generation + 1]
          /\ answers' = [answers EXCEPT ![r.key] = a]
      BY <1>5 DEF HandleClaim, Reply
    <2>2. server.generation + 1 \in Generation
      BY <1>5 DEF HandleClaim, Generation
    <2>3. PICK b \in Answer : b = a
      BY <2>2 DEF Answer, AnswerStatus
    <2>4. server' \in Server /\ ServerKeeps /\ NoPlanNoApproval' /\ StillTrue(r, b)'
      BY <2>1, <2>2 DEF StillTrue
    <2> QED
      BY <2>1, <2>3, <2>4
  <1>6. CASE HandleStart(r)
    <2> DEFINE a == [status |-> "running", run |-> "running", generation |-> r.generation]
    <2>1. /\ r.route = "start" /\ server.run = "claimed" /\ r.generation \in Generation
          /\ server' = [server EXCEPT !.run = "running"]
          /\ answers' = [answers EXCEPT ![r.key] = a]
      BY <1>1, <1>6 DEF HandleStart, Reply, Request
    <2>2. a \in Answer
      BY <2>1 DEF Answer, AnswerStatus
    <2>3. server' \in Server /\ ServerKeeps /\ NoPlanNoApproval' /\ StillTrue(r, a)'
      BY <2>1 DEF StillTrue
    <2> QED
      BY <2>1, <2>2, <2>3
  <1>7. CASE HandleExecute(r)
    <2>1. r.route = "execute" /\ server.run = "running"
      BY <1>7 DEF HandleExecute
    <2>2. ASSUME NEW status \in CoordinatorStatus, NEW run \in {"running", "succeeded", "failed"},
                 status = "completed" => run = "succeeded",
                 NEW left \in 0 .. MaxActivities,
                 server' = [server EXCEPT !.run = run, !.left = left],
                 Reply(r, status, run, 0)
          PROVE  /\ server' \in Server /\ ServerKeeps /\ NoPlanNoApproval'
                 /\ \E a \in Answer : answers' = [answers EXCEPT ![r.key] = a] /\ StillTrue(r, a)'
      <3>1. [status |-> status, run |-> run, generation |-> 0] \in Answer
        BY DEF Answer, AnswerStatus, Generation
      <3>2. StillTrue(r, [status |-> status, run |-> run, generation |-> 0])'
        BY <2>1, <2>2 DEF StillTrue
      <3> QED
        BY <2>1, <2>2, <3>1, <3>2 DEF Reply
    <2>3. CASE server.left = 0 /\ server' = [server EXCEPT !.run = "succeeded"]
               /\ Reply(r, "completed", "succeeded", 0)
      BY <2>2, <2>3 DEF CoordinatorStatus
    <2>4. CASE server.left > 0 /\ server' = [server EXCEPT !.left = @ - 1]
               /\ Reply(r, "progressed", "running", 0)
      <3>1. server' = [server EXCEPT !.run = "running", !.left = server.left - 1]
        BY <2>1, <2>4
      <3>2. server.left - 1 \in 0 .. MaxActivities /\ "progressed" \in CoordinatorStatus
        BY <2>4 DEF CoordinatorStatus
      <3> QED
        BY <2>2, <2>4, <3>1, <3>2
    <2>5. ASSUME NEW status \in StopStatus, NEW run \in {"running", "failed"},
                 server' = [server EXCEPT !.run = run], Reply(r, status, run, 0)
          PROVE  /\ server' \in Server /\ ServerKeeps /\ NoPlanNoApproval'
                 /\ \E a \in Answer : answers' = [answers EXCEPT ![r.key] = a] /\ StillTrue(r, a)'
      BY <2>2, <2>5 DEF CoordinatorStatus, StopStatus
    <2> QED
      BY <1>7, <2>3, <2>4, <2>5 DEF HandleExecute
  <1>8. CASE HandleAdvance(r)
    <2>1. /\ r.route = "advance"
          /\ server' = [server EXCEPT !.current = Desired, !.advanced = TRUE]
      BY <1>8 DEF HandleAdvance
    <2>2. [status |-> "advanced", run |-> "none", generation |-> 0] \in Answer
      BY DEF Answer, AnswerStatus, Generation
    <2>3. StillTrue(r, [status |-> "advanced", run |-> "none", generation |-> 0])'
      BY <2>1 DEF StillTrue
    <2> QED
      BY <1>8, <2>1, <2>2, <2>3, GraphAssumption DEF HandleAdvance, Reply
  <1> QED
    BY <1>2, <1>3, <1>4, <1>5, <1>6, <1>7, <1>8

LEMMA HandleIInv ==
  ASSUME IInv, NEW r \in sent, Handle(r)
  PROVE  IInv'
  <1>1. UNCHANGED <<journal, client, issued, sent>> /\ answers[r.key] = NoAnswer
    BY DEF Handle
  <1>2. /\ server' \in Server /\ ServerKeeps /\ NoPlanNoApproval'
        /\ \E a \in Answer : answers' = [answers EXCEPT ![r.key] = a] /\ StillTrue(r, a)'
    BY HandlerAnswers DEF Handle
  <1>3. PICK a \in Answer : answers' = [answers EXCEPT ![r.key] = a] /\ StillTrue(r, a)'
    BY <1>2
  <1>4. r.key \in Key /\ answers \in [Key -> Answer \cup {NoAnswer}]
    BY DEF IInv, TypeOK, Request
  <1>5. answers' \in [Key -> Answer \cup {NoAnswer}]
    BY <1>3, <1>4
  <1>6. AnswersTrue'
    <2> SUFFICES ASSUME NEW k \in Key, answers'[k] # NoAnswer
                 PROVE  \E q \in sent : q.key = k /\ StillTrue(q, answers[k])'
      BY <1>1 DEF AnswersTrue
    <2>1. CASE k = r.key
      <3>1. answers'[k] = a
        BY <1>3, <1>4, <2>1
      <3>2. StillTrue(r, answers[k])'
        BY <1>3, <3>1 DEF StillTrue
      <3> QED
        BY <2>1, <3>2
    <2>2. CASE k # r.key
      <3>1. answers'[k] = answers[k] /\ answers[k] # NoAnswer
        BY <1>3, <1>4, <2>2
      <3>2. PICK q \in sent : q.key = k /\ StillTrue(q, answers[k])
        BY <3>1 DEF IInv, AnswersTrue
      <3>3. StillTrue(q, answers[k])'
        BY <1>2, <3>1, <3>2 DEF StillTrue, ServerKeeps
      <3> QED
        BY <3>2, <3>3
    <2> QED
      BY <2>1, <2>2
  <1> QED
    BY <1>1, <1>2, <1>5, <1>6, ServerMoves

LEMMA NextIInv == IInv /\ [Next]_vars => IInv'
  <1> SUFFICES ASSUME IInv, [Next]_vars PROVE IInv'
    OBVIOUS
  <1>1. CASE Unresolved
    BY <1>1, Returns DEF Unresolved
  <1>2. CASE Abandon
    BY <1>2, Returns DEF Abandon, OnlyClient
  <1>3. CASE \E r \in sent : Handle(r)
    BY <1>3, HandleIInv
  <1>4. CASE UNCHANGED vars
    BY <1>4 DEF vars, IInv, TypeOK, KeysInOrder, RecordedBeforeDispatch, Recorded, Placement,
                NoPlanNoApproval, AnswersTrue, StillTrue, JournalNotAhead, Coordinate
  <1> QED
    BY <1>1, <1>2, <1>3, <1>4, PlanSteps, ApplySteps, DispatchIInv, ResolvedIInv, OtherActorIInv
    DEF Next, ClientStep, Operator

\* Every state of the client, the network and the server has the inductive
\* invariant, whatever the other actors do and whenever an invocation dies.
THEOREM Invariance == Spec => []IInv
  <1> QED
    BY InitIInv, NextIInv, PTL DEF Spec

\* The journal, the invocation and the server stay well typed: in particular no
\* operation ever issues more keys than its journal has room for.
THEOREM SpecTypeOK == Spec => []TypeOK
  <1>1. IInv => TypeOK
    BY DEF IInv
  <1> QED
    BY <1>1, Invariance, PTL

\* Whatever was sent is in the file, so that any later invocation repeats it under
\* its own key (_mutate writes before _dispatch_pending; _replay_pending).
THEOREM SpecRecordedBeforeDispatch == Spec => []RecordedBeforeDispatch
  <1>1. IInv => RecordedBeforeDispatch
    BY DEF IInv
  <1> QED
    BY <1>1, Invariance, PTL

\* What the file says happened has happened at the server, although the write
\* comes after the answer (_dispatch_pending, _finish_prepare, apply's last write).
THEOREM SpecJournalNotAhead == Spec => []JournalNotAhead
  <1>1. IInv => JournalNotAhead
    BY DEF IInv
  <1> QED
    BY <1>1, Invariance, PTL

----------------------------------------------------------------------------
(* The order of an operation's steps: a second invariant, on top of IInv.   *)

\* Step a comes before step b; only the execution step is taken again.
Before(a, b) == Rank(a) < Rank(b) \/ (a = "execute" /\ b = "execute")

\* The last step that a journal in a phase may have behind it.
Behind(phase) ==
    CASE phase \in {"absent", "planning"}     -> 0
      [] phase = "prepared"                   -> 1
      [] phase = "approved"                   -> 2
      [] phase = "admitted"                   -> 3
      [] phase = "claimed"                    -> 4
      [] phase = "started"                    -> 5
      [] phase \in {"executing", "executed"}  -> 6
      [] OTHER                                -> 7

Past == 1 .. Len(journal.history)
Completed == \E i \in Past : journal.history[i].status = "completed"

\* The phase tells what may be pending, what is recorded and what is behind.
PhaseFits ==
    /\ journal.pending # NoRequest => journal.phase \in PendingPhases(journal.pending.route)
    /\ client.at \in {"plan", "planApproval"} => journal.phase = "prepared"
    /\ journal.phase \in {"absent", "planning", "prepared", "approved", "admitted"} =>
          ~HasRun(Coordinate)
    /\ journal.phase \in {"executed", "advanced", "converged"} =>
          HasPlan(Coordinate) /\ Completed

\* The history is in apply()'s order, as far as the phase says.
HistoryInOrder ==
    /\ \A i \in Past : Rank(journal.history[i].route) <= Behind(journal.phase)
    /\ \A i, j \in Past : i < j => Before(journal.history[i].route, journal.history[j].route)

\* An execution step that stopped the client is the last record, and the phase says so.
StopRecorded ==
    \A i \in Past : journal.history[i].status \in StopStatus =>
        i = Len(journal.history) /\ journal.phase = "attention-required"

\* A key belongs to one request.
SentOnce == \A r, q \in sent : r.key = q.key => r = q

\* A status word that stops the client answers execution steps only.
AnswersFit ==
    \A r \in sent : answers[r.key] # NoAnswer =>
        /\ r.route = "claim" => answers[r.key].status = "claimed"
        /\ r.route = "start" => answers[r.key].status = "running"

\* The recorded fence is the claim's own, and what an advance names is recorded.
FenceKept ==
    /\ HasRun(Coordinate) => \A c \in sent : c.route = "claim" =>
          answers[c.key] # NoAnswer /\ answers[c.key].generation = Coordinate.generation
    /\ \A r \in sent \cup {journal.pending} : r.route = "advance" =>
          /\ HasPlan(Coordinate) /\ r.expected = Coordinate.base
          /\ HasRun(Coordinate) /\ r.generation = Coordinate.generation
          /\ Completed

JInv == PhaseFits /\ HistoryInOrder /\ StopRecorded /\ SentOnce /\ AnswersFit /\ FenceKept

LEMMA JournalTyped ==
  ASSUME IInv
  PROVE  /\ Len(journal.history) \in Nat
         /\ \A i \in Past : /\ journal.history[i].route \in Route
                            /\ journal.history[i].key = i
                            /\ journal.history[i].status \in AnswerStatus \cup {"none"}
         /\ journal.pending = NoRequest \/ journal.pending \in Request
         /\ journal.coordinates \in Coordinates
         /\ sent \subseteq Request
  <1>1. journal \in Journal /\ journal.history \in Seq(Record)
    BY DEF IInv, TypeOK, Journal
  <1>2. \A i \in Past : journal.history[i] \in Record
    BY <1>1 DEF Past
  <1> QED
    BY <1>1, <1>2 DEF IInv, TypeOK, KeysInOrder, Journal, Record, Past

LEMMA InitJInv == Init => JInv
  BY DEF Init, JInv, PhaseFits, HistoryInOrder, StopRecorded, SentOnce, AnswersFit, FenceKept,
         Past, NoJournal, NoCoordinates, Coordinate, HasRun, NoRequest, Idle

\* The journal and the network do not move.
LEMMA JournalKept ==
  ASSUME JInv, UNCHANGED <<journal, sent, answers>>,
         client'.at \in {"plan", "planApproval"} => client.at \in {"plan", "planApproval"}
  PROVE  JInv'
  BY DEF JInv, PhaseFits, HistoryInOrder, StopRecorded, SentOnce, AnswersFit, FenceKept,
         Past, Completed, Coordinate

\* A request that validates comes after what is recorded, and carries its fence.
LEMMA RecordRequestJInv ==
  ASSUME IInv, IInv', JInv, NEW route \in Route, NEW generation \in Generation,
         NEW expected \in GraphOrNone, journal.pending = NoRequest,
         RecordRequest(route, generation, expected), UNCHANGED <<sent, answers>>
  PROVE  JInv'
  <1> DEFINE r == [route |-> route, key |-> issued + 1,
                   generation |-> generation, expected |-> expected]
             j == [journal EXCEPT !.pending = r]
  <1>1. CASE ValidJournal(j) /\ journal' = j /\ client' = [client EXCEPT !.at = "dispatch"]
    <2>1. /\ journal'.pending = r /\ journal'.history = journal.history
          /\ journal'.coordinates = journal.coordinates /\ journal'.phase = journal.phase
      BY <1>1 DEF IInv, TypeOK, Journal
    <2>2. client'.at = "dispatch"
      BY <1>1 DEF IInv, TypeOK, Client
    <2>3. r # NoRequest
      BY DEF NoRequest, Route
    <2>4. PendingBound(r, journal.phase, journal.coordinates)
      BY <1>1, <2>1, <2>3 DEF ValidJournal
    <2>5. journal.phase \in PendingPhases(route)
      BY <2>4 DEF PendingBound
    <2>6. route = "advance" =>
             /\ HasRun(Coordinate) /\ generation = Coordinate.generation
             /\ expected = Coordinate.base /\ journal.phase = "executed"
      BY <2>4, <2>5 DEF PendingBound, PendingPhases, Coordinate
    <2>7. PhaseFits'
      BY <2>1, <2>2, <2>5 DEF JInv, PhaseFits, Past, Completed, Coordinate
    <2>8. HistoryInOrder' /\ StopRecorded' /\ SentOnce' /\ AnswersFit'
      BY <2>1 DEF JInv, HistoryInOrder, StopRecorded, SentOnce, AnswersFit, Past
    <2>9. FenceKept'
      BY <2>1, <2>6 DEF JInv, PhaseFits, FenceKept, Past, Completed, Coordinate
    <2> QED
      BY <2>7, <2>8, <2>9 DEF JInv
  <1>2. CASE Return /\ UNCHANGED journal
    BY <1>2, JournalKept DEF Return, Idle
  <1> QED
    BY <1>1, <1>2 DEF RecordRequest, GoTo

\* The pending key is in no other request.
LEMMA PendingKeyFresh ==
  ASSUME IInv, journal.pending # NoRequest, NEW r \in sent, r.key = journal.pending.key
  PROVE  r = journal.pending
  <1>1. \A i \in Past : journal.history[i].key # journal.pending.key
    BY JournalTyped DEF IInv, KeysInOrder, Past
  <1> QED
    BY <1>1 DEF IInv, RecordedBeforeDispatch, Recorded, Past

LEMMA DispatchJInv == IInv /\ JInv /\ Dispatch => JInv'
  <1> SUFFICES ASSUME IInv, JInv, Dispatch PROVE JInv'
    OBVIOUS
  <1>1. /\ journal.pending # NoRequest /\ journal.pending \in Request
        /\ sent' = sent \cup {journal.pending} /\ UNCHANGED <<journal, answers>>
    BY DEF IInv, TypeOK, Journal, Placement, Dispatch, At
  <1>2. client'.at = "await"
    BY DEF Dispatch, GoTo, IInv, TypeOK, Client
  <1>3. PhaseFits' /\ HistoryInOrder' /\ StopRecorded'
    BY <1>1, <1>2 DEF JInv, PhaseFits, HistoryInOrder, StopRecorded, Past, Completed, Coordinate
  <1>4. SentOnce'
    BY <1>1, PendingKeyFresh DEF JInv, SentOnce
  <1>5. answers[journal.pending.key] # NoAnswer => journal.pending \in sent
    <2>1. journal.pending.key \in Key
      BY <1>1 DEF Request
    <2> QED
      BY <1>1, <2>1, PendingKeyFresh DEF IInv, AnswersTrue
  <1>6. AnswersFit'
    BY <1>1, <1>5 DEF JInv, AnswersFit
  <1>7. journal.pending.route = "claim" => ~HasRun(Coordinate)
    BY <1>1 DEF JInv, PhaseFits, PendingPhases
  <1>8. FenceKept'
    BY <1>1, <1>7 DEF JInv, FenceKept, Past, Completed, Coordinate
  <1> QED
    BY <1>3, <1>4, <1>6, <1>8 DEF JInv

\* A response changes neither the plan's base nor, unless it is a claim's, the fence.
LEMMA CoordinatesAfter ==
  ASSUME NEW c \in Coordinates, NEW r \in Request, NEW a \in Answer
  PROVE  /\ ResponseCoordinates(r, a, c).base = c.base
         /\ ResponseCoordinates(r, a, c).generation =
               IF r.route = "claim" THEN a.generation ELSE c.generation
  <1> DEFINE d == ResponseCoordinates(r, a, c)
  <1>1. CASE r.route = "prepare"
    BY <1>1 DEF ResponseCoordinates, Coordinates
  <1>2. CASE r.route = "decide"
    BY <1>2 DEF ResponseCoordinates, Coordinates
  <1>3. CASE r.route = "admit"
    BY <1>3 DEF ResponseCoordinates, Coordinates
  <1>4. CASE r.route = "claim"
    BY <1>4 DEF ResponseCoordinates, Coordinates
  <1>5. CASE r.route = "start"
    BY <1>5 DEF ResponseCoordinates, Coordinates
  <1>6. CASE r.route = "execute"
    <2>1. d = [c EXCEPT !.run = a.run, !.coordinator = a.status]
      BY <1>6 DEF ResponseCoordinates
    <2> QED
      BY ONLY <1>6, <2>1, c \in Coordinates DEF Coordinates
  <1>7. CASE r.route = "advance"
    BY <1>7 DEF ResponseCoordinates, Coordinates
  <1> QED
    BY <1>1, <1>2, <1>3, <1>4, <1>5, <1>6, <1>7 DEF Request, Route

\* A bound response takes the phase past its route's step, and only an execution
\* step's word stops the client.
LEMMA PhaseMoves ==
  ASSUME NEW r \in Request, NEW a, NEW phase \in PendingPhases(r.route),
         ResponseIsBound(r, a),
         r.route = "claim" => a.status = "claimed",
         r.route = "start" => a.status = "running"
  PROVE  /\ Behind(phase) <= Behind(PhaseAfter(r.route, a))
         /\ Rank(r.route) <= Behind(PhaseAfter(r.route, a))
         /\ Behind(phase) < Rank(r.route) \/ (r.route = "execute" /\ Behind(phase) <= 6)
         /\ phase # "attention-required"
         /\ r.route # "prepare" /\ a.status \in StopStatus =>
               PhaseAfter(r.route, a) = "attention-required"
         /\ PhaseAfter(r.route, a) \in {"absent", "planning", "prepared", "approved", "admitted"} =>
               phase \in {"absent", "planning", "prepared", "approved", "admitted"}
               /\ r.route # "claim"
         /\ PhaseAfter(r.route, a) \in {"executed", "advanced", "converged"} =>
               \/ r.route = "execute" /\ a.status = "completed"
               \/ phase = "executed"
         /\ r.route = "prepare" => PhaseAfter(r.route, a) = "prepared"
  <1> USE DEF PendingPhases, PhaseAfter, Behind, Rank, ResponseIsBound, StopStatus
  <1>1. CASE r.route = "prepare"
    BY <1>1
  <1>2. CASE r.route = "decide"
    BY <1>2
  <1>3. CASE r.route = "admit"
    BY <1>3
  <1>4. CASE r.route = "claim"
    BY <1>4
  <1>5. CASE r.route = "start"
    BY <1>5
  <1>6. CASE r.route = "execute"
    BY <1>6
  <1>7. CASE r.route = "advance"
    BY <1>7
  <1> QED
    BY <1>1, <1>2, <1>3, <1>4, <1>5, <1>6, <1>7 DEF Request, Route

\* Ranks and phases as numbers.
LEMMA Ranks ==
  /\ \A route \in Route : Rank(route) \in 1 .. 7
  /\ \A route \in Route : Rank(route) >= 6 => route \in {"execute", "advance"}
  /\ \A phase : Behind(phase) \in 0 .. 7
  /\ Rank("execute") = 6 /\ Rank("claim") = 4 /\ Rank("advance") = 7 /\ Behind("admitted") = 3
  BY DEF Rank, Behind, Route

\* What is pending comes after everything recorded.
LEMMA PendingAfterPast ==
  ASSUME IInv, JInv, journal.pending # NoRequest
  PROVE  \A i \in Past : Before(journal.history[i].route, journal.pending.route)
  <1> DEFINE route == journal.pending.route
  <1>1. route \in Route /\ journal.phase \in PendingPhases(route)
    BY JournalTyped DEF JInv, PhaseFits, Request
  <1>2. \/ Behind(journal.phase) < Rank(route)
        \/ route = "execute" /\ Behind(journal.phase) <= 6
    BY <1>1 DEF PendingPhases, Behind, Rank, Route
  <1> TAKE i \in Past
  <1>3. /\ journal.history[i].route \in Route
        /\ Rank(journal.history[i].route) <= Behind(journal.phase)
    BY JournalTyped DEF JInv, HistoryInOrder
  <1>4. CASE Behind(journal.phase) < Rank(route)
    BY <1>1, <1>3, <1>4, Ranks DEF Before
  <1>5. CASE route = "execute" /\ Rank(journal.history[i].route) < 6
    BY <1>5, Ranks DEF Before
  <1>6. CASE route = "execute" /\ Rank(journal.history[i].route) = 6
    <2>1. journal.history[i].route = "execute"
      BY <1>3, <1>6, Ranks
    <2> QED
      BY <1>6, <2>1 DEF Before
  <1> QED
    BY <1>1, <1>2, <1>3, <1>4, <1>5, <1>6, Ranks

LEMMA ResolvedJInv == IInv /\ JInv /\ Resolved => JInv'
  <1> SUFFICES ASSUME IInv, JInv, Resolved PROVE JInv'
    OBVIOUS
  <1> DEFINE r == journal.pending
             a == answers[r.key]
             c == journal.coordinates
             n == Len(journal.history)
             e == [route |-> r.route, key |-> r.key,
                   status |-> IF r.route = "prepare" THEN "none" ELSE a.status]
  <1>1. r # NoRequest
    BY DEF IInv, Placement, Resolved, At
  <1>2. r \in Request /\ r.key \in Key /\ a \in Answer /\ a # NoAnswer
    BY <1>1, PendingAnswerTrue DEF Resolved, Request
  <1>3. r \in sent
    BY <1>1, <1>2, PendingKeyFresh DEF IInv, AnswersTrue
  <1>4. c \in Coordinates /\ journal.history \in Seq(Record)
    BY DEF IInv, TypeOK, Journal
  <1>5. ResponseIsBound(r, a) /\ ValidJournal(Resolve(journal, a)) /\ journal' = Resolve(journal, a)
    BY DEF Resolved
  <1>6. UNCHANGED <<sent, answers>>
    BY DEF Resolved, OnlyClient
  <1>7. /\ journal'.pending = NoRequest /\ journal'.phase = PhaseAfter(r.route, a)
        /\ journal'.coordinates = ResponseCoordinates(r, a, c)
        /\ journal'.history = Append(journal.history, e)
    BY <1>5 DEF Resolve
  <1>8. e \in Record
    BY <1>2, AnswerFields, RecordTyped
  <1>9. /\ Past' = Past \cup {n + 1} /\ n + 1 \notin Past /\ n \in Nat
        /\ Len(journal'.history) = n + 1
        /\ \A i \in Past : journal'.history[i] = journal.history[i]
        /\ journal'.history[n + 1] = e
    BY <1>4, <1>7, <1>8 DEF Past
  <1>10. /\ journal.phase \in PendingPhases(r.route)
         /\ r.route = "claim" => a.status = "claimed"
         /\ r.route = "start" => a.status = "running"
    BY <1>1, <1>2, <1>3 DEF JInv, PhaseFits, AnswersFit
  <1>11. /\ journal'.coordinates.base = c.base
         /\ journal'.coordinates.generation =
               IF r.route = "claim" THEN a.generation ELSE c.generation
    BY <1>2, <1>4, <1>7, CoordinatesAfter
  <1>12. PhaseCoordinatesValid(journal'.phase, journal'.coordinates)
    BY <1>5 DEF ValidJournal
  <1>13. Completed => Completed'
    BY <1>9 DEF Completed
  <1>14. PhaseFits'
    <2>1. client'.at \in {"plan", "planApproval"} => r.route = "prepare"
      BY DEF Resolved, IInv, TypeOK, Client
    <2>2. client'.at \in {"plan", "planApproval"} => journal'.phase = "prepared"
      BY <1>2, <1>5, <1>7, <1>10, <2>1, PhaseMoves
    <2>3. journal'.phase \in {"absent", "planning", "prepared", "approved", "admitted"} =>
             /\ journal.phase \in {"absent", "planning", "prepared", "approved", "admitted"}
             /\ r.route # "claim"
      BY <1>2, <1>5, <1>7, <1>10, PhaseMoves
    <2>4. journal'.phase \in {"absent", "planning", "prepared", "approved", "admitted"} =>
             ~HasRun(journal'.coordinates)
      BY <1>11, <2>3 DEF JInv, PhaseFits, HasRun, Coordinate
    <2>5. journal'.phase \in {"executed", "advanced", "converged"} =>
             \/ r.route = "execute" /\ a.status = "completed"
             \/ journal.phase = "executed"
      BY <1>2, <1>5, <1>7, <1>10, PhaseMoves
    <2>6. journal'.phase \in {"executed", "advanced", "converged"} => Completed'
      <3>1. CASE r.route = "execute" /\ a.status = "completed"
        BY <3>1, <1>9 DEF Completed
      <3>2. CASE journal.phase = "executed"
        BY <3>2, <1>13 DEF JInv, PhaseFits
      <3> QED
        BY <2>5, <3>1, <3>2
    <2>7. journal'.phase \in {"executed", "advanced", "converged"} => HasPlan(journal'.coordinates)
      BY <1>12 DEF PhaseCoordinatesValid
    <2> QED
      BY <1>7, <2>2, <2>4, <2>6, <2>7 DEF PhaseFits, Coordinate
  <1>15. HistoryInOrder'
    <2>1. /\ Behind(journal.phase) <= Behind(journal'.phase)
          /\ Rank(r.route) <= Behind(journal'.phase)
          /\ Behind(journal.phase) < Rank(r.route)
                \/ (r.route = "execute" /\ Behind(journal.phase) <= 6)
      BY <1>2, <1>5, <1>7, <1>10, PhaseMoves
    <2>2. r.route \in Route /\ Rank(r.route) \in Int /\ Behind(journal.phase) \in Int
          /\ Behind(journal'.phase) \in Int
      BY <1>2, Ranks DEF Request
    <2>3. \A i \in Past : /\ journal.history[i].route \in Route
                          /\ Rank(journal.history[i].route) \in Int
                          /\ Rank(journal.history[i].route) <= Behind(journal.phase)
      BY JournalTyped, Ranks DEF JInv, HistoryInOrder
    <2>4. \A i \in Past' : Rank(journal'.history[i].route) <= Behind(journal'.phase)
      BY <1>9, <2>1, <2>2, <2>3
    <2>5. \A i \in Past : Before(journal.history[i].route, r.route)
      BY <1>1, PendingAfterPast
    <2>6. \A i, j \in Past' : i < j => Before(journal'.history[i].route, journal'.history[j].route)
      <3> SUFFICES ASSUME NEW i \in Past', NEW j \in Past', i < j
                   PROVE  Before(journal'.history[i].route, journal'.history[j].route)
        OBVIOUS
      <3>1. i \in Past
        BY <1>9 DEF Past
      <3>2. CASE j = n + 1
        BY <1>9, <2>5, <3>1, <3>2
      <3>3. CASE j \in Past
        BY <1>9, <3>1, <3>3 DEF JInv, HistoryInOrder
      <3> QED
        BY <1>9, <3>2, <3>3
    <2> QED
      BY <2>4, <2>6 DEF HistoryInOrder, Past, Before
  <1>16. StopRecorded'
    <2>1. \A i \in Past : journal.history[i].status \notin StopStatus
      BY <1>2, <1>5, <1>10, PhaseMoves DEF JInv, StopRecorded
    <2>2. e.status \in StopStatus => journal'.phase = "attention-required"
      BY <1>2, <1>5, <1>7, <1>10, PhaseMoves DEF StopStatus
    <2> QED
      BY <1>9, <2>1, <2>2 DEF StopRecorded
  <1>17. SentOnce' /\ AnswersFit'
    BY <1>6 DEF JInv, SentOnce, AnswersFit
  <1>18. FenceKept'
    <2>1. ASSUME NEW q \in sent, q.route = "claim", r.route = "claim"
          PROVE  q = r
      <3>1. \A i \in Past : journal.history[i].route # "claim"
        <4>1. journal.phase = "admitted"
          BY <1>10, <2>1 DEF PendingPhases
        <4> QED
          BY <4>1, Ranks DEF JInv, HistoryInOrder
      <3> QED
        BY <2>1, <3>1 DEF IInv, RecordedBeforeDispatch, Recorded, Past
    <2>2. ASSUME NEW q \in sent, q.route = "claim", HasRun(journal'.coordinates)
          PROVE  answers[q.key] # NoAnswer
                 /\ answers[q.key].generation = journal'.coordinates.generation
      <3>1. CASE r.route = "claim"
        BY <1>2, <1>11, <2>1, <2>2, <3>1
      <3>2. CASE r.route # "claim"
        BY <1>11, <2>2, <3>2 DEF JInv, FenceKept, HasRun, Coordinate
      <3> QED
        BY <3>1, <3>2
    <2>3. r.route = "claim" => ~HasRun(c)
      BY <1>10 DEF JInv, PhaseFits, PendingPhases, Coordinate
    <2>4. ASSUME NEW q \in sent, q.route = "advance"
          PROVE  /\ HasPlan(journal'.coordinates) /\ q.expected = journal'.coordinates.base
                 /\ HasRun(journal'.coordinates)
                 /\ q.generation = journal'.coordinates.generation
                 /\ Completed'
      BY <1>11, <1>13, <2>3, <2>4 DEF JInv, FenceKept, HasRun, HasPlan, Coordinate
    <2> QED
      BY <1>6, <1>7, <2>2, <2>4, Types DEF FenceKept, Coordinate
  <1> QED
    BY <1>14, <1>15, <1>16, <1>17, <1>18 DEF JInv

\* Where a write of the phase alone may lead.
PhaseWritten ==
    \/ journal'.phase = journal.phase
    \/ journal.phase = "absent" /\ journal'.phase = "planning"
    \/ /\ journal.phase = "prepared" /\ journal.pending = NoRequest
       /\ journal'.phase \in {"prepared", "no-changes", "attention-required"}
    \/ journal.phase = "advanced" /\ journal'.phase = "converged"

\* Recording the plan's base or the end of the operation.
LEMMA PhaseWrites ==
  ASSUME IInv, JInv, journal'.pending = journal.pending, journal'.history = journal.history,
         PhaseWritten, journal'.coordinates.generation = journal.coordinates.generation,
         HasPlan(Coordinate) => journal'.coordinates.base = journal.coordinates.base,
         UNCHANGED <<sent, answers>>, client'.at \notin {"plan", "planApproval"}
  PROVE  JInv'
  <1>1. HasPlan(Coordinate) => HasPlan(journal'.coordinates)
    BY DEF HasPlan, Coordinate
  <1>2. Completed' <=> Completed
    BY DEF Completed, Past
  <1>3. journal'.phase # journal.phase => journal.pending = NoRequest
    BY JournalTyped DEF JInv, PhaseFits, PendingPhases, PhaseWritten, Request, Route
  <1>4. PhaseFits'
    BY <1>1, <1>2, <1>3 DEF JInv, PhaseFits, PhaseWritten, HasRun, Coordinate
  <1>5. HistoryInOrder'
    <2>1. Behind(journal.phase) <= Behind(journal'.phase)
      BY Ranks DEF PhaseWritten, Behind
    <2>2. \A i \in Past : Rank(journal.history[i].route) \in Int
      BY JournalTyped, Ranks
    <2>3. \A i \in Past : Rank(journal.history[i].route) <= Behind(journal'.phase)
      BY <2>1, <2>2, Ranks DEF JInv, HistoryInOrder
    <2> QED
      BY <2>3 DEF JInv, HistoryInOrder, Past, Before
  <1>6. StopRecorded'
    BY DEF JInv, StopRecorded, PhaseWritten, Past
  <1>7. SentOnce' /\ AnswersFit'
    BY DEF JInv, SentOnce, AnswersFit
  <1>8. FenceKept'
    BY <1>1, <1>2 DEF JInv, FenceKept, HasRun, Coordinate
  <1> QED
    BY <1>4, <1>5, <1>6, <1>7, <1>8 DEF JInv

\* Recording the base the server planned from never changes one already recorded.
LEMMA BaseWrites ==
  ASSUME IInv, JInv, Coordinate.plan, NEW phase,
         journal' = [journal EXCEPT !.phase = phase, !.coordinates.base = server.base],
         PhaseWritten, UNCHANGED <<sent, answers>>, client'.at \notin {"plan", "planApproval"}
  PROVE  JInv'
  <1>1. journal \in Journal /\ journal.coordinates \in Coordinates
    BY DEF IInv, TypeOK, Journal
  <1>2. /\ journal'.pending = journal.pending /\ journal'.history = journal.history
        /\ journal'.coordinates = [journal.coordinates EXCEPT !.base = server.base]
    BY <1>1 DEF Journal
  <1>3. /\ journal'.coordinates.generation = journal.coordinates.generation
        /\ journal'.coordinates.base = server.base
    BY <1>1, <1>2 DEF Coordinates
  <1>4. HasPlan(Coordinate) => journal'.coordinates.base = journal.coordinates.base
    BY <1>3 DEF IInv, JournalNotAhead, Coordinate
  <1> QED
    BY <1>2, <1>3, <1>4, PhaseWrites

LEMMA PlanStepsJInv ==
  ASSUME IInv, IInv', JInv, PlanStart \/ PlanCreate \/ RecordPrepare \/ ResumePrepare
                              \/ FinishReadPlan \/ FinishReadApproval
  PROVE  JInv'
  <1> USE DEF At, OnlyClient
  <1>1. CASE PlanStart
    <2>1. client'.at = "create"
      BY <1>1 DEF PlanStart, IInv, TypeOK, Client
    <2> QED
      BY <1>1, <2>1, JournalKept DEF PlanStart
  <1>2. CASE PlanCreate
    <2>1. journal = NoJournal /\ journal' = NewJournal
      BY <1>2 DEF PlanCreate, IInv, Placement
    <2>2. client'.at = "record"
      BY <1>2 DEF PlanCreate, GoTo, IInv, TypeOK, Client
    <2>3. /\ journal'.pending = journal.pending /\ journal'.history = journal.history
          /\ journal'.coordinates = journal.coordinates
          /\ journal.phase = "absent" /\ journal'.phase = "planning"
      BY <2>1 DEF NewJournal, NoJournal
    <2> QED
      BY <1>2, <2>2, <2>3, PhaseWrites DEF PlanCreate, PhaseWritten
  <1>3. CASE RecordPrepare
    <2>1. client.expected \in GraphOrNone /\ journal.pending = NoRequest
      BY <1>3 DEF RecordPrepare, IInv, TypeOK, Client, Placement
    <2>2. "prepare" \in Route /\ 0 \in Generation
      BY DEF Route, Generation
    <2> QED
      BY <1>3, <2>1, <2>2, RecordRequestJInv DEF RecordPrepare
  <1>4. CASE ResumePrepare
    <2>1. client'.at = "dispatch"
      BY <1>4 DEF ResumePrepare, GoTo, IInv, TypeOK, Client
    <2> QED
      BY <1>4, <2>1, JournalKept DEF ResumePrepare
  <1>5. ASSUME client.at \in {"plan", "planApproval"}, FinishPrepare, UNCHANGED <<sent, answers>>
        PROVE  JInv'
    <2> DEFINE phase == CASE client.prepared = "no-changes" -> "no-changes"
                          [] client.prepared = "review-blocked" -> "attention-required"
                          [] OTHER -> "prepared"
    <2>1. Coordinate.plan /\ journal.pending = NoRequest /\ journal.phase = "prepared"
      BY <1>5 DEF IInv, Placement, JInv, PhaseFits
    <2>2. phase \in {"prepared", "no-changes", "attention-required"}
      OBVIOUS
    <2>3. /\ journal' = [journal EXCEPT !.phase = phase, !.coordinates.base = server.base]
          /\ client'.at = "idle"
      BY <1>5 DEF FinishPrepare, Return, Idle
    <2> HIDE DEF phase
    <2>4. PhaseWritten
      BY <2>1, <2>2, <2>3 DEF PhaseWritten, IInv, TypeOK, Journal
    <2> QED
      BY ONLY IInv, JInv, <1>5, <2>1, <2>3, <2>4, BaseWrites
  <1>6. CASE FinishReadPlan
    <2>1. CASE Return /\ UNCHANGED journal
      BY <1>6, <2>1, JournalKept DEF FinishReadPlan, Return, Idle
    <2>2. CASE GoTo("planApproval") /\ UNCHANGED journal
      BY <1>6, <2>2, JournalKept DEF FinishReadPlan
    <2>3. CASE FinishPrepare
      BY <1>5, <1>6, <2>3 DEF FinishReadPlan
    <2> QED
      BY <1>6, <2>1, <2>2, <2>3 DEF FinishReadPlan
  <1>7. CASE FinishReadApproval
    <2>1. CASE FinishPrepare
      BY <1>5, <1>7, <2>1 DEF FinishReadApproval
    <2>2. CASE journal' = [journal EXCEPT !.coordinates.base = server.base] /\ Return
      <3>1. client'.at = "idle" /\ Coordinate.plan
        BY <1>7, <2>2 DEF FinishReadApproval, Return, Idle, IInv, Placement
      <3>2. journal' = [journal EXCEPT !.phase = journal.phase, !.coordinates.base = server.base]
        BY <2>2 DEF IInv, TypeOK, Journal
      <3>3. PhaseWritten
        BY <2>2 DEF PhaseWritten, IInv, TypeOK, Journal
      <3> QED
        BY <1>7, <3>1, <3>2, <3>3, BaseWrites DEF FinishReadApproval
    <2> QED
      BY <1>7, <2>1, <2>2 DEF FinishReadApproval
  <1> QED
    BY <1>1, <1>2, <1>3, <1>4, <1>6, <1>7

LEMMA ApplyStepsJInv ==
  ASSUME IInv, IInv', JInv,
         \/ ApplyStart
         \/ \E approve, approveDestructive \in BOOLEAN :
               ReadApproval(approve, approveDestructive)
         \/ ObserveRun \/ ObserveGraph \/ ReplayUnobserved
         \/ Stop \/ RecordAdvance \/ Converge
         \/ \E route \in {"decide", "admit", "claim", "start", "execute"} : RecordStep(route)
  PROVE  JInv'
  <1> USE DEF At, OnlyClient
  <1>1. CASE ApplyStart
    <2>1. Coordinate.plan
      BY <1>1 DEF ApplyStart
    <2>2. journal' = [journal EXCEPT !.phase = journal.phase, !.coordinates.base = server.base]
      BY <1>1 DEF ApplyStart, IInv, TypeOK, Journal, JournalNotAhead, Coordinate
    <2>3. client'.at \notin {"plan", "planApproval"}
      BY <1>1, NextPlace DEF ApplyStart, GoTo, IInv, TypeOK, Client
    <2>4. PhaseWritten
      BY <2>2 DEF PhaseWritten, IInv, TypeOK, Journal
    <2> QED
      BY <1>1, <2>1, <2>2, <2>3, <2>4, BaseWrites DEF ApplyStart
  <1>2. ASSUME NEW approve \in BOOLEAN, NEW approveDestructive \in BOOLEAN,
               ReadApproval(approve, approveDestructive)
        PROVE  JInv'
    <2>1. UNCHANGED <<journal, sent, answers>>
      BY <1>2 DEF ReadApproval
    <2>2. \/ GoTo(AfterApproval) \/ Return
          \/ \E d \in BOOLEAN : client' = [client EXCEPT !.at = AfterApproval, !.decide = d]
      BY <1>2 DEF ReadApproval
    <2>3. client \in Client
      BY DEF IInv, TypeOK
    <2>4. client'.at \notin {"plan", "planApproval"}
      <3>1. CASE GoTo(AfterApproval)
        BY ONLY <2>3, <3>1, NextPlace DEF GoTo, Client
      <3>2. CASE Return
        BY ONLY <3>2 DEF Return, Idle
      <3>3. ASSUME NEW d \in BOOLEAN, client' = [client EXCEPT !.at = AfterApproval, !.decide = d]
            PROVE  client'.at \notin {"plan", "planApproval"}
        BY ONLY <2>3, <3>3, NextPlace DEF Client
      <3> QED
        BY <2>2, <3>1, <3>2, <3>3
    <2> QED
      BY <2>1, <2>4, JournalKept
  <1>3. CASE ObserveRun
    <2>1. UNCHANGED <<journal, sent, answers>>
      BY <1>3 DEF ObserveRun
    <2>2. Return \/ client' = [client EXCEPT !.at = "graph", !.observed = server.run]
      BY <1>3 DEF ObserveRun
    <2>3. client \in Client
      BY DEF IInv, TypeOK
    <2>4. client'.at \notin {"plan", "planApproval"}
      <3>1. CASE Return
        BY ONLY <3>1 DEF Return, Idle
      <3>2. CASE client' = [client EXCEPT !.at = "graph", !.observed = server.run]
        BY ONLY <2>3, <3>2 DEF Client
      <3> QED
        BY <2>2, <3>1, <3>2
    <2> QED
      BY <2>1, <2>4, JournalKept
  <1>4. CASE ObserveGraph
    <2>1. UNCHANGED <<journal, sent, answers>> /\ client'.at \notin {"plan", "planApproval"}
      BY <1>4, NextPlace DEF ObserveGraph, GoTo, Return, Idle, IInv, TypeOK, Client
    <2> QED
      BY <2>1, JournalKept
  <1>5. CASE ReplayUnobserved
    <2>1. UNCHANGED <<journal, sent, answers>> /\ client'.at = "dispatch"
      BY <1>5 DEF ReplayUnobserved, IInv, TypeOK, Client
    <2> QED
      BY <2>1, JournalKept
  <1>6. CASE Stop
    BY <1>6, JournalKept DEF Stop, Return, Idle
  <1>7. CASE RecordAdvance
    <2>1. journal.pending = NoRequest
      BY <1>7 DEF RecordAdvance, IInv, Placement
    <2>2. CASE RecordRequest("advance", Coordinate.generation, server.current)
      <3>1. "advance" \in Route /\ Coordinate.generation \in Generation
            /\ server.current \in GraphOrNone
        BY DEF Route, IInv, TypeOK, Coordinate, Journal, Coordinates, Server, GraphOrNone
      <3> QED
        BY <1>7, <2>1, <2>2, <3>1, RecordRequestJInv DEF RecordAdvance
    <2>3. CASE Return /\ UNCHANGED <<journal, issued>>
      BY <1>7, <2>3, JournalKept DEF RecordAdvance, Return, Idle
    <2> QED
      BY <1>7, <2>2, <2>3 DEF RecordAdvance
  <1>8. CASE Converge
    <2>1. journal.phase = "advanced" /\ client'.at = "idle" /\ UNCHANGED <<sent, answers>>
      BY <1>8 DEF Converge, NextStep, Return, Idle
    <2>2. CASE UNCHANGED journal
      BY <2>1, <2>2, JournalKept
    <2>3. CASE journal' = [journal EXCEPT !.phase = "converged"]
      <3>1. /\ journal'.pending = journal.pending /\ journal'.history = journal.history
            /\ journal'.phase = "converged" /\ journal'.coordinates = journal.coordinates
        BY <2>3 DEF IInv, TypeOK, Journal
      <3> QED
        BY <2>1, <3>1, PhaseWrites DEF PhaseWritten
    <2> QED
      BY <1>8, <2>2, <2>3 DEF Converge
  <1>9. ASSUME NEW route \in {"decide", "admit", "claim", "start", "execute"}, RecordStep(route)
        PROVE  JInv'
    <2> DEFINE generation == IF route \in {"start", "execute"} THEN Coordinate.generation ELSE 0
    <2>1. journal.pending = NoRequest
      BY <1>9 DEF RecordStep, IInv, Placement
    <2>2. route \in Route /\ generation \in Generation /\ NoGraph \in GraphOrNone
      BY DEF Route, IInv, TypeOK, Coordinate, Journal, Coordinates, Generation, GraphOrNone
    <2>3. RecordRequest(route, generation, NoGraph) /\ UNCHANGED <<sent, answers>>
      BY <1>9 DEF RecordStep
    <2> HIDE DEF generation
    <2> QED
      BY ONLY IInv, IInv', JInv, <2>1, <2>2, <2>3, RecordRequestJInv
  <1> QED
    BY <1>1, <1>2, <1>3, <1>4, <1>5, <1>6, <1>7, <1>8, <1>9

\* The server answers a claim and a start with the one word their routes have.
LEMMA HandleJInv ==
  ASSUME IInv, JInv, NEW r \in sent, Handle(r)
  PROVE  JInv'
  <1>1. UNCHANGED <<journal, client, sent>> /\ answers[r.key] = NoAnswer
    BY DEF Handle
  <1>2. \E a : /\ answers' = [answers EXCEPT ![r.key] = a]
               /\ r.route = "claim" => a.status = "claimed"
               /\ r.route = "start" => a.status = "running"
    <2> USE DEF Reply
    <2>1. CASE HandlePrepare(r)
      BY <2>1 DEF HandlePrepare
    <2>2. CASE HandleDecide(r)
      BY <2>2 DEF HandleDecide
    <2>3. CASE HandleAdmit(r)
      BY <2>3 DEF HandleAdmit
    <2>4. CASE HandleClaim(r)
      BY <2>4 DEF HandleClaim
    <2>5. CASE HandleStart(r)
      <3> DEFINE a == [status |-> "running", run |-> "running", generation |-> r.generation]
      <3>1. a.status = "running" /\ r.route = "start" /\ answers' = [answers EXCEPT ![r.key] = a]
        BY <2>5 DEF HandleStart
      <3> HIDE DEF a
      <3> QED
        BY <3>1
    <2>6. CASE HandleExecute(r)
      BY <2>6 DEF HandleExecute
    <2>7. CASE HandleAdvance(r)
      BY <2>7 DEF HandleAdvance
    <2> QED
      BY <2>1, <2>2, <2>3, <2>4, <2>5, <2>6, <2>7 DEF Handle
  <1>3. PICK a : /\ answers' = [answers EXCEPT ![r.key] = a]
                 /\ r.route = "claim" => a.status = "claimed"
                 /\ r.route = "start" => a.status = "running"
    BY <1>2
  <1>4. \A q \in sent : /\ q.key \in Key
                        /\ q = r => answers'[q.key] = a
                        /\ q # r => q.key # r.key /\ answers'[q.key] = answers[q.key]
    BY <1>3 DEF IInv, TypeOK, Request, JInv, SentOnce
  <1>5. PhaseFits' /\ HistoryInOrder' /\ StopRecorded' /\ SentOnce'
    BY <1>1 DEF JInv, PhaseFits, HistoryInOrder, StopRecorded, SentOnce, Past, Completed, Coordinate
  <1>6. AnswersFit'
    <2> SUFFICES ASSUME NEW q \in sent, answers'[q.key] # NoAnswer
                 PROVE  /\ q.route = "claim" => answers'[q.key].status = "claimed"
                        /\ q.route = "start" => answers'[q.key].status = "running"
      BY <1>1 DEF AnswersFit
    <2> QED
      BY <1>3, <1>4 DEF JInv, AnswersFit
  <1>7. FenceKept'
    BY <1>1, <1>4 DEF JInv, FenceKept, Past, Completed, Coordinate
  <1> QED
    BY <1>5, <1>6, <1>7 DEF JInv

LEMMA NextJInv == IInv /\ IInv' /\ JInv /\ [Next]_vars => JInv'
  <1> SUFFICES ASSUME IInv, IInv', JInv, [Next]_vars PROVE JInv'
    OBVIOUS
  <1>1. CASE Unresolved
    BY <1>1, JournalKept DEF Unresolved, Return, Idle
  <1>2. CASE Abandon
    BY <1>2, JournalKept DEF Abandon, OnlyClient, Return, Idle
  <1>3. CASE \E r \in sent : Handle(r)
    BY <1>3, HandleJInv
  <1>4. CASE OtherActor
    BY <1>4, JournalKept DEF OtherActor
  <1>5. CASE UNCHANGED vars
    BY <1>5, JournalKept DEF vars
  <1> QED
    BY <1>1, <1>2, <1>3, <1>4, <1>5, PlanStepsJInv, ApplyStepsJInv, DispatchJInv, ResolvedJInv
    DEF Next, ClientStep, Operator

\* The order invariant holds too, under every interleaving and every crash.
THEOREM OrderInvariance == Spec => [](IInv /\ JInv)
  <1> QED
    BY InitIInv, NextIInv, InitJInv, NextJInv, PTL DEF Spec

\* Requests go out in apply()'s order, and each step but the execution step under
\* one key, through every crash, resumption, replay and refusal (apply, _mutate).
THEOREM SpecStepsInOrder == Spec => []StepsInOrder
  <1>1. ASSUME IInv, JInv PROVE StepsInOrder
    <2> SUFFICES ASSUME NEW r \in sent, NEW q \in sent, r.key < q.key
                 PROVE  Before(r.route, q.route)
      BY DEF StepsInOrder, Before
    <2>1. \A p \in sent : \/ p = journal.pending
                          \/ p.key \in Past /\ journal.history[p.key].route = p.route
      <3> TAKE p \in sent
      <3>1. Recorded(p)
        BY <1>1 DEF IInv, RecordedBeforeDispatch
      <3>2. ASSUME NEW i \in Past, journal.history[i].key = p.key,
                   journal.history[i].route = p.route
            PROVE  p.key \in Past /\ journal.history[p.key].route = p.route
        <4>1. journal.history[i].key = i
          BY <1>1, JournalTyped
        <4> QED
          BY <3>2, <4>1
      <3> QED
        BY <3>1, <3>2 DEF Recorded, Past
    <2>2. Len(journal.history) \in Nat
      BY <1>1, JournalTyped
    <2>3. \A p \in sent : p = journal.pending => p # NoRequest /\ p.key = Len(journal.history) + 1
      BY <1>1, JournalTyped, Types DEF IInv, KeysInOrder
    <2>4. r # journal.pending
      <3> SUFFICES ASSUME r = journal.pending PROVE FALSE
        OBVIOUS
      <3>1. r.key = Len(journal.history) + 1 /\ q.key \in Int
        BY <1>1, <2>3, JournalTyped DEF Request, Key
      <3>2. q.key <= Len(journal.history) + 1
        BY <2>1, <2>2, <2>3 DEF Past
      <3> QED
        BY <2>2, <3>1, <3>2
    <2>5. CASE q = journal.pending
      BY <1>1, <2>1, <2>3, <2>4, <2>5, PendingAfterPast
    <2>6. CASE q # journal.pending
      BY <1>1, <2>1, <2>4, <2>6 DEF JInv, HistoryInOrder
    <2> QED
      BY <2>5, <2>6
  <1> QED
    BY <1>1, OrderInvariance, PTL

\* An execution step answered blocked, failed, unsupported, uncertain or in-flight
\* is the operation's last record, for every later invocation (_phase_after).
THEOREM SpecStopIsFinal == Spec => []StopIsFinal
  <1>1. IInv /\ JInv => StopIsFinal
    BY JournalTyped DEF JInv, StopRecorded, PhaseFits, PendingPhases, Request, Route,
                        StopIsFinal, Past
  <1> QED
    BY <1>1, OrderInvariance, PTL

\* An advance is only ever sent for the operation's own completed run, from the
\* plan's base and under its own claim's fence (_validate_pending, apply).
THEOREM SpecAdvanceJustified == Spec => []AdvanceJustified
  <1>1. IInv /\ JInv => AdvanceJustified
    BY DEF IInv, JournalNotAhead, JInv, FenceKept, Completed, Past, AdvanceJustified
  <1> QED
    BY <1>1, OrderInvariance, PTL

\* No step of anybody changes the file of a converged operation (apply,
\* _validate_journal): whoever moves the graph, applying again only reads.
THEOREM SpecConvergedFinal == Spec => ConvergedFinal
  <1>1. ASSUME IInv, JInv, [Next]_vars, journal.phase = "converged"
        PROVE  journal' = journal
    <2>1. journal.pending = NoRequest /\ HasPlan(Coordinate) /\ journal \in Journal
      BY <1>1, JournalTyped DEF JInv, PhaseFits, PendingPhases, Request, Route, IInv, TypeOK
    <2>2. ASSUME NEW route \in Route, NEW generation, NEW expected,
                 RecordRequest(route, generation, expected)
          PROVE  journal' = journal
      <3> DEFINE r == [route |-> route, key |-> issued + 1,
                       generation |-> generation, expected |-> expected]
                 j == [journal EXCEPT !.pending = r]
      <3>1. j.pending = r /\ j.phase = "converged" /\ r # NoRequest
        BY <1>1, <2>1 DEF Journal, NoRequest, Route
      <3>2. "converged" \notin PendingPhases(r.route)
        BY DEF PendingPhases, Route
      <3>3. ~ValidJournal(j)
        BY <3>1, <3>2 DEF ValidJournal, PendingBound
      <3> QED
        BY <2>2, <3>3 DEF RecordRequest
    <2>3. CASE PlanStart \/ ResumePrepare \/ ObserveRun \/ ObserveGraph \/ ReplayUnobserved
               \/ Stop \/ Dispatch \/ Unresolved \/ Abandon \/ OtherActor \/ UNCHANGED vars
      BY <2>3 DEF PlanStart, ResumePrepare, ObserveRun, ObserveGraph, ReplayUnobserved,
                  Stop, Dispatch, Unresolved, Abandon, OtherActor, vars
    <2>4. CASE \E r \in sent : Handle(r)
      BY <2>4 DEF Handle
    <2>5. CASE \E approve, approveDestructive \in BOOLEAN :
                  ReadApproval(approve, approveDestructive)
      BY <2>5 DEF ReadApproval
    <2>6. CASE PlanCreate
      BY <1>1, <2>6 DEF PlanCreate, At, IInv, Placement, NoJournal
    <2>7. CASE FinishReadPlan \/ FinishReadApproval \/ Resolved
      BY <1>1, <2>1, <2>7 DEF FinishReadPlan, FinishReadApproval, Resolved, At,
                              JInv, PhaseFits, IInv, Placement
    <2>8. CASE RecordPrepare
      BY <2>2, <2>8 DEF RecordPrepare, Route
    <2>9. CASE RecordAdvance
      BY <2>2, <2>9 DEF RecordAdvance, Route
    <2>10. CASE \E route \in {"decide", "admit", "claim", "start", "execute"} : RecordStep(route)
      BY <2>2, <2>10 DEF RecordStep, Route
    <2>11. CASE ApplyStart
      <3>1. journal' = [journal EXCEPT !.coordinates.base = journal.coordinates.base]
        BY <2>1, <2>11 DEF ApplyStart, Coordinate
      <3>2. [journal.coordinates EXCEPT !.base = journal.coordinates.base] = journal.coordinates
        BY <2>1 DEF Journal, Coordinates
      <3> QED
        BY <2>1, <3>1, <3>2 DEF Journal
    <2>12. CASE Converge
      BY <1>1, <2>12 DEF Converge, NextStep
    <2> QED
      BY <1>1, <2>3, <2>4, <2>5, <2>6, <2>7, <2>8, <2>9, <2>10, <2>11, <2>12
         DEF Next, ClientStep, Operator
  <1>2. IInv /\ JInv /\ [Next]_vars => [journal.phase = "converged" => journal' = journal]_vars
    BY <1>1
  <1> QED
    BY <1>2, OrderInvariance, PTL DEF Spec, ConvergedFinal
=============================================================================
