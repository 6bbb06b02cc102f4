------------------------------ MODULE ClientJournal ------------------------------
(***************************************************************************)
(* The client's operation journal as a value: the document the topology    *)
(* client keeps for one operation, the closed checks every read and every  *)
(* write of it makes (_validate_journal), and what one public response     *)
(* does to it.  Names, digests and times are left out; a coordinate is     *)
(* kept when some check or some branch of the client tests it.             *)
(***************************************************************************)
EXTENDS Integers, Sequences

CONSTANTS
    Graph,           \* graph pointers (authored graph and realized projection)
    Desired,         \* the graph this operation wants to be current
    NoGraph,         \* no pointer recorded
    MaxRecords,      \* MAXIMUM_REQUEST_RECORDS
    MaxGeneration    \* bound of the model: claims of the run, ours and others'

ASSUME GraphAssumption == Desired \in Graph /\ NoGraph \notin Graph
ASSUME RecordsAssumption == MaxRecords \in Nat \ {0}
ASSUME GenerationAssumption == MaxGeneration \in Nat \ {0}

Phase == {"planning", "prepared", "no-changes", "approved", "admitted", "claimed",
          "started", "executing", "executed", "advanced", "converged",
          "attention-required"}

Route == {"prepare", "decide", "admit", "claim", "start", "execute", "advance"}

PrepareStatus == {"no-changes", "review-blocked", "approval-required", "unrecognised"}

\* coordinator_status values after which the client stops.
StopStatus == {"in-flight", "failed", "unsupported", "uncertain", "blocked"}
CoordinatorStatus == StopStatus \cup {"completed", "progressed"}

Key == 1 .. MaxRecords
Generation == 0 .. MaxGeneration
GraphOrNone == Graph \cup {NoGraph}

\* One pending request.  The generation and the graph are the body's fence and
\* expected pointer, 0 and NoGraph in the bodies that carry none.
Request == [route : Route, key : Key, generation : Generation, expected : GraphOrNone]
NoRequest == [route |-> "none", key |-> 0, generation |-> 0, expected |-> NoGraph]

AnswerStatus == PrepareStatus \cup CoordinatorStatus \cup
                {"approved", "rejected", "admitted", "claimed", "running", "advanced"}

\* One public response: its status word, the run status and generation it states.
Answer == [status : AnswerStatus,
           run : {"none", "claimed", "running", "succeeded", "failed"},
           generation : Generation]
NoAnswer == [status |-> "none", run |-> "none", generation |-> 0]

\* Coordinates: TRUE, a pointer or a positive generation once they are recorded.
\* base stands for all of _PLAN_COORDINATES but plan_id, which plan stands for.
Coordinates == [plan : BOOLEAN, base : GraphOrNone, approval : BOOLEAN,
                approved : BOOLEAN, request : BOOLEAN, generation : Generation,
                run : {"none", "running", "succeeded", "failed"},
                coordinator : CoordinatorStatus \cup {"none"},
                advanced : BOOLEAN]
NoCoordinates == [plan |-> FALSE, base |-> NoGraph, approval |-> FALSE,
                  approved |-> FALSE, request |-> FALSE, generation |-> 0,
                  run |-> "none", coordinator |-> "none", advanced |-> FALSE]

Record == [route : Route, key : Key, status : AnswerStatus \cup {"none"}]

Journal == [phase : Phase \cup {"absent"}, pending : Request \cup {NoRequest},
            coordinates : Coordinates, history : Seq(Record)]

\* No file yet, and the document plan() creates.
NoJournal == [phase |-> "absent", pending |-> NoRequest,
              coordinates |-> NoCoordinates, history |-> <<>>]
NewJournal == [NoJournal EXCEPT !.phase = "planning"]

HasPlan(c) == c.base # NoGraph
HasRun(c) == c.generation > 0

----------------------------------------------------------------------------
(* The checks of _validate_journal.                                         *)

\* The coordinates each phase requires, and the values it requires of them.
PhaseCoordinatesValid(phase, c) ==
    /\ phase = "planning" => c = NoCoordinates
    /\ phase \notin {"planning", "attention-required"} => c.plan
    /\ phase \notin {"planning", "prepared", "attention-required"} => HasPlan(c)
    /\ phase = "approved" => c.approval /\ c.approved
    /\ phase \in {"admitted", "claimed", "started", "executing", "executed",
                  "advanced", "converged"} => c.request
    /\ phase \in {"claimed", "started", "executing", "executed", "advanced",
                  "converged"} => HasRun(c)
    /\ phase = "started" => c.run = "running"
    /\ phase = "executing" => c.run = "running" /\ c.coordinator = "progressed"
    /\ phase \in {"executed", "advanced", "converged"} =>
          c.run = "succeeded" /\ c.coordinator = "completed"
    /\ phase \in {"advanced", "converged"} => c.advanced

PendingPhases(route) ==
    CASE route = "prepare" -> {"planning"}
      [] route = "decide"  -> {"prepared"}
      [] route = "admit"   -> {"prepared", "approved"}
      [] route = "claim"   -> {"admitted"}
      [] route = "start"   -> {"claimed"}
      [] route = "execute" -> {"started", "executing"}
      [] route = "advance" -> {"executed"}

\* Mutant of PendingBound: the pending request is not tied to the phase.
PendingBoundToNoPhase(r, phase, c) ==
    /\ r.route = "prepare" => r.expected # NoGraph
    /\ r.route = "decide" => c.approval /\ HasPlan(c)
    /\ r.route = "admit" => c.plan /\ c.approval /\ HasPlan(c)
    /\ r.route = "claim" => c.request
    /\ r.route \in {"start", "execute", "advance"} =>
          HasRun(c) /\ r.generation = c.generation
    /\ r.route = "advance" => c.plan /\ r.expected = c.base

\* A pending request fits the phase and names the recorded coordinates.
PendingBound(r, phase, c) ==
    /\ phase \in PendingPhases(r.route)
    /\ r.route = "prepare" => r.expected # NoGraph
    /\ r.route = "decide" => c.approval /\ HasPlan(c)
    /\ r.route = "admit" => c.plan /\ c.approval /\ HasPlan(c)
    /\ r.route = "claim" => c.request
    /\ r.route \in {"start", "execute", "advance"} =>
          HasRun(c) /\ r.generation = c.generation
    /\ r.route = "advance" => c.plan /\ r.expected = c.base

ValidJournal(j) ==
    /\ j.phase \in Phase
    /\ PhaseCoordinatesValid(j.phase, j.coordinates)
    /\ j.pending # NoRequest => PendingBound(j.pending, j.phase, j.coordinates)
    /\ Len(j.history) <= MaxRecords

----------------------------------------------------------------------------
(* What a response does to the journal.                                     *)

\* Mutant of ResponseIsBound: a decision is accepted whatever it is.
ResponseIsBoundToAnyDecision(r, a) ==
    CASE r.route = "prepare" -> a.status \in PrepareStatus
      [] r.route = "decide"  -> TRUE
      [] r.route = "admit"   -> a.status = "admitted"
      [] r.route = "claim"   -> a.run = "claimed" /\ a.generation > 0
      [] r.route = "start"   -> a.run = "running" /\ a.generation = r.generation
      [] r.route = "execute" -> a.status \in CoordinatorStatus
      [] r.route = "advance" -> a.status = "advanced"

\* _response_is_bound: the response answers this request and is well formed.
ResponseIsBound(r, a) ==
    CASE r.route = "prepare" -> a.status \in PrepareStatus
      [] r.route = "decide"  -> a.status = "approved"
      [] r.route = "admit"   -> a.status = "admitted"
      [] r.route = "claim"   -> a.run = "claimed" /\ a.generation > 0
      [] r.route = "start"   -> a.run = "running" /\ a.generation = r.generation
      [] r.route = "execute" ->
            \/ a.status = "completed" /\ a.run = "succeeded"
            \/ a.status \in {"progressed", "in-flight"} /\ a.run = "running"
            \/ a.status \in {"failed", "unsupported"} /\ a.run = "failed"
            \/ a.status \in {"uncertain", "blocked"} /\ a.run \in {"running", "failed"}
      [] r.route = "advance" -> a.status = "advanced"

ResponseCoordinates(r, a, c) ==
    CASE r.route = "prepare" -> [c EXCEPT !.plan = TRUE,
                                          !.approval = (a.status = "approval-required")]
      [] r.route = "decide"  -> [c EXCEPT !.approved = TRUE]
      [] r.route = "admit"   -> [c EXCEPT !.request = TRUE]
      [] r.route = "claim"   -> [c EXCEPT !.generation = a.generation]
      [] r.route = "start"   -> [c EXCEPT !.run = a.run]
      [] r.route = "execute" -> [c EXCEPT !.run = a.run, !.coordinator = a.status]
      [] r.route = "advance" -> [c EXCEPT !.advanced = TRUE]

\* Mutant of PhaseAfter: an effect still in flight leaves the run started.
PhaseAfterInFlight(route, a) ==
    CASE route = "prepare" -> "prepared"
      [] route = "decide"  -> "approved"
      [] route = "admit"   -> "admitted"
      [] route = "claim"   -> "claimed"
      [] route = "start"   -> "started"
      [] route = "execute" /\ a.status = "completed"  -> "executed"
      [] route = "execute" /\ a.status = "progressed" -> "executing"
      [] route = "execute" /\ a.status = "in-flight"  -> "started"
      [] route = "execute" /\ a.status \in StopStatus \ {"in-flight"} -> "attention-required"
      [] route = "advance" -> "advanced"

PhaseAfter(route, a) ==
    CASE route = "prepare" -> "prepared"
      [] route = "decide"  -> "approved"
      [] route = "admit"   -> "admitted"
      [] route = "claim"   -> "claimed"
      [] route = "start"   -> "started"
      [] route = "execute" /\ a.status = "completed"  -> "executed"
      [] route = "execute" /\ a.status = "progressed" -> "executing"
      [] route = "execute" /\ a.status \in StopStatus -> "attention-required"
      [] route = "advance" -> "advanced"

\* The journal _dispatch_pending writes once the response is bound.  The record
\* of a prepare keeps identifiers only, not the preparation's status.
Resolve(j, a) ==
    LET r == j.pending IN
    [phase       |-> PhaseAfter(r.route, a),
     pending     |-> NoRequest,
     coordinates |-> ResponseCoordinates(r, a, j.coordinates),
     history     |-> Append(j.history,
                       [route |-> r.route, key |-> r.key,
                        status |-> IF r.route = "prepare" THEN "none" ELSE a.status])]
=============================================================================
