------------------------------ MODULE TopologyClient ------------------------------
(***************************************************************************)
(* The topology client (cpk plan / plan --resume / apply) driving one      *)
(* operation through cpk-server's public routes.                           *)
(*                                                                         *)
(* The client is one invocation at a time: mutation_lock refuses a second  *)
(* one, which then changes nothing (JournalStore shows the exclusion).  A  *)
(* step of the client ends at a durable journal write or at a public call, *)
(* the places where a crash, a lost response or another actor can come in  *)
(* between.  A journal write that raises ends the invocation, with the old *)
(* file (Abandon instead of the step) or with the new one, when only the   *)
(* directory's fsync failed (the step, then Abandon).                      *)
(*                                                                         *)
(* The server, the network and the other actors of the workspace are       *)
(* external: they are modelled from what the client sends and accepts.  A  *)
(* request stays in `sent` for ever, so it may reach the server late or    *)
(* twice; the server keeps the answer of each idempotency key.             *)
(***************************************************************************)
EXTENDS ClientJournal

CONSTANTS MaxActivities    \* bound of the model: activities of a plan

ASSUME ActivitiesAssumption == MaxActivities \in Nat

VARIABLES
    journal,    \* the operation's file
    client,     \* the running invocation: where it is and what it has read
    issued,     \* idempotency keys made so far by the identity factory
    sent,       \* requests dispatched so far
    answers,    \* the server's recorded answer for each key
    server      \* the server's public truth about the workspace and the plan

vars == <<journal, client, issued, sent, answers, server>>

----------------------------------------------------------------------------

Idle == [at |-> "idle", expected |-> NoGraph, prepared |-> "none",
         decide |-> FALSE, observed |-> "none"]

Client == [at : {"idle", "create", "record", "dispatch", "await", "plan", "planApproval",
                 "approval", "run", "graph", "route"},
           expected : GraphOrNone,      \* plan(): the current pointer it read
           prepared : PrepareStatus \cup {"none"},  \* the prepare response's status
           decide : BOOLEAN,            \* apply(): the approval is ours to decide
           observed : {"none", "claimed", "running", "succeeded", "failed"}]

Server == [plan : PrepareStatus \cup {"none"}, base : GraphOrNone,
           destructive : BOOLEAN,
           approval : {"none", "pending", "approved", "rejected"},
           request : BOOLEAN,
           run : {"none", "claimed", "running", "succeeded", "failed"},
           generation : Generation, left : 0 .. MaxActivities,
           current : Graph, advanced : BOOLEAN]

TypeOK == /\ journal \in Journal
          /\ client \in Client
          /\ issued \in 0 .. MaxRecords
          /\ sent \in SUBSET Request
          /\ answers \in [Key -> Answer \cup {NoAnswer}]
          /\ server \in Server

Init == /\ journal = NoJournal
        /\ client = Idle
        /\ issued = 0
        /\ sent = {}
        /\ answers = [k \in Key |-> NoAnswer]
        /\ \E g \in Graph :
              server = [plan |-> "none", base |-> NoGraph, destructive |-> FALSE,
                        approval |-> "none", request |-> FALSE, run |-> "none",
                        generation |-> 0, left |-> 0, current |-> g, advanced |-> FALSE]

----------------------------------------------------------------------------
(* Steps shared by the commands.                                            *)

At(place) == client.at = place
GoTo(place) == client' = [client EXCEPT !.at = place]
Return == client' = Idle
Coordinate == journal.coordinates

\* The rest of the system does not move.
OnlyClient == UNCHANGED <<issued, sent, answers, server>>

\* Mutant of WithinBudget: one record too many is allowed.
WithinBudgetInclusive == Len(journal.history) <= MaxRecords

WithinBudget == Len(journal.history) < MaxRecords

\* _mutate: stop with attention past the budget, otherwise record the request
\* under a fresh key.  The write validates the journal first; one that does not
\* validate raises and leaves the file alone.
RecordRequest(route, generation, expected) ==
    LET r == [route |-> route, key |-> issued + 1,
              generation |-> generation, expected |-> expected]
        j == [journal EXCEPT !.pending = r]
    IN  \/ /\ WithinBudget /\ ValidJournal(j)
           /\ journal' = j
           /\ issued' = issued + 1
           /\ GoTo("dispatch")
        \/ /\ ~(WithinBudget /\ ValidJournal(j))
           /\ Return
           /\ UNCHANGED <<journal, issued>>

\* _dispatch_pending sends the pending request, a new one or a replayed one.
Dispatch ==
    /\ At("dispatch")
    /\ sent' = sent \cup {journal.pending}
    /\ GoTo("await")
    /\ UNCHANGED <<journal, issued, answers, server>>

\* Mutants of Unresolved: a failed call forgets its request; a failed call is
\* repeated inside the same invocation.
UnresolvedForgets ==
    /\ At("await")
    /\ Return
    /\ journal' = [journal EXCEPT !.pending = NoRequest]
    /\ UNCHANGED <<issued, sent, answers, server>>

UnresolvedRetries ==
    /\ At("await")
    /\ GoTo("dispatch")
    /\ UNCHANGED <<journal, issued, sent, answers, server>>

\* The transport fails or times out, the credential is refused, the response is
\* not bound to the request or cannot be recorded: the request stays pending.
Unresolved ==
    /\ At("await")
    /\ Return
    /\ UNCHANGED <<journal, issued, sent, answers, server>>

\* The response arrives, is bound, and is recorded together with its phase.
Resolved ==
    LET a == answers[journal.pending.key]
        j == Resolve(journal, a)
    IN  /\ At("await")
        /\ a # NoAnswer
        /\ ResponseIsBound(journal.pending, a)
        /\ WithinBudget
        /\ ValidJournal(j)
        /\ journal' = j
        /\ client' = [client EXCEPT
                         !.at = IF journal.pending.route = "prepare" THEN "plan" ELSE "route",
                         !.prepared = IF journal.pending.route = "prepare"
                                        THEN a.status ELSE "none",
                         !.decide = FALSE]
        /\ OnlyClient

\* The process dies, a public read fails or is refused, a confirmation or a
\* file is missing: the invocation ends and the journal keeps its last write.
Abandon ==
    /\ client.at \notin {"idle", "await"}
    /\ Return
    /\ UNCHANGED journal
    /\ OnlyClient

----------------------------------------------------------------------------
(* plan and plan --resume.                                                  *)

\* plan() reads the workspace before it has a journal.
PlanStart ==
    /\ At("idle")
    /\ journal = NoJournal
    /\ client' = [client EXCEPT !.at = "create", !.expected = server.current]
    /\ UNCHANGED journal
    /\ OnlyClient

PlanCreate ==
    /\ At("create")
    /\ journal' = NewJournal
    /\ GoTo("record")
    /\ OnlyClient

RecordPrepare ==
    /\ At("record")
    /\ RecordRequest("prepare", 0, client.expected)
    /\ UNCHANGED <<sent, answers, server>>

\* resume_prepare with the desired file unchanged.
ResumePrepare ==
    /\ At("idle")
    /\ journal.pending.route = "prepare"
    /\ GoTo("dispatch")
    /\ UNCHANGED journal
    /\ OnlyClient

\* The last write of _finish_prepare.
FinishPrepare ==
    /\ journal' = [journal EXCEPT
                      !.phase = CASE client.prepared = "no-changes" -> "no-changes"
                                  [] client.prepared = "review-blocked" -> "attention-required"
                                  [] OTHER -> "prepared",
                      !.coordinates.base = server.base]
    /\ Return

\* _finish_prepare up to the plan it reads.
FinishReadPlan ==
    /\ At("plan")
    /\ \/ /\ client.prepared = "unrecognised"
          /\ Return
          /\ UNCHANGED journal
       \/ /\ client.prepared # "unrecognised"
          /\ Coordinate.approval
          /\ GoTo("planApproval")
          /\ UNCHANGED journal
       \/ /\ client.prepared # "unrecognised"
          /\ ~Coordinate.approval
          /\ FinishPrepare
    /\ OnlyClient

\* _finish_prepare's approval read: when it fails, attention is persisted with
\* the plan coordinates but without the phase.
FinishReadApproval ==
    /\ At("planApproval")
    /\ \/ FinishPrepare
       \/ /\ journal' = [journal EXCEPT !.coordinates.base = server.base]
          /\ Return
    /\ OnlyClient

----------------------------------------------------------------------------
(* apply.                                                                   *)

\* Where apply() goes once approval and progress have been read.
PendingOrNext == IF journal.pending # NoRequest THEN "dispatch" ELSE "route"
AfterApproval == IF HasRun(Coordinate) THEN "run" ELSE PendingOrNext

\* Mutants of ApplyStart: the base is taken from the workspace instead of the plan;
\* any pending request has to be resumed, not only a prepare.
ApplyStartFromCurrent ==
    /\ At("idle")
    /\ Coordinate.plan
    /\ journal.pending.route # "prepare"
    /\ journal' = [journal EXCEPT !.coordinates.base =
                      IF HasPlan(Coordinate) THEN @ ELSE server.current]
    /\ GoTo(IF Coordinate.approval THEN "approval" ELSE AfterApproval)
    /\ OnlyClient

ApplyStartUnlessPending ==
    /\ At("idle")
    /\ Coordinate.plan
    /\ journal.pending = NoRequest
    /\ journal' = [journal EXCEPT !.coordinates.base =
                      IF HasPlan(Coordinate) THEN @ ELSE server.base]
    /\ GoTo(IF Coordinate.approval THEN "approval" ELSE AfterApproval)
    /\ OnlyClient

\* apply() with the exact plan confirmed: no prepare is pending, the plan is read
\* again and its coordinates are recorded if preparation did not get that far.
ApplyStart ==
    /\ At("idle")
    /\ Coordinate.plan
    /\ journal.pending.route # "prepare"
    /\ journal' = [journal EXCEPT !.coordinates.base =
                      IF HasPlan(Coordinate) THEN @ ELSE server.base]
    /\ GoTo(IF Coordinate.approval THEN "approval" ELSE AfterApproval)
    /\ OnlyClient

\* The confirmation apply() accepts for a plan whose approval is still pending.
ExactApproval(approve, approveDestructive) ==
    IF server.destructive THEN approveDestructive /\ ~approve
                          ELSE approve /\ ~approveDestructive

ReadApproval(approve, approveDestructive) ==
    /\ At("approval")
    /\ \/ /\ server.approval = "approved"
          /\ GoTo(AfterApproval)
       \/ /\ server.approval = "pending"
          /\ ExactApproval(approve, approveDestructive)
          /\ journal.pending.route \in {"none", "decide"}
          /\ client' = [client EXCEPT !.at = AfterApproval,
                                      !.decide = (journal.pending = NoRequest)]
       \/ /\ server.approval = "pending"
          /\ \/ ~ExactApproval(approve, approveDestructive)
             \/ journal.pending.route \notin {"none", "decide"}
          /\ Return
       \/ /\ server.approval \notin {"pending", "approved"}
          /\ Return
    /\ UNCHANGED journal
    /\ OnlyClient

\* _public_status reads approval and run; without a pending request a rejected
\* approval or a failed run ends apply().
ObserveRun ==
    /\ At("run")
    /\ IF journal.pending = NoRequest
            /\ (server.approval \notin {"pending", "approved"} \/ server.run = "failed")
         THEN Return
         ELSE client' = [client EXCEPT !.at = "graph", !.observed = server.run]
    /\ UNCHANGED journal
    /\ OnlyClient

\* _public_status reads the current graph; the recorded phase must agree.
ObserveGraph ==
    /\ At("graph")
    /\ IF \/ /\ journal.phase \in {"executed", "advanced", "converged"}
             /\ client.observed # "succeeded"
          \/ /\ journal.phase \in {"advanced", "converged"}
             /\ server.current # Desired
         THEN Return
         ELSE GoTo(PendingOrNext)
    /\ UNCHANGED journal
    /\ OnlyClient

\* A failed progress read does not stop apply() from replaying what is pending.
ReplayUnobserved ==
    /\ client.at \in {"run", "graph"}
    /\ journal.pending # NoRequest
    /\ journal.phase \notin {"executed", "advanced", "converged"}
    /\ client' = [client EXCEPT !.at = "dispatch", !.observed = "none"]
    /\ UNCHANGED journal
    /\ OnlyClient

\* The order of apply()'s remaining steps.
NextStep ==
    IF journal.phase \in {"no-changes", "attention-required"} THEN "stop"
    ELSE IF client.decide THEN "decide"
    ELSE IF ~Coordinate.request THEN IF Coordinate.approval THEN "admit" ELSE "stop"
    ELSE IF ~HasRun(Coordinate) THEN "claim"
    ELSE IF journal.phase \in {"claimed", "prepared", "approved", "admitted"} THEN "start"
    ELSE IF journal.phase \notin {"executed", "advanced", "converged"} THEN "execute"
    ELSE IF journal.phase # "advanced" THEN "advance" ELSE "converge"

Stop ==
    /\ At("route")
    /\ NextStep = "stop"
    /\ Return
    /\ UNCHANGED journal
    /\ OnlyClient

\* Decide, admit and claim name no fence; start and execute carry the claim's.
RecordStep(route) ==
    /\ At("route")
    /\ NextStep = route
    /\ RecordRequest(route,
                     IF route \in {"start", "execute"} THEN Coordinate.generation ELSE 0,
                     NoGraph)
    /\ UNCHANGED <<sent, answers, server>>

\* The advance is only asked for while the plan's base is still current.
RecordAdvance ==
    /\ At("route")
    /\ NextStep = "advance"
    /\ \/ /\ server.current = Coordinate.base
          /\ RecordRequest("advance", Coordinate.generation, server.current)
       \/ /\ server.current # Coordinate.base
          /\ Return
          /\ UNCHANGED <<journal, issued>>
    /\ UNCHANGED <<sent, answers, server>>

\* The last read: the desired graph is current, and the journal says so.
Converge ==
    /\ At("route")
    /\ NextStep = "converge"
    /\ journal' = IF server.current = Desired
                     THEN [journal EXCEPT !.phase = "converged"]
                     ELSE journal
    /\ Return
    /\ OnlyClient

----------------------------------------------------------------------------
(* The server (external).  It handles a key once and then repeats its       *)
(* answer; a request it refuses is left without one, which the client sees  *)
(* as a failed call.                                                        *)

Reply(r, status, run, generation) ==
    answers' = [answers EXCEPT ![r.key] =
                  [status |-> status, run |-> run, generation |-> generation]]

HandlePrepare(r) ==
    /\ r.route = "prepare"
    /\ server.plan = "none"
    /\ server.current = r.expected
    /\ \E status \in PrepareStatus, destructive \in BOOLEAN, left \in 0 .. MaxActivities :
          /\ server' = [server EXCEPT
                           !.plan = status, !.base = r.expected,
                           !.destructive = destructive, !.left = left,
                           !.approval = IF status = "approval-required"
                                          THEN "pending" ELSE "none"]
          /\ Reply(r, status, "none", 0)

\* An approval somebody else rejected is answered with its state.
HandleDecide(r) ==
    /\ r.route = "decide"
    /\ server.approval # "none"
    /\ LET state == IF server.approval = "pending" THEN "approved" ELSE server.approval
       IN  /\ server' = [server EXCEPT !.approval = state]
           /\ Reply(r, state, "none", 0)

HandleAdmit(r) ==
    /\ r.route = "admit"
    /\ server.approval = "approved"
    /\ server' = [server EXCEPT !.request = TRUE]
    /\ Reply(r, "admitted", "none", 0)

HandleClaim(r) ==
    /\ r.route = "claim"
    /\ server.request
    /\ server.run = "none"
    /\ server.generation < MaxGeneration
    /\ server' = [server EXCEPT !.run = "claimed", !.generation = @ + 1]
    /\ Reply(r, "claimed", "claimed", server.generation + 1)

HandleStart(r) ==
    /\ r.route = "start"
    /\ server.run = "claimed"
    /\ server.generation = r.generation
    /\ server' = [server EXCEPT !.run = "running"]
    /\ Reply(r, "running", "running", r.generation)

\* One bounded execution step: the run completes, one activity is done, or the
\* coordinator stops with or without failing the run.
HandleExecute(r) ==
    /\ r.route = "execute"
    /\ server.run = "running"
    /\ server.generation = r.generation
    /\ \/ /\ server.left = 0
          /\ server' = [server EXCEPT !.run = "succeeded"]
          /\ Reply(r, "completed", "succeeded", 0)
       \/ /\ server.left > 0
          /\ server' = [server EXCEPT !.left = @ - 1]
          /\ Reply(r, "progressed", "running", 0)
       \/ \E status \in StopStatus, run \in {"running", "failed"} :
             /\ status = "in-flight" => run = "running"
             /\ status \in {"failed", "unsupported"} => run = "failed"
             /\ server' = [server EXCEPT !.run = run]
             /\ Reply(r, status, run, 0)

HandleAdvance(r) ==
    /\ r.route = "advance"
    /\ server.run = "succeeded"
    /\ server.generation = r.generation
    /\ server.current = r.expected
    /\ server' = [server EXCEPT !.current = Desired, !.advanced = TRUE]
    /\ Reply(r, "advanced", "none", 0)

Handle(r) ==
    /\ answers[r.key] = NoAnswer
    /\ \/ HandlePrepare(r)
       \/ HandleDecide(r)
       \/ HandleAdmit(r)
       \/ HandleClaim(r)
       \/ HandleStart(r)
       \/ HandleExecute(r)
       \/ HandleAdvance(r)
    /\ UNCHANGED <<journal, client, issued, sent>>

----------------------------------------------------------------------------
(* Other actors of the workspace (external).                                *)

OtherDecides ==
    /\ server.approval = "pending"
    /\ \E state \in {"approved", "rejected"} : server' = [server EXCEPT !.approval = state]

\* The lease runs out and another worker claims the run: a new fence.
OtherClaims ==
    /\ server.run \in {"claimed", "running"}
    /\ server.generation < MaxGeneration
    /\ server' = [server EXCEPT !.generation = @ + 1]

OtherEndsRun ==
    /\ server.run = "running"
    /\ \E run \in {"succeeded", "failed"} : server' = [server EXCEPT !.run = run]

OtherMovesCurrent ==
    \E g \in Graph : server' = [server EXCEPT !.current = g]

OtherActor ==
    /\ OtherDecides \/ OtherClaims \/ OtherEndsRun \/ OtherMovesCurrent
    /\ UNCHANGED <<journal, client, issued, sent, answers>>

----------------------------------------------------------------------------

\* What a running invocation does by itself; every public call has a timeout.
ClientStep ==
    \/ PlanCreate \/ RecordPrepare \/ FinishReadPlan \/ FinishReadApproval
    \/ \E approve, approveDestructive \in BOOLEAN : ReadApproval(approve, approveDestructive)
    \/ ObserveRun \/ ObserveGraph \/ ReplayUnobserved
    \/ Stop \/ RecordAdvance \/ Converge
    \/ \E route \in {"decide", "admit", "claim", "start", "execute"} : RecordStep(route)
    \/ Dispatch \/ Resolved \/ Unresolved

\* What an operator starts, and how an invocation dies.
Operator == PlanStart \/ ResumePrepare \/ ApplyStart

Next == \/ ClientStep
        \/ Operator
        \/ Abandon
        \/ \E r \in sent : Handle(r)
        \/ OtherActor

Spec == Init /\ [][Next]_vars

\* A running client is scheduled: it is a single-threaded process.
FairSpec == Spec /\ WF_vars(ClientStep)

\* Nobody else touches the workspace and no process dies, but any call may fail.
\* The operator keeps running resume or apply, confirms the approval every now
\* and then, and neither the server nor the network fails a request for ever.
QuietNext == ClientStep \/ Operator \/ \E r \in sent : Handle(r)
ConfirmedApproval ==
    \E approve, approveDestructive \in BOOLEAN :
        /\ ExactApproval(approve, approveDestructive)
        /\ ReadApproval(approve, approveDestructive)
RetriedSpec == /\ Init /\ [][QuietNext]_vars
               /\ WF_vars(ClientStep)
               /\ WF_vars(Operator)
               /\ WF_vars(\E r \in sent : Handle(r))
               /\ SF_vars(ConfirmedApproval)
               /\ SF_vars(Resolved)

----------------------------------------------------------------------------
(* Properties.                                                              *)

Recorded(r) == \/ journal.pending = r
               \/ \E i \in 1 .. Len(journal.history) :
                     /\ journal.history[i].key = r.key
                     /\ journal.history[i].route = r.route

\* "Each mutation is recorded before dispatch" (client.md): whatever was ever sent
\* is in the file, pending or answered, so that after any crash or lost response
\* the next invocation can only repeat it under its own key (_mutate writes the
\* pending request before _dispatch_pending, and nothing else clears it).
RecordedBeforeDispatch == \A r \in sent : Recorded(r)

Rank(route) == CASE route = "prepare" -> 1 [] route = "decide"  -> 2
                 [] route = "admit"   -> 3 [] route = "claim"   -> 4
                 [] route = "start"   -> 5 [] route = "execute" -> 6
                 [] route = "advance" -> 7

\* Through all crashes, resumptions and replays the requests of an operation go out
\* in apply()'s order, each step but the execution step under one key only.
StepsInOrder ==
    \A r, q \in sent :
        r.key < q.key => \/ Rank(r.route) < Rank(q.route)
                         \/ r.route = "execute" /\ q.route = "execute"

\* The journal never claims more than the server has done, although the server
\* moves on between its answer and the journal's write (_dispatch_pending,
\* _finish_prepare and the last write of apply()).
JournalNotAhead ==
    /\ Coordinate.plan => server.plan # "none"
    /\ HasPlan(Coordinate) => Coordinate.base = server.base
    /\ journal.phase = "no-changes" => server.plan = "no-changes"
    /\ Coordinate.approved => server.approval = "approved"
    /\ Coordinate.request => server.request
    /\ HasRun(Coordinate) => server.run # "none"
    /\ Coordinate.coordinator = "completed" => server.run = "succeeded"
    /\ journal.phase \in {"executed", "advanced", "converged"} => server.run = "succeeded"
    /\ journal.phase \in {"advanced", "converged"} => server.advanced

\* An advance is only sent after this operation saw its own run completed, from
\* the base the plan was made for, and under the fence of its own claim.
AdvanceJustified ==
    \A r \in sent : r.route = "advance" =>
        /\ r.expected = server.base
        /\ \E i \in 1 .. Len(journal.history) : journal.history[i].status = "completed"
        /\ \A c \in sent : c.route = "claim" => r.generation = answers[c.key].generation

\* "Blocked, failed, unsupported, uncertain, in-flight ... work stops without a
\* later mutation" (client.md): after an execution step answered so, nothing is
\* recorded any more, in this invocation or a later one (_phase_after, apply()).
StopIsFinal ==
    \A i \in 1 .. Len(journal.history) :
        journal.history[i].status \in StopStatus =>
            i = Len(journal.history) /\ journal.pending = NoRequest

\* A converged operation is final: applying it again, while others move the
\* current graph away and back, records and sends nothing (_validate_pending).
ConvergedFinal == [][journal.phase = "converged" => journal' = journal]_vars

\* Every invocation returns: no reply, no failure and no number of progressed
\* execution steps keeps apply() running for ever (the request budget, timeouts).
InvocationEnds == client.at # "idle" ~> client.at = "idle"
\* Nothing more can be asked for: the operation ended, or its budget did.
Settled == \/ journal.phase \in {"no-changes", "attention-required", "converged"}
           \/ journal.phase = "prepared" /\ ~Coordinate.approval
           \/ ~WithinBudget

\* Lost responses never wedge an operation: as long as it is run again, exact
\* replay (resume_prepare, _replay_pending) brings it to an end.
RetriedOperationSettles == <>Settled

\* "failed ... work stops without a later mutation" (client.md): an apply() whose
\* own status read showed the run failed records no further request.
StopsOnObservedFailure ==
    [][journal'.pending \notin {journal.pending, NoRequest} => client.observed # "failed"]_vars

----------------------------------------------------------------------------
(* The inductive invariant behind TypeOK, RecordedBeforeDispatch and        *)
(* JournalNotAhead (proved in TopologyClientProofs).                        *)

\* Keys are used up one by one: the history holds 1, 2, ... and a pending request
\* holds the last one issued.
KeysInOrder ==
    /\ \A i \in 1 .. Len(journal.history) : journal.history[i].key = i
    /\ journal.pending = NoRequest => issued = Len(journal.history)
    /\ journal.pending # NoRequest => /\ issued = Len(journal.history) + 1
                                      /\ journal.pending.key = issued

\* Where an invocation stands and whether a request is pending.
Placement ==
    /\ client.at \in {"dispatch", "await"} => journal.pending # NoRequest
    /\ client.at \in {"create", "record", "plan", "planApproval", "route"} =>
          journal.pending = NoRequest
    /\ client.at = "create" => journal = NoJournal
    /\ client.at \in {"plan", "planApproval"} =>
          Coordinate.plan /\ client.prepared = server.plan
    /\ HasPlan(Coordinate) => Coordinate.plan
    /\ journal.pending.route = "advance" => journal.phase = "executed"

\* Before it has a plan the server has no approval to decide.
NoPlanNoApproval == server.plan = "none" => server.approval = "none"

\* What an answer says stays true.
StillTrue(r, a) ==
    /\ r.route = "prepare" => a.status = server.plan /\ server.plan # "none"
    /\ r.route = "decide" /\ a.status = "approved" => server.approval = "approved"
    /\ r.route = "admit" => server.request
    /\ r.route = "claim" => server.run # "none"
    /\ r.route = "execute" /\ a.status = "completed" => server.run = "succeeded"
    /\ r.route = "advance" => server.advanced

AnswersTrue ==
    \A k \in Key : answers[k] # NoAnswer =>
        \E r \in sent : r.key = k /\ StillTrue(r, answers[k])

IInv == /\ TypeOK
        /\ KeysInOrder
        /\ RecordedBeforeDispatch
        /\ Placement
        /\ NoPlanNoApproval
        /\ AnswersTrue
        /\ JournalNotAhead
=============================================================================
