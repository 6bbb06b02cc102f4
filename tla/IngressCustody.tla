----------------------------- MODULE IngressCustody -----------------------------
(***************************************************************************)
(* IngressCustody: the source-live scenario that puts a public ingress on, *)
(* off, on again and down, and the abort cleanup that a failed one is      *)
(* followed by, unless the wrapper script that runs both was interrupted.  *)
(* The scenario leaves a checkpoint after every committed transition; the  *)
(* cleanup reads it in a new process, judges from the operations database  *)
(* which resources it may touch, asks cpk-server to take the deployment    *)
(* down and, if absence cannot be shown, compensates exactly the resources *)
(* of runs known to have failed.                                           *)
(*                                                                         *)
(* A transition is condensed to the effects of its run and to the one step *)
(* that commits its graph (HostedWorkflow has the calls).  cpk-server,     *)
(* Cloudflare, Docker and the secret provider are external.                *)
(***************************************************************************)
EXTENDS Naturals

VARIABLES
    driver,      \* the scenario's process
    checkpoint,  \* the state file: the graph that was current when it was written
    graph,       \* cpk-server's current graph of the workspace
    runs,        \* per graph: the run that leads to it
    ingress,     \* per allocation epoch: what exists of it, and where it is recorded
    late,        \* the graphs to which cpk-server is still at work for a caller that gave up
    foreign,     \* the account's other records
    baseline,    \* the inventory file: the account before the first allocation
    interrupted, \* the wrapper of both processes was sent INT or TERM
    abort        \* the abort cleanup's process

vars == <<driver, checkpoint, graph, runs, ingress, late, foreign, baseline, interrupted,
          abort>>

serverVars == <<graph, runs, ingress>>

\* Graphs by the transition that makes them current: empty, public, private, public
\* again, empty; the cleanup's own empty graph is the last.
Graph == 0 .. 5
Final == 4
Cleanup == 5
Public(g) == g \in {1, 3}
Epoch == {1, 2}
EpochOf(g) == IF g = 1 THEN 1 ELSE 2
SourceRun(e) == IF e = 1 THEN 1 ELSE 3

Unallocated == [cloud |-> {}, version |-> "none", row |-> "none", connector |-> FALSE,
                event |-> FALSE]

Unchanged == foreign = baseline /\ \A e \in Epoch : ingress[e].cloud = {}

----------------------------------------------------------------------------
(* cpk-server executing a run towards graph g.                              *)

\* Allocation, then the connector: tunnel, DNS record and token version, the row that
\* records them, the container, the event that says that it started.
Allocates(e, i) ==
    \/ i = Unallocated /\ ingress' = [ingress EXCEPT ![e].cloud = {"tunnel"}]
    \/ /\ i.cloud = {"tunnel"} /\ i.version = "none"
       /\ ingress' = [ingress EXCEPT ![e].cloud = {"tunnel", "dns"}, ![e].version = "stored"]
    \/ /\ i.version = "stored" /\ i.row = "none"
       /\ ingress' = [ingress EXCEPT ![e].row = "active"]
    \/ /\ i.row = "active" /\ ~i.connector /\ ~i.event
       /\ ingress' = [ingress EXCEPT ![e].connector = TRUE]
    \/ /\ i.connector /\ ~i.event
       /\ ingress' = [ingress EXCEPT ![e].event = TRUE]

\* Removal of an allocation: the connector, what Cloudflare has, the token version and
\* the row.  Nothing here promises that the version is revoked with it.
Removes(e, i) ==
    /\ i.row = "active"
    /\ \/ i.connector /\ ingress' = [ingress EXCEPT ![e].connector = FALSE]
       \/ ~i.connector /\ i.cloud # {} /\ \E c \in i.cloud :
             ingress' = [ingress EXCEPT ![e].cloud = @ \ {c}]
       \/ ~i.connector /\ i.cloud = {} /\ \E v \in {i.version, "revoked"} :
             ingress' = [ingress EXCEPT ![e].version = v, ![e].row = "removed"]

\* The allocation a run towards g has to remove: the one of the graph it replaces.
Replaced(g) == IF Public(graph) /\ ~Public(g) THEN {EpochOf(graph)} ELSE {}

Done(g) == /\ Public(g) => ingress[EpochOf(g)].event
           /\ \A e \in Replaced(g) : ingress[e].row = "removed"

Execute(g) ==
    /\ runs[g] = "running"
    /\ \/ /\ Public(g) /\ Allocates(EpochOf(g), ingress[EpochOf(g)])
          /\ UNCHANGED runs
       \/ /\ \E e \in Replaced(g) : Removes(e, ingress[e])
          /\ UNCHANGED runs
       \/ /\ Done(g) /\ runs' = [runs EXCEPT ![g] = "succeeded"]
          /\ UNCHANGED ingress
       \/ /\ runs' = [runs EXCEPT ![g] = "failed"]
          /\ UNCHANGED ingress
    /\ UNCHANGED graph

\* The graph a run has led to becomes current.
Commit(g) ==
    /\ runs[g] = "succeeded"
    /\ graph' = g
    /\ UNCHANGED <<runs, ingress>>

----------------------------------------------------------------------------
(* The scenario.                                                            *)

At(at) == driver.at = at
Goto(at) == driver' = [driver EXCEPT !.at = at]

\* Workspace, products, provider and references, the secrets written to the provider,
\* pull authority, delegation key, ingress authority; then the account's inventory.
Register ==
    /\ At("register") /\ Goto("checkpoint")
    /\ baseline' = foreign
    /\ UNCHANGED <<checkpoint, serverVars, late, foreign, interrupted, abort>>

\* Mutant of RecordCheckpoint: the private graph in between is not written down.
RecordCheckpointOfPublic ==
    checkpoint' = IF graph = 2 THEN checkpoint ELSE graph

\* record_checkpoint: a temporary file, and a replacement.
RecordCheckpoint ==
    checkpoint' = graph

\* _checkpoint_cloudflare_phase; the fault an operator asked for strikes after it.
Checkpoint ==
    /\ At("checkpoint")
    /\ RecordCheckpoint
    /\ \/ Goto(IF driver.k = 0 THEN "begin" ELSE "evidence")
       \/ Goto("failed")
    /\ UNCHANGED <<serverVars, late, foreign, baseline, interrupted, abort>>

\* run_approved_transition, up to the run it starts.
Begin ==
    /\ At("begin")
    /\ driver' = [driver EXCEPT !.at = "execute", !.k = @ + 1]
    /\ runs' = [runs EXCEPT ![driver.k + 1] = "running"]
    /\ UNCHANGED <<checkpoint, graph, ingress, late, foreign, baseline, interrupted, abort>>

\* execute_to_completion: effect after effect, until the run has ended.
Effect ==
    /\ At("execute") /\ Execute(driver.k)
    /\ Goto(CASE runs'[driver.k] = "succeeded" -> "advance"
              [] runs'[driver.k] = "failed" -> "failed"
              [] OTHER -> "execute")
    /\ UNCHANGED <<checkpoint, late, foreign, baseline, interrupted, abort>>

\* advance_current_graph; the answer may not be the one expected.
Advance ==
    /\ At("advance") /\ Commit(driver.k)
    /\ Goto("checkpoint") \/ Goto("failed")
    /\ UNCHANGED <<checkpoint, late, foreign, baseline, interrupted, abort>>

Removed(e) == ingress[e].row = "removed"
Revoked(e) == ingress[e].version = "revoked"
Absent(e) == ingress[e].cloud = {}

\* What the scenario asserts after each transition: the epochs' states in the
\* operations database, the removed ones' versions at the provider, their absence at
\* Cloudflare and, at the end, the account as it was found.
Evidence(k) ==
    CASE k = 1 -> ingress[1].connector
      [] k = 2 -> Removed(1) /\ Revoked(1) /\ Absent(1)
      [] k = 3 -> Removed(1) /\ ingress[2].row = "active"
      [] k = 4 -> /\ \A e \in Epoch : Removed(e) /\ Revoked(e) /\ Absent(e)
                  /\ Unchanged

FollowedBy(k) == IF k = Final THEN "passed" ELSE "begin"

AssertEvidence ==
    /\ At("evidence")
    /\ Evidence(driver.k)
    /\ Goto(FollowedBy(driver.k))
    /\ UNCHANGED <<checkpoint, serverVars, late, foreign, baseline, interrupted, abort>>

\* Any call or assertion may raise.  A call that executes the run or advances to its
\* graph, and is given up, may have left cpk-server at work on it.
Raise ==
    /\ driver.at \notin {"passed", "failed"}
    /\ Goto("failed")
    /\ late' \in SUBSET {g \in {driver.k} : driver.at \in {"execute", "advance"}}
    /\ UNCHANGED <<checkpoint, serverVars, foreign, baseline, interrupted, abort>>

Scenario == Register \/ Checkpoint \/ Begin \/ Effect \/ Advance \/ AssertEvidence \/ Raise

----------------------------------------------------------------------------
(* The abort cleanup.                                                       *)

AbortAt(at) == abort.at = at
AbortGoto(at) == abort' = [abort EXCEPT !.at = at]
Exit(how) == abort' = [abort EXCEPT !.at = "ended", !.exit = how]
Reads == UNCHANGED <<driver, checkpoint, serverVars, late, foreign, baseline, interrupted>>

NoCheckpoint == 9
Recorded == {e \in Epoch : ingress[e].row # "none"}
Active == {e \in Recorded : ingress[e].row = "active"}

\* The wrapper starts the cleanup when the scenario has left a state file and an exit
\* status other than 0; a wrapper that was interrupted exits before it has that status.
StartAbort ==
    /\ AbortAt("idle") /\ At("failed")
    /\ IF interrupted \/ checkpoint = NoCheckpoint
          THEN Exit("not attempted")
          ELSE AbortGoto("load") \/ Exit("uncertain")
    /\ Reads

\* A database that does not answer, or a row that cannot be decoded, ends the cleanup.
LoadFails ==
    /\ abort.at \in {"load", "load all"}
    /\ Exit("uncertain")
    /\ Reads

\* _load_exact_owned_ingress_resources; if there are none, a second query for all rows,
\* which there must be unless nothing had been committed.
LoadActive ==
    /\ AbortAt("load")
    /\ abort' = [abort EXCEPT !.at = IF Active = {} THEN "load all" ELSE "evidence",
                              !.active = Active, !.resources = Active]
    /\ Reads

LoadAll ==
    /\ AbortAt("load all")
    /\ IF Recorded = {} /\ checkpoint # 0
          THEN Exit("uncertain")
          ELSE abort' = [abort EXCEPT !.at = "evidence", !.resources = Recorded]
    /\ Reads

\* _load_exact_connector_run_evidence: the run of a resource succeeded and led to the
\* graph of the checkpoint, or it failed after its connector had started.
Accepted(e) == runs[SourceRun(e)] = "succeeded" /\ checkpoint = SourceRun(e)
FailedAfterStart(e) == runs[SourceRun(e)] = "failed" /\ ingress[e].event

\* Mutant of Compensable: every active resource is.
CompensableActive(judged) == judged
Compensable(judged) == {e \in judged : FailedAfterStart(e)}

\* Evidence that cannot be read makes a run uncertain as well.
JudgeEvidence ==
    /\ AbortAt("evidence")
    /\ \E judged \in SUBSET abort.active :
          abort' = [abort EXCEPT !.at = "ready",
                       !.emergency = Compensable(judged),
                       !.uncertain = {e \in abort.active :
                                         \/ e \notin judged
                                         \/ ~Accepted(e) /\ ~FailedAfterStart(e)}]
    /\ Reads

\* Mutant of WaitReady: it asks without a limit to its attempts.
WaitReadyForEver ==
    /\ AbortAt("ready") /\ late = {}
    /\ AbortGoto("begin")
    /\ Reads

\* wait_ready: cpk-server answers health requests on the loop that executes calls, so
\* when it answers the call of the dead scenario is over.  It may also never answer.
WaitReady ==
    /\ AbortAt("ready")
    /\ \/ late = {} /\ AbortGoto("begin")
       \/ AbortGoto("verify")
    /\ Reads

\* A run that removes what the current graph has, if cpk-server admits it.
BeginCleanup ==
    /\ AbortAt("begin")
    /\ AbortGoto("clean")
    /\ runs' = [runs EXCEPT ![Cleanup] = "running"]
    /\ UNCHANGED <<driver, checkpoint, graph, ingress, late, foreign, baseline, interrupted>>

CleanupEffect ==
    /\ AbortAt("clean") /\ Execute(Cleanup)
    /\ AbortGoto(CASE runs'[Cleanup] = "running" -> "clean"
                   [] runs'[Cleanup] = "succeeded" -> "advance"
                   [] OTHER -> "verify")
    /\ UNCHANGED <<driver, checkpoint, late, foreign, baseline, interrupted>>

CleanupAdvance ==
    /\ AbortAt("advance") /\ Commit(Cleanup)
    /\ AbortGoto("verify")
    /\ UNCHANGED <<driver, checkpoint, late, foreign, baseline, interrupted>>

\* authoritative_cleanup raised, and nothing is made of it; cpk-server may still be at
\* work on the call that was given up.
CleanupRaises ==
    /\ abort.at \in {"begin", "clean", "advance"}
    /\ AbortGoto("verify")
    /\ late' \in SUBSET {g \in {Cleanup} : abort.at \in {"clean", "advance"}}
    /\ UNCHANGED <<driver, checkpoint, serverVars, foreign, baseline, interrupted>>

\* verify_authoritative_absence, over the rows as they are now.
AuthoritativelyAbsent ==
    /\ abort.uncertain = {}
    /\ \A e \in Epoch : ~ingress[e].connector
    /\ \A e \in abort.resources : Revoked(e)
    /\ Recorded = {} => checkpoint = 0
    /\ \A e \in Recorded : Removed(e) /\ Absent(e)

VerifyAuthoritative ==
    /\ AbortAt("verify")
    /\ \/ /\ AuthoritativelyAbsent
          /\ abort' = [abort EXCEPT !.at = "inventory", !.authoritative = TRUE]
       \/ AbortGoto("emergency")
    /\ Reads

Stage == {"custody", "connector", "dns", "connections", "tunnel"}

Compensated(e, answered) ==
    [abort EXCEPT !.emergency = @ \ {e}, !.compensated = @ \cup {e},
                  !.failed = @ \/ answered # Stage]

\* _emergency_compensate_cloudflare: each stage is tried, whatever became of the others,
\* and counts as failed when its effect happened and the answer was lost.
Compensate ==
    /\ AbortAt("emergency")
    /\ \E e \in abort.emergency, done \in SUBSET Stage :
          /\ ingress' = [ingress EXCEPT
                ![e].version = IF "custody" \in done THEN "revoked" ELSE @,
                ![e].connector = @ /\ "connector" \notin done,
                ![e].cloud = @ \ done]
          /\ \E answered \in SUBSET done : abort' = Compensated(e, answered)
    /\ UNCHANGED <<driver, checkpoint, graph, runs, late, foreign, baseline, interrupted>>

\* verify_emergency_absence, over the resources as they were loaded.  That each failed
\* connector belongs to one of them holds of what _run_cloudflare_abort_cleanup passes.
PhysicallyAbsent ==
    /\ abort.uncertain = {}
    /\ \A e \in Epoch : ~ingress[e].connector
    /\ \A e \in abort.resources : Revoked(e) /\ Absent(e)

VerifyEmergency ==
    /\ AbortAt("emergency") /\ abort.emergency = {}
    /\ \/ PhysicallyAbsent /\ ~abort.failed /\ abort.compensated # {} /\ AbortGoto("inventory")
       \/ Exit("uncertain")
    /\ Reads

\* Mutant of AccountUnchanged: the account is not looked at.
AccountUnchangedSkipped == TRUE
AccountUnchanged == Unchanged

\* The last check; the exit code is 0, or 2 after an emergency.
AssertInventory ==
    /\ AbortAt("inventory")
    /\ \/ AccountUnchanged /\ Exit(IF abort.authoritative THEN "completed" ELSE "emergency")
       \/ Exit("uncertain")
    /\ Reads

AbortCleanup ==
    \/ StartAbort \/ LoadFails \/ LoadActive \/ LoadAll \/ JudgeEvidence \/ WaitReady
    \/ BeginCleanup \/ CleanupEffect \/ CleanupAdvance \/ CleanupRaises
    \/ VerifyAuthoritative \/ Compensate \/ VerifyEmergency \/ AssertInventory

----------------------------------------------------------------------------

\* A call that was given up goes on having effects until it ends.
LateEffect ==
    /\ \E g \in late :
          \/ Execute(g) /\ late' = IF runs'[g] = "running" THEN late ELSE late \ {g}
          \/ Commit(g) /\ late' = late \ {g}
          \/ UNCHANGED serverVars /\ late' = late \ {g}
    /\ UNCHANGED <<driver, checkpoint, foreign, baseline, interrupted, abort>>

\* INT or TERM reaches the wrapper while it waits for the scenario, which may live on.
Interrupt ==
    /\ ~interrupted /\ driver.at \notin {"passed", "failed"}
    /\ interrupted' = TRUE
    /\ UNCHANGED <<driver, checkpoint, serverVars, late, foreign, baseline, abort>>

\* Somebody else uses the account.
OtherRecord ==
    /\ foreign = 0 /\ foreign' = 1
    /\ driver.at # "register" /\ abort.at # "ended"
    /\ UNCHANGED <<driver, checkpoint, serverVars, late, baseline, interrupted, abort>>

Init ==
    /\ driver = [at |-> "register", k |-> 0]
    /\ checkpoint = NoCheckpoint
    /\ graph = 0
    /\ runs = [g \in Graph |-> "none"]
    /\ ingress = [e \in Epoch |-> Unallocated]
    /\ late = {} /\ foreign = 0 /\ baseline = 0 /\ interrupted = FALSE
    /\ abort = [at |-> "idle", active |-> {}, resources |-> {}, emergency |-> {},
                uncertain |-> {}, compensated |-> {}, failed |-> FALSE,
                authoritative |-> FALSE, exit |-> "none"]

\* A scenario that passed, or whose abort cleanup is over, has no further step.
Ended == At("passed") \/ abort.at = "ended"
Terminated == Ended /\ UNCHANGED vars

Next ==
    Scenario \/ AbortCleanup \/ LateEffect \/ Interrupt \/ OtherRecord \/ Terminated

\* Both processes go on while they have a step: every call they make ends in an answer
\* or in a timeout.
Spec == Init /\ [][Next]_vars /\ WF_vars(Scenario) /\ WF_vars(AbortCleanup)

----------------------------------------------------------------------------
(* Properties.                                                              *)

\* Every variable keeps to its values: the scenario makes no transition beyond its
\* fourth, and the cleanup leaves in one of the ways the code has.
Driver == [at : {"register", "checkpoint", "begin", "execute", "advance", "evidence",
                 "passed", "failed"},
           k : 0 .. Final]
Status == {"none", "running", "succeeded", "failed"}
Allocation == [cloud : SUBSET {"tunnel", "dns"}, version : {"none", "stored", "revoked"},
               row : {"none", "active", "removed"}, connector : BOOLEAN, event : BOOLEAN]
Abort == [at : {"idle", "load", "load all", "evidence", "ready", "begin", "clean", "advance",
                "verify", "emergency", "inventory", "ended"},
          active : SUBSET Epoch, resources : SUBSET Epoch, emergency : SUBSET Epoch,
          uncertain : SUBSET Epoch, compensated : SUBSET Epoch,
          failed : BOOLEAN, authoritative : BOOLEAN,
          exit : {"none", "not attempted", "uncertain", "completed", "emergency"}]

TypeOK ==
    /\ driver \in Driver
    /\ checkpoint \in (0 .. Final) \cup {NoCheckpoint}
    /\ graph \in Graph
    /\ runs \in [Graph -> Status]
    /\ ingress \in [Epoch -> Allocation]
    /\ late \in SUBSET Graph /\ foreign \in 0 .. 1 /\ baseline \in 0 .. 1
    /\ interrupted \in BOOLEAN
    /\ abort \in Abort

\* _checkpoint_cloudflare_phase: whenever the scenario dies, the state file names the
\* graph that is current, or the one before it when death fell between the commit and
\* the checkpoint.
CheckpointBehind ==
    checkpoint # NoCheckpoint /\ graph # Cleanup => graph \in {checkpoint, checkpoint + 1}

\* compensate_abort's emergency: an ingress the current graph has is never torn down
\* behind cpk-server's back, whatever it was found in and however the calls interleave.
CurrentIngressSpared ==
    Public(graph) => EpochOf(graph) \notin abort.compensated

\* The cleanup ends without an error, authoritative or not, only when nothing is left of
\* any allocation, also of one that was never recorded, and every recorded token version
\* is revoked; calls that were given up, the scenario's and the cleanup's own, may still
\* be at work meanwhile.
CleanExitMeansGone ==
    [][abort.exit # abort'.exit /\ abort'.exit \in {"completed", "emergency"} =>
          \A e \in Epoch :
             /\ Absent(e)
             /\ ~ingress[e].connector
             /\ ingress[e].row # "none" => Revoked(e)]_vars

\* Whatever fails, unless the wrapper is interrupted and so never starts the cleanup, the
\* scenario passes or its abort cleanup comes to an end.
CustodyEnds == <>(interrupted \/ At("passed") \/ abort.at = "ended")
=============================================================================
