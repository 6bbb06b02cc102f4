-------------------------- MODULE IngressCustodyProofs --------------------------
(***************************************************************************)
(* What holds of the custody scenario and its abort cleanup in every       *)
(* behaviour: how far the checkpoint may lag behind, that the compensation *)
(* spares what the current graph has, and that a cleanup which ends        *)
(* cleanly leaves nothing of an allocation.                                *)
(***************************************************************************)
EXTENDS IngressCustody, TLAPS

\* Where the scenario is tells how graph, checkpoint and transition number are related;
\* what it died in is still ahead of the graph.
Whereabouts ==
    /\ At("register") => checkpoint = NoCheckpoint /\ graph = 0 /\ driver.k = 0
    /\ At("checkpoint") =>
          /\ graph = driver.k
          /\ IF checkpoint = NoCheckpoint THEN graph = 0 ELSE graph = checkpoint + 1
    /\ driver.at \in {"begin", "evidence", "passed"} => graph = driver.k /\ checkpoint = graph
    /\ At("begin") => driver.k # Final
    /\ driver.at \in {"execute", "advance"} \/ driver.k \in late
       => graph + 1 = driver.k /\ checkpoint = graph

\* The cleanup runs, and a call is late, only once the scenario has failed; the scenario's
\* call is over before the cleanup's own begin.
AfterFailure ==
    /\ abort.at # "idle" \/ late # {} => At("failed")
    /\ late \subseteq {driver.k, Cleanup}
    /\ abort.at \in {"idle", "begin", "clean", "advance"} => Cleanup \notin late
    /\ abort.at \in {"begin", "clean", "advance"} \/ Cleanup \in late => driver.k \notin late
    /\ abort.at = "idle" => abort.emergency = {} /\ abort.compensated = {}

\* A graph with a public ingress was committed by a run that succeeded.
CommittedSucceeded == Public(graph) => runs[graph] = "succeeded"

\* What is to be compensated, or was, belongs to a run that failed.
CompensatedFailed ==
    \A e \in abort.emergency \cup abort.compensated : runs[SourceRun(e)] = "failed"

\* The inductive invariant.
IInv == /\ TypeOK
        /\ CheckpointBehind
        /\ Whereabouts
        /\ AfterFailure
        /\ CommittedSucceeded
        /\ CompensatedFailed

----------------------------------------------------------------------------

\* A scenario stays well formed as it moves on.
LEMMA DriverMoves ==
    ASSUME driver \in Driver,
           NEW to \in {"register", "checkpoint", "begin", "execute", "advance", "evidence",
                       "passed", "failed"},
           Goto(to)
    PROVE  driver' \in Driver /\ driver'.at = to /\ driver'.k = driver.k
  BY DEF Driver, Goto

\* So does a cleanup; what it has to compensate and has compensated stays.
LEMMA AbortMoves ==
    ASSUME abort \in Abort,
           NEW to \in {"load", "load all", "evidence", "ready", "begin", "clean", "advance",
                       "verify", "emergency", "inventory", "ended"},
           AbortGoto(to)
    PROVE  /\ abort' \in Abort
           /\ abort'.at = to
           /\ abort'.emergency = abort.emergency
           /\ abort'.compensated = abort.compensated
  BY DEF Abort, AbortGoto

\* A cleanup that exits is well formed too.
LEMMA AbortExits ==
    ASSUME abort \in Abort,
           NEW how \in {"not attempted", "uncertain", "completed", "emergency"},
           Exit(how)
    PROVE  /\ abort' \in Abort
           /\ abort'.at = "ended"
           /\ abort'.emergency = abort.emergency
           /\ abort'.compensated = abort.compensated
  BY DEF Abort, Exit

\* An allocation and a removal leave an allocation.
LEMMA AllocatesTyped ==
    ASSUME ingress \in [Epoch -> Allocation], NEW e \in Epoch, Allocates(e, ingress[e])
    PROVE  ingress' \in [Epoch -> Allocation]
<1>1. \A i \in Allocation :
         /\ [i EXCEPT !.cloud = {"tunnel"}] \in Allocation
         /\ [i EXCEPT !.cloud = {"tunnel", "dns"}, !.version = "stored"] \in Allocation
         /\ [i EXCEPT !.row = "active"] \in Allocation
         /\ [i EXCEPT !.connector = TRUE] \in Allocation
         /\ [i EXCEPT !.event = TRUE] \in Allocation
  BY DEF Allocation
<1>2. ingress[e] \in Allocation
  OBVIOUS
<1>3. PICK j \in Allocation : ingress' = [ingress EXCEPT ![e] = j]
  BY <1>1, <1>2 DEF Allocates
<1> QED BY <1>3

\* Removal leaves an allocation an allocation.
LEMMA RemovesTyped ==
    ASSUME ingress \in [Epoch -> Allocation], NEW e \in Epoch, Removes(e, ingress[e])
    PROVE  ingress' \in [Epoch -> Allocation]
<1>1. ASSUME NEW i \in Allocation
      PROVE  /\ [i EXCEPT !.connector = FALSE] \in Allocation
             /\ \A c \in i.cloud : [i EXCEPT !.cloud = i.cloud \ {c}] \in Allocation
             /\ \A v \in {i.version, "revoked"} :
                   [i EXCEPT !.version = v, !.row = "removed"] \in Allocation
  BY DEF Allocation
<1>2. ingress[e] \in Allocation
  OBVIOUS
<1>3. PICK j \in Allocation : ingress' = [ingress EXCEPT ![e] = j]
  BY <1>1, <1>2 DEF Removes
<1> QED BY <1>3

\* A run that has ended stays as it ended.
LEMMA ExecuteKeeps ==
    ASSUME TypeOK, NEW g \in Graph, Execute(g)
    PROVE  /\ ingress' \in [Epoch -> Allocation]
           /\ runs' \in [Graph -> Status]
           /\ graph' = graph
           /\ \A h \in Graph : runs[h] \in {"succeeded", "failed"} => runs'[h] = runs[h]
<1> USE DEF TypeOK
<1>1. graph' = graph /\ runs[g] = "running"
  BY DEF Execute
<1>2. CASE Public(g) /\ Allocates(EpochOf(g), ingress[EpochOf(g)]) /\ UNCHANGED runs
  <2>1. EpochOf(g) \in Epoch
    BY DEF EpochOf, Epoch
  <2> QED BY <1>1, <1>2, <2>1, AllocatesTyped
<1>3. CASE (\E e \in Replaced(g) : Removes(e, ingress[e])) /\ UNCHANGED runs
  <2>1. Replaced(g) \subseteq Epoch
    BY DEF Replaced, EpochOf, Epoch
  <2> QED BY <1>1, <1>3, <2>1, RemovesTyped
<1>4. ASSUME NEW s \in {"succeeded", "failed"}, runs' = [runs EXCEPT ![g] = s], UNCHANGED ingress
      PROVE  /\ ingress' \in [Epoch -> Allocation]
             /\ runs' \in [Graph -> Status]
             /\ \A h \in Graph : runs[h] \in {"succeeded", "failed"} => runs'[h] = runs[h]
  BY <1>1, <1>4 DEF Status
<1> QED BY <1>1, <1>2, <1>3, <1>4 DEF Execute

\* The run of an allocation is the one to the graph that needs it.
LEMMA CurrentEpoch ==
    ASSUME NEW g, Public(g)
    PROVE  SourceRun(EpochOf(g)) = g /\ g \in Graph
  BY DEF Public, SourceRun, EpochOf, Graph

\* What the database and Cloudflare hold of an allocation, field by field.
LEMMA AllocationRecord ==
    ASSUME NEW c \in SUBSET {"tunnel", "dns"}, NEW v \in {"none", "stored", "revoked"},
           NEW r \in {"none", "active", "removed"}, NEW b \in BOOLEAN, NEW d \in BOOLEAN
    PROVE  [cloud |-> c, version |-> v, row |-> r, connector |-> b, event |-> d]
               \in Allocation
  BY DEF Allocation

\* An allocation begins with nothing of it.
LEMMA UnallocatedTyped == Unallocated \in Allocation
<1> DEFINE nothing == {}
<1>1. nothing \in SUBSET {"tunnel", "dns"}
  OBVIOUS
<1>2. Unallocated = [cloud |-> nothing, version |-> "none", row |-> "none",
                     connector |-> FALSE, event |-> FALSE]
  BY DEF Unallocated
<1> HIDE DEF nothing
<1> QED BY <1>1, <1>2, AllocationRecord

\* Nothing has happened yet.
LEMMA InitIInv == Init => IInv
<1> SUFFICES ASSUME Init PROVE IInv
  OBVIOUS
<1>1. TypeOK
  <2>1. driver \in Driver
    BY DEF Init, Driver, Final
  <2>2. abort \in Abort
    BY DEF Init, Abort
  <2>3. Unallocated \in Allocation
    BY UnallocatedTyped
  <2>4. ingress \in [Epoch -> Allocation]
    BY ONLY <2>3, Init DEF Init
  <2>5. runs \in [Graph -> Status]
    BY DEF Init, Status
  <2>6. graph \in Graph /\ checkpoint \in (0 .. Final) \cup {NoCheckpoint}
    BY DEF Init, Graph
  <2>7. interrupted \in BOOLEAN
    BY ONLY Init, Zenon DEF Init
  <2>8. late \in SUBSET Graph /\ foreign \in 0 .. 1 /\ baseline \in 0 .. 1
    BY DEF Init
  <2> QED BY ONLY <2>1, <2>2, <2>4, <2>5, <2>6, <2>7, <2>8 DEF TypeOK
<1>2. CheckpointBehind /\ Whereabouts
  BY DEF Init, CheckpointBehind, Whereabouts, At
<1>3. AfterFailure /\ CommittedSucceeded /\ CompensatedFailed
  BY DEF Init, AfterFailure, CommittedSucceeded, CompensatedFailed, Public, At
<1> QED BY ONLY <1>1, <1>2, <1>3 DEF IInv

----------------------------------------------------------------------------
(* The scenario.                                                            *)

\* While the scenario goes on there is no cleanup, and no call that was given up.
LEMMA NoCleanupYet ==
    ASSUME IInv, ~At("failed"), UNCHANGED abort, driver' \in Driver,
           late' = late \/ (driver'.at = "failed" /\ late' \subseteq {driver'.k})
    PROVE  late = {} /\ late' \in SUBSET Graph /\ AfterFailure' /\ CompensatedFailed'
<1>1. late = {} /\ abort.at = "idle" /\ abort.emergency = {} /\ abort.compensated = {}
  BY DEF IInv, AfterFailure
<1>2. driver'.k \in Graph /\ driver'.k # Cleanup
  BY DEF Driver, Graph, Final, Cleanup
<1>3. late' \subseteq {driver'.k} /\ (late' # {} => driver'.at = "failed")
  BY <1>1
<1>4. AfterFailure'
  BY <1>1, <1>2, <1>3 DEF AfterFailure, At
<1> QED BY <1>1, <1>2, <1>3, <1>4 DEF CompensatedFailed

\* The workspace's first graph is 0, and nothing is checkpointed yet.
LEMMA RegisterIInv == IInv /\ Register => IInv'
<1> SUFFICES ASSUME IInv, Register PROVE IInv'
  OBVIOUS
<1> USE DEF IInv, Register
<1>1. driver' \in Driver /\ driver'.at = "checkpoint" /\ driver'.k = driver.k
  BY DriverMoves DEF TypeOK
<1>2. /\ checkpoint = NoCheckpoint /\ graph = 0 /\ driver.k = 0 /\ driver.at = "register"
      /\ UNCHANGED <<checkpoint, graph, runs, ingress, late, foreign, interrupted, abort>>
  BY DEF Whereabouts, At, serverVars
<1>3. TypeOK'
  BY <1>1, <1>2 DEF TypeOK
<1>4. late = {} /\ AfterFailure' /\ CompensatedFailed'
  BY <1>1, <1>2, NoCleanupYet DEF At
<1>5. CheckpointBehind' /\ Whereabouts' /\ CommittedSucceeded'
  BY ONLY <1>1, <1>2, <1>4 DEF CheckpointBehind, Whereabouts, CommittedSucceeded, Public, At
<1> QED BY ONLY <1>3, <1>4, <1>5 DEF IInv

\* The state file catches up with the graph.
LEMMA CheckpointIInv == IInv /\ Checkpoint => IInv'
<1> SUFFICES ASSUME IInv, Checkpoint PROVE IInv'
  OBVIOUS
<1> USE DEF IInv, Checkpoint
<1>1. /\ driver' \in Driver /\ driver'.k = driver.k
      /\ \/ driver'.at = "begin" /\ driver.k = 0
         \/ driver'.at \in {"evidence", "failed"}
  BY DriverMoves DEF TypeOK
<1>2. /\ graph = driver.k /\ driver.at = "checkpoint" /\ checkpoint' = graph
      /\ UNCHANGED <<graph, runs, ingress, late, foreign, baseline, interrupted, abort>>
  BY DEF Whereabouts, At, serverVars, RecordCheckpoint
<1>3. driver.k \in 0 .. Final /\ graph # NoCheckpoint
  BY <1>2 DEF TypeOK, Driver, Graph, NoCheckpoint
<1>4. TypeOK'
  BY <1>1, <1>2, <1>3 DEF TypeOK
<1>5. late = {} /\ AfterFailure' /\ CompensatedFailed'
  BY <1>1, <1>2, NoCleanupYet DEF At
<1>6. CheckpointBehind' /\ Whereabouts'
  BY ONLY <1>1, <1>2, <1>3, <1>5 DEF CheckpointBehind, Whereabouts, At, Final
<1>7. CommittedSucceeded'
  BY <1>1, <1>2 DEF CommittedSucceeded, Public, At
<1> QED BY ONLY <1>4, <1>5, <1>6, <1>7 DEF IInv

\* The next transition gets its number before it commits anything.
LEMMA BeginIInv == IInv /\ Begin => IInv'
<1> SUFFICES ASSUME IInv, Begin PROVE IInv'
  OBVIOUS
<1> USE DEF IInv, Begin
<1>1. /\ graph = driver.k /\ checkpoint = graph /\ driver.k \in 0 .. 3
      /\ driver.at = "begin"
  BY DEF Whereabouts, TypeOK, Driver, At, Final
<1>2. driver' \in Driver /\ driver'.at = "execute" /\ driver'.k = driver.k + 1
  <2>1. driver' = [driver EXCEPT !.at = "execute", !.k = driver.k + 1]
    OBVIOUS
  <2>2. driver \in Driver /\ driver.k + 1 \in 0 .. Final
    BY <1>1 DEF TypeOK, Final
  <2> QED BY ONLY <2>1, <2>2 DEF Driver
<1>3. /\ runs' = [runs EXCEPT ![driver.k + 1] = "running"]
      /\ UNCHANGED <<checkpoint, graph, ingress, late, foreign, baseline, interrupted, abort>>
  OBVIOUS
<1>4. TypeOK'
  BY <1>1, <1>2, <1>3 DEF TypeOK, Graph, Status
<1>5. late = {} /\ AfterFailure' /\ CompensatedFailed'
  BY <1>1, <1>2, <1>3, NoCleanupYet DEF At
<1>6. CheckpointBehind' /\ Whereabouts'
  BY ONLY <1>1, <1>2, <1>3, <1>5 DEF CheckpointBehind, Whereabouts, At
<1>7. CommittedSucceeded'
  BY <1>1, <1>2, <1>3 DEF CommittedSucceeded, Public, At, TypeOK, Graph
<1> QED BY ONLY <1>4, <1>5, <1>6, <1>7 DEF IInv

\* Effects of a run move no graph.
LEMMA EffectIInv == IInv /\ Effect => IInv'
<1> SUFFICES ASSUME IInv, Effect PROVE IInv'
  OBVIOUS
<1> USE DEF IInv, Effect
<1>1. /\ graph + 1 = driver.k /\ checkpoint = graph /\ driver.at = "execute"
      /\ driver.k \in Graph
  BY DEF Whereabouts, TypeOK, Driver, At, Final, Graph
<1>2. /\ driver' \in Driver /\ driver'.k = driver.k
      /\ \/ driver'.at = "advance" /\ runs'[driver.k] = "succeeded"
         \/ driver'.at \in {"failed", "execute"}
  BY DriverMoves DEF TypeOK
<1>3. UNCHANGED <<checkpoint, late, foreign, baseline, interrupted, abort>>
  OBVIOUS
<1>4. /\ ingress' \in [Epoch -> Allocation]
      /\ runs' \in [Graph -> Status]
      /\ graph' = graph
      /\ \A h \in Graph : runs[h] \in {"succeeded", "failed"} => runs'[h] = runs[h]
  BY <1>1, ExecuteKeeps
<1>5. TypeOK'
  BY <1>2, <1>3, <1>4 DEF TypeOK
<1>6. late = {} /\ AfterFailure' /\ CompensatedFailed'
  BY <1>1, <1>2, <1>3, NoCleanupYet DEF At
<1>7. CheckpointBehind' /\ Whereabouts'
  <2>1. CheckpointBehind
    OBVIOUS
  <2> QED BY ONLY <1>1, <1>2, <1>3, <1>4, <1>6, <2>1
              DEF CheckpointBehind, Whereabouts, At
<1>8. CommittedSucceeded'
  BY <1>2, <1>4, CurrentEpoch DEF CommittedSucceeded, At
<1> QED BY ONLY <1>5, <1>6, <1>7, <1>8 DEF IInv

\* Only a run that succeeded is committed.
LEMMA AdvanceIInv == IInv /\ Advance => IInv'
<1> SUFFICES ASSUME IInv, Advance PROVE IInv'
  OBVIOUS
<1> USE DEF IInv, Advance
<1>1. /\ graph + 1 = driver.k /\ checkpoint = graph /\ driver.at = "advance"
      /\ driver.k \in 1 .. 4 /\ runs[driver.k] = "succeeded" /\ graph \in 0 .. 3
  BY DEF Whereabouts, Commit, TypeOK, Driver, Graph, At, Final
<1>2. /\ driver' \in Driver /\ driver'.k = driver.k
      /\ driver'.at \in {"checkpoint", "failed"}
  BY DriverMoves DEF TypeOK
<1>3. /\ graph' = driver.k
      /\ UNCHANGED <<checkpoint, runs, ingress, late, foreign, baseline, interrupted, abort>>
  BY DEF Commit
<1>4. TypeOK'
  BY <1>1, <1>2, <1>3 DEF TypeOK, Graph
<1>5. late = {} /\ AfterFailure' /\ CompensatedFailed'
  BY <1>1, <1>2, <1>3, NoCleanupYet DEF At
<1>6. /\ CheckpointBehind' /\ Whereabouts' /\ CommittedSucceeded'
  BY ONLY <1>1, <1>2, <1>3, <1>5 DEF CheckpointBehind, Whereabouts, CommittedSucceeded,
     At, NoCheckpoint
<1> QED BY ONLY <1>4, <1>5, <1>6 DEF IInv

\* The scenario goes on, or passes.
LEMMA AssertEvidenceIInv == IInv /\ AssertEvidence => IInv'
<1> SUFFICES ASSUME IInv, AssertEvidence PROVE IInv'
  OBVIOUS
<1> USE DEF IInv, AssertEvidence
<1>1. graph = driver.k /\ checkpoint = graph /\ driver.at = "evidence"
  BY DEF Whereabouts, At
<1>2. /\ driver' \in Driver /\ driver'.k = driver.k
      /\ \/ driver'.at = "passed" /\ driver.k = Final
         \/ driver'.at = "begin" /\ driver.k # Final
  BY DriverMoves DEF TypeOK, FollowedBy
<1>3. UNCHANGED <<checkpoint, graph, runs, ingress, late, foreign, baseline, interrupted, abort>>
  BY DEF serverVars
<1>4. TypeOK'
  BY <1>2, <1>3 DEF TypeOK
<1>5. late = {} /\ AfterFailure' /\ CompensatedFailed'
  BY <1>1, <1>2, <1>3, NoCleanupYet DEF At
<1>6. CheckpointBehind' /\ Whereabouts' /\ CommittedSucceeded'
  <2>1. CheckpointBehind /\ CommittedSucceeded
    OBVIOUS
  <2> QED BY ONLY <1>1, <1>2, <1>3, <1>5, <2>1
              DEF CheckpointBehind, Whereabouts, CommittedSucceeded, Public, At
<1> QED BY ONLY <1>4, <1>5, <1>6 DEF IInv

\* A failure leaves everything where it is; a call it gives up leads on from the graph.
LEMMA RaiseIInv == IInv /\ Raise => IInv'
<1> SUFFICES ASSUME IInv, Raise PROVE IInv'
  OBVIOUS
<1>1. driver' \in Driver /\ driver'.at = "failed" /\ driver'.k = driver.k
  BY DriverMoves DEF Raise, IInv, TypeOK
<1>2. /\ UNCHANGED <<checkpoint, graph, runs, ingress, foreign, baseline, interrupted, abort>>
      /\ late' \subseteq {driver.k} /\ driver.at # "failed"
      /\ driver.k \in late' => driver.at \in {"execute", "advance"}
  BY DEF Raise, serverVars
<1>3. AfterFailure' /\ CompensatedFailed' /\ late' \in SUBSET Graph
  BY <1>1, <1>2, NoCleanupYet DEF At
<1>4. TypeOK'
  BY <1>1, <1>2, <1>3 DEF IInv, TypeOK
<1>5. driver.k \in late' => graph + 1 = driver.k /\ checkpoint = graph
  BY <1>2 DEF IInv, Whereabouts
<1>6. CheckpointBehind' /\ Whereabouts' /\ CommittedSucceeded'
  <2>1. CheckpointBehind /\ CommittedSucceeded
    BY DEF IInv
  <2> QED BY ONLY <1>1, <1>2, <1>5, <2>1 DEF CheckpointBehind, Whereabouts,
              CommittedSucceeded, Public, At
<1> QED BY ONLY <1>3, <1>4, <1>6 DEF IInv

----------------------------------------------------------------------------
(* The cleanup, and cpk-server beside it.                                   *)

\* A dead scenario neither moves nor claims anything.
LEMMA ScenarioDead ==
    ASSUME IInv, At("failed"), UNCHANGED <<driver, checkpoint>>, abort'.at # "idle",
           late' \subseteq late \cup {Cleanup},
           abort'.at \in {"begin", "clean", "advance"} => late' = {},
           Cleanup \in late' => driver.k \notin late',
           graph' = graph \/ (graph' = Cleanup /\ driver.k \notin late')
    PROVE  CheckpointBehind' /\ Whereabouts' /\ AfterFailure'
<1>1. CheckpointBehind'
  BY DEF IInv, CheckpointBehind
<1>2. AfterFailure'
  BY DEF IInv, AfterFailure, At
<1>3. driver.k # Cleanup
  BY DEF IInv, TypeOK, Driver, Final, Cleanup
<1>4. driver.k \in late' => graph' = graph /\ graph + 1 = driver.k /\ checkpoint = graph
  BY <1>3 DEF IInv, Whereabouts
<1> QED BY <1>1, <1>2, <1>4 DEF Whereabouts, At

\* Runs that have ended stay so, and with them what is known of graph and compensation.
LEMMA RunsKept ==
    ASSUME IInv, At("failed"), UNCHANGED <<driver, graph>>,
           abort'.emergency \subseteq {e \in Epoch : runs[SourceRun(e)] = "failed"},
           abort'.compensated \subseteq {e \in Epoch : runs[SourceRun(e)] = "failed"},
           \A h \in Graph \ {Cleanup} :
              runs[h] \in {"succeeded", "failed"} => runs'[h] = runs[h]
    PROVE  CommittedSucceeded' /\ CompensatedFailed'
<1>1. CommittedSucceeded'
  BY DEF IInv, CommittedSucceeded, Public, At, Graph, Cleanup
<1>2. \A e : SourceRun(e) \in Graph \ {Cleanup}
  BY DEF SourceRun, Graph, Cleanup
<1> QED BY <1>1, <1>2 DEF CompensatedFailed

\* The part of the cleanup that reads and goes on.
LEMMA ReadsIInv ==
    ASSUME IInv, At("failed"), Reads, abort' \in Abort, abort'.at # "idle",
           abort'.emergency \subseteq {e \in Epoch : runs[SourceRun(e)] = "failed"},
           abort'.compensated = abort.compensated,
           abort'.at \in {"begin", "clean", "advance"} => late = {}
    PROVE  IInv'
<1>1. UNCHANGED <<driver, checkpoint, graph, runs, ingress, late, foreign, baseline, interrupted>>
  BY DEF Reads, serverVars
<1>2. TypeOK'
  BY <1>1 DEF IInv, TypeOK
<1>3. abort'.compensated \subseteq {e \in Epoch : runs[SourceRun(e)] = "failed"}
  BY DEF IInv, TypeOK, Abort, CompensatedFailed
<1>4. Cleanup \in late => driver.k \notin late
  BY DEF IInv, AfterFailure
<1> QED BY <1>1, <1>2, <1>3, <1>4, ScenarioDead, RunsKept DEF IInv

\* What was known of the resources to compensate.
LEMMA EmergencyFailed ==
    ASSUME IInv
    PROVE  abort.emergency \cup abort.compensated
              \subseteq {e \in Epoch : runs[SourceRun(e)] = "failed"}
  BY DEF IInv, TypeOK, Abort, CompensatedFailed

\* The cleanup begins with nothing chosen.
LEMMA StartAbortIInv == IInv /\ StartAbort => IInv'
<1> SUFFICES ASSUME IInv, StartAbort PROVE IInv'
  OBVIOUS
<1>1. abort \in Abort
  BY DEF IInv, TypeOK
<1>2. /\ abort' \in Abort /\ abort'.at # "idle"
      /\ abort'.emergency = abort.emergency /\ abort'.compensated = abort.compensated
      /\ abort'.at \in {"load", "ended"}
  BY <1>1, AbortMoves, AbortExits DEF StartAbort
<1> QED BY <1>2, EmergencyFailed, ReadsIInv DEF StartAbort

\* Loading, waiting, verifying and the inventory choose nothing to compensate.
LEMMA QuietIInv ==
    ASSUME IInv,
           LoadFails \/ LoadActive \/ LoadAll \/ WaitReady \/ VerifyAuthoritative
              \/ VerifyEmergency \/ AssertInventory
    PROVE  IInv'
<1>1. abort \in Abort /\ abort.at # "idle" /\ Reads
  BY DEF IInv, TypeOK, AbortAt, LoadFails, LoadActive, LoadAll, WaitReady,
     VerifyAuthoritative, VerifyEmergency, AssertInventory
<1>2. At("failed")
  BY <1>1 DEF IInv, AfterFailure
<1>3. Active \in SUBSET Epoch /\ Recorded \in SUBSET Epoch
  BY DEF Active, Recorded
<1>4. /\ abort' \in Abort /\ abort'.at # "idle"
      /\ abort'.emergency = abort.emergency /\ abort'.compensated = abort.compensated
      /\ abort'.at \in {"begin", "clean", "advance"} => late = {}
  <2>1. CASE LoadActive
    BY <1>1, <1>3, <2>1 DEF LoadActive, Abort
  <2>2. CASE LoadAll
    <3>1. CASE Exit("uncertain")
      BY <1>1, <3>1, AbortExits
    <3>2. CASE abort' = [abort EXCEPT !.at = "evidence", !.resources = Recorded]
      BY <1>1, <1>3, <3>2 DEF Abort
    <3> QED BY <2>2, <3>1, <3>2 DEF LoadAll
  <2>3. CASE LoadFails \/ WaitReady
    BY <1>1, <2>3, AbortMoves, AbortExits DEF LoadFails, WaitReady
  <2>4. CASE VerifyAuthoritative
    <3>1. CASE AbortGoto("emergency")
      BY <1>1, <3>1, AbortMoves
    <3>2. CASE abort' = [abort EXCEPT !.at = "inventory", !.authoritative = TRUE]
      BY <1>1, <3>2 DEF Abort
    <3> QED BY <2>4, <3>1, <3>2 DEF VerifyAuthoritative
  <2>5. CASE VerifyEmergency \/ AssertInventory
    BY <1>1, <2>5, AbortMoves, AbortExits DEF VerifyEmergency, AssertInventory
  <2> QED BY <2>1, <2>2, <2>3, <2>4, <2>5
<1> QED BY <1>1, <1>2, <1>4, EmergencyFailed, ReadsIInv

\* Only resources of failed runs are chosen.
LEMMA JudgeEvidenceIInv == IInv /\ JudgeEvidence => IInv'
<1> SUFFICES ASSUME IInv, JudgeEvidence PROVE IInv'
  OBVIOUS
<1>1. abort \in Abort /\ At("failed")
  BY DEF IInv, TypeOK, AfterFailure, JudgeEvidence, AbortAt
<1>2. PICK judged \in SUBSET abort.active :
         abort' = [abort EXCEPT !.at = "ready",
                      !.emergency = Compensable(judged),
                      !.uncertain = {e \in abort.active :
                                        \/ e \notin judged
                                        \/ ~Accepted(e) /\ ~FailedAfterStart(e)}]
  BY DEF JudgeEvidence
<1>3. /\ Compensable(judged) \in SUBSET Epoch
      /\ Compensable(judged) \subseteq {e \in Epoch : runs[SourceRun(e)] = "failed"}
  BY <1>1 DEF Compensable, FailedAfterStart, Abort
<1>4. {e \in abort.active : e \notin judged \/ (~Accepted(e) /\ ~FailedAfterStart(e))}
         \in SUBSET Epoch
  BY <1>1 DEF Abort
<1>5. /\ abort' \in Abort /\ abort'.at = "ready"
      /\ abort'.emergency = Compensable(judged)
      /\ abort'.compensated = abort.compensated
  BY <1>1, <1>2, <1>3, <1>4 DEF Abort
<1> QED BY <1>1, <1>3, <1>5, ReadsIInv DEF JudgeEvidence

\* The cleanup's own run leaves those of the scenario.
LEMMA CleanupRunIInv ==
    ASSUME IInv, BeginCleanup \/ CleanupEffect
    PROVE  IInv'
<1>1. abort \in Abort /\ abort.at # "idle"
  BY DEF IInv, TypeOK, AbortAt, BeginCleanup, CleanupEffect
<1>2. At("failed")
  BY <1>1 DEF IInv, AfterFailure
<1>3. /\ abort' \in Abort /\ abort'.at # "idle"
      /\ abort'.emergency = abort.emergency /\ abort'.compensated = abort.compensated
  BY <1>1, AbortMoves DEF BeginCleanup, CleanupEffect
<1>4. /\ UNCHANGED <<driver, checkpoint, graph, late, foreign, baseline, interrupted>>
      /\ ingress' \in [Epoch -> Allocation]
      /\ runs' \in [Graph -> Status]
      /\ \A h \in Graph \ {Cleanup} :
            runs[h] \in {"succeeded", "failed"} => runs'[h] = runs[h]
  <2>1. CASE BeginCleanup
    BY <2>1 DEF BeginCleanup, IInv, TypeOK, Status, Graph, Cleanup
  <2>2. CASE CleanupEffect
    <3>1. Cleanup \in Graph
      BY DEF Cleanup, Graph
    <3> QED BY <2>2, <3>1, ExecuteKeeps DEF CleanupEffect, IInv
  <2> QED BY <2>1, <2>2
<1>5. TypeOK'
  BY <1>3, <1>4 DEF IInv, TypeOK
<1>6. late = {}
  BY DEF BeginCleanup, CleanupEffect, AbortAt, IInv, AfterFailure
<1> QED BY <1>2, <1>3, <1>4, <1>5, <1>6, EmergencyFailed, ScenarioDead, RunsKept DEF IInv

\* A call that is given up may be the cleanup's.
LEMMA CleanupRaisesIInv == IInv /\ CleanupRaises => IInv'
<1> SUFFICES ASSUME IInv, CleanupRaises PROVE IInv'
  OBVIOUS
<1>1. /\ abort \in Abort /\ At("failed") /\ late' \subseteq {Cleanup}
      /\ UNCHANGED <<driver, checkpoint, graph, runs, ingress, foreign, baseline, interrupted>>
  BY DEF CleanupRaises, IInv, TypeOK, AfterFailure, serverVars
<1>2. /\ abort' \in Abort /\ abort'.at = "verify"
      /\ abort'.emergency = abort.emergency /\ abort'.compensated = abort.compensated
  BY <1>1, AbortMoves DEF CleanupRaises
<1>3. driver.k # Cleanup /\ Cleanup \in Graph
  BY DEF IInv, TypeOK, Driver, Final, Cleanup, Graph
<1>4. TypeOK'
  BY <1>1, <1>2, <1>3 DEF IInv, TypeOK
<1> QED BY <1>1, <1>2, <1>3, <1>4, EmergencyFailed, ScenarioDead, RunsKept DEF IInv

\* The cleanup's own graph is not public.
LEMMA CleanupAdvanceIInv == IInv /\ CleanupAdvance => IInv'
<1> SUFFICES ASSUME IInv, CleanupAdvance PROVE IInv'
  OBVIOUS
<1>1. /\ abort \in Abort /\ At("failed") /\ graph' = Cleanup /\ late = {}
      /\ UNCHANGED <<driver, checkpoint, runs, ingress, late, foreign, baseline, interrupted>>
  BY DEF IInv, TypeOK, AfterFailure, CleanupAdvance, Commit, AbortAt
<1>2. /\ abort' \in Abort /\ abort'.at # "idle"
      /\ abort'.emergency = abort.emergency /\ abort'.compensated = abort.compensated
  BY <1>1, AbortMoves DEF CleanupAdvance
<1>3. TypeOK'
  BY <1>1, <1>2 DEF IInv, TypeOK, Graph, Cleanup
<1>4. CommittedSucceeded' /\ CompensatedFailed'
  BY <1>1, <1>2 DEF IInv, CommittedSucceeded, CompensatedFailed, Public, Cleanup, At
<1> QED BY <1>1, <1>2, <1>3, <1>4, ScenarioDead DEF IInv

\* Compensation moves resources from the one set to the other.
LEMMA CompensateIInv == IInv /\ Compensate => IInv'
<1> SUFFICES ASSUME IInv, Compensate PROVE IInv'
  OBVIOUS
<1>1. /\ abort \in Abort /\ At("failed")
      /\ UNCHANGED <<driver, checkpoint, graph, runs, late, foreign, baseline, interrupted>>
  BY DEF IInv, TypeOK, AfterFailure, Compensate, AbortAt
<1>2. PICK e \in abort.emergency : \E done \in SUBSET Stage :
         /\ ingress' = [ingress EXCEPT
               ![e].version = IF "custody" \in done THEN "revoked" ELSE ingress[e].version,
               ![e].connector = ingress[e].connector /\ "connector" \notin done,
               ![e].cloud = ingress[e].cloud \ done]
         /\ \E answered \in SUBSET done : abort' = Compensated(e, answered)
  BY DEF Compensate
<1>3. PICK done \in SUBSET Stage :
         /\ ingress' = [ingress EXCEPT
               ![e].version = IF "custody" \in done THEN "revoked" ELSE ingress[e].version,
               ![e].connector = ingress[e].connector /\ "connector" \notin done,
               ![e].cloud = ingress[e].cloud \ done]
         /\ \E answered \in SUBSET done : abort' = Compensated(e, answered)
  BY <1>2
<1>4. e \in Epoch
  BY <1>1 DEF Abort
<1>5. ingress' \in [Epoch -> Allocation]
  <2>1. \A i \in Allocation : \A b \in BOOLEAN : \A v \in {i.version, "revoked"} :
           [i EXCEPT !.version = v, !.connector = b, !.cloud = i.cloud \ done] \in Allocation
    BY DEF Allocation
  <2>2. ingress[e] \in Allocation /\ ingress \in [Epoch -> Allocation]
    BY <1>4 DEF IInv, TypeOK
  <2>3. /\ (ingress[e].connector /\ "connector" \notin done) \in BOOLEAN
        /\ (IF "custody" \in done THEN "revoked" ELSE ingress[e].version)
              \in {ingress[e].version, "revoked"}
    BY <2>2
  <2>4. ingress' = [ingress EXCEPT ![e] = [ingress[e] EXCEPT
              !.version = IF "custody" \in done THEN "revoked" ELSE ingress[e].version,
              !.connector = ingress[e].connector /\ "connector" \notin done,
              !.cloud = ingress[e].cloud \ done]]
    BY <1>3, <1>4, <2>2 DEF Allocation
  <2> QED BY <2>1, <2>2, <2>3, <2>4
<1>6. /\ abort' \in Abort /\ abort'.at = "emergency"
      /\ abort'.emergency = abort.emergency \ {e}
      /\ abort'.compensated = abort.compensated \cup {e}
  <2>1. PICK answered \in SUBSET done : abort' = Compensated(e, answered)
    BY <1>3
  <2>2. abort' = [abort EXCEPT !.emergency = abort.emergency \ {e},
                               !.compensated = abort.compensated \cup {e},
                               !.failed = abort.failed \/ answered # Stage]
    BY <2>1 DEF Compensated
  <2>3. (abort.failed \/ answered # Stage) \in BOOLEAN
    OBVIOUS
  <2>4. abort.at = "emergency"
    BY DEF Compensate, AbortAt
  <2> QED BY <1>1, <1>4, <2>2, <2>3, <2>4 DEF Abort
<1>7. TypeOK'
  BY <1>1, <1>5, <1>6 DEF IInv, TypeOK
<1>8. Cleanup \in late => driver.k \notin late
  BY DEF IInv, AfterFailure
<1> QED BY <1>1, <1>6, <1>7, <1>8, EmergencyFailed, ScenarioDead, RunsKept DEF IInv

\* A call that was given up ends runs and takes none back.
LEMMA LateExecuteIInv ==
    ASSUME IInv, NEW g \in late, Execute(g), late' \subseteq late,
           UNCHANGED <<driver, checkpoint, foreign, baseline, interrupted, abort>>
    PROVE  IInv'
<1>1. At("failed")
  BY DEF IInv, AfterFailure
<1>2. g \in Graph /\ late' \in SUBSET Graph
  BY DEF IInv, TypeOK
<1>3. /\ ingress' \in [Epoch -> Allocation] /\ runs' \in [Graph -> Status]
      /\ graph' = graph
      /\ \A h \in Graph : runs[h] \in {"succeeded", "failed"} => runs'[h] = runs[h]
  BY <1>2, ExecuteKeeps DEF IInv
<1>4. TypeOK'
  BY <1>2, <1>3 DEF IInv, TypeOK
<1>5. CheckpointBehind' /\ Whereabouts' /\ AfterFailure'
  BY <1>1, <1>3 DEF IInv, CheckpointBehind, Whereabouts, AfterFailure, At
<1> QED BY <1>1, <1>3, <1>4, <1>5, EmergencyFailed, RunsKept DEF IInv

\* It commits what it leads on to, or the cleanup's graph, behind a run that succeeded.
LEMMA LateCommitIInv ==
    ASSUME IInv, NEW g \in late, Commit(g), late' = late \ {g},
           UNCHANGED <<driver, checkpoint, foreign, baseline, interrupted, abort>>
    PROVE  IInv'
<1>1. /\ g \in Graph /\ graph' = g /\ UNCHANGED <<runs, ingress>> /\ runs[g] = "succeeded"
      /\ g = driver.k \/ g = Cleanup
      /\ At("failed") /\ driver.k \in 0 .. 4 /\ Cleanup = 5
  BY DEF IInv, TypeOK, Commit, AfterFailure, Driver, Final, Cleanup
<1>2. TypeOK'
  BY <1>1 DEF IInv, TypeOK
<1>3. driver.k \notin late'
  BY <1>1 DEF IInv, AfterFailure
<1>4. CheckpointBehind'
  <2>1. g = driver.k => graph + 1 = driver.k /\ checkpoint = graph
    BY DEF IInv, Whereabouts
  <2> QED BY <1>1, <2>1 DEF CheckpointBehind
<1>5. Whereabouts' /\ AfterFailure'
  BY <1>1, <1>3 DEF IInv, Whereabouts, AfterFailure, At
<1>6. CommittedSucceeded' /\ CompensatedFailed'
  BY <1>1 DEF IInv, CommittedSucceeded, CompensatedFailed
<1> QED BY <1>2, <1>4, <1>5, <1>6 DEF IInv

\* Or it ends.
LEMMA LateEffectIInv == IInv /\ LateEffect => IInv'
<1> SUFFICES ASSUME IInv, LateEffect PROVE IInv'
  OBVIOUS
<1>1. PICK g \in late :
         \/ Execute(g) /\ late' = IF runs'[g] = "running" THEN late ELSE late \ {g}
         \/ Commit(g) /\ late' = late \ {g}
         \/ UNCHANGED serverVars /\ late' = late \ {g}
  BY DEF LateEffect
<1>2. UNCHANGED <<driver, checkpoint, foreign, baseline, interrupted, abort>>
  BY DEF LateEffect
<1>3. CASE UNCHANGED serverVars /\ late' = late \ {g}
  <2>1. UNCHANGED <<graph, runs, ingress>> /\ late' \subseteq late
    BY <1>3 DEF serverVars
  <2>2. TypeOK' /\ CheckpointBehind' /\ CommittedSucceeded' /\ CompensatedFailed'
    BY <1>2, <2>1 DEF IInv, TypeOK, CheckpointBehind, CommittedSucceeded, CompensatedFailed
  <2>3. Whereabouts' /\ AfterFailure'
    BY <1>2, <2>1 DEF IInv, Whereabouts, AfterFailure, At
  <2> QED BY <2>2, <2>3 DEF IInv
<1> QED BY <1>1, <1>2, <1>3, LateExecuteIInv, LateCommitIInv

----------------------------------------------------------------------------

\* The strengthening is an invariant.
LEMMA SpecIInv == Spec => []IInv
<1>1. IInv /\ [Next]_vars => IInv'
  <2> SUFFICES ASSUME IInv, [Next]_vars PROVE IInv'
    OBVIOUS
  <2>1. CASE Interrupt \/ OtherRecord \/ UNCHANGED vars
    <3>1. /\ foreign' \in 0 .. 1 /\ interrupted' \in BOOLEAN
          /\ UNCHANGED <<driver, checkpoint, graph, runs, ingress, late, baseline, abort>>
      <4>1. CASE Interrupt
        <5>1. interrupted' \in BOOLEAN
          BY <4>1, Zenon DEF Interrupt
        <5> QED BY <4>1, <5>1 DEF Interrupt, serverVars, IInv, TypeOK
      <4>2. CASE OtherRecord \/ UNCHANGED vars
        BY <4>2 DEF OtherRecord, vars, serverVars, IInv, TypeOK
      <4> QED BY <2>1, <4>1, <4>2
    <3> QED BY <3>1 DEF IInv, TypeOK, CheckpointBehind, Whereabouts, AfterFailure,
                 CommittedSucceeded, CompensatedFailed, At
  <2>2. CASE Scenario
    BY <2>2, RegisterIInv, CheckpointIInv, BeginIInv, EffectIInv, AdvanceIInv,
       AssertEvidenceIInv, RaiseIInv DEF Scenario
  <2>3. CASE AbortCleanup
    BY <2>3, StartAbortIInv, QuietIInv, JudgeEvidenceIInv, CleanupRunIInv,
       CleanupAdvanceIInv, CleanupRaisesIInv, CompensateIInv DEF AbortCleanup
  <2> QED BY <2>1, <2>2, <2>3, LateEffectIInv DEF Next, Terminated
<1> QED BY <1>1, InitIInv, PTL DEF Spec

\* The state file is at most one commit behind (_checkpoint_cloudflare_phase).
THEOREM SpecCheckpointBehind == Spec => []CheckpointBehind
<1>1. IInv => CheckpointBehind
  BY DEF IInv
<1> QED BY <1>1, SpecIInv, PTL

\* compensate_abort never tears down what the current graph has, in whatever order
\* commits, deaths, late effects and judgements fall.
THEOREM SpecCurrentIngressSpared == Spec => []CurrentIngressSpared
<1>1. IInv => CurrentIngressSpared
  BY CurrentEpoch DEF IInv, CommittedSucceeded, CompensatedFailed, CurrentIngressSpared
<1> QED BY <1>1, SpecIInv, PTL

----------------------------------------------------------------------------
(* The clean exit of the abort cleanup: what exists next to what is recorded of it,     *)
(* beside a call that may still be allocating.                                          *)

\* What Cloudflare has of a complete allocation.
Whole == {"tunnel", "dns"}

\* An allocation is made and unmade in order.
Ordered(i) ==
    /\ i.row = "none" => ~i.connector /\ ~i.event
    /\ i.row = "none" /\ i.version # "none" => i.cloud = Whole
    /\ i.row # "none" => i.version # "none"
    /\ i.row = "removed" => ~i.connector
    /\ i.row = "active" /\ ~i.event => i.cloud = Whole

InOrder == \A e \in Epoch : Ordered(ingress[e])

\* Runs are begun one after the other, each when the one before has succeeded.
RunsInOrder ==
    /\ \A g \in 1 .. Final : /\ g < driver.k => runs[g] = "succeeded"
                             /\ g > driver.k => runs[g] = "none"
    /\ driver.at \in {"checkpoint", "begin", "evidence", "passed", "advance"} /\ driver.k # 0
       => runs[driver.k] = "succeeded"

\* What a public graph needs has started when its run has succeeded, and the second
\* ingress is allocated only when the first is known to be removed and revoked.
Started ==
    /\ Public(graph) => ingress[EpochOf(graph)].event
    /\ runs[driver.k] = "succeeded" /\ Public(driver.k) => ingress[EpochOf(driver.k)].event
    /\ ingress[2].row # "none" => driver.k \in {3, 4}
    /\ driver.k \in {3, 4} \/ (At("begin") /\ driver.k = 2) => Removed(1) /\ Revoked(1)

\* What is compensated was active, and what was active is verified.
Chosen ==
    /\ abort.emergency \cup abort.compensated \subseteq abort.active
    /\ abort.active \subseteq abort.resources
    /\ abort.at \in {"idle", "load", "load all", "evidence"}
       => abort.emergency = {} /\ abort.compensated = {}
    /\ abort.at = "load all" => abort.active = {}
    /\ \A e \in abort.emergency : ingress[e].event

\* The allocation a call of the dead scenario may still be making, but never commit.
Allocating(e) ==
    /\ Public(driver.k) /\ e = EpochOf(driver.k) /\ graph # driver.k
    /\ driver.k \in late => runs[driver.k] # "succeeded"

\* A recorded allocation the cleanup has not loaded is gone, or is still being made.
Covered ==
    abort.at \in {"evidence", "ready", "begin", "clean", "advance", "verify", "emergency"} =>
        \A e \in Recorded \ abort.resources :
            \/ Removed(e) /\ Revoked(e)
            \/ Allocating(e) /\ ingress[e].row = "active"

\* When absence was verified, what is recorded is gone, or was recorded since and exists.
Gone ==
    abort.at = "inventory" =>
        \A e \in Epoch :
            \/ ingress[e].row = "none"
            \/ ~ingress[e].connector /\ Revoked(e) /\ (Removed(e) \/ runs[driver.k] = "failed")
            \/ Allocating(e) /\ ingress[e].cloud = Whole

CInv == InOrder /\ RunsInOrder /\ Started /\ Chosen /\ Covered /\ Gone

----------------------------------------------------------------------------
(* Operators: what an effect does to one allocation.                        *)

\* What one effect of a run towards a public graph does to the allocation it makes.
LEMMA AllocatesOne ==
    ASSUME ingress \in [Epoch -> Allocation], NEW e \in Epoch, Allocates(e, ingress[e])
    PROVE  /\ ingress'[e] \in Allocation /\ \A f \in Epoch \ {e} : ingress'[f] = ingress[f]
           /\ \/ /\ ingress[e].version = "none" /\ ingress'[e].row = ingress[e].row
                 /\ ingress'[e].connector = ingress[e].connector
                 /\ ingress'[e].event = ingress[e].event
                 /\ \/ ingress'[e].version = "none" /\ ingress[e].cloud = {}
                    \/ /\ ingress'[e].version = "stored" /\ ingress[e].cloud = {"tunnel"}
                       /\ ingress'[e].cloud = Whole
              \/ /\ ingress[e].row = "none" /\ ingress[e].version = "stored"
                 /\ ingress'[e] = [ingress[e] EXCEPT !.row = "active"]
              \/ /\ ingress[e].row = "active" /\ ~ingress[e].event
                 /\ ingress'[e] = [ingress[e] EXCEPT !.connector = TRUE]
              \/ /\ ingress[e].connector /\ ~ingress[e].event
                 /\ ingress'[e] = [ingress[e] EXCEPT !.event = TRUE]
<1> DEFINE i == ingress[e]
<1>1. i \in Allocation
  OBVIOUS
<1>2. ASSUME NEW j \in Allocation, ingress' = [ingress EXCEPT ![e] = j]
      PROVE  ingress'[e] = j /\ \A f \in Epoch \ {e} : ingress'[f] = ingress[f]
  BY <1>2
<1>3. CASE i = Unallocated /\ ingress' = [ingress EXCEPT ![e].cloud = {"tunnel"}]
  <2> DEFINE j == [i EXCEPT !.cloud = {"tunnel"}]
  <2>1. j \in Allocation /\ j.row = i.row /\ j.version = i.version
        /\ j.connector = i.connector /\ j.event = i.event
    BY <1>1 DEF Allocation
  <2>2. i.row = "none" /\ i.version = "none" /\ i.cloud = {}
    BY <1>3 DEF Unallocated
  <2>3. ingress' = [ingress EXCEPT ![e] = j]
    BY <1>3
  <2> HIDE DEF j
  <2> QED BY <1>2, <2>1, <2>2, <2>3
<1>4. CASE /\ i.cloud = {"tunnel"} /\ i.version = "none"
           /\ ingress' = [ingress EXCEPT ![e].cloud = {"tunnel", "dns"}, ![e].version = "stored"]
  <2> DEFINE h == [i EXCEPT !.cloud = {"tunnel", "dns"}]
             j == [h EXCEPT !.version = "stored"]
  <2>1. h \in Allocation /\ h.row = i.row /\ h.cloud = Whole
        /\ h.connector = i.connector /\ h.event = i.event
    BY <1>1 DEF Allocation, Whole
  <2>3. ingress' = [ingress EXCEPT ![e] = j]
    BY <1>4
  <2> HIDE DEF h
  <2>2. /\ j \in Allocation /\ j.row = i.row /\ j.cloud = Whole /\ j.version = "stored"
        /\ j.connector = i.connector /\ j.event = i.event
    BY <2>1 DEF Allocation
  <2> HIDE DEF j
  <2> QED BY <1>2, <1>4, <2>2, <2>3
<1>5. CASE /\ i.version = "stored" /\ i.row = "none"
           /\ ingress' = [ingress EXCEPT ![e].row = "active"]
  <2> DEFINE j == [i EXCEPT !.row = "active"]
  <2>1. j \in Allocation
    BY <1>1 DEF Allocation
  <2>2. ingress' = [ingress EXCEPT ![e] = j]
    BY <1>5
  <2> QED BY <1>2, <1>5, <2>1, <2>2
<1>6. CASE /\ i.row = "active" /\ ~i.connector /\ ~i.event
           /\ ingress' = [ingress EXCEPT ![e].connector = TRUE]
  <2> DEFINE j == [i EXCEPT !.connector = TRUE]
  <2>1. j \in Allocation
    BY <1>1 DEF Allocation
  <2>2. ingress' = [ingress EXCEPT ![e] = j]
    BY <1>6
  <2> QED BY <1>2, <1>6, <2>1, <2>2
<1>7. CASE /\ i.connector /\ ~i.event
           /\ ingress' = [ingress EXCEPT ![e].event = TRUE]
  <2> DEFINE j == [i EXCEPT !.event = TRUE]
  <2>1. j \in Allocation
    BY <1>1 DEF Allocation
  <2>2. ingress' = [ingress EXCEPT ![e] = j]
    BY <1>7
  <2> QED BY <1>2, <1>7, <2>1, <2>2
<1> QED BY <1>3, <1>4, <1>5, <1>6, <1>7 DEF Allocates

\* What one effect of a run does to the allocation it removes.
LEMMA RemovesOne ==
    ASSUME ingress \in [Epoch -> Allocation], NEW e \in Epoch, Removes(e, ingress[e])
    PROVE  /\ ingress'[e] \in Allocation /\ \A f \in Epoch \ {e} : ingress'[f] = ingress[f]
           /\ ingress[e].row = "active" /\ ingress'[e].event = ingress[e].event
           /\ ingress'[e].version \in {ingress[e].version, "revoked"}
           /\ ingress'[e].connector => ingress[e].connector
           /\ \/ ingress'[e].row = "active"
              \/ ingress'[e].row = "removed" /\ ~ingress'[e].connector
<1> DEFINE i == ingress[e]
<1>1. i \in Allocation
  OBVIOUS
<1>2. ASSUME NEW j \in Allocation, ingress' = [ingress EXCEPT ![e] = j]
      PROVE  ingress'[e] = j /\ \A f \in Epoch \ {e} : ingress'[f] = ingress[f]
  BY <1>2
<1>3. i.row = "active"
  BY DEF Removes
<1>4. CASE ingress' = [ingress EXCEPT ![e].connector = FALSE]
  <2> DEFINE j == [i EXCEPT !.connector = FALSE]
  <2>1. /\ j \in Allocation /\ j.row = i.row /\ j.event = i.event /\ j.version = i.version
        /\ ~j.connector
    BY <1>1 DEF Allocation
  <2>2. ingress' = [ingress EXCEPT ![e] = j]
    BY <1>4
  <2> HIDE DEF j
  <2> QED BY <1>2, <1>3, <2>1, <2>2
<1>5. CASE \E c \in i.cloud : ingress' = [ingress EXCEPT ![e].cloud = i.cloud \ {c}]
  <2>1. PICK c \in i.cloud : ingress' = [ingress EXCEPT ![e].cloud = i.cloud \ {c}]
    BY <1>5
  <2> DEFINE j == [i EXCEPT !.cloud = i.cloud \ {c}]
  <2>2. /\ j \in Allocation /\ j.row = i.row /\ j.event = i.event /\ j.version = i.version
        /\ j.connector = i.connector
    BY <1>1 DEF Allocation
  <2>3. ingress' = [ingress EXCEPT ![e] = j]
    BY <2>1
  <2> HIDE DEF j
  <2> QED BY <1>2, <1>3, <2>2, <2>3
<1>6. CASE /\ ~i.connector
           /\ \E v \in {i.version, "revoked"} :
                 ingress' = [ingress EXCEPT ![e].version = v, ![e].row = "removed"]
  <2>1. PICK v \in {i.version, "revoked"} :
             ingress' = [ingress EXCEPT ![e].version = v, ![e].row = "removed"]
    BY <1>6
  <2> DEFINE h == [i EXCEPT !.version = v]
             j == [h EXCEPT !.row = "removed"]
  <2>2. /\ h \in Allocation /\ h.version \in {i.version, "revoked"} /\ h.event = i.event
        /\ h.connector = i.connector
    BY <1>1 DEF Allocation
  <2>3. ingress' = [ingress EXCEPT ![e] = j]
    BY <2>1
  <2> HIDE DEF h
  <2>4. /\ j \in Allocation /\ j.row = "removed" /\ j.version \in {i.version, "revoked"}
        /\ j.event = i.event /\ j.connector = i.connector
    BY <2>2 DEF Allocation
  <2> HIDE DEF j
  <2> QED BY <1>2, <1>3, <1>6, <2>3, <2>4
<1> QED BY <1>3, <1>4, <1>5, <1>6 DEF Removes

\* An effect towards a public graph keeps what there is.
LEMMA AllocatesKeeps ==
    ASSUME ingress \in [Epoch -> Allocation], NEW e \in Epoch, Ordered(ingress[e]),
           Allocates(e, ingress[e])
    PROVE  /\ Ordered(ingress'[e]) /\ \A f \in Epoch \ {e} : ingress'[f] = ingress[f]
           /\ ~Removed(e)
           /\ ingress[e].event => ingress'[e].event
           /\ ingress[e].row = "none" =>
                 \/ ingress'[e].row = "none"
                 \/ ingress'[e].row = "active" /\ ingress'[e].cloud = Whole
           /\ ingress[e].row = "active" => ingress'[e].row = "active"
           /\ ingress[e].cloud = Whole => ingress'[e].cloud = Whole
<1> DEFINE i == ingress[e]
           j == ingress'[e]
<1>1. i \in Allocation /\ j \in Allocation /\ \A f \in Epoch \ {e} : ingress'[f] = ingress[f]
  BY AllocatesOne
<1>2. \/ /\ i.version = "none" /\ j.row = i.row
         /\ j.connector = i.connector /\ j.event = i.event
         /\ \/ j.version = "none" /\ i.cloud = {}
            \/ /\ j.version = "stored" /\ i.cloud = {"tunnel"} /\ j.cloud = Whole
      \/ i.row = "none" /\ i.version = "stored" /\ j = [i EXCEPT !.row = "active"]
      \/ i.row = "active" /\ ~i.event /\ j = [i EXCEPT !.connector = TRUE]
      \/ i.connector /\ ~i.event /\ j = [i EXCEPT !.event = TRUE]
  BY AllocatesOne
<1>3. Ordered(i)
  OBVIOUS
<1>4. {} # Whole /\ {"tunnel"} # Whole
  <2>1. "dns" # "tunnel" /\ "dns" \in Whole
    BY DEF Whole
  <2> QED BY <2>1
<1>5. /\ Ordered(j) /\ i.row # "removed" /\ (i.event => j.event)
      /\ i.row = "none" => j.row = "none" \/ (j.row = "active" /\ j.cloud = Whole)
      /\ i.row = "active" => j.row = "active"
      /\ i.cloud = Whole => j.cloud = Whole
  <2> HIDE DEF i, j
  <2>1. CASE /\ i.version = "none" /\ j.row = i.row
             /\ j.connector = i.connector /\ j.event = i.event
             /\ \/ j.version = "none" /\ i.cloud = {}
                \/ /\ j.version = "stored" /\ i.cloud = {"tunnel"} /\ j.cloud = Whole
    BY <1>3, <1>4, <2>1 DEF Ordered
  <2>2. CASE i.row = "none" /\ i.version = "stored" /\ j = [i EXCEPT !.row = "active"]
    <3>1. /\ j.row = "active" /\ j.version = i.version /\ j.cloud = i.cloud
          /\ j.connector = i.connector /\ j.event = i.event
      BY <1>1, <2>2 DEF Allocation
    <3> QED BY <1>3, <2>2, <3>1 DEF Ordered
  <2>3. CASE i.row = "active" /\ ~i.event /\ j = [i EXCEPT !.connector = TRUE]
    <3>1. j.row = i.row /\ j.version = i.version /\ j.cloud = i.cloud /\ j.event = i.event
      BY <1>1, <2>3 DEF Allocation
    <3> QED BY <1>3, <2>3, <3>1 DEF Ordered
  <2>4. CASE i.connector /\ ~i.event /\ j = [i EXCEPT !.event = TRUE]
    <3>1. /\ j.row = i.row /\ j.version = i.version /\ j.cloud = i.cloud /\ j.event
          /\ j.connector = i.connector
      BY <1>1, <2>4 DEF Allocation
    <3>2. i.row = "active"
      BY <1>1, <1>3, <2>4 DEF Ordered, Allocation
    <3> QED BY <1>3, <2>4, <3>1, <3>2 DEF Ordered
  <2> QED BY <1>2, <2>1, <2>2, <2>3, <2>4
<1> QED BY <1>1, <1>5 DEF Removed

\* An effect of a run, whatever it is towards.
LEMMA ExecuteEffects ==
    ASSUME TypeOK, InOrder, Public(graph) => ingress[EpochOf(graph)].event,
           NEW g \in Graph, Execute(g)
    PROVE  /\ InOrder'
           /\ \A e \in Epoch :
                 /\ ingress[e].event => ingress'[e].event
                 /\ Removed(e) => ingress'[e] = ingress[e]
                 /\ ingress[e].row = "none" =>
                       \/ ingress'[e].row = "none"
                       \/ /\ ingress'[e].row = "active" /\ ingress'[e].cloud = Whole
                          /\ Public(g) /\ e = EpochOf(g)
                 /\ Public(g) /\ e = EpochOf(g) /\ ingress[e].cloud = Whole
                       => ingress'[e].cloud = Whole
                 /\ ingress[e].row = "active" /\ ~(Public(graph) /\ e = EpochOf(graph))
                       => ingress'[e].row = "active"
                 /\ ~Public(g) /\ ~(Public(graph) /\ e = EpochOf(graph))
                       => ingress'[e] = ingress[e]
                 /\ ~Public(g) /\ ~ingress[e].connector /\ ingress[e].version = "revoked"
                       => ~ingress'[e].connector /\ ingress'[e].version = "revoked"
           /\ runs[g] = "running" /\ \A h \in Graph \ {g} : runs'[h] = runs[h]
           /\ runs'[g] = "succeeded" /\ Public(g) => ingress'[EpochOf(g)].event
<1> DEFINE Keeps(e) == /\ ingress[e].event => ingress'[e].event
                       /\ Removed(e) => ingress'[e] = ingress[e]
                       /\ ingress[e].row = "none" =>
                             \/ ingress'[e].row = "none"
                             \/ /\ ingress'[e].row = "active" /\ ingress'[e].cloud = Whole
                                /\ Public(g) /\ e = EpochOf(g)
                       /\ Public(g) /\ e = EpochOf(g) /\ ingress[e].cloud = Whole
                             => ingress'[e].cloud = Whole
                       /\ ingress[e].row = "active" /\ ~(Public(graph) /\ e = EpochOf(graph))
                             => ingress'[e].row = "active"
                       /\ ~Public(g) /\ ~(Public(graph) /\ e = EpochOf(graph))
                             => ingress'[e] = ingress[e]
                       /\ ~Public(g) /\ ~ingress[e].connector /\ ingress[e].version = "revoked"
                             => ~ingress'[e].connector /\ ingress'[e].version = "revoked"
<1>1. ingress \in [Epoch -> Allocation] /\ runs \in [Graph -> Status] /\ runs[g] = "running"
  BY DEF TypeOK, Execute
<1>2. \A e \in Epoch : ingress'[e] = ingress[e] => Keeps(e) /\ Ordered(ingress'[e])
  BY DEF InOrder
<1>3. CASE Public(g) /\ Allocates(EpochOf(g), ingress[EpochOf(g)]) /\ UNCHANGED runs
  <2> DEFINE e == EpochOf(g)
  <2>1. e \in Epoch
    BY DEF EpochOf, Epoch
  <2>2. /\ Ordered(ingress'[e]) /\ \A f \in Epoch \ {e} : ingress'[f] = ingress[f]
        /\ ~Removed(e)
        /\ ingress[e].event => ingress'[e].event
        /\ ingress[e].row = "none" =>
              \/ ingress'[e].row = "none"
              \/ ingress'[e].row = "active" /\ ingress'[e].cloud = Whole
        /\ ingress[e].row = "active" => ingress'[e].row = "active"
        /\ ingress[e].cloud = Whole => ingress'[e].cloud = Whole
    BY <1>1, <1>3, <2>1, AllocatesKeeps DEF InOrder
  <2>3. Keeps(e)
    BY <1>3, <2>2
  <2>4. \A f \in Epoch : Keeps(f) /\ Ordered(ingress'[f])
    BY <1>2, <2>2, <2>3
  <2>5. runs'[g] = "running"
    BY <1>1, <1>3
  <2> QED BY <1>1, <1>3, <2>4, <2>5 DEF InOrder
<1>4. CASE (\E e \in Replaced(g) : Removes(e, ingress[e])) /\ UNCHANGED runs
  <2>1. PICK e \in Replaced(g) : Removes(e, ingress[e])
    BY <1>4
  <2>2. e \in Epoch /\ Public(graph) /\ ~Public(g) /\ e = EpochOf(graph)
    BY DEF Replaced, EpochOf, Epoch
  <2>3. /\ \A f \in Epoch \ {e} : ingress'[f] = ingress[f]
        /\ ingress[e].row = "active" /\ ingress'[e].event = ingress[e].event
        /\ ingress'[e].version \in {ingress[e].version, "revoked"}
        /\ ingress'[e].connector => ingress[e].connector
        /\ \/ ingress'[e].row = "active"
           \/ ingress'[e].row = "removed" /\ ~ingress'[e].connector
    BY <1>1, <2>1, <2>2, RemovesOne
  <2>4. Ordered(ingress'[e]) /\ Keeps(e)
    <3>1. ingress[e].event /\ Ordered(ingress[e])
      BY <2>2 DEF InOrder
    <3>2. Ordered(ingress'[e])
      BY <2>3, <3>1 DEF Ordered
    <3>3. Keeps(e)
      BY <2>2, <2>3 DEF Removed
    <3> QED BY <3>2, <3>3
  <2>5. \A f \in Epoch : Keeps(f) /\ Ordered(ingress'[f])
    BY <1>2, <2>3, <2>4
  <2>6. runs'[g] = "running"
    BY <1>1, <1>4
  <2> QED BY <1>1, <1>4, <2>5, <2>6 DEF InOrder
<1>5. ASSUME NEW s \in {"succeeded", "failed"}, runs' = [runs EXCEPT ![g] = s],
             UNCHANGED ingress, s = "succeeded" => Done(g)
      PROVE  /\ InOrder' /\ \A e \in Epoch : Keeps(e)
             /\ \A h \in Graph \ {g} : runs'[h] = runs[h]
             /\ runs'[g] = "succeeded" /\ Public(g) => ingress'[EpochOf(g)].event
  <2>1. InOrder' /\ \A e \in Epoch : Keeps(e)
    BY <1>2, <1>5 DEF InOrder
  <2>2. runs'[g] = s /\ \A h \in Graph \ {g} : runs'[h] = runs[h]
    BY <1>1, <1>5
  <2> QED BY <1>5, <2>1, <2>2 DEF Done
<1> HIDE DEF Keeps
<1>6. CASE Done(g) /\ runs' = [runs EXCEPT ![g] = "succeeded"] /\ UNCHANGED ingress
  BY <1>1, <1>5, <1>6 DEF Keeps
<1>7. CASE runs' = [runs EXCEPT ![g] = "failed"] /\ UNCHANGED ingress
  BY <1>1, <1>5, <1>7 DEF Keeps
<1> QED BY <1>3, <1>4, <1>6, <1>7 DEF Execute

----------------------------------------------------------------------------
(* The scenario keeps it.                                                   *)

\* Nothing is allocated, chosen or run at first.
LEMMA InitCInv == Init => CInv
<1> SUFFICES ASSUME Init PROVE CInv
  OBVIOUS
<1>1. \A e \in Epoch : ingress[e] = Unallocated
  BY DEF Init
<1>2. Unallocated.row = "none" /\ Unallocated.version = "none" /\ ~Unallocated.connector
      /\ ~Unallocated.event
  BY DEF Unallocated
<1>3. InOrder
  BY <1>1, <1>2 DEF InOrder, Ordered
<1>4. RunsInOrder
  BY DEF Init, RunsInOrder, Graph, Final
<1>5. Started
  <2>1. 2 \in Epoch
    BY DEF Epoch
  <2> QED BY <1>1, <1>2, <2>1 DEF Init, Started, Public, At
<1>6. Chosen /\ Covered /\ Gone
  BY DEF Init, Chosen, Covered, Gone
<1> QED BY <1>3, <1>4, <1>5, <1>6 DEF CInv

\* While the scenario goes on nothing is loaded, chosen or verified.
LEMMA NothingChosen ==
    ASSUME IInv, Chosen, ~At("failed"), UNCHANGED abort
    PROVE  Chosen' /\ Covered' /\ Gone'
<1>1. abort.at = "idle"
  BY DEF IInv, AfterFailure
<1> QED BY <1>1 DEF Chosen, Covered, Gone

\* A run that is executed leads on from the graph that is current.
LEMMA ExecutesAhead ==
    ASSUME IInv, At("execute") \/ At("advance")
    PROVE  graph # driver.k /\ driver.k \in 1 .. Final
<1>1. graph + 1 = driver.k /\ graph \in 0 .. 5 /\ driver.k \in 0 .. 4
  BY DEF IInv, Whereabouts, TypeOK, Graph, Driver, At, Final
<1> QED BY ONLY <1>1 DEF Final

\* Steps of the scenario that concern neither runs nor graph nor allocations.
LEMMA QuietScenarioCInv ==
    ASSUME IInv, CInv, Register \/ Checkpoint \/ AssertEvidence \/ Raise
    PROVE  CInv'
<1>1. /\ ~At("failed") /\ UNCHANGED <<graph, runs, ingress, abort>>
      /\ driver \in Driver
  BY DEF Register, Checkpoint, AssertEvidence, Raise, At, serverVars, IInv, TypeOK
<1>2. /\ driver'.k = driver.k
      /\ \/ driver.at = "register" /\ driver'.at = "checkpoint"
         \/ driver.at = "checkpoint" /\ driver'.at = "begin" /\ driver.k = 0
         \/ driver.at = "checkpoint" /\ driver'.at = "evidence"
         \/ driver.at = "evidence" /\ driver'.at = "begin" /\ Evidence(driver.k)
         \/ driver.at = "evidence" /\ driver'.at = "passed"
         \/ driver'.at = "failed"
  BY <1>1, DriverMoves DEF Register, Checkpoint, AssertEvidence, Raise, At, FollowedBy
<1>3. driver.at = "register" => driver.k = 0
  BY DEF IInv, Whereabouts, At
<1>5. InOrder' /\ RunsInOrder'
  BY <1>1, <1>2, <1>3 DEF CInv, InOrder, RunsInOrder
<1>6. Started'
  <2>1. driver'.at = "begin" /\ driver.k = 2 => Removed(1) /\ Revoked(1)
    BY <1>2 DEF Evidence
  <2> QED BY <1>1, <1>2, <2>1 DEF CInv, Started, At, Removed, Revoked
<1> QED BY <1>1, <1>5, <1>6, NothingChosen DEF CInv

\* A run is begun behind one that succeeded.
LEMMA BeginCInv == IInv /\ CInv /\ Begin => CInv'
<1> SUFFICES ASSUME IInv, CInv, Begin PROVE CInv'
  OBVIOUS
<1>1. /\ driver.at = "begin" /\ graph = driver.k /\ driver.k \in 0 .. 3
      /\ runs \in [Graph -> Status]
      /\ UNCHANGED <<graph, ingress, abort>>
  BY DEF Begin, IInv, Whereabouts, TypeOK, Driver, At, Final
<1>2. driver'.at = "execute" /\ driver'.k = driver.k + 1
  BY DEF Begin, IInv, TypeOK, Driver
<1>3. /\ runs'[driver.k + 1] = "running"
      /\ \A g \in Graph : g # driver.k + 1 => runs'[g] = runs[g]
  BY <1>1 DEF Begin, Graph
<1>4. RunsInOrder'
  <2>1. ASSUME NEW g \in 1 .. Final
        PROVE  /\ g < driver.k + 1 => runs'[g] = "succeeded"
               /\ g > driver.k + 1 => runs'[g] = "none"
    <3>1. g \in Graph /\ (g < driver.k + 1 => g < driver.k \/ g = driver.k)
          /\ (g > driver.k + 1 => g > driver.k) /\ (g = driver.k => driver.k # 0)
      BY <1>1 DEF Graph, Final
    <3>2. g < driver.k + 1 => runs[g] = "succeeded" /\ g # driver.k + 1
      BY <1>1, <3>1 DEF CInv, RunsInOrder
    <3>3. g > driver.k + 1 => runs[g] = "none" /\ g # driver.k + 1
      BY <1>1, <3>1 DEF CInv, RunsInOrder
    <3> QED BY <1>3, <3>1, <3>2, <3>3
  <2> QED BY <1>1, <1>2, <2>1 DEF RunsInOrder
<1>5. InOrder' /\ Started'
  <2>1. driver.k + 1 \in {3, 4} => driver.k = 2 \/ driver.k \in {3, 4}
    BY <1>1
  <2>2. driver.k \in {3, 4} => driver.k + 1 \in {3, 4}
    BY <1>1
  <2>3. runs'[driver'.k] # "succeeded"
    BY <1>2, <1>3
  <2> QED BY <1>1, <1>2, <2>1, <2>2, <2>3 DEF CInv, InOrder, Started, At, Removed, Revoked
<1>6. ~At("failed") /\ UNCHANGED abort
  BY <1>1 DEF At
<1> QED BY <1>4, <1>5, <1>6, NothingChosen DEF CInv

\* A graph is committed behind a run that succeeded.
LEMMA AdvanceCInv == IInv /\ CInv /\ Advance => CInv'
<1> SUFFICES ASSUME IInv, CInv, Advance PROVE CInv'
  OBVIOUS
<1>1. /\ driver.at = "advance" /\ graph' = driver.k /\ ~At("failed")
      /\ runs[driver.k] = "succeeded" /\ UNCHANGED <<runs, ingress, abort>>
  BY DEF Advance, Commit, At
<1>2. driver'.at \in {"checkpoint", "failed"} /\ driver'.k = driver.k
  BY DriverMoves DEF Advance, IInv, TypeOK
<1>3. InOrder' /\ RunsInOrder' /\ Started'
  BY <1>1, <1>2 DEF CInv, InOrder, RunsInOrder, Started, At, Removed, Revoked
<1> QED BY <1>1, <1>3, NothingChosen DEF CInv

\* Effects of the run a scenario waits for.
LEMMA EffectCInv == IInv /\ CInv /\ Effect => CInv'
<1> SUFFICES ASSUME IInv, CInv, Effect PROVE CInv'
  OBVIOUS
<1>1. /\ driver.at = "execute" /\ ~At("failed") /\ Execute(driver.k) /\ driver.k \in Graph
      /\ UNCHANGED <<graph, abort>> /\ TypeOK
      /\ graph # driver.k
  BY ExecutesAhead DEF Effect, Execute, IInv, TypeOK, Driver, Graph, Final, At
<1>2. /\ driver'.k = driver.k
      /\ \/ driver'.at = "advance" /\ runs'[driver.k] = "succeeded"
         \/ driver'.at \in {"failed", "execute"}
  BY DriverMoves DEF Effect, IInv, TypeOK
<1> DEFINE k == driver.k
<1>3. /\ InOrder'
      /\ \A e \in Epoch : ingress[e].event => ingress'[e].event
      /\ \A h \in Graph \ {k} : runs'[h] = runs[h]
      /\ runs'[k] = "succeeded" /\ Public(k) => ingress'[EpochOf(k)].event
  BY <1>1, ExecuteEffects DEF CInv, Started
<1>6. ASSUME NEW e \in Epoch
      PROVE  /\ Removed(e) => ingress'[e] = ingress[e]
             /\ ingress[e].row = "none" =>
                   ingress'[e].row = "none" \/ (Public(k) /\ e = EpochOf(k))
  BY <1>1, ExecuteEffects DEF CInv, Started
<1>4. RunsInOrder'
  <2>1. \A g \in 1 .. Final : g \in Graph /\ (g < driver.k \/ g > driver.k => g # driver.k)
    BY <1>1 DEF Graph, Final
  <2> QED BY <1>1, <1>2, <1>3, <2>1 DEF CInv, RunsInOrder
<1>5. Started'
  <2>0. /\ Public(graph) => ingress[EpochOf(graph)].event
        /\ ingress[2].row # "none" => k \in {3, 4}
        /\ k \in {3, 4} => Removed(1) /\ Revoked(1)
    BY DEF CInv, Started
  <2>1. Public(graph)' => ingress'[EpochOf(graph)].event
    <3>1. EpochOf(graph) \in Epoch
      BY DEF EpochOf, Epoch
    <3>2. Public(graph)' => Public(graph)
      BY <1>1 DEF Public
    <3>3. ingress[EpochOf(graph)].event => ingress'[EpochOf(graph)].event
      BY <1>3, <3>1
    <3> QED BY <2>0, <3>2, <3>3
  <2>2. runs'[driver.k] = "succeeded" /\ Public(driver.k)
           => ingress'[EpochOf(driver.k)].event
    BY <1>3
  <2>3. ingress'[2].row # "none" => driver.k \in {3, 4}
    <3>1. 2 \in Epoch /\ (Public(k) /\ 2 = EpochOf(k) => k = 3)
      BY DEF Epoch, Public, EpochOf
    <3>2. ingress[2].row = "none" =>
             ingress'[2].row = "none" \/ (Public(k) /\ 2 = EpochOf(k))
      BY <1>6, <3>1
    <3> QED BY ONLY <2>0, <3>1, <3>2
  <2>4. driver.k \in {3, 4} => Removed(1)' /\ Revoked(1)'
    <3>1. 1 \in Epoch
      BY DEF Epoch
    <3>2. Removed(1) => ingress'[1] = ingress[1]
      BY <1>6, <3>1
    <3> QED BY <2>0, <3>2 DEF Removed, Revoked
  <2>5. ~At("begin")'
    BY <1>2 DEF At
  <2> QED BY <1>1, <1>2, <2>1, <2>2, <2>3, <2>4, <2>5 DEF Started, EpochOf
<1> QED BY <1>1, <1>3, <1>4, <1>5, NothingChosen DEF CInv

----------------------------------------------------------------------------
(* So do the cleanup, and cpk-server beside it.                             *)

\* A cleanup is there only when the scenario has failed; what it reads stays.
LEMMA ReadsKeep ==
    ASSUME IInv, CInv, Reads, abort.at # "idle" \/ At("failed")
    PROVE  /\ At("failed") /\ abort \in Abort
           /\ UNCHANGED <<driver, graph, runs, ingress, late>>
           /\ InOrder' /\ RunsInOrder' /\ Started'
<1>1. /\ At("failed") /\ abort \in Abort
      /\ UNCHANGED <<driver, graph, runs, ingress, late>>
  BY DEF IInv, AfterFailure, TypeOK, Reads, serverVars
<1>2. InOrder' /\ RunsInOrder'
  BY <1>1 DEF CInv, InOrder, RunsInOrder
<1>3. Started'
  BY <1>1 DEF CInv, Started, At, Removed, Revoked
<1> QED BY <1>1, <1>2, <1>3

\* The cleanup goes on with what it has loaded and chosen, if it has loaded anything.
LEMMA GoesOnCInv ==
    ASSUME IInv, CInv, Reads, abort.at # "idle" \/ At("failed"),
           NEW to \in {"load", "begin", "verify", "emergency", "ended"},
           abort'.at = to, to = "load" => abort.at = "idle",
           to \in {"begin", "verify"} => abort.at \in {"ready", "begin", "clean", "advance"},
           to = "emergency" => abort.at = "verify",
           abort'.active = abort.active, abort'.resources = abort.resources,
           abort'.emergency = abort.emergency, abort'.compensated = abort.compensated
    PROVE  CInv'
<1>1. /\ UNCHANGED <<driver, graph, runs, ingress, late>>
      /\ InOrder' /\ RunsInOrder' /\ Started'
  BY ReadsKeep
<1>2. Chosen'
  BY <1>1 DEF CInv, Chosen
<1>3. Covered'
  BY <1>1 DEF CInv, Covered, Recorded, Removed, Revoked, Allocating
<1>4. Gone'
  BY DEF Gone
<1> QED BY <1>1, <1>2, <1>3, <1>4 DEF CInv

\* It starts, waits, or exits.
LEMMA QuietAbortCInv ==
    ASSUME IInv, CInv,
           StartAbort \/ LoadFails \/ WaitReady \/ AssertInventory
    PROVE  CInv'
<1>1. Reads /\ abort \in Abort /\ (abort.at # "idle" \/ At("failed"))
  BY DEF StartAbort, LoadFails, WaitReady, AssertInventory, AbortAt, IInv, TypeOK
<1>2. ASSUME NEW to \in {"load", "begin", "verify", "emergency", "ended"},
             \/ abort' = [abort EXCEPT !.at = to]
             \/ \E how : abort' = [abort EXCEPT !.at = to, !.exit = how]
      PROVE  /\ abort'.at = to /\ abort'.active = abort.active
             /\ abort'.resources = abort.resources /\ abort'.emergency = abort.emergency
             /\ abort'.compensated = abort.compensated
  BY <1>1, <1>2 DEF Abort
<1>3. CASE StartAbort
  BY <1>1, <1>2, <1>3, GoesOnCInv DEF StartAbort, AbortAt, AbortGoto, Exit
<1>4. CASE WaitReady
  BY <1>1, <1>2, <1>4, GoesOnCInv DEF WaitReady, AbortAt, AbortGoto
<1>5. CASE LoadFails
  BY <1>1, <1>2, <1>5, GoesOnCInv DEF LoadFails, Exit
<1>6. CASE AssertInventory
  BY <1>1, <1>2, <1>6, GoesOnCInv DEF AssertInventory, Exit
<1> QED BY <1>3, <1>4, <1>5, <1>6

\* What is recorded and not active when something is active is the first allocation,
\* and the second came behind its removal.
LEMMA LoadActiveCInv == IInv /\ CInv /\ LoadActive => CInv'
<1> SUFFICES ASSUME IInv, CInv, LoadActive PROVE CInv'
  OBVIOUS
<1>1. /\ UNCHANGED <<driver, graph, runs, ingress, late>> /\ abort \in Abort
      /\ InOrder' /\ RunsInOrder' /\ Started' /\ abort.at = "load"
  BY ReadsKeep DEF LoadActive, AbortAt
<1>2. /\ abort'.at = IF Active = {} THEN "load all" ELSE "evidence"
      /\ abort'.active = Active /\ abort'.resources = Active
      /\ abort'.emergency = abort.emergency /\ abort'.compensated = abort.compensated
  BY <1>1 DEF LoadActive, Abort
<1>3. abort.emergency = {} /\ abort.compensated = {}
  BY <1>1 DEF CInv, Chosen
<1>4. Chosen'
  BY <1>2, <1>3 DEF Chosen
<1>5. ASSUME NEW f \in Active, NEW e \in Recorded \ Active
      PROVE  Removed(e) /\ Revoked(e)
  <2>1. /\ e \in Epoch /\ ingress[e].row # "none" /\ ingress[e].row # "active"
        /\ f \in Epoch /\ ingress[f].row = "active"
    BY <1>5 DEF Active, Recorded
  <2>2. (e = 1 /\ f = 2) \/ (e = 2 /\ f = 1)
    BY <2>1 DEF Epoch
  <2>3. Removed(1) /\ Revoked(1)
    <3>1. ingress[2].row # "none"
      BY <2>1, <2>2
    <3> QED BY <3>1 DEF CInv, Started
  <2> QED BY <2>1, <2>2, <2>3 DEF Removed
<1>6. Covered'
  <2>1. abort'.at \in {"evidence", "ready", "begin", "clean", "advance", "verify", "emergency"}
            => Active # {}
    BY <1>2
  <2>2. \A e \in Recorded \ Active : Active # {} => Removed(e) /\ Revoked(e)
    BY <1>5
  <2> QED BY <1>1, <1>2, <2>1, <2>2 DEF Covered, Recorded, Removed, Revoked
<1>7. Gone'
  BY <1>2 DEF Gone
<1> QED BY <1>1, <1>4, <1>6, <1>7 DEF CInv

\* Without an active resource all that is recorded is loaded.
LEMMA LoadAllCInv == IInv /\ CInv /\ LoadAll => CInv'
<1> SUFFICES ASSUME IInv, CInv, LoadAll PROVE CInv'
  OBVIOUS
<1>1. /\ UNCHANGED <<driver, graph, runs, ingress, late>> /\ abort \in Abort
      /\ InOrder' /\ RunsInOrder' /\ Started' /\ abort.at = "load all" /\ Reads
  BY ReadsKeep DEF LoadAll, AbortAt
<1>2. CASE Exit("uncertain")
  <2>1. /\ abort'.at = "ended" /\ abort'.active = abort.active
        /\ abort'.resources = abort.resources /\ abort'.emergency = abort.emergency
        /\ abort'.compensated = abort.compensated
    BY <1>1, <1>2 DEF Exit, Abort
  <2> QED BY <1>1, <2>1, GoesOnCInv
<1>3. CASE abort' = [abort EXCEPT !.at = "evidence", !.resources = Recorded]
  <2>1. /\ abort'.at = "evidence" /\ abort'.active = abort.active
        /\ abort'.resources = Recorded /\ abort'.emergency = abort.emergency
        /\ abort'.compensated = abort.compensated
    BY <1>1, <1>3 DEF Abort
  <2>2. abort.active = {} /\ abort.emergency = {} /\ abort.compensated = {}
    BY <1>1 DEF CInv, Chosen
  <2>3. Chosen' /\ Gone'
    BY <2>1, <2>2 DEF Chosen, Gone
  <2>4. Covered'
    BY <1>1, <2>1 DEF Covered, Recorded
  <2> QED BY <1>1, <2>3, <2>4 DEF CInv
<1> QED BY <1>2, <1>3 DEF LoadAll

\* What is chosen is active and its connector has started.
LEMMA JudgeEvidenceCInv == IInv /\ CInv /\ JudgeEvidence => CInv'
<1> SUFFICES ASSUME IInv, CInv, JudgeEvidence PROVE CInv'
  OBVIOUS
<1>1. /\ UNCHANGED <<driver, graph, runs, ingress, late>> /\ abort \in Abort
      /\ InOrder' /\ RunsInOrder' /\ Started' /\ abort.at = "evidence"
  BY ReadsKeep DEF JudgeEvidence, AbortAt
<1>2. PICK judged \in SUBSET abort.active :
         abort' = [abort EXCEPT !.at = "ready",
                      !.emergency = Compensable(judged),
                      !.uncertain = {e \in abort.active :
                                        \/ e \notin judged
                                        \/ ~Accepted(e) /\ ~FailedAfterStart(e)}]
  BY DEF JudgeEvidence
<1>3. /\ abort'.at = "ready" /\ abort'.active = abort.active
      /\ abort'.resources = abort.resources /\ abort'.emergency = Compensable(judged)
      /\ abort'.compensated = abort.compensated
  BY <1>1, <1>2 DEF Abort
<1>4. Compensable(judged) \subseteq abort.active
      /\ \A e \in Compensable(judged) : ingress[e].event
  BY DEF Compensable, FailedAfterStart
<1>5. abort.compensated = {} /\ abort.active \subseteq abort.resources
  BY <1>1 DEF CInv, Chosen
<1>6. Chosen' /\ Gone'
  BY <1>1, <1>3, <1>4, <1>5 DEF Chosen, Gone
<1>7. Covered'
  BY <1>1, <1>3 DEF CInv, Covered, Recorded, Removed, Revoked, Allocating
<1> QED BY <1>1, <1>6, <1>7 DEF CInv

\* What is recorded when absence is verified with authority is gone.
LEMMA VerifyAuthoritativeCInv == IInv /\ CInv /\ VerifyAuthoritative => CInv'
<1> SUFFICES ASSUME IInv, CInv, VerifyAuthoritative PROVE CInv'
  OBVIOUS
<1>1. /\ UNCHANGED <<driver, graph, runs, ingress, late>> /\ abort \in Abort
      /\ InOrder' /\ RunsInOrder' /\ Started' /\ abort.at = "verify" /\ Reads
  BY ReadsKeep DEF VerifyAuthoritative, AbortAt
<1>2. CASE AbortGoto("emergency")
  <2>1. /\ abort'.at = "emergency" /\ abort'.active = abort.active
        /\ abort'.resources = abort.resources /\ abort'.emergency = abort.emergency
        /\ abort'.compensated = abort.compensated
    BY <1>1, <1>2 DEF AbortGoto, Abort
  <2> QED BY <1>1, <2>1, GoesOnCInv
<1>3. CASE /\ AuthoritativelyAbsent
           /\ abort' = [abort EXCEPT !.at = "inventory", !.authoritative = TRUE]
  <2>1. /\ abort'.at = "inventory" /\ abort'.active = abort.active
        /\ abort'.resources = abort.resources /\ abort'.emergency = abort.emergency
        /\ abort'.compensated = abort.compensated
    BY <1>1, <1>3 DEF Abort
  <2>2. Chosen' /\ Covered'
    BY <1>1, <2>1 DEF CInv, Chosen, Covered
  <2>3. ASSUME NEW e \in Epoch
        PROVE  ingress[e].row = "none" \/ (~ingress[e].connector /\ Revoked(e) /\ Removed(e))
    <3>1. ingress[e].row # "none" => Removed(e) /\ e \in Recorded
      BY <1>3 DEF AuthoritativelyAbsent, Recorded
    <3>2. e \in Recorded \ abort.resources => Revoked(e) \/ ingress[e].row = "active"
      BY <1>1 DEF CInv, Covered
    <3>3. e \in abort.resources => Revoked(e)
      BY <1>3 DEF AuthoritativelyAbsent
    <3>4. ~ingress[e].connector
      BY <1>3 DEF AuthoritativelyAbsent
    <3> QED BY <3>1, <3>2, <3>3, <3>4 DEF Removed
  <2>4. Gone'
    BY <1>1, <2>3 DEF Gone, Removed, Revoked
  <2> QED BY <1>1, <2>2, <2>4 DEF CInv
<1> QED BY <1>2, <1>3 DEF VerifyAuthoritative

\* The run of one allocation is not that of another.
LEMMA OneSourceRun ==
    ASSUME NEW e \in Epoch, NEW f \in Epoch
    PROVE  /\ SourceRun(e) \in {1, 3} /\ Public(SourceRun(e)) /\ EpochOf(SourceRun(e)) = e
           /\ SourceRun(e) = SourceRun(f) => e = f
  BY DEF Epoch, SourceRun, Public, EpochOf

\* A compensated resource is that of the run the scenario died in.
LEMMA CompensatedCurrent ==
    ASSUME IInv, CInv, NEW c \in abort.compensated
    PROVE  c \in Epoch /\ c \in abort.resources /\ SourceRun(c) = driver.k
           /\ runs[driver.k] = "failed"
<1>1. c \in Epoch /\ c \in abort.resources /\ runs[SourceRun(c)] = "failed"
  BY DEF IInv, TypeOK, Abort, CompensatedFailed, CInv, Chosen
<1>2. SourceRun(c) \in {1, 3} /\ driver.k \in 0 .. 4
  BY <1>1, OneSourceRun DEF IInv, TypeOK, Driver, Final
<1>3. /\ SourceRun(c) < driver.k => runs[SourceRun(c)] = "succeeded"
      /\ SourceRun(c) > driver.k => runs[SourceRun(c)] = "none"
  <2>1. SourceRun(c) \in 1 .. Final
    BY <1>2 DEF Final
  <2> QED BY <2>1 DEF CInv, RunsInOrder
<1>4. ~(SourceRun(c) < driver.k) /\ ~(SourceRun(c) > driver.k)
  BY ONLY <1>1, <1>3
<1>5. SourceRun(c) = driver.k
  BY ONLY <1>2, <1>4
<1> QED BY <1>1, <1>5

\* So is what else was loaded, or it is removed as well, when physical absence is verified.
LEMMA VerifyEmergencyCInv == IInv /\ CInv /\ VerifyEmergency => CInv'
<1> SUFFICES ASSUME IInv, CInv, VerifyEmergency PROVE CInv'
  OBVIOUS
<1>1. /\ UNCHANGED <<driver, graph, runs, ingress, late>> /\ abort \in Abort
      /\ InOrder' /\ RunsInOrder' /\ Started' /\ abort.at = "emergency" /\ Reads
  BY ReadsKeep DEF VerifyEmergency, AbortAt
<1>2. CASE Exit("uncertain")
  <2>1. /\ abort'.at = "ended" /\ abort'.active = abort.active
        /\ abort'.resources = abort.resources /\ abort'.emergency = abort.emergency
        /\ abort'.compensated = abort.compensated
    BY <1>1, <1>2 DEF Exit, Abort
  <2> QED BY <1>1, <2>1, GoesOnCInv
<1>3. CASE PhysicallyAbsent /\ abort.compensated # {} /\ AbortGoto("inventory")
  <2>1. /\ abort'.at = "inventory" /\ abort'.active = abort.active
        /\ abort'.resources = abort.resources /\ abort'.emergency = abort.emergency
        /\ abort'.compensated = abort.compensated
    BY <1>1, <1>3 DEF AbortGoto, Abort
  <2>2. Chosen' /\ Covered'
    BY <1>1, <2>1 DEF CInv, Chosen, Covered
  <2>3. PICK c \in abort.compensated : TRUE
    BY <1>3
  <2>4. c \in Epoch /\ c \in abort.resources /\ SourceRun(c) = driver.k
        /\ runs[driver.k] = "failed"
    BY <2>3, CompensatedCurrent
  <2>5. ASSUME NEW e \in Epoch
        PROVE  ingress[e].row = "none" \/ (~ingress[e].connector /\ Revoked(e))
    <3>1. ~ingress[e].connector /\ (e \in abort.resources => Revoked(e))
      BY <1>3 DEF PhysicallyAbsent
    <3>2. Allocating(e) => e \in abort.resources
      BY <2>4, OneSourceRun DEF Allocating
    <3>3. e \in Recorded \ abort.resources => Revoked(e) \/ Allocating(e)
      BY <1>1 DEF CInv, Covered
    <3>4. ingress[e].row # "none" => e \in Recorded
      BY DEF Recorded
    <3> QED BY <3>1, <3>2, <3>3, <3>4
  <2>6. Gone'
    BY <1>1, <2>4, <2>5 DEF Gone, Revoked
  <2> QED BY <1>1, <2>2, <2>6 DEF CInv
<1> QED BY <1>2, <1>3 DEF VerifyEmergency

\* Effects of a run other than the current graph's own keep a cleanup's account of what
\* is recorded.
LEMMA ExecuteCovers ==
    ASSUME IInv, CInv, NEW g \in Graph, Execute(g),
           g = Cleanup \/ (g = driver.k /\ graph # driver.k),
           UNCHANGED <<driver, graph>>,
           driver.k \in late' /\ runs'[driver.k] = "succeeded"
              => driver.k \in late /\ runs[driver.k] = "succeeded",
           NEW R, NEW e \in Recorded' \ R,
           e \in Recorded \ R =>
              \/ Removed(e) /\ Revoked(e)
              \/ Allocating(e) /\ ingress[e].row = "active"
    PROVE  (Removed(e) /\ Revoked(e))' \/ (Allocating(e) /\ ingress[e].row = "active")'
<1>1. e \in Epoch /\ e \notin R /\ ingress'[e].row # "none"
  BY DEF Recorded
<1>2. /\ Removed(e) => ingress'[e] = ingress[e]
      /\ ingress[e].row = "none" =>
            \/ ingress'[e].row = "none"
            \/ ingress'[e].row = "active" /\ Public(g) /\ e = EpochOf(g)
      /\ ingress[e].row = "active" /\ ~(Public(graph) /\ e = EpochOf(graph))
            => ingress'[e].row = "active"
  BY <1>1, ExecuteEffects DEF CInv, Started, IInv
<1>3. Allocating(e) => Allocating(e)'
  BY DEF Allocating
<1>4. CASE ingress[e].row = "none"
  <2>1. Public(g) => g = driver.k /\ graph # driver.k /\ runs[driver.k] # "succeeded"
    BY DEF Public, Cleanup, Execute
  <2> QED BY <1>1, <1>2, <1>3, <1>4, <2>1 DEF Allocating
<1>5. CASE Removed(e) /\ Revoked(e)
  BY <1>2, <1>5 DEF Removed, Revoked
<1>6. CASE Allocating(e) /\ ingress[e].row = "active"
  <2>1. ~(Public(graph) /\ e = EpochOf(graph))
    BY <1>6 DEF Allocating, Public, EpochOf
  <2> QED BY <1>2, <1>3, <1>6, <2>1
<1>7. ingress[e].row # "none" => e \in Recorded \ R
  BY <1>1 DEF Recorded
<1> QED BY <1>4, <1>5, <1>6, <1>7

\* The same of what the scenario's own steps have left, for the run of a dead scenario or
\* of the cleanup.
LEMMA ExecuteKeepsStarted ==
    ASSUME IInv, CInv, At("failed"), NEW g \in Graph, Execute(g),
           g = Cleanup \/ (g = driver.k /\ graph # driver.k),
           UNCHANGED <<driver, graph>>
    PROVE  InOrder' /\ RunsInOrder' /\ Started'
<1> DEFINE k == driver.k
<1>1. TypeOK /\ InOrder /\ (Public(graph) => ingress[EpochOf(graph)].event)
  BY DEF IInv, CInv, Started
<1>2. /\ InOrder'
      /\ \A e \in Epoch : ingress[e].event => ingress'[e].event
      /\ \A h \in Graph \ {g} : runs'[h] = runs[h]
      /\ runs'[g] = "succeeded" /\ Public(g) => ingress'[EpochOf(g)].event
  BY <1>1, ExecuteEffects
<1>3. ASSUME NEW e \in Epoch
      PROVE  /\ Removed(e) => ingress'[e] = ingress[e]
             /\ ingress[e].row = "none" =>
                   ingress'[e].row = "none" \/ (Public(g) /\ e = EpochOf(g))
  BY <1>1, ExecuteEffects
<1>4. RunsInOrder'
  <2>1. \A h \in 1 .. Final : h \in Graph /\ ((h < k \/ h > k) => h # g)
    BY DEF Graph, Final, Cleanup
  <2>2. driver.at = "failed"
    BY DEF At
  <2> QED BY <1>2, <2>1, <2>2 DEF CInv, RunsInOrder
<1>5. Started'
  <2>0. /\ ingress[2].row # "none" => k \in {3, 4}
        /\ k \in {3, 4} => Removed(1) /\ Revoked(1)
    BY DEF CInv, Started
  <2>1. Public(graph) => ingress'[EpochOf(graph)].event
    <3>1. EpochOf(graph) \in Epoch
      BY DEF EpochOf, Epoch
    <3> QED BY <1>1, <1>2, <3>1
  <2>2. ingress'[2].row # "none" => k \in {3, 4}
    <3>1. 2 \in Epoch /\ (Public(g) /\ 2 = EpochOf(g) => k = 3)
      BY DEF Epoch, Public, EpochOf, Cleanup
    <3>2. ingress[2].row = "none" =>
             ingress'[2].row = "none" \/ (Public(g) /\ 2 = EpochOf(g))
      BY <1>3, <3>1
    <3> QED BY ONLY <2>0, <3>1, <3>2
  <2>3. k \in {3, 4} => Removed(1)' /\ Revoked(1)'
    <3>1. 1 \in Epoch
      BY DEF Epoch
    <3>2. Removed(1) => ingress'[1] = ingress[1]
      BY <1>3, <3>1
    <3> QED BY <2>0, <3>2 DEF Removed, Revoked
  <2>4. runs'[k] = "succeeded" /\ Public(k) => ingress'[EpochOf(k)].event
    <3>1. CASE g = k
      BY <1>2, <3>1
    <3>2. CASE g # k
      <4>1. k \in Graph \ {g} /\ EpochOf(k) \in Epoch
        BY <3>2 DEF IInv, TypeOK, Driver, Final, Graph, EpochOf, Epoch
      <4>2. runs'[k] = runs[k] /\ (ingress[EpochOf(k)].event => ingress'[EpochOf(k)].event)
        BY <1>2, <4>1
      <4> QED BY <4>2 DEF CInv, Started
    <3> QED BY <3>1, <3>2
  <2> QED BY <2>1, <2>2, <2>3, <2>4 DEF Started, Public, EpochOf, At
<1> QED BY <1>2, <1>4, <1>5

\* The cleanup's own run removes; it begins with nothing done.
LEMMA CleanupRunCInv == IInv /\ CInv /\ (BeginCleanup \/ CleanupEffect) => CInv'
<1> SUFFICES ASSUME IInv, CInv, BeginCleanup \/ CleanupEffect PROVE CInv'
  OBVIOUS
<1>1. /\ abort \in Abort /\ abort.at \in {"begin", "clean"} /\ At("failed")
      /\ UNCHANGED <<driver, graph, late>> /\ driver.k \notin late
  <2>1. /\ abort \in Abort /\ (abort.at # "idle" => At("failed"))
        /\ abort.at \in {"begin", "clean"} => driver.k \notin late
    BY DEF IInv, TypeOK, AfterFailure
  <2>2. CASE BeginCleanup
    BY <2>1, <2>2 DEF BeginCleanup, AbortAt
  <2>3. CASE CleanupEffect
    BY <2>1, <2>3 DEF CleanupEffect, Execute, AbortAt
  <2> QED BY <2>2, <2>3
<1>2. /\ abort'.at \in {"clean", "advance", "verify"} /\ abort'.active = abort.active
      /\ abort'.resources = abort.resources /\ abort'.emergency = abort.emergency
      /\ abort'.compensated = abort.compensated
  BY <1>1 DEF BeginCleanup, CleanupEffect, AbortGoto, Abort
<1>3. Cleanup \in Graph
  BY DEF Cleanup, Graph
<1>4. InOrder' /\ RunsInOrder' /\ Started'
  <2>1. CASE BeginCleanup
    <3>1. ingress' = ingress /\ \A g \in 0 .. Final : runs'[g] = runs[g]
      BY <2>1 DEF BeginCleanup, Cleanup, Final, IInv, TypeOK, Graph
    <3>2. RunsInOrder'
      <4>1. driver.at = "failed" /\ \A g \in 1 .. Final : g \in 0 .. Final
        BY <1>1 DEF At, Final
      <4> QED BY <1>1, <3>1, <4>1 DEF CInv, RunsInOrder
    <3>3. InOrder' /\ Started'
      <4>1. runs'[driver.k] = runs[driver.k]
        BY <3>1 DEF IInv, TypeOK, Driver
      <4> QED BY <1>1, <3>1, <4>1 DEF CInv, InOrder, Started, At, Removed, Revoked
    <3> QED BY <3>2, <3>3
  <2>2. CASE CleanupEffect
    BY <1>1, <1>3, <2>2, ExecuteKeepsStarted DEF CleanupEffect
  <2> QED BY <2>1, <2>2
<1>5. Chosen' /\ Gone'
  <2>1. \A e \in abort.emergency : ingress[e].event => ingress'[e].event
    <3>1. CASE BeginCleanup
      BY <3>1 DEF BeginCleanup
    <3>2. CASE CleanupEffect
      <4>1. TypeOK /\ InOrder /\ (Public(graph) => ingress[EpochOf(graph)].event)
        BY DEF IInv, CInv, Started
      <4>2. \A e \in Epoch : ingress[e].event => ingress'[e].event
        BY <1>3, <3>2, <4>1, ExecuteEffects DEF CleanupEffect
      <4> QED BY <1>1, <4>2 DEF Abort
    <3> QED BY <3>1, <3>2
  <2> QED BY <1>2, <2>1 DEF CInv, Chosen, Gone
<1>6. Covered'
  <2>1. \A e \in Recorded \ abort.resources :
           (Removed(e) /\ Revoked(e)) \/ (Allocating(e) /\ ingress[e].row = "active")
    BY <1>1 DEF CInv, Covered
  <2>2. CASE BeginCleanup
    BY <1>1, <1>2, <2>1, <2>2 DEF BeginCleanup, Covered, Recorded, Removed, Revoked, Allocating
  <2>3. CASE CleanupEffect
    <3>1. ASSUME NEW e \in Recorded' \ abort.resources
          PROVE  (Removed(e) /\ Revoked(e))' \/ (Allocating(e) /\ ingress[e].row = "active")'
      BY <1>1, <1>3, <2>1, <2>3, <3>1, ExecuteCovers DEF CleanupEffect
    <3> QED BY <1>2, <3>1 DEF Covered
  <2> QED BY <2>2, <2>3
<1> QED BY <1>4, <1>5, <1>6 DEF CInv

\* The cleanup's own graph has no ingress.
LEMMA CleanupAdvanceCInv == IInv /\ CInv /\ CleanupAdvance => CInv'
<1> SUFFICES ASSUME IInv, CInv, CleanupAdvance PROVE CInv'
  OBVIOUS
<1>1. /\ abort \in Abort /\ abort.at = "advance" /\ At("failed") /\ graph' = 5
      /\ UNCHANGED <<driver, runs, ingress, late>> /\ driver.k \in 0 .. 4
  BY DEF CleanupAdvance, Commit, AbortAt, IInv, TypeOK, AfterFailure, Driver, Final, Cleanup
<1>2. /\ abort'.at = "verify" /\ abort'.active = abort.active
      /\ abort'.resources = abort.resources /\ abort'.emergency = abort.emergency
      /\ abort'.compensated = abort.compensated
  BY <1>1 DEF CleanupAdvance, AbortGoto, Abort
<1>3. graph' # driver.k /\ ~Public(graph)'
  BY <1>1 DEF Public
<1>4. InOrder' /\ RunsInOrder'
  BY <1>1, <1>3 DEF CInv, InOrder, RunsInOrder
<1>5. Started'
  BY <1>1, <1>3 DEF CInv, Started, At, Removed, Revoked
<1>6. Chosen' /\ Gone'
  BY <1>1, <1>2 DEF CInv, Chosen, Gone
<1>7. Covered'
  BY <1>1, <1>2, <1>3 DEF CInv, Covered, Recorded, Removed, Revoked, Allocating
<1> QED BY <1>4, <1>5, <1>6, <1>7 DEF CInv

\* A call the cleanup gives up is not the scenario's.
LEMMA CleanupRaisesCInv == IInv /\ CInv /\ CleanupRaises => CInv'
<1> SUFFICES ASSUME IInv, CInv, CleanupRaises PROVE CInv'
  OBVIOUS
<1>1. /\ abort \in Abort /\ abort.at \in {"begin", "clean", "advance"}
      /\ UNCHANGED <<driver, graph, runs, ingress>> /\ driver.k \notin late'
  BY DEF CleanupRaises, serverVars, IInv, TypeOK, Driver, Final, Cleanup
<1>2. /\ abort'.at = "verify" /\ abort'.active = abort.active
      /\ abort'.resources = abort.resources /\ abort'.emergency = abort.emergency
      /\ abort'.compensated = abort.compensated
  BY <1>1 DEF CleanupRaises, AbortGoto, Abort
<1>3. InOrder' /\ RunsInOrder' /\ Started'
  BY <1>1 DEF CInv, InOrder, RunsInOrder, Started, At, Removed, Revoked
<1>4. Chosen' /\ Gone'
  BY <1>1, <1>2 DEF CInv, Chosen, Gone
<1>5. Covered'
  BY <1>1, <1>2 DEF CInv, Covered, Recorded, Removed, Revoked, Allocating
<1> QED BY <1>3, <1>4, <1>5 DEF CInv

\* Compensation takes from an allocation whose connector has started.
LEMMA CompensateCInv == IInv /\ CInv /\ Compensate => CInv'
<1> SUFFICES ASSUME IInv, CInv, Compensate PROVE CInv'
  OBVIOUS
<1>1. /\ abort \in Abort /\ abort.at = "emergency" /\ UNCHANGED <<driver, graph, runs, late>>
      /\ ingress \in [Epoch -> Allocation]
  BY DEF Compensate, AbortAt, IInv, TypeOK
<1>2. PICK e \in abort.emergency : \E done \in SUBSET Stage :
         /\ ingress' = [ingress EXCEPT
               ![e].version = IF "custody" \in done THEN "revoked" ELSE ingress[e].version,
               ![e].connector = ingress[e].connector /\ "connector" \notin done,
               ![e].cloud = ingress[e].cloud \ done]
         /\ \E answered \in SUBSET done : abort' = Compensated(e, answered)
  BY DEF Compensate
<1>3. PICK done \in SUBSET Stage :
         /\ ingress' = [ingress EXCEPT
               ![e].version = IF "custody" \in done THEN "revoked" ELSE ingress[e].version,
               ![e].connector = ingress[e].connector /\ "connector" \notin done,
               ![e].cloud = ingress[e].cloud \ done]
         /\ \E answered \in SUBSET done : abort' = Compensated(e, answered)
  BY <1>2
<1>4. PICK answered \in SUBSET done : abort' = Compensated(e, answered)
  BY <1>3
<1>5. e \in Epoch /\ ingress[e].event /\ e \in abort.active /\ Ordered(ingress[e])
  BY <1>1 DEF CInv, Chosen, InOrder, Abort
<1>6. /\ abort'.at = "emergency" /\ abort'.active = abort.active
      /\ abort'.resources = abort.resources /\ abort'.emergency = abort.emergency \ {e}
      /\ abort'.compensated = abort.compensated \cup {e}
  BY <1>1, <1>4 DEF Compensated, Abort
<1>7. /\ ingress'[e].row = ingress[e].row /\ ingress'[e].event = ingress[e].event
      /\ ingress'[e].version \in {ingress[e].version, "revoked"}
      /\ ingress'[e].connector => ingress[e].connector
      /\ \A f \in Epoch \ {e} : ingress'[f] = ingress[f]
  <2> DEFINE v == IF "custody" \in done THEN "revoked" ELSE ingress[e].version
             b == ingress[e].connector /\ "connector" \notin done
             c == ingress[e].cloud \ done
             h == [ingress[e] EXCEPT !.version = v]
             i == [h EXCEPT !.connector = b]
             j == [i EXCEPT !.cloud = c]
  <2>1. v \in {ingress[e].version, "revoked"} /\ (b => ingress[e].connector)
    OBVIOUS
  <2>2. ingress' = [ingress EXCEPT ![e] = j] /\ ingress[e] \in Allocation
    BY <1>1, <1>3, <1>5
  <2> HIDE DEF v, b, c
  <2>3. /\ h.row = ingress[e].row /\ h.event = ingress[e].event /\ h.version = v
        /\ h.connector = ingress[e].connector /\ "connector" \in DOMAIN h
        /\ "cloud" \in DOMAIN h
    BY <2>2 DEF Allocation
  <2> HIDE DEF h
  <2>4. /\ i.row = ingress[e].row /\ i.event = ingress[e].event /\ i.version = v
        /\ i.connector = b
    BY <2>3
  <2> HIDE DEF i
  <2>5. /\ j.row = ingress[e].row /\ j.event = ingress[e].event /\ j.version = v
        /\ j.connector = b
    BY <2>4
  <2> HIDE DEF j
  <2>6. ingress'[e] = j /\ \A f \in Epoch \ {e} : ingress'[f] = ingress[f]
    BY <1>1, <1>5, <2>2
  <2> QED BY <2>1, <2>5, <2>6
<1>8. ASSUME NEW f \in Epoch
      PROVE  /\ ingress'[f].row = ingress[f].row
             /\ ingress[f].event => ingress'[f].event
             /\ Revoked(f) => Revoked(f)'
             /\ Ordered(ingress'[f])
  <2>1. CASE f = e
    <3>1. ingress[e].row # "none"
      BY <1>5 DEF Ordered
    <3> QED BY <1>5, <1>7, <2>1, <3>1 DEF Revoked, Ordered
  <2>2. CASE f # e
    BY <1>7, <2>2 DEF Revoked, CInv, InOrder
  <2> QED BY <2>1, <2>2
<1>9. InOrder' /\ RunsInOrder'
  <2>1. InOrder'
    BY <1>8 DEF InOrder
  <2> QED BY <1>1, <2>1 DEF CInv, RunsInOrder
<1>10. Started'
  <2>1. 1 \in Epoch /\ 2 \in Epoch /\ \A g : EpochOf(g) \in Epoch
    BY DEF Epoch, EpochOf
  <2>2. ingress'[2].row = ingress[2].row /\ ingress'[1].row = ingress[1].row
        /\ (Revoked(1) => Revoked(1)')
    BY <1>8, <2>1
  <2>3. \A g : ingress[EpochOf(g)].event => ingress'[EpochOf(g)].event
    BY <1>8, <2>1
  <2>4. Started
    BY DEF CInv
  <2>5. Public(graph)' => ingress'[EpochOf(graph')].event
    BY <1>1, <2>3, <2>4 DEF Started, Public
  <2>6. (runs[driver.k] = "succeeded" /\ Public(driver.k))'
           => ingress'[EpochOf(driver'.k)].event
    BY <1>1, <2>3, <2>4 DEF Started, Public, At
  <2> QED BY <1>1, <2>2, <2>4, <2>5, <2>6 DEF Started, At, Removed, EpochOf
<1>11. Chosen' /\ Gone'
  <2>1. abort.active \subseteq Epoch
    BY <1>1 DEF Abort
  <2>2. \A f \in abort.emergency : ingress'[f].event
    BY <1>8, <2>1 DEF CInv, Chosen
  <2> QED BY <1>5, <1>6, <2>2 DEF CInv, Chosen, Gone
<1>12. Covered'
  <2>1. \A f : f \in Recorded' => f \in Recorded /\ f \in Epoch
    BY <1>8 DEF Recorded
  <2> QED BY <1>1, <1>6, <1>8, <2>1 DEF CInv, Covered, Removed, Allocating
<1> QED BY <1>9, <1>10, <1>11, <1>12 DEF CInv

\* A call that was given up may complete an allocation the cleanup has not loaded, or take
\* away what the current graph has; it begins no other allocation.
LEMMA LateExecuteCInv ==
    ASSUME IInv, CInv, At("failed"), NEW g \in late, Execute(g),
           late' = IF runs'[g] = "running" THEN late ELSE late \ {g},
           UNCHANGED <<driver, abort>>
    PROVE  CInv'
<1> DEFINE k == driver.k
<1>1. /\ g \in Graph /\ k \in Graph /\ k # Cleanup /\ abort \in Abort
      /\ g = k \/ g = Cleanup
      /\ g = k => graph # k
  <2>1. k \in 0 .. 4 /\ Cleanup = 5
    BY DEF IInv, TypeOK, Driver, Final, Cleanup
  <2>2. g = k => graph + 1 = k
    BY DEF IInv, Whereabouts
  <2>3. abort \in Abort /\ late \subseteq Graph /\ late \subseteq {k, Cleanup}
    BY DEF IInv, TypeOK, AfterFailure
  <2>4. k \in Graph /\ k # Cleanup
    BY <2>1 DEF Graph
  <2>5. g = k => graph # k
    <3>1. graph \in Nat
      BY DEF IInv, TypeOK, Graph
    <3> QED BY <2>2, <3>1
  <2> QED BY <2>3, <2>4, <2>5
<1>2. graph' = graph /\ runs[g] = "running"
  BY DEF Execute
<1>3. /\ InOrder /\ TypeOK /\ (Public(graph) => ingress[EpochOf(graph)].event)
  BY DEF IInv, CInv, Started
<1>4. \A h \in Graph \ {g} : runs'[h] = runs[h]
  BY <1>1, <1>3, ExecuteEffects
<1>5. k \in late' /\ runs'[k] = "succeeded" => k \in late /\ runs[k] = "succeeded"
  BY <1>1, <1>4
<1>6. InOrder' /\ RunsInOrder' /\ Started'
  BY <1>1, <1>2, ExecuteKeepsStarted
<1>7. Chosen'
  <2>1. abort.emergency \subseteq Epoch
    BY <1>1 DEF Abort
  <2>2. \A e \in abort.emergency : ingress[e].event => ingress'[e].event
    BY <1>1, <1>3, <2>1, ExecuteEffects
  <2> QED BY <2>2 DEF CInv, Chosen
<1>8. Covered'
  <2>1. ASSUME abort.at \in {"evidence", "ready", "begin", "clean", "advance", "verify",
                             "emergency"},
               NEW e \in Recorded' \ abort.resources
        PROVE  (Removed(e) /\ Revoked(e))' \/ (Allocating(e) /\ ingress[e].row = "active")'
    <3>1. e \in Recorded \ abort.resources =>
             (Removed(e) /\ Revoked(e)) \/ (Allocating(e) /\ ingress[e].row = "active")
      BY <2>1 DEF CInv, Covered
    <3> QED BY <1>1, <1>2, <1>5, <2>1, <3>1, ExecuteCovers
  <2> QED BY <2>1 DEF Covered
<1>9. Gone'
  <2>1. ASSUME abort.at = "inventory", NEW e \in Epoch
        PROVE  \/ ingress'[e].row = "none"
               \/ /\ ~ingress'[e].connector /\ Revoked(e)'
                  /\ Removed(e)' \/ runs'[k] = "failed"
               \/ Allocating(e)' /\ ingress'[e].cloud = Whole
    <3>1. \/ ingress[e].row = "none"
          \/ ~ingress[e].connector /\ Revoked(e) /\ (Removed(e) \/ runs[k] = "failed")
          \/ Allocating(e) /\ ingress[e].cloud = Whole
      BY <2>1 DEF CInv, Gone
    <3>2. /\ Removed(e) => ingress'[e] = ingress[e]
          /\ ingress[e].row = "none" =>
                \/ ingress'[e].row = "none"
                \/ /\ ingress'[e].row = "active" /\ ingress'[e].cloud = Whole
                   /\ Public(g) /\ e = EpochOf(g)
          /\ Public(g) /\ e = EpochOf(g) /\ ingress[e].cloud = Whole
                => ingress'[e].cloud = Whole
          /\ ~Public(g) /\ ~(Public(graph) /\ e = EpochOf(graph)) => ingress'[e] = ingress[e]
          /\ ~Public(g) /\ ~ingress[e].connector /\ ingress[e].version = "revoked"
                => ~ingress'[e].connector /\ ingress'[e].version = "revoked"
      BY <1>1, <1>3, <2>1, ExecuteEffects
    <3>3. ~Public(Cleanup)
      BY DEF Public, Cleanup
    <3>4. CASE ingress[e].row = "none"
      <4>1. Public(g) /\ e = EpochOf(g) => Allocating(e)'
        BY <1>1, <1>2, <1>5, <3>3 DEF Allocating
      <4> QED BY <3>2, <3>4, <4>1
    <3>5. CASE ~ingress[e].connector /\ Revoked(e) /\ Removed(e)
      BY <3>2, <3>5 DEF Revoked, Removed
    <3>6. CASE ~ingress[e].connector /\ Revoked(e) /\ runs[k] = "failed"
      <4>1. g = Cleanup /\ runs'[k] = "failed"
        BY <1>1, <1>2, <1>4, <3>6
      <4> QED BY <3>2, <3>3, <3>6, <4>1 DEF Revoked
    <3>7. CASE Allocating(e) /\ ingress[e].cloud = Whole
      <4>1. Allocating(e)'
        BY <1>2, <1>5, <3>7 DEF Allocating
      <4>2. Public(k) /\ e = EpochOf(k) /\ graph # k
        BY <3>7 DEF Allocating
      <4>3. ~(Public(graph) /\ e = EpochOf(graph))
        BY <4>2 DEF Public, EpochOf
      <4> QED BY <1>1, <3>2, <3>3, <3>7, <4>1, <4>2, <4>3
    <3> QED BY <3>1, <3>4, <3>5, <3>6, <3>7
  <2> QED BY <2>1 DEF Gone
<1> QED BY <1>6, <1>7, <1>8, <1>9 DEF CInv

\* An advance that was given up commits a graph whose run has succeeded.
LEMMA LateCommitCInv ==
    ASSUME IInv, CInv, At("failed"), NEW g \in late, Commit(g), late' = late \ {g},
           UNCHANGED <<driver, abort>>
    PROVE  CInv'
<1> DEFINE k == driver.k
<1>1. /\ g = k \/ g = Cleanup
      /\ graph' = g /\ UNCHANGED <<runs, ingress>> /\ runs[g] = "succeeded"
      /\ ~Public(Cleanup) /\ k # Cleanup
  BY DEF IInv, TypeOK, AfterFailure, Commit, Public, Cleanup, Driver, Final
<1>2. \A e : Allocating(e) => Allocating(e)'
  BY <1>1 DEF Allocating
<1>3. InOrder' /\ RunsInOrder' /\ Chosen'
  BY <1>1 DEF CInv, InOrder, RunsInOrder, Chosen, At
<1>4. Started'
  BY <1>1 DEF CInv, Started, At, Removed, Revoked
<1>5. Covered'
  BY <1>1, <1>2 DEF CInv, Covered, Recorded, Removed, Revoked
<1>6. Gone'
  BY <1>1, <1>2 DEF CInv, Gone, Removed, Revoked
<1> QED BY <1>3, <1>4, <1>5, <1>6 DEF CInv

\* Or the call ends.
LEMMA LateEffectCInv == IInv /\ CInv /\ LateEffect => CInv'
<1> SUFFICES ASSUME IInv, CInv, LateEffect PROVE CInv'
  OBVIOUS
<1>1. PICK g \in late :
         \/ Execute(g) /\ late' = IF runs'[g] = "running" THEN late ELSE late \ {g}
         \/ Commit(g) /\ late' = late \ {g}
         \/ UNCHANGED serverVars /\ late' = late \ {g}
  BY DEF LateEffect
<1>2. UNCHANGED <<driver, abort>> /\ At("failed")
  BY DEF LateEffect, IInv, AfterFailure
<1>3. CASE UNCHANGED serverVars /\ late' = late \ {g}
  <2>1. UNCHANGED <<graph, runs, ingress>> /\ late' \subseteq late
    BY <1>3 DEF serverVars
  <2>2. \A e : Allocating(e) => Allocating(e)'
    BY <1>2, <2>1 DEF Allocating
  <2>3. InOrder' /\ RunsInOrder' /\ Started' /\ Chosen'
    BY <1>2, <2>1 DEF CInv, InOrder, RunsInOrder, Started, Chosen, At, Removed, Revoked
  <2>4. Covered' /\ Gone'
    BY <1>2, <2>1, <2>2 DEF CInv, Covered, Gone, Recorded, Removed, Revoked
  <2> QED BY <2>3, <2>4 DEF CInv
<1> QED BY <1>1, <1>2, <1>3, LateExecuteCInv, LateCommitCInv

----------------------------------------------------------------------------

\* The account of what exists, next to what is recorded of it, is an invariant.
LEMMA SpecCInv == Spec => [](IInv /\ CInv)
<1>1. IInv /\ CInv /\ [Next]_vars => CInv'
  <2> SUFFICES ASSUME IInv, CInv, [Next]_vars PROVE CInv'
    OBVIOUS
  <2>1. CASE Interrupt \/ OtherRecord \/ UNCHANGED vars
    <3>1. UNCHANGED <<driver, graph, runs, ingress, late, abort>>
      BY <2>1 DEF Interrupt, OtherRecord, vars, serverVars
    <3>2. InOrder' /\ RunsInOrder'
      BY <3>1 DEF CInv, InOrder, RunsInOrder
    <3>3. Started'
      BY <3>1 DEF CInv, Started, At, Removed, Revoked
    <3>4. Chosen' /\ Covered' /\ Gone'
      BY <3>1 DEF CInv, Chosen, Covered, Gone, Recorded, Removed, Revoked, Allocating
    <3> QED BY <3>2, <3>3, <3>4 DEF CInv
  <2>2. CASE Scenario
    BY <2>2, QuietScenarioCInv, BeginCInv, EffectCInv, AdvanceCInv DEF Scenario
  <2>3. CASE AbortCleanup
    BY <2>3, QuietAbortCInv, LoadActiveCInv, LoadAllCInv, JudgeEvidenceCInv, CleanupRunCInv,
       CleanupAdvanceCInv, CleanupRaisesCInv, VerifyAuthoritativeCInv, CompensateCInv,
       VerifyEmergencyCInv
       DEF AbortCleanup
  <2> QED BY <2>1, <2>2, <2>3, LateEffectCInv DEF Next, Terminated
<1> QED BY <1>1, InitCInv, SpecIInv, PTL DEF Spec

\* cloudflare_tunnel_abort_cleanup ends without an error only when nothing is left of any
\* allocation and the token version of every recorded one is revoked, though the call of
\* the dead scenario may have allocated until then.
THEOREM SpecCleanExitMeansGone == Spec => CleanExitMeansGone
<1> DEFINE Clean == \A e \in Epoch :
                      /\ Absent(e)
                      /\ ~ingress[e].connector
                      /\ ingress[e].row # "none" => Revoked(e)
<1>1. ASSUME IInv, CInv, [Next]_vars, abort.exit # abort'.exit,
             abort'.exit \in {"completed", "emergency"}
      PROVE  Clean
  <2>1. abort \in Abort
    BY <1>1 DEF IInv, TypeOK
  <2>2. AssertInventory
    <3>1. CASE Scenario \/ LateEffect \/ Interrupt \/ OtherRecord \/ UNCHANGED vars
      <4>1. abort' = abort
        BY <3>1 DEF Scenario, Register, Checkpoint, Begin, Effect, Advance, AssertEvidence,
           Raise, LateEffect, Interrupt, OtherRecord, vars
      <4> QED BY <1>1, <4>1
    <3>2. ASSUME NEW to \in {"load", "ready", "begin", "clean", "advance", "verify",
                             "emergency", "inventory"}, AbortGoto(to)
          PROVE  abort'.exit = abort.exit
      BY <2>1, <3>2 DEF AbortGoto, Abort
    <3>3. ASSUME NEW how \in {"not attempted", "uncertain"}, Exit(how)
          PROVE  abort'.exit \notin {"completed", "emergency"}
      BY <2>1, <3>3 DEF Exit, Abort
    <3>4. CASE StartAbort
      BY <1>1, <3>2, <3>3, <3>4 DEF StartAbort
    <3>13. CASE LoadFails
      BY <1>1, <3>3, <3>13 DEF LoadFails
    <3>5. CASE LoadActive
      BY <1>1, <2>1, <3>5 DEF LoadActive, Abort
    <3>6. CASE LoadAll
      <4>1. CASE abort' = [abort EXCEPT !.at = "evidence", !.resources = Recorded]
        BY <1>1, <2>1, <4>1 DEF Abort
      <4> QED BY <1>1, <3>3, <3>6, <4>1 DEF LoadAll
    <3>7. CASE JudgeEvidence
      BY <1>1, <2>1, <3>7 DEF JudgeEvidence, Abort
    <3>8. CASE WaitReady \/ BeginCleanup \/ CleanupAdvance \/ CleanupRaises
      BY <1>1, <3>2, <3>8 DEF WaitReady, BeginCleanup, CleanupAdvance, CleanupRaises
    <3>9. CASE CleanupEffect
      BY <1>1, <3>2, <3>9 DEF CleanupEffect
    <3>10. CASE VerifyAuthoritative
      <4>1. CASE abort' = [abort EXCEPT !.at = "inventory", !.authoritative = TRUE]
        BY <1>1, <2>1, <4>1 DEF Abort
      <4> QED BY <1>1, <3>2, <3>10, <4>1 DEF VerifyAuthoritative
    <3>11. CASE Compensate
      <4>1. PICK e \in abort.emergency, answered \in SUBSET Stage :
                 abort' = Compensated(e, answered)
        BY <3>11 DEF Compensate
      <4> QED BY <1>1, <2>1, <4>1 DEF Compensated, Abort
    <3>12. CASE VerifyEmergency
      BY <1>1, <3>2, <3>3, <3>12 DEF VerifyEmergency
    <3> QED BY <1>1, <3>1, <3>4, <3>5, <3>6, <3>7, <3>8, <3>9, <3>10, <3>11, <3>12,
            <3>13 DEF Next, AbortCleanup, Terminated
  <2>3. abort.at = "inventory" /\ \A e \in Epoch : ingress[e].cloud = {}
    <3>1. Exit("uncertain") => abort'.exit \notin {"completed", "emergency"}
      BY <2>1 DEF Exit, Abort
    <3> QED BY <1>1, <2>2, <3>1 DEF AssertInventory, AbortAt, AccountUnchanged, Unchanged
  <2>4. ASSUME NEW e \in Epoch
        PROVE  ~ingress[e].connector /\ (ingress[e].row # "none" => Revoked(e))
    <3>1. \/ ingress[e].row = "none"
          \/ ~ingress[e].connector /\ Revoked(e)
          \/ ingress[e].cloud = Whole
      BY <1>1, <2>3 DEF CInv, Gone
    <3>2. ingress[e].cloud # Whole
      BY <2>3 DEF Whole
    <3>3. ingress[e].row = "none" => ~ingress[e].connector
      BY <1>1 DEF CInv, InOrder, Ordered
    <3> QED BY <3>1, <3>2, <3>3
  <2> QED BY <2>3, <2>4 DEF Absent
<1>2. IInv /\ CInv /\ [Next]_vars =>
         [abort.exit # abort'.exit /\ abort'.exit \in {"completed", "emergency"} => Clean]_vars
  BY <1>1
<1> QED BY <1>2, SpecCInv, PTL DEF Spec, CleanExitMeansGone
=============================================================================
