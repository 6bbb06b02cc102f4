----------------------------- MODULE HostedWorkflow -----------------------------
(***************************************************************************)
(* HostedWorkflow: the driver of the hosted acceptance runs, as it takes   *)
(* one workspace through an approved transition over HTTP and MCP.  It     *)
(* never repeats a call: the first one that fails, lost replies included,  *)
(* ends the script.  cpk-server and Docker are external and modelled by    *)
(* what the driver expects of them; other operators may author graphs and  *)
(* move the current one, another worker may take over a run whose lease    *)
(* has run out.                                                            *)
(***************************************************************************)
EXTENDS Naturals, FiniteSets

CONSTANTS
    Workspace,      \* workspaces of the server
    MaxAttempts,    \* attempts of _execute_to_completion (80)
    MaxRevision,    \* bound of the model: desired graphs authored per workspace
    MaxGeneration,  \* bound of the model: claims of one run
    MaxOthers,      \* bound of the model: acts of others during one transition
    None            \* no graph assigned

ASSUME BoundAssumption == /\ MaxAttempts \in Nat \ {0}
                          /\ {MaxRevision, MaxGeneration, MaxOthers} \subseteq Nat

VARIABLES
    driver,    \* where the script stands, and what it holds
    space,     \* per workspace: the server's record of it
    change,    \* the transition under way, as the server knows it
    docker,    \* per workspace: what runs
    spent,     \* per workspace: execution keys a server that knows them by themselves
               \* has answered for an earlier run
    keyed      \* what the server remembers an execution key by

serverVars == <<space, change, spent>>

\* A node is a role with the configuration that tells its versions apart.
Role == {"hello", "hello-blue", "hello-green", "hello-primary", "hello-observer",
         "router", "multiplexer", "postgres", "gateway", "cloudflared-gateway"}
Node == [role : Role, config : {"plain", "blue", "green"}]

\* The product a node is an instance of (the documents the graph builders take).
Product(role) ==
    CASE role \in {"hello", "hello-blue", "hello-green", "hello-primary", "hello-observer"} ->
            "hello"
      [] role = "cloudflared-gateway" -> "cloudflared"
      [] OTHER -> role

Graph == [nodes : SUBSET Node, revision : 0 .. MaxRevision]
Empty == [nodes |-> {}, revision |-> 0]

Roles(nodes) == {n.role : n \in nodes}
IsPublic(nodes) == "cloudflared-gateway" \in Roles(nodes)

NoChange == [run |-> "none", base |-> Empty, wanted |-> Empty, generation |-> 0,
             stepped |-> {}, others |-> 0]

\* Where the script stands in a transition; else it is in a workspace's bootstrap
\* ("ready", "admissions"), between two steps ("next") or at its end.
TransitionAt == {"session", "read desired", "set desired", "read current", "plan", "request",
                 "visible", "approve", "admit", "claim", "start", "sync", "execute", "resync",
                 "advance", "read back"}

Goto(at) == driver' = [driver EXCEPT !.at = at]

\* What a call's frame held is gone when the call has returned or raised.
Unwound == [driver EXCEPT !.seen = 0, !.authored = Empty, !.generation = 0, !.attempt = 0,
                          !.status = "none"]

\* An exception nobody catches: _sanitized_main prints one line and exits with 1.
Raise == driver' = [Unwound EXCEPT !.at = "failed"]

\* _http, _mcp, _mcp_tool and _mcp_read: a call changes the server and is answered,
\* changes it and the answer is lost or unusable, or does not get through.
Call(effect, answered) == \/ effect /\ (answered \/ Raise)
                          \/ Raise /\ UNCHANGED serverVars

----------------------------------------------------------------------------
(* Bootstrap of a workspace.                                                *)

CreateWorkspace(w) ==
    /\ space' = [space EXCEPT ![w].created = TRUE]
    /\ UNCHANGED <<change, spent>>

\* import_product and the registrations, each under a key of its own.
Admit(w, products, authorities) ==
    /\ space' = [space EXCEPT ![w].products = @ \cup products,
                              ![w].authorities = @ \cup authorities]
    /\ UNCHANGED <<change, spent>>

----------------------------------------------------------------------------
(* One approved transition of workspace w to a graph with these nodes.      *)

\* start_session leaves nothing the later calls depend on.
StartSession(w) ==
    /\ driver.at = "session"
    /\ Call(UNCHANGED serverVars, Goto("read desired"))
    /\ UNCHANGED <<docker, keyed>>

\* set_desired_graph reads the workspace first: the desired graph must be the one
\* the script left there, with a lineage that fits.
ReadDesired(w) ==
    /\ driver.at = "read desired"
    /\ \/ /\ space[w].desired = driver.desired
          /\ driver' = [driver EXCEPT !.at = "set desired", !.seen = space[w].revision]
       \/ Raise
    /\ UNCHANGED <<serverVars, docker, keyed>>

Authored(w, nodes) == [nodes |-> nodes, revision |-> driver.seen + 1]

\* The server compares graph, projection and revision with what was read.
SetDesired(w, nodes) ==
    /\ driver.at = "set desired"
    /\ Call(/\ driver.seen < MaxRevision
            /\ space[w].desired = driver.desired
            /\ space[w].revision = driver.seen
            /\ space' = [space EXCEPT ![w].desired = Authored(w, nodes),
                                      ![w].revision = driver.seen + 1]
            /\ UNCHANGED <<change, spent>>,
            driver' = [driver EXCEPT !.at = "read current",
                                     !.authored = Authored(w, nodes)])
    /\ UNCHANGED <<docker, keyed>>

\* plan_transition reads the current graph before it asks for the plan.
ReadCurrent(w) ==
    /\ driver.at = "read current"
    /\ \/ space[w].current = driver.current /\ Goto("plan")
       \/ Raise
    /\ UNCHANGED <<serverVars, docker, keyed>>

\* What a plan needs to be ready: the products of its nodes, a way into Docker and,
\* for a public gateway, an ingress authority.
Backed(w, nodes) ==
    /\ {Product(r) : r \in Roles(nodes)} \subseteq space[w].products
    /\ {"docker", "delivery"} \subseteq space[w].authorities
    /\ IsPublic(nodes) => "cloudflare" \in space[w].authorities

PlanTransition(w) ==
    /\ driver.at = "plan"
    /\ Call(/\ space[w].current = driver.current
            /\ space[w].desired = driver.authored
            /\ Backed(w, driver.authored.nodes)
            /\ change' = [run |-> "planned", base |-> driver.current,
                          wanted |-> driver.authored, generation |-> 0, stepped |-> {},
                          others |-> change.others]
            /\ UNCHANGED <<space, spent>>,
            Goto("request"))
    /\ UNCHANGED <<docker, keyed>>

\* request_approval, assert_approval_visible (the request must be among the ten
\* pending ones it lists), approve, admit.
Moves(at, from, to, next) ==
    /\ driver.at = at
    /\ Call(/\ change.run = from
            /\ change' = [change EXCEPT !.run = to]
            /\ UNCHANGED <<space, spent>>,
            Goto(next))
    /\ UNCHANGED <<docker, keyed>>

RequestApproval == Moves("request", "planned", "pending", "visible")
AssertVisible   == Moves("visible", "pending", "pending", "approve")
Approve         == Moves("approve", "pending", "approved", "admit")
AdmitPlan       == Moves("admit", "approved", "admitted", "claim")

\* The run is held under a lease of 600 seconds; what the claim answers carries the
\* generation every later call has to present (_claimed_run_from_result).
Claim ==
    /\ driver.at = "claim"
    /\ Call(/\ change.run = "admitted"
            /\ change' = [change EXCEPT !.run = "claimed", !.generation = 1]
            /\ UNCHANGED <<space, spent>>,
            driver' = [driver EXCEPT !.at = "start", !.generation = 1])
    /\ UNCHANGED <<docker, keyed>>

\* start_run accepts the answer only for its own run and generation.
StartRun(synced) ==
    /\ driver.at = "start"
    /\ Call(/\ change.run = "claimed"
            /\ change.generation = driver.generation
            /\ change' = [change EXCEPT !.run = "running"]
            /\ UNCHANGED <<space, spent>>,
            driver' = [driver EXCEPT !.at = IF synced THEN "sync" ELSE "execute",
                                     !.attempt = 0])
    /\ UNCHANGED <<docker, keyed>>

----------------------------------------------------------------------------
(* _execute_to_completion.                                                  *)

Attached == {"server", "driver"}

\* _sync_runtime_networks: both containers join every network of the workspace, which
\* there must be if one is required.
SyncNetworks(w, required, answered) ==
    /\ \/ /\ required => docker[w].network
          /\ docker' = [docker EXCEPT ![w].attached = IF docker[w].network THEN Attached
                                                                           ELSE @]
          /\ answered
       \/ Raise /\ UNCHANGED docker
    /\ UNCHANGED <<serverVars, keyed>>

Answer(run, status, effects, activity) ==
    [own |-> TRUE, run |-> run, status |-> status, effects |-> effects,
     activity |-> activity]

\* Mutant of ExecuteValid: the run of an answer is not looked at.
ExecuteValidForAnyRun(a) ==
    \/ a.status \in {"progressed", "in-flight", "uncertain"} /\ a.run = "running" /\ a.activity
    \/ a.status = "completed" /\ a.run = "succeeded" /\ ~a.activity
    \/ a.status = "failed" /\ a.run = "failed" /\ (a.effects = 0 => ~a.activity)
    \/ a.status = "unsupported" /\ a.run = "failed" /\ a.effects = 1 /\ a.activity
    \/ a.status = "blocked" /\ a.run \in {"running", "paused"} /\ ~a.activity

\* _validate_execute_result: an answer about this run whose parts agree.
ExecuteValid(a) ==
    /\ a.own
    /\ \/ a.status \in {"progressed", "in-flight", "uncertain"} /\ a.run = "running" /\ a.activity
       \/ a.status = "completed" /\ a.run = "succeeded" /\ ~a.activity
       \/ a.status = "failed" /\ a.run = "failed" /\ (a.effects = 0 => ~a.activity)
       \/ a.status = "unsupported" /\ a.run = "failed" /\ a.effects = 1 /\ a.activity
       \/ a.status = "blocked" /\ a.run \in {"running", "paused"} /\ ~a.activity

\* Mutant of NextAttempt: the loop goes on until it is done.
NextAttemptForEver(synced) ==
    driver' = [driver EXCEPT !.at = IF synced THEN "sync" ELSE "execute"]

\* The attempts are numbered, and there are MaxAttempts of them.
NextAttempt(synced) ==
    IF driver.attempt + 1 < MaxAttempts
       THEN driver' = [driver EXCEPT !.at = IF synced THEN "sync" ELSE "execute",
                                     !.attempt = @ + 1]
       ELSE Raise

\* What the driver does with an answer: the networks first, then the status.
Take(a, synced) ==
    IF ~ExecuteValid(a) THEN Raise
    ELSE IF synced THEN driver' = [driver EXCEPT !.at = "resync", !.status = a.status]
    ELSE CASE a.status = "completed" -> Goto("advance")
           [] a.status \in {"failed", "unsupported", "uncertain", "blocked"} -> Raise
           [] OTHER -> NextAttempt(synced)

Wanted(w) == change.wanted.nodes
Differs(w) == {r \in Role : {n \in docker[w].nodes : n.role = r}
                            # {n \in Wanted(w) : n.role = r}}
Matches(w) == Differs(w) = {} /\ (docker[w].network <=> Wanted(w) # {})

\* The effects of a run, one an attempt: the network before the first node and after
\* the last one, or one node made what it should be.  Docker keeps a network in use.
CreateNetwork(w) ==
    /\ Wanted(w) # {} /\ ~docker[w].network
    /\ docker' = [docker EXCEPT ![w].network = TRUE]
    /\ UNCHANGED change

Reconcile(w, role) ==
    /\ docker[w].network /\ role \in Differs(w)
    /\ docker' = [docker EXCEPT ![w].nodes = {n \in @ : n.role # role}
                                             \cup {n \in Wanted(w) : n.role = role},
                                ![w].volume = @ \/ (role = "postgres")]
    /\ change' = [change EXCEPT !.stepped = @ \cup {role}]

RemoveNetwork(w) ==
    /\ Wanted(w) = {} /\ Differs(w) = {}
    /\ docker[w].network /\ docker[w].attached = {}
    /\ docker' = [docker EXCEPT ![w].network = FALSE]
    /\ UNCHANGED change

Effect(w) == CreateNetwork(w) \/ RemoveNetwork(w) \/ \E role \in Role : Reconcile(w, role)

Progress(w, synced) ==
    /\ Effect(w)
    /\ \/ Take(Answer("running", "progressed", 1, TRUE), synced)
       \/ Take(Answer("running", "uncertain", 1, TRUE), synced)
       \/ Raise

\* No effect: the one before is still under way, or the answer contradicts itself.
Waits(synced) ==
    /\ \/ Take(Answer("running", "in-flight", 0, TRUE), synced)
       \/ Take(Answer("running", "completed", 0, FALSE), synced)
    /\ UNCHANGED <<change, docker>>

Ends(run, answer, synced) ==
    /\ change' = [change EXCEPT !.run = run]
    /\ Take(answer, synced) \/ Raise
    /\ UNCHANGED docker

\* The key of an attempt names the workspace and the attempt, not the run: a server
\* that knows keys by themselves answers with what an earlier run was told.
Repeated(w, synced) ==
    /\ keyed = "by itself" /\ driver.attempt < spent[w]
    /\ \E a \in {Answer("running", "progressed", 1, TRUE),
                 Answer("succeeded", "completed", 0, FALSE)} :
          Take([a EXCEPT !.own = FALSE], synced)
    /\ UNCHANGED <<change, docker>>

Execute(w, synced) ==
    /\ driver.at = "execute"
    /\ \/ Repeated(w, synced)
       \/ /\ ~(keyed = "by itself" /\ driver.attempt < spent[w])
          /\ change.run = "running" /\ change.generation = driver.generation
          /\ \/ ~Matches(w) /\ Progress(w, synced)
             \/ Waits(synced)
             \/ Matches(w) /\ Ends("succeeded", Answer("succeeded", "completed", 0, FALSE), synced)
             \/ Ends("failed", Answer("failed", "failed", 1, TRUE), synced)
             \/ Ends("failed", Answer("failed", "unsupported", 1, TRUE), synced)
             \/ Ends("paused", Answer("paused", "blocked", 0, FALSE), synced)
       \/ Raise /\ UNCHANGED <<change, docker>>
    /\ spent' = [spent EXCEPT ![w] = IF /\ keyed = "by itself" /\ change'.run = "succeeded"
                                        /\ @ <= driver.attempt
                                        THEN driver.attempt + 1 ELSE @]
    /\ UNCHANGED <<space, keyed>>

Sync(w) == /\ driver.at = "sync"
           /\ SyncNetworks(w, FALSE, Goto("execute"))

\* After the answer the networks are joined again; a completed run must have one.
Resync(w) ==
    /\ driver.at = "resync"
    /\ SyncNetworks(w, driver.status = "completed",
          CASE driver.status = "completed" -> Goto("advance")
            [] driver.status \in {"progressed", "in-flight"} -> NextAttempt(TRUE)
            [] OTHER -> Raise)

----------------------------------------------------------------------------

\* advance_current_graph sends the coordinates recorded with the plan, and
\* _validate_advance_result takes no answer with others.
Advance(w) ==
    /\ driver.at = "advance"
    /\ Call(/\ change.run = "succeeded"
            /\ change.generation = driver.generation
            /\ space[w].current = change.base
            /\ space[w].desired = change.wanted
            /\ space' = [space EXCEPT ![w].current = change.wanted]
            /\ UNCHANGED <<change, spent>>,
            Goto("read back"))
    /\ UNCHANGED <<docker, keyed>>

\* The transition's result is what the next one of the script expects to find.
ReadBack(w) ==
    /\ driver.at = "read back"
    /\ \/ /\ space[w].current = driver.authored
          /\ driver' = [Unwound EXCEPT !.step = @ + 1, !.at = "next",
                                      !.current = driver.authored,
                                      !.desired = driver.authored]
       \/ Raise
    /\ UNCHANGED <<serverVars, docker, keyed>>

RunApprovedTransition(w, nodes, synced) ==
    \/ StartSession(w)
    \/ ReadDesired(w) \/ SetDesired(w, nodes)
    \/ ReadCurrent(w) \/ PlanTransition(w)
    \/ RequestApproval \/ AssertVisible \/ Approve \/ AdmitPlan
    \/ Claim \/ StartRun(synced)
    \/ Sync(w) \/ Execute(w, synced) \/ Resync(w)
    \/ Advance(w) \/ ReadBack(w)

----------------------------------------------------------------------------
(* Others who use the server.                                               *)

OtherAuthors(w) ==
    /\ space[w].revision < MaxRevision
    /\ space' = [space EXCEPT ![w].desired = [nodes |-> {}, revision |-> space[w].revision + 1],
                              ![w].revision = @ + 1]
    /\ change' = [change EXCEPT !.others = @ + 1]

OtherMoves(w) ==
    /\ space[w].desired # None
    /\ space' = [space EXCEPT ![w].current = space[w].desired]
    /\ change' = [change EXCEPT !.others = @ + 1]

OtherClaims ==
    /\ change.run \in {"claimed", "running"}
    /\ change.generation < MaxGeneration
    /\ change' = [change EXCEPT !.generation = @ + 1, !.others = @ + 1]
    /\ UNCHANGED space

Others(w) == /\ change.others < MaxOthers
             /\ OtherAuthors(w) \/ OtherMoves(w) \/ OtherClaims
             /\ UNCHANGED <<driver, docker, spent, keyed>>
=============================================================================
