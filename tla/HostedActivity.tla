----------------------------- MODULE HostedActivity -----------------------------
(***************************************************************************)
(* The scripts of the hosted acceptance: each is a sequence of steps over  *)
(* one or more workspaces, ended by the first step that raises.  The       *)
(* driver's own container reads private services, so some steps only make  *)
(* sense while it is attached to the workspace's networks, and others only *)
(* when it is not.                                                         *)
(***************************************************************************)
EXTENDS HostedWorkflow, Sequences

CONSTANT Scripts    \* the scenarios a run follows

VARIABLE script     \* the scenario chosen for this process

vars == <<script, driver, space, change, docker, spent, keyed>>

----------------------------------------------------------------------------
(* Graphs.                                                                  *)

Plain(role) == [role |-> role, config |-> "plain"]
PublicOverlay == {Plain("gateway"), Plain("cloudflared-gateway")}

SingleHelloGraph == {Plain("hello")}
RouterGraph(color, active) ==
    {[role |-> active, config |-> color], [role |-> "router", config |-> color]}
    \cup PublicOverlay
MultiplexerGraph == {Plain("hello-primary"), Plain("hello-observer"), Plain("multiplexer")}
                    \cup PublicOverlay
PostgresGraph == {Plain("gateway"), Plain("postgres"), Plain("cloudflared-gateway")}
PublicGatewayIngressGraph == {Plain("hello")} \cup PublicOverlay
AuthenticatedGatewayPrivateGraph == {Plain("gateway"), Plain("hello"), Plain("postgres")}

----------------------------------------------------------------------------
(* Scripts.                                                                 *)

Step(op, w) == [op |-> op, w |-> w, role |-> "", nodes |-> {}, products |-> {},
                ingress |-> FALSE, synced |-> FALSE]

\* _bootstrap_workspace, and register_cloudflare_ingress_authority after it.
Bootstrap(w, products, ingress) ==
    [Step("bootstrap", w) EXCEPT !.products = products, !.ingress = ingress]
Transition(w, nodes, synced) ==
    [Step("transition", w) EXCEPT !.nodes = nodes, !.synced = synced]
Mentions(w, role) == [Step("mentions", w) EXCEPT !.role = role]

\* _wait_public_gateway_ready and the probe through the public gateway.
PublicProbe(w, role) == [Step("public probe", w) EXCEPT !.role = role]
\* _assert_body, _assert_observer_receipt and the direct probes.
Reads(w, role) == [Step("reads", w) EXCEPT !.role = role]

Teardown(w) == Transition(w, {}, FALSE)

SingleHello(w) ==
    << Bootstrap(w, {"hello"}, FALSE),
       Transition(w, SingleHelloGraph, TRUE),
       Reads(w, "hello") >>

\* Mutant of RouterTransition: the driver stays attached.
RouterTransitionAttached(w) ==
    << Bootstrap(w, {"hello", "router", "gateway", "cloudflared"}, TRUE),
       Transition(w, RouterGraph("blue", "hello-blue"), TRUE),
       Transition(w, RouterGraph("green", "hello-green"), TRUE),
       Teardown(w),
       Step("no networks", w) >>

\* Mutant of RouterTransition: the script leaves its last graph running.
RouterTransitionLeft(w) ==
    << Bootstrap(w, {"hello", "router", "gateway", "cloudflared"}, TRUE),
       Transition(w, RouterGraph("blue", "hello-blue"), TRUE),
       Transition(w, RouterGraph("green", "hello-green"), TRUE),
       Reads(w, "router") >>

RouterTransition(w) ==
    << Bootstrap(w, {"hello", "router", "gateway", "cloudflared"}, TRUE),
       Transition(w, RouterGraph("blue", "hello-blue"), TRUE),
       Mentions(w, "hello-blue"), Mentions(w, "router"),
       Mentions(w, "gateway"), Mentions(w, "cloudflared-gateway"),
       PublicProbe(w, "router"),
       Reads(w, "router"),
       Transition(w, RouterGraph("green", "hello-green"), TRUE),
       Mentions(w, "hello-green"), Mentions(w, "router"),
       PublicProbe(w, "router"),
       Reads(w, "router"),
       Step("disconnect", w),
       Teardown(w),
       Mentions(w, "cloudflared-gateway"),
       Step("no networks", w) >>

\* Mutant of MultiplexerObserver: the networks are not joined on the way.
MultiplexerObserverApart(w) ==
    << Bootstrap(w, {"hello", "multiplexer", "gateway", "cloudflared"}, TRUE),
       Transition(w, MultiplexerGraph, FALSE),
       Reads(w, "multiplexer"), Reads(w, "hello-observer"),
       Step("disconnect", w),
       Teardown(w),
       Step("no networks", w) >>

MultiplexerObserver(w) ==
    << Bootstrap(w, {"hello", "multiplexer", "gateway", "cloudflared"}, TRUE),
       Transition(w, MultiplexerGraph, TRUE),
       Mentions(w, "hello-primary"), Mentions(w, "hello-observer"),
       Mentions(w, "multiplexer"), Mentions(w, "gateway"),
       Mentions(w, "cloudflared-gateway"),
       PublicProbe(w, "multiplexer"),
       Reads(w, "multiplexer"), Reads(w, "hello-observer"),
       Step("disconnect", w),
       Teardown(w),
       Mentions(w, "cloudflared-gateway"),
       Step("no networks", w) >>

PostgresRetainedData(w) ==
    << Bootstrap(w, {"gateway", "postgres", "cloudflared"}, TRUE),
       Transition(w, PostgresGraph, FALSE),
       Mentions(w, "gateway"), Mentions(w, "postgres"),
       Mentions(w, "cloudflared-gateway"),
       PublicProbe(w, "postgres"),
       Step("volume", w),
       Teardown(w),
       Mentions(w, "postgres"),
       [Step("no containers", w) EXCEPT !.role = "postgres"],
       Step("no networks", w),
       Step("volume", w) >>

NegativeCleanup(w) ==
    << Bootstrap(w, {"gateway", "hello", "cloudflared"}, TRUE),
       Transition(w, PublicGatewayIngressGraph, FALSE),
       Mentions(w, "gateway"), Mentions(w, "hello"), Mentions(w, "cloudflared-gateway"),
       PublicProbe(w, "hello"),
       Teardown(w),
       Mentions(w, "cloudflared-gateway"),
       Step("unreachable", w),
       Step("no networks", w) >>

PublicGatewayIngress(w) ==
    << Bootstrap(w, {"gateway", "hello", "cloudflared"}, TRUE),
       Transition(w, PublicGatewayIngressGraph, FALSE),
       Mentions(w, "gateway"), Mentions(w, "hello"), Mentions(w, "cloudflared-gateway"),
       PublicProbe(w, "hello"),
       Teardown(w),
       Mentions(w, "cloudflared-gateway"),
       Step("no networks", w) >>

PublicGatewayToggle(w) ==
    << Bootstrap(w, {"gateway", "hello", "cloudflared"}, TRUE),
       Transition(w, PublicGatewayIngressGraph, FALSE),
       Mentions(w, "gateway"), Mentions(w, "hello"), Mentions(w, "cloudflared-gateway"),
       PublicProbe(w, "hello"),
       Transition(w, SingleHelloGraph, FALSE),
       Mentions(w, "cloudflared-gateway"),
       Step("unreachable", w),
       Step("sync", w),
       Reads(w, "hello"),
       Transition(w, PublicGatewayIngressGraph, TRUE),
       Mentions(w, "gateway"), Mentions(w, "cloudflared-gateway"),
       PublicProbe(w, "hello"),
       Step("disconnect", w),
       Teardown(w),
       Mentions(w, "cloudflared-gateway"),
       Step("no networks", w) >>

\* The probes of this script go through the server and straight to the gateway.
AuthenticatedGatewayPrivate(w) ==
    << Bootstrap(w, {"gateway", "hello", "postgres"}, FALSE),
       Transition(w, AuthenticatedGatewayPrivateGraph, TRUE),
       Mentions(w, "gateway"), Mentions(w, "hello"), Mentions(w, "postgres"),
       Step("sync", w),
       Reads(w, "gateway"), Reads(w, "hello"),
       Step("disconnect", w),
       Teardown(w),
       Mentions(w, "gateway"),
       Step("no networks", w) >>

MultiWorkspaceFoundation ==
    << Bootstrap("workspace-a-router", {"hello", "router"}, FALSE),
       Bootstrap("workspace-b-multiplexer", {"hello", "multiplexer"}, FALSE),
       Bootstrap("workspace-c-postgres", {"postgres"}, FALSE),
       Bootstrap("workspace-d-negative-cleanup",
                 {"hello", "router", "multiplexer", "postgres"}, FALSE) >>

\* Every workspace of this script publishes its gateway under one hostname.
SeededStressPublicIngress ==
    RouterTransition("workspace-a-router")
    \o MultiplexerObserver("workspace-b-multiplexer")
    \o PostgresRetainedData("workspace-c-postgres")
    \o NegativeCleanup("workspace-d-negative-cleanup")

Basic == "cpk-hosted-activity-basic"

\* Every workspace a script names is one the server may be asked for.
ASSUME WorkspaceAssumption ==
    {Basic, "workspace-a-router", "workspace-b-multiplexer", "workspace-c-postgres",
     "workspace-d-negative-cleanup"} \subseteq Workspace

\* The names main takes for a scenario.
ASSUME ScriptsAssumption ==
    Scripts \subseteq
        {"single-hello", "router-transition", "workspace-a-router-transition",
         "workspace-b-multiplexer-observer", "workspace-c-postgres-retained-data",
         "seeded-stress-public-ingress", "multi-workspace-foundation",
         "public-gateway-ingress", "public-gateway-toggle", "authenticated-gateway-private"}

Steps(name) ==
    CASE name = "single-hello" -> SingleHello(Basic)
      [] name = "router-transition" -> RouterTransition(Basic)
      [] name = "workspace-a-router-transition" -> RouterTransition("workspace-a-router")
      [] name = "workspace-b-multiplexer-observer" ->
            MultiplexerObserver("workspace-b-multiplexer")
      [] name = "workspace-c-postgres-retained-data" ->
            PostgresRetainedData("workspace-c-postgres")
      [] name = "seeded-stress-public-ingress" -> SeededStressPublicIngress
      [] name = "multi-workspace-foundation" -> MultiWorkspaceFoundation
      [] name = "public-gateway-ingress" -> PublicGatewayIngress(Basic)
      [] name = "public-gateway-toggle" -> PublicGatewayToggle(Basic)
      [] name = "authenticated-gateway-private" -> AuthenticatedGatewayPrivate(Basic)

----------------------------------------------------------------------------
(* main.                                                                    *)

Init ==
    /\ script \in Scripts
    /\ driver = [step |-> 1, at |-> "ready", current |-> Empty, desired |-> None, seen |-> 0,
                 authored |-> Empty, generation |-> 0, attempt |-> 0, status |-> "none"]
    /\ space = [w \in Workspace |-> [created |-> FALSE, products |-> {}, authorities |-> {},
                                     current |-> Empty, desired |-> None, revision |-> 0]]
    /\ change = NoChange
    /\ docker = [w \in Workspace |-> [network |-> FALSE, attached |-> {}, nodes |-> {},
                                      volume |-> FALSE]]
    /\ spent = [w \in Workspace |-> 0]
    /\ keyed \in {"run", "by itself"}

Now == Steps(script)[driver.step]
AtStep(op) == driver.at = "next" /\ driver.step <= Len(Steps(script)) /\ Now.op = op
NextStep == driver' = [driver EXCEPT !.step = @ + 1, !.at = "next"]

\* A check of the script: it holds and the script goes on, or it ends there.  It may end
\* there although it holds, a request of its own having failed.
Check(holds) ==
    /\ \/ holds /\ NextStep
       \/ Raise
    /\ UNCHANGED <<serverVars, docker, keyed>>

\* Up to 30 requests; a server that is ready with another runtime ends the script.
WaitReady ==
    /\ driver.at = "ready"
    /\ Goto("next") \/ Raise
    /\ UNCHANGED <<serverVars, docker, keyed>>

\* _bootstrap_workspace: the graph the workspace starts with is the script's own.
Create ==
    /\ AtStep("bootstrap")
    /\ Call(CreateWorkspace(Now.w),
            driver' = [driver EXCEPT !.at = "admissions", !.current = Empty, !.desired = None])
    /\ UNCHANGED <<docker, keyed>>

\* The authority to pull images is asked for by the environment; then the runtime's
\* authority, its delivery, the products, and what follows for the public ingress.
Admissions ==
    LET w == Now.w  has == space[w].authorities  missing == Now.products \ space[w].products
    IN /\ driver.at = "admissions"
       /\ \/ has = {} /\ Call(Admit(w, {}, {"pull"}), UNCHANGED driver)
          \/ "docker" \notin has /\ Call(Admit(w, {}, {"docker"}), UNCHANGED driver)
          \/ /\ "docker" \in has /\ "delivery" \notin has
             /\ Call(Admit(w, {}, {"delivery"}), UNCHANGED driver)
          \/ /\ "delivery" \in has
             /\ \E p \in missing : Call(Admit(w, {p}, {}), UNCHANGED driver)
          \/ /\ "delivery" \in has /\ missing = {} /\ Now.ingress
             /\ "cloudflare" \notin has
             /\ Call(Admit(w, {}, {"cloudflare"}), UNCHANGED driver)
          \/ /\ "delivery" \in has /\ missing = {}
             /\ Now.ingress => "cloudflare" \in has
             /\ NextStep /\ UNCHANGED serverVars
       /\ UNCHANGED <<docker, keyed>>

\* run_approved_transition, from its first call to its last.
BeginTransition ==
    /\ AtStep("transition")
    /\ Goto("session")
    /\ change' = NoChange
    /\ UNCHANGED <<space, docker, spent, keyed>>

InTransition == driver.at \in TransitionAt

\* _assert_activity_mentions: the run's events name a step that succeeded on the node.
AssertMentions == AtStep("mentions") /\ Check(Now.role \in change.stepped)

\* Whose gateway answers under the public hostname.
Published == {w \in Workspace : IsPublic(docker[w].nodes)}

\* _wait_public_gateway_ready, and the probe of a private target through that gateway.
ProbePublicGateway ==
    /\ AtStep("public probe")
    /\ Check(\E w \in Published : {"gateway", Now.role} \subseteq Roles(docker[w].nodes))

Reachable(w, role) == "driver" \in docker[w].attached /\ role \in Roles(docker[w].nodes)

\* A request of the driver's own to a private service.
ReadService == AtStep("reads") /\ Check(Reachable(Now.w, Now.role))

\* _assert_public_gateway_unreachable: 30 answers in a row, or the first exception.
AssertUnreachable == AtStep("unreachable") /\ Check(TRUE)

AssertNoNetworks == AtStep("no networks") /\ Check(~docker[Now.w].network)
AssertNoContainers == AtStep("no containers") /\ Check(Now.role \notin Roles(docker[Now.w].nodes))
AssertVolume == AtStep("volume") /\ Check(docker[Now.w].volume)

SyncStep == AtStep("sync") /\ SyncNetworks(Now.w, FALSE, NextStep)

\* _disconnect_runtime_networks: both containers leave; one that was not connected is
\* no error.
Disconnect ==
    /\ AtStep("disconnect")
    /\ \/ docker' = [docker EXCEPT ![Now.w].attached = {}] /\ NextStep
       \/ Raise /\ UNCHANGED docker
    /\ UNCHANGED <<serverVars, keyed>>

Pass ==
    /\ driver.at = "next" /\ driver.step = Len(Steps(script)) + 1
    /\ Goto("passed")
    /\ UNCHANGED <<serverVars, docker, keyed>>

Drive ==
    /\ \/ WaitReady \/ Create \/ Admissions \/ BeginTransition
       \/ InTransition /\ RunApprovedTransition(Now.w, Now.nodes, Now.synced)
       \/ AssertMentions \/ ProbePublicGateway \/ ReadService \/ AssertUnreachable
       \/ AssertNoNetworks \/ AssertNoContainers \/ AssertVolume
       \/ SyncStep \/ Disconnect \/ Pass
    /\ UNCHANGED script

Interfere == InTransition /\ Others(Now.w) /\ UNCHANGED script

Ended == driver.at \in {"passed", "failed"}
Finished == Ended /\ UNCHANGED vars

Next == Drive \/ Interfere \/ Finished

Spec == Init /\ [][Next]_vars

\* The script is one sequential process whose requests all have a time limit.
FairSpec == Spec /\ WF_vars(Drive)

----------------------------------------------------------------------------
(* Properties.                                                              *)

\* The driver asks for the current graph to be advanced only after its own run succeeded
\* and what runs is what was wanted, although the keys of its attempts repeat from one
\* transition to the next (_execute_to_completion, _validate_execute_result).
OwnRunCompleted ==
    driver.at \in {"advance", "read back"} => change.run = "succeeded" /\ Matches(Now.w)

\* When a teardown has nothing left to remove but the network, no container of the
\* harness is attached to it any more (_disconnect_runtime_networks before the teardown,
\* sync_runtime_networks=False in it).
RemovalUnobstructed ==
    driver.at = "execute" /\ Wanted(Now.w) = {} /\ Differs(Now.w) = {}
        => docker[Now.w].attached = {}

\* The driver asks a private service only while it is in the service's network and the
\* service runs (_assert_body, _assert_observer_receipt, the direct probes).
AskedWhereReachable ==
    AtStep("reads") => Reachable(Now.w, Now.role)

\* The workspaces of a script publish under one hostname, PUBLIC_GATEWAY_HOSTNAME: never
\* two of them at a time.
HostnameExclusive == Cardinality(Published) <= 1

\* A script that tears down and passes leaves nothing of its workspaces but the volume
\* of the database whose data is to be retained.
PassedMeansClean ==
    driver.at = "passed" /\ script \notin {"single-hello", "multi-workspace-foundation"} =>
        \A w \in Workspace :
            /\ docker[w].nodes = {} /\ ~docker[w].network /\ docker[w].attached = {}
            /\ w = "workspace-c-postgres" /\ space[w].created => docker[w].volume

\* Every script comes to an end, whatever the server answers.
ScriptEnds == <>Ended
=============================================================================
