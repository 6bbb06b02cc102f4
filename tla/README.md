# Verification of control-plane-kit-servers

This directory holds TLA+ models of the programs in `src/`, the TLC configurations
that check them on small instances, and proofs checked by TLAPS. `PROJECT.json` ties
every definition to the source lines it stands for, every property to a change of the
code that would break it, and every hazard found in the code to the properties that
watch it.

    tlc -workers 2 -config TopologyClient.cfg MCTopologyClient
    tlapm TopologyClientProofs.tla

In this text `client/` is
`src/products/cpk_server/src/control_plane_kit_servers_cpk_server/client/`,
`boundary.py`, `authentication.py` and `server.py` are their neighbours one directory
up, `gateway/` is
`src/products/cpk_local_gateway/src/control_plane_kit_servers_cpk_local_gateway/` and
`scripts/` is `src/scripts/`.

## 1. The system

The repository builds the server products of a control plane. cpk-server is a hosted
process with a public HTTP and an MCP entrance; what it decides (workspaces, plans,
approvals, runs, graph pointers) comes from an operations library that is not in this
repository. The `cpk` topology client drives one deployment at a time through
cpk-server's public routes and keeps a private journal of it. The local gateway runs
bounded probes next to workloads for whoever presents a signed, single-use capability.
The remaining products are a demonstration server, a router and a multiplexer. The
largest part of `scripts/` are drivers that take a live deployment through acceptance
scenarios and clean up after it; the rest build and pin the images.

| part | state it keeps | operations | talks to |
|---|---|---|---|
| topology client (`client/workflow.py`) | the journal of one operation | plan, plan --resume, apply, status | cpk-server's routes; its journal |
| journal store (`client/journal.py`) | `OPERATION.json`, `.json.part`, `.lock` | mutation_lock, read, create, write | the file system; other `cpk` processes |
| transport, profile, command line | none | call, load_profile, main | network, the user |
| gateway verifier (`gateway/verification.py`) | replay cache, in memory | verify, remember_once | gateway server |
| gateway server (`gateway/server.py`) | none | probe, execute_probe | verifier, probed workloads |
| cpk-server boundary (`boundary.py`, `authentication.py`) | configured credentials; requests in the event loop | HTTP handle, MCP handle, health, authenticate | operations library |
| cpk-server bootstrap (`server.py`) | what has been composed | from_environment, main, create_app | operations library, interpreters, resolvers |
| signed probe dispatcher (`server.py`) | none | dispatch | local gateway |
| cpk-server process state (`composition.py`) | targets, active target, observers (immutable values) | record_observer, replace_targets, switch_active_target | - |
| hello server | bounded log of observations | observe, list | database URL it may be given |
| active router, multiplexer | none | forward; forward then deliver to observers | upstream servers |
| hosted activity driver (`scripts/cpk_server_hosted_activity.py`) | graph coordinates it expects, run generation, attempt | ten scenarios of approved transitions and checks | cpk-server over HTTP and MCP, docker, a public hostname |
| source-live scenario (`scripts/cpk_server_secret_provider_source_live.py`) | checkpoint file, inventory file | ingress custody, secret use, gateway key, denial | cpk-server, Cloudflare, docker, a secret provider |
| abort cleanup (same script, `scripts/cpk_server_source_live_abort.py`) | what it loaded, judged and compensated | load, judge, clean up, verify, compensate | the same, in a new process |
| catalogue, image lanes, coordinates | files under version control | load, validate, rewrite | - |

### Hard behaviour, and what correctness means there

* **Topology client.** Between any two lines of `apply()` the process may die, a
  response may be lost or late, another approver, worker or operation may move the
  workspace. Correct means: whatever was sent is in the journal; a repeated request is
  the same request; steps keep their order; the journal never claims what did not
  happen; a stopped operation stays stopped; the command ends; an operation whose
  responses were lost can still be finished.
* **Journal store.** Two processes, a reader without a lock, kills, failing system
  calls and power losses. Correct means: one writer; no torn or stale document under
  the published name; nothing acknowledged is lost.
* **Gateway verifier.** Threads, two clock readings per request, a bounded cache.
  Correct means: a grant is used at most once while it is valid, and the bound holds.
* **Signed probes.** A network that loses, delays and repeats; a gateway that is
  replaced and forgets; grants that expire. Correct means: an attempt recorded as
  succeeded did succeed; one process probes for a grant once before the grant's `exp`.
* **Boundary.** Two surfaces with checks of their own in front of the same services,
  in one event loop. Correct means: no service call without exactly one principal that
  the caller's credential belongs to, none its surface may not make; every request is
  answered.
* **Bootstrap.** Combinations of settings nobody tested, judged twice: when they are
  parsed and when the application is composed. Correct means: what is accepted fits
  together, and a process that serves is what it says it is.
* **Router, multiplexer, hello.** One thread per request; partial failure of
  observers, error statuses of upstreams, a bounded log under concurrent requests.
* **Hosted driver.** It never repeats a call; its execution keys repeat from one
  transition to the next; its own containers join networks it later wants removed.
  Correct means: it advances only what its own run completed, its teardown can
  succeed, and a scenario that passes has left nothing behind.
* **Ingress custody and abort cleanup.** The scenario dies anywhere, cpk-server may
  still be executing its call, and another process has to decide from files and tables
  what may be torn down. Correct means: nothing the current graph uses is, and an exit
  that counts as clean left nothing.

## 2. Modules

    ClientJournal   --EXTENDS--> TopologyClient --> MCTopologyClient (3 cfgs)
                                       \--------> TopologyClientProofs
    JournalRegister --INSTANCE-> JournalStore ----> MCJournalStore (2 cfgs), JournalStoreProofs
    GatewayReplay -------------> MCGatewayReplay, GatewayReplayProofs
    GatewayDispatch -----------> MCGatewayDispatch, GatewayDispatchProofs
    DataPlane -----------------> MCDataPlane (2 cfgs), DataPlaneProofs
    Requests --EXTENDS--> Boundary --INSTANCE--\
                         Bootstrap --EXTENDS--> CpkServer --> MCCpkServer, CpkServerProofs
    HostedWorkflow --EXTENDS--> HostedActivity --> MCHostedActivity, HostedActivityProofs
    IngressCustody (checked as it is) --------> IngressCustodyProofs

### ClientJournal: the journal as a value

The journal document without names, digests and times, and the pure functions on it:
the closed checks of `_validate_journal` and `_validate_pending`
(`PhaseCoordinatesValid`, `PendingPhases`, `PendingBound`, `ValidJournal`), which
response is accepted for a request (`_response_is_bound`), what it records
(`_response_coordinates`) and which phase follows (`_phase_after`); `Resolve` is the
document `_dispatch_pending` writes. Coordinates are Booleans for "recorded", a graph
pointer for the plan's base and a number for the claim generation. `base` stands for
all plan coordinates but `plan_id`, because `_record_plan_coordinates` writes them
together. A history record keeps its route, its key and, for all routes but prepare,
the response's status. Mismatched identifiers are not enumerated: a response with one
of them is a response that is not bound, which leads where a lost response leads.

### TopologyClient: one operation, end to end

| variable | in the code |
|---|---|
| `journal` | the file of the operation |
| `client` | the running invocation: program point and the locals that outlive a public call (`expected_current`, prepare status, `approval_pending`, observed run status) |
| `issued` | keys made by `_new_key` |
| `sent`, `answers` | network and server: every request ever sent, the server's recorded answer for each key |
| `server` | the server's public truth about plan, approval, run, fence and current graph |

A client action ends at a journal write or a public call. `plan()` is PlanStart,
PlanCreate, RecordPrepare, Dispatch, Resolved, FinishReadPlan and FinishReadApproval;
`apply()` is ApplyStart, ReadApproval, ObserveRun, ObserveGraph and then either the
replay of what is pending or RecordStep, RecordAdvance, Converge as `NextStep` says.
`NextStep` spells out the order of the tests in `apply()`, so that a replayed response
which moved the phase is taken into account as it is in the code, including the branch
that re-enters the advance when a converged operation is applied again. A lost
response, a timeout, a refused credential and an unbound response are all
`Unresolved`: the code leaves the request pending in each case. `Abandon` is every
other end of an invocation (death, failed read, missing confirmation, failed write). A
second invocation is refused by `mutation_lock`; JournalStore shows that exclusion, so
here there is one invocation at a time.

The server is external. It handles a key once and repeats its answer; it refuses a
request whose preconditions or fence do not hold; a request stays in `sent`, so it may
be delivered late and after its own replay. Other actors decide the approval, take
over and end the run, and move the current graph.

### JournalStore and JournalRegister: the files

JournalStore follows `mutation_lock`, `read`, `create` and `write` system call by
system call. `directory` is what processes see under the two names, `stable` the set
of directories a power loss may leave (everything since the last fsync of the
directory), `file` the content of each inode with "whole" and "synced" bits. `Kill`
ends a process at any call, `Fails` lets any call fail, `PowerLoss` restarts the
machine from some member of `stable` and tears files that were not synced. Checks on
ownership, mode, type, symlinks and size refuse and change nothing, so they are left
out; the lock file is never removed, so only its flock is kept. JournalRegister is the
promise: one value whose versions follow one another, of which an acknowledged version
is never lost.

### GatewayReplay: the verifier's threads

`verify` as a sequence of stages per thread: decoding and signature (Receive), the
refusals that depend on the grant's content (Refuse, before or after the validity
check as in the code), RequireTemporalValidity with the first clock reading, ReadClock
with the second, and RememberOnce, the part under the lock. Time passes between any
two. `Restart` replaces the process and its memory. The shipped server calls `verify`
from one event loop, which is the instance with one thread; the class guards its cache
with a lock and its tests call it from a pool, so the model has any number. The period
of validity is wider than an entry's life by the skew: the property is stated for uses
before `exp`, which is what the cache is keyed on.

### DataPlane: multiplexer, router and hello servers together

The module composes the three products as a graph may: the multiplexer's primary is
the router, the router's target and the multiplexer's observers are hello servers.
`mux[r]` and `router[r]` are the two threads a request has, `primary[r]` the response
the multiplexer received, `given[h][r]` what hello server `h` answered, `inbox[h]`
what it has accepted but not handled, `log[h]` its `_OBSERVED_REQUESTS`. A caller
whose socket times out (`PrimaryFails`, `ObserverFails`, `RouterFails`) goes on, and
the request it sent stays where it is: router and hello servers may still handle it. A
request is either for "/" or for something hello servers refuse with an error status;
status 200 stands for every success. `PrimaryFails` covers both ways in which `_open`
raises, without a response and with an error status. `RouterDrops` is an exception of
`exc.read` inside `except HTTPError`, which the following `except Exception` does not
catch. A hello server may be replaced, which empties its log.

### Requests, Boundary, Bootstrap and CpkServer: the hosted process

`CpkServer` puts together the two halves of the process.

`Bootstrap` is `main()` and `create_app()`, one action per constructor, in their
order: parsing (`ConfigurationValid`), the credential verifier, the announcement, the
database, the schema, the secret provider, runtime adapter, ingress interpreters,
observer and probe dispatcher. An environment is a record of the eleven choices the
code tells apart; a value that is well formed for the parser and refused by the
constructor it ends up in is "unusable". A refusal inside `main`'s `try` is "refused"
(status 2), every later one "died".

`Boundary` is the event loop with `CpkServerHttpProcessBoundary.handle`,
`CpkServerMcpProcessBoundary.handle`, the health routes and
`authenticate_bearer_credential`. The handlers are coroutines that call the service
without awaiting, so between its body's arrival and its answer nothing else runs:
requests wait in `queue`, and the head's handler tests its conditions (`HttpRefusal`,
`McpRefusal`, in the code's order, the first that applies answers) or asks the
service. `Requests` says what the surfaces tell apart of a request. An exception no
handler catches is the answer "uncaught", which is what the framework makes of it. In
`CpkServer` the verifier's entries come from the environment the bootstrap accepted,
and requests are taken only once it serves.

### GatewayDispatch: a probe from end to end

`_SignedGatewayProbeDispatcher`, the network and the gateway process, together. A
request may be lost, delayed and sent again, a reply lost; the gateway starts with a
target map and a verifier or ends, handles one request at a time, spends the grant
(`HandleRequest`), probes, answers (`ProbeReply`), and may be replaced at any time,
which empties its cache. `HandleRequest` has both clock readings: the grant's period,
widened by the skew, is tested at the first, and `remember_once` evicts by the second
what has reached its `exp`, refuses a grant it still holds and refuses any when the
cache is full. Time may pass between the two. `probed` is the history of the probes of
each grant, with the process that ran it and whether the grant was still live. The
signed client is not in this repository: of its verdicts only that success needs a
passed probe is assumed (`Classified`). GatewayReplay has the verifier by itself, with
threads and its lock.

### HostedWorkflow and HostedActivity: the acceptance driver

HostedWorkflow is one approved transition (`run_approved_transition` and
`_execute_to_completion`), call by call; HostedActivity adds the workspace bootstrap,
the checks and the scenarios, each a sequence of steps.

| variable | in the code |
|---|---|
| `driver` | the running function and what it holds: expected graphs, revision, generation, attempt |
| `script` | the scenario `main` was started with |
| `space`, `change`, `spent`, `keyed` | cpk-server: workspaces, the plan and run under way, the execution keys it has answered |
| `docker` | per workspace the network, who is attached, the nodes, the volume |

`Call` is a request of the driver: it may happen and be answered, happen and lose its
answer, or not happen; the driver repeats none, so the last two end the script. An
execution attempt may progress, wait, end or be blocked, and its answer may contradict
itself, which `_validate_execute_result` must notice. The key of an attempt names
workspace and attempt but not the run; whether the server remembers keys by themselves
or per run is not known here, so the model has both (`keyed`). `Others` are other
operators and a worker who takes over an expired lease.

### IngressCustody: the source-live scenario and its abort cleanup

A transition is condensed to the effects of its run, one by one, and the commit of its
graph. Graphs are numbered 0 to 5: empty, public, private, public again, empty, and
the cleanup's own; the two public ones have an allocation each (`ingress`), with what
exists at Cloudflare, the token version, the row, the container and the start event.
The scenario writes `checkpoint` after each transition and may fail at any point. A
call that is given up may leave cpk-server at work: `late` holds the graphs it is
still executing a run towards, or committing, for the scenario (`Raise`) or for the
cleanup itself (`CleanupRaises`), and `LateEffect` is what such a call goes on to do.
The wrapper script starts the cleanup when the scenario has left a state file and a
status other than 0 (`StartAbort`); sent INT or TERM itself (`Interrupt`) it exits
before it has a status, and there is no cleanup. The cleanup loads the rows, which may
end it (`LoadFails`), judges the run of each (`JudgeEvidence`, evidence may be
unreadable), waits until cpk-server answers, has it take the deployment down,
verifies, and otherwise compensates the resources of failed runs stage by stage. Each
stage may fail, or succeed and be counted as failed. Somebody else may use the
account.

## 3. What the runs check

| run | checks |
|---|---|
| `topology_client` | `RecordedBeforeDispatch`, `StepsInOrder`, `JournalNotAhead`, `AdvanceJustified`, `StopIsFinal`, `ConvergedFinal`, `InvocationEnds` (every invocation returns), types |
| `topology_client_retried` | `RetriedOperationSettles`: replay never wedges an operation |
| `observed_failure` | shows `StopsOnObservedFailure` violated (section 6) |
| `journal_store` | `JournalWhole`, `WriterUndisturbed`, `AcknowledgedSurvives`, refinement of JournalRegister, types |
| `journal_store_killed` | shows `DeathReleasesWriter` violated (section 6) |
| `gateway_replay` | `UsedOnceWhileLive`, `CacheWithinBound`, types |
| `gateway_dispatch` | `SucceededMeansReached`, `OnceWhileLive` |
| `cpk_server` | `ServesWhatItAnnounces`, `AcceptedSettingsFit`, `CallVouched`, `EveryRequestAnswered` |
| `data_plane` | `ObserversFollowPrimary`, `ObserversFailOpen`, `ReceiptBeforeReply`, `RecordedOnce`, `EveryRequestAnswered`, types |
| `primary_owns_response` | shows `PrimaryOwnsResponse` violated (section 6) |
| `hosted_activity` | `OwnRunCompleted`, `RemovalUnobstructed`, `AskedWhereReachable`, `HostnameExclusive`, `PassedMeansClean`, `ScriptEnds` |
| `source_live` | `CheckpointBehind`, `CurrentIngressSpared`, `CleanExitMeansGone`, `CustodyEnds` |

Types carry some weight where a run checks them: `issued` must stay within the
journal's room for records, clock readings within the instants that have passed, and a
process of the store holds a file exactly while it reads or writes one. In DataPlane
they bound the log. Elsewhere the type invariant is part of the inductive invariant
and is proved with it (section 4), or is not needed.

### Bounds

* TopologyClient: `MaxRecords = 8` for the code's 128: seven requests are one straight
  operation with one execution step, so eight lets an operation converge with one
  progressed step, and makes longer ones run out of budget at every place where they
  can. `MaxActivities = 2`: none, one and several progressed steps. `MaxGeneration =
  2`: our claim and one takeover, or a takeover before it. Three graphs: the plan's
  base, the desired one, another one. Any of them may be current at the start, so
  "nothing to do" and "already moved" both occur.
* JournalStore: `Inode = 4`: the published file, a partial, a file a reader still
  holds and one that is only in a directory a power loss may bring back. `MaxVersion =
  3`: create and two writes, enough for a lost update to turn the register back below
  an acknowledged version. Two processes cover writer against writer and writer
  against reader.
* GatewayReplay: three grants with two short lifetimes and a long one, two threads, a
  cache of two, four instants: the cache fills, refuses, expires and empties while
  threads hold old readings.
* GatewayDispatch: two grants, one of each kind of probe, two targets with every
  combination of declarations that matters, `MaxSends = 2` (a request and its
  repetition), `MaxStarts = 2` (a process and its successor). A cache of one entry, so
  that it is full as soon as one grant is spent; `Skew = 1` and the grants' `exp` 1 and
  2 with `MaxClock = 2`, so that the first is evicted, and accepted again, while it is
  within the skew and the second one is still live.
* CpkServer: every environment is bootstrapped, with one runtime and one ingress kind
  besides those the code has an interpreter for. Requests are made to the hosted
  deployment with a single credential and with principals (`Followed`); the boundary
  sees nothing else of an environment. Two credentials, two principals, `MaxEntries =
  2` for the code's 16, one command, one read; one caller asks everything there is, a
  second one shares the loop with it.
* DataPlane: two requests for "/" and one for another path, both observers the
  multiplexer has sockets for, a log of one entry for the code's 20: two requests
  already push an entry out. One of the hello servers may be replaced, once.
* HostedActivity: six scenarios, of which the seeded stress strings four together in
  one process and so contains the remaining four of the ten (over other workspaces,
  for the plain router transition). `MaxAttempts = 8` for the code's 80: the largest
  graph of the scenarios has five nodes and takes a network, five steps and a
  completion, so a run can complete with an attempt to spare, and run out of them
  while it waits. `MaxRevision = 5`: three transitions of one workspace and two
  authored by others. `MaxGeneration = 2`: the driver's claim and one takeover.
  `MaxOthers = 1` act of others per transition.
* IngressCustody is the scenario's own size: two allocations, four transitions; one
  other record in the account, one interruption of the wrapper.

### Fairness

TopologyClient's `FairSpec` assumes weak fairness of the running client only: it is a
single-threaded process, every public call has a timeout (`transport.py`), every loop
is bounded by the request budget. Nothing is assumed of network, server or operator,
and `Abandon` needs no fairness. `RetriedSpec` is for a different question and assumes
more: nobody else touches the workspace, no process dies, the operator runs the
command again and now and then gives the exact confirmation, and neither server nor
network fails one request for ever (strong fairness of `Resolved`, because any single
call may still fail). Without these no client could finish, with them the property
says that the client does not stand in its own way. `Settled` includes an exhausted
budget, since a plan with more steps than records cannot be finished by design.

DataPlane assumes weak fairness of the multiplexer's threads and of nothing else: each
of their exchanges ends, at the latest by its timeout of five seconds on every socket
operation and the bound on what is read.

CpkServer assumes weak fairness of the event loop's steps: a handler that is ready is
run, and a service call comes back, with whatever answer. It is not assumed of
callers. The queue is one for all of them, so the property also says that none is
passed over.

HostedActivity assumes weak fairness of the driver: it is one sequential process whose
requests and docker commands have time limits. IngressCustody assumes it of the
scenario and of the cleanup, separately, for the same reason; of calls that were given
up it assumes nothing, the cleanup may stop waiting for them. That the cleanup starts
at all is the wrapper's doing, which is true of every failed scenario but not when the
wrapper itself is interrupted: `CustodyEnds` leaves that case out.

## 4. What is proved

Every safety property of section 3, state or action, is a theorem, for all values of
the constants: any graphs, request budget, number of activities and claims; any
writers, inodes and versions of a journal; any threads, grants, lifetimes, skew and
cache size; any requests and observers; any runtime and ingress kinds and callers; any
targets, deliveries and processes; any set of scenarios of the hosted driver and any
bounds on it. Hardly any of the properties is inductive alone. Each module states the
invariant that is, and shows that it holds at first, that every action keeps it (one
lemma per action, or per group of actions that change the same things), and that it
implies the property.

* `TopologyClientProofs`, first invariant: `Spec => []TypeOK`,
  `[]RecordedBeforeDispatch`, `[]JournalNotAhead`. `IInv` adds `KeysInOrder` (history
  holds keys 1, 2, ... and a pending request the last one issued, so the answer under
  the pending key can only be the pending request's), `Placement` (which program
  points have a request pending, and what they know of the plan), `AnswersTrue` (an
  answer, once given, stays true of the server, because plan, approval, admission,
  claim, completion and advance are never taken back) and `NoPlanNoApproval`. The
  proof goes by action: steps that only move the invocation (`ClientMoves`, `Returns`,
  `Proceeds`), steps that record a request (`RecordRequestIInv`), that resolve one
  (`ResolvedIInv`, by route), that write plan coordinates (`PlanRecorded`), and steps
  of the server, which preserve answers because the server only moves forward
  (`ServerKeeps`, `HandlerAnswers`).
* `TopologyClientProofs`, second invariant: `Spec => []StepsInOrder`, `[]StopIsFinal`,
  `[]AdvanceJustified`, and `Spec => ConvergedFinal`. `JInv`, on top of `IInv`, ties
  the phase to what lies behind it: `PhaseFits` and `HistoryInOrder` (no record is
  later than the phase allows, and records are in `apply()`'s order, whichever
  responses were lost and replayed), `StopRecorded` (a stopping status is the last
  record), `SentOnce` and `AnswersFit` (a key is one request, answered by a status of
  its route), `FenceKept` (the recorded generation is the claim's own, and an advance
  names the recorded base). Its step needs `IInv` after the step as well.
* `JournalStoreProofs`: `Spec => []TypeOK`, `[]JournalWhole`, `[]WriterUndisturbed`,
  `[]AcknowledgedSurvives`, and the refinement `Spec => RegisterSpec`. `IInv` says what
  each program point of a process may rely on (`Undisturbed`: the holder of the lock is
  the only one whose partial, loaded version and published file can be what they are)
  and what a power loss may bring back (`Stable`: files that are whole and synced, not
  older than what was acknowledged, not newer than what readers see). `StepIInv` is the
  reason why writers do not disturb each other: a step of the holder is invisible to
  processes outside, a step of those touches no file. For the refinement every step is
  mapped (`StepRefines`): publishing is the register's write, the return of a create or
  write its acknowledgement, a power loss its return to a version not older than the
  one acknowledged, and everything else a stutter.
* `GatewayReplayProofs`: `Spec => []UsedOnceWhileLive`, `[]CacheWithinBound`,
  `[]TypeOK`. `IInv` adds two facts. `ReadingsPast`: a thread's reading is never ahead
  of the clock, so nothing is evicted before it has expired. `LiveUsesRecorded`: a
  grant accepted while live is in the cache until it expires. Together they make a
  second acceptance impossible; the finiteness of the cache is carried along for its
  cardinality.
* `DataPlaneProofs`: `Spec => []ObserversFollowPrimary`, `[]ObserversFailOpen`,
  `[]RecordedOnce` from `IInv`, which adds that a thread before its primary exchange has
  reached no observer (`BeforePrimary`), that during the observers' turn the primary's
  success is in hand and unsent (`ResponseInHand`), and that a server which has a
  request in its queue has not recorded it while one whose turn is to come has neither
  (`NotYetReached`). `Spec => []TypeOK`, which bounds the log, and
  `[]ReceiptBeforeReply` need `KInv` on top: a log is what its server ever recorded as
  long as the limit and a replacement allow (`Logs`), and every success on its way to
  the client stands for a record at the server it came from (`Delivered`).
* `CpkServerProofs`: `ServerSpec => []ServesWhatItAnnounces`, `[]AcceptedSettingsFit`,
  `[]TypeOK`. `IInv` says that everything after parsing comes from an accepted
  configuration (`Accepted`) and, per constructor, what it has left for those after it
  (`Built`): the provider is the resolver of the environment, the adapters its
  runtimes, and so on. The interesting lemmas show that ingress interpreters and
  signer find the provider because `from_environment` accepted nothing else, and that
  the observer never refuses what the adapters took. `ServerSpec => []CallVouched`
  joins the two halves: `Vouched` says that requests in the queue and the calls made
  for them are judged by the verifier the bootstrap built, and `HttpVouched` and
  `McpVouched` that the order of the refusals in each handler leaves nothing
  unchecked before a service is asked.
* `GatewayDispatchProofs`: `Spec => []SucceededMeansReached`, `[]OnceWhileLive`.
  `IInv` dates the probes (`ProbesDated`: those of a grant that has not expired and is
  not in the cache belong to earlier processes, which holds because eviction never
  goes by an instant later than the clock) and carries the truth of a reply from the
  probe to the attempt (`ProbesJustified`, `PassedReached`, `SucceededReached`);
  `TypeOK` needs `TransitSent`, that no more requests are under way than were sent.
* `HostedActivityProofs`: `Spec => []OwnRunCompleted`, `[]RemovalUnobstructed`,
  `[]AskedWhereReachable`, `[]HostnameExclusive`, `[]PassedMeansClean`. The proof has
  two halves. The first is about the scenarios as sequences: `Proper` says that a
  script has at most one workspace open at a time, leaves a network before it tears it
  down, and reads only what its last transition started; `Checked` that it looks at the
  networks behind each transition and at the volume it means to retain. Every script of
  `main` is both; for those made of others, `Compose` shows it of scripts over
  different workspaces one after the other. The second half, `HInv`, is about any
  proper script: what the driver holds and what is registered (`Placed`, `Recorded`),
  that a run it takes for complete is its own and complete (`Completed`), what runs
  and who is attached as far as the steps behind tell (`Accounted`), and what only a
  teardown of the same workspace can take away again (`Lasting`). So a new scenario
  needs a proof only that it is proper.
* `IngressCustodyProofs`: `Spec => []CheckpointBehind`, `[]CurrentIngressSpared`, and
  `Spec => CleanExitMeansGone`. The module has no constants, so TLC's run is
  exhaustive already; the proof gives the reason. `IInv` says how graph, checkpoint
  and transition number are related at each point of the scenario (`Whereabouts`),
  that the cleanup and calls given up exist only after a failure, and which graphs
  those calls can be for (`AfterFailure`), that a public graph was committed by a run
  that succeeded (`CommittedSucceeded`) and that whatever is chosen for compensation
  belongs to a run that failed (`CompensatedFailed`). The last two contradict each
  other for an allocation of the current graph. The clean exit needs `CInv`: the
  cleanup queries rows while a late call of the scenario may still add one, so not
  everything recorded is loaded. `Covered` says what is missing at most: an allocation
  that is already gone (the first one, once the second exists) or the one that call is
  making (a late call of the cleanup only removes). `Gone` says that behind the
  verification of absence such an allocation can only come into being whole, so the
  comparison of the account with its baseline, the last check, finds it. Without that
  comparison the exit could be clean beside a fresh tunnel. `Started` and
  `RunsInOrder` give that only the allocation of the run the scenario died in is ever
  compensated.

Assumptions are those named in the modules; TLC evaluates them on every run. They say
that bounds are positive or at least natural (`BoundAssumption` of HostedWorkflow and
GatewayDispatch, `CacheAssumption`, `RecordsAssumption`, ...), that "no graph" is not
a graph and "no file" not a file (`GraphAssumption`, `NoneAssumption`), and that
commands, reads, principals and error codes are told apart (`DistinctAssumption` of
Boundary). For the hosted driver, `ScriptsAssumption` lists the ten names `main`
accepts and `WorkspaceAssumption` the five workspaces they name; `Basic` is the
default workspace, and that the environment may name another one is not modelled. The
theorems about the client rest on the external model of the server, notably that a key
is handled once and that its facts are not taken back; those about signed probes on
the client's promise that success needs a passed probe; those about the hosted driver
and the custody scenario on what the external server, Docker and Cloudflare are
modelled to do.

Only model-checked: the liveness properties (`InvocationEnds`,
`RetriedOperationSettles`, `EveryRequestAnswered` of DataPlane and of CpkServer,
`ScriptEnds`, `CustodyEnds`). They need fairness and ENABLED, which the prover does
not reason about. The three runs that show a disagreement are counterexamples of TLC.

## 5. What the models show about the code

* An advance is only ever sent after this operation's own run completed, under the
  fence of its own claim and from the plan's base, even though approval, run and
  current graph are read long before it and the plan's coordinates may be recorded
  late.
* A converged journal is final. Applying it again takes the advance branch of
  `apply()` (it tests for `advanced` only): it ends with attention, or with the
  journal's own check refusing the write, and nothing is sent.
* A death between the prepare response's write and the last write of `_finish_prepare`
  loses "no-changes" and "review-blocked": the history keeps identifiers only.
  `apply()` then sees a prepared plan without an approval and fails on it; no property
  is broken, but the status is gone.
* An operation may use up its request budget with progressed steps; it then stops
  before the advance and stays there.
* After a failed fsync of the directory a write raises although readers already see
  the new document; the invocation ends and a later one replays from it.

* A 502 of the multiplexer says nothing about the target: the request may have been
  recorded there already, or may be later. A success does: target and observers
  without an error had it before the client heard of it.
* A router thread may end without any answer, when the body of an error response
  cannot be read; the multiplexer turns that into its 502.

* Settings that `from_environment` accepts fit together: whatever stops the process
  afterwards is a database, a schema, a package, a kind without an interpreter or a
  value only a library can judge. It has then already printed that it listens, and may
  have installed the schema.
* A JSON message that is no object passes the MCP decoding and raises on `message.get`
  (`boundary.py:156`): the caller gets the framework's 500 and not the documented
  error, but an answer, and nobody else is held up.
* The HTTP surface bounds bodies and queries; the MCP surface has no bound of its own,
  so `CallVouched` claims the size bound for HTTP only.
* The replay cache forgets a grant at its `exp`, while `verify` accepts it until `exp`
  plus the skew: in between one process accepts a repeated grant again, and probes for
  it again, as often as it comes. Nothing in the repository promises otherwise;
  `UsedOnceWhileLive` and `OnceWhileLive` therefore speak of uses before `exp`.
* A probe that fails has spent its grant; a target that answers 404 or cannot be
  reached raises through the gateway's handler, which the dispatcher records as a
  rejection or a failure.
* The hosted driver's execution keys repeat from one transition to the next. If the
  server knew keys by themselves, the second transition would be answered about the
  first one's run; the driver notices by the run's identity and ends. It never
  advances on such an answer.
* If the scenario dies between a commit and the checkpoint, the cleanup takes accepted
  resources for uncertain and ends "uncertain": conservative, nothing is torn down
  that should not be.
* A cleanup that exits cleanly has left nothing, although rows are read before
  cpk-server's own cleanup ran and calls that were given up may still have been at
  work. Effects such a call has after the exit are outside the property; `wait_ready`
  is what the code does about those of the scenario.
* INT or TERM sent to the wrapper script ends it with `CONTROLLER_STATUS` still 0
  (`scripts/cpk_server_cloudflare_secret_custody_source_live_smoke.sh:101-123`), so no
  cleanup is tried and whatever the scenario has put up stays.

## 6. Disagreements between code and documentation

* `observed_failure`: `apply()` whose own status read showed a failed run records a
  further request if a start or execute was pending (`client/workflow.py:245`), while
  `docs/client.md` says failed work stops without a later mutation. The server refuses
  the request, so the consequence is a pending request and a wrong next step for the
  user.
* `primary_owns_response`: an error status of the primary becomes the multiplexer's
  own 502 (`http_multiplexer` `server.py:139`), while its `product.cpk.json` and the
  test of that description say that the primary upstream owns the response. The router
  relays such statuses.
* `journal_store_killed`: a process killed inside `create` or `write` leaves its
  exclusive partial, and every later create or write fails (`client/journal.py:706`),
  while `docs/client.md` says that process death releases writer ownership.

Met while modelling, without a run:

* `src/docs/decisions/0007-cpk-server-http-mcp-boundaries.md:22-23` says that
  oversized bodies fail before service dispatch; the MCP surface has no bound on the
  body (`boundary.py:139-172`).
* `from_environment` takes a gateway probe signer only with provider-backed resolution
  (`server.py:339-344`); `scripts/cpk_server_hosted_activity_smoke.sh:308-310` starts
  the server with a signer and the local-development resolver.
* A local gateway without a verifier ends at start (`gateway/server.py:212-218`);
  `scripts/cpk_local_gateway_private_probe_smoke.sh:86-107` starts one without and
  waits for it.
* The hosted driver probes the public gateway without a grant
  (`scripts/cpk_server_hosted_activity.py:2973-3007`), which the gateway refuses
  (`gateway/server.py:161`). In the model such a probe may pass or raise.

## 7. Not modelled, and why

* **Process state** (`composition.py`). An immutable value with three pure operations;
  the composition keeps the default one and no handler, route or command replaces it.
* **Secret use, gateway key and denial scenarios, report** of the source-live script.
  Linear acceptance scripts whose concurrent parts assert what the secret provider
  promises; the report is a bounded record only tests read.
* **Recursive, convergence and remote TLS drivers.** Linear scripts that repeat the
  hosted driver's transitions with other graphs.
* **Catalogue, descriptors, coordinates, image lanes.** Validation and rewriting of
  static documents: no state, no order of events.
* Rendering, profile files, certificate pinning, the bytes of a probe: pure I/O.
* The operations library, Cloudflare, Docker, the secret provider and the signed
  client are not in the repository. They are modelled from how the code uses them and
  marked external.

Hazards without a property: that the gateway accepts a grant again within the skew
(`gateway/verification.py:82`) is what the code does, see section 5; a death before
the first pending request (`client/workflow.py:141`) leaves a journal no command needs;
a death and a loss of power within one operation (`client/journal.py:249`) are only in
the model of the files; the gateway's probe is synchronous inside its event loop
(`gateway/server.py:165`), so a slow target holds up every other request; the hosted
driver counts a public gateway as unreachable after any exception
(`scripts/cpk_server_hosted_activity.py:3013`), so `AssertUnreachable` checks nothing
in the model.

## 8. Plan

Done: all modules of section 2 with their runs, and the theorems of section 4.

What may follow:

1. An abstract specification of the hosted workflow (a current graph that only runs of
   approved plans move) that HostedWorkflow and TopologyClient both implement.
2. The recursive and convergence drivers as further scripts of HostedActivity: they
   repeat its steps with other graphs, and need a proof only that they are proper.
3. A loss of power in the client's model: a document readers saw may vanish with the
   record of a request already sent (the hazard at `client/journal.py:249`).
