----------------------------- MODULE GatewayDispatch -----------------------------
(***************************************************************************)
(* A signed probe from cpk-server to a local gateway: the dispatcher that  *)
(* turns what the signed client reports into an attempt's status, the      *)
(* network between them, and the gateway process, which verifies the grant *)
(* and then runs the probe.  Its handler is a coroutine that does both     *)
(* without awaiting, so one request is handled at a time, and its two      *)
(* clock readings are those of one step; GatewayReplay has the verifier by *)
(* itself, called from several threads.                                    *)
(***************************************************************************)
EXTENDS Naturals, Sequences, FiniteSets, Functions

CONSTANTS
    Grant,         \* delegated grants, one per probe command
    Target,        \* well-formed target ids
    RequestOf,     \* the request a grant is signed for, see ProbeRequest
    IssuedAt,      \* [Grant -> Nat], the grant's iat, by the gateway's clock
    ExpiresAt,     \* [Grant -> Nat], the grant's exp
    Skew,          \* clock_skew_seconds
    MaxEntries,    \* max_entries of the replay cache
    Targets,       \* gateways' target maps, see Environment
    MaxSends,      \* bound of the model: deliveries of one request
    MaxStarts,     \* bound of the model: gateway processes, one after another
    MaxClock,      \* bound of the model: the last instant considered
    None           \* no grant, no reply

Kind == {"http-status", "postgres-select-one"}
ProbeRequest == [kind : Kind, target : Target]

ASSUME GrantAssumption == /\ RequestOf \in [Grant -> ProbeRequest]
                          /\ IssuedAt \in [Grant -> Nat]
                          /\ ExpiresAt \in [Grant -> Nat]
                          /\ None \notin Grant

\* What a target map says of a target id.  "secret-shaped" is a declared target whose
\* id holds a word such as "token": the map may have it, a probe of it is refused.
Declaration == {"absent", "http", "postgres", "malformed", "secret-shaped"}

ASSUME TargetAssumption == Targets \subseteq [Target -> Declaration]
ASSUME CacheAssumption == Skew \in Nat /\ MaxEntries \in Nat \ {0}
ASSUME BoundAssumption == /\ MaxSends \in Nat \ {0}
                          /\ MaxStarts \in Nat \ {0}
                          /\ MaxClock \in Nat

VARIABLES
    clock,      \* the gateway's time.time(), in whole seconds
    env,        \* the gateway's environment
    gateway,    \* the gateway process: starting, serving or refused
    starts,     \* how many processes there have been
    consumed,   \* the grants its replay cache holds
    queue,      \* requests whose body is complete, in order
    running,    \* the request the gateway is probing for, if any
    transit,    \* requests on their way, by grant
    sends,      \* times a grant's request was put on the network
    replies,    \* replies on their way to who asked
    attempt,    \* what the dispatcher made of a grant
    probed,     \* history: per grant the probes run for it, in order, see ProbeRun
    reached     \* history: grants for which a target answered as the probe asks

process == <<env, gateway, starts, consumed, queue, running>>
network == <<transit, sends, replies>>
history == <<probed, reached>>
vars == <<clock, process, network, attempt, history>>

Environment == [targets : Targets, verifier : {"ed25519", "missing"}]

\* A request without a grant stands for any the verifier does not trust.
Request == Grant \cup {None}
Reply == {"passed", "capability-rejected", "probe-rejected", "uncaught"}
\* The process that ran a probe, and whether the grant had not expired when it was taken.
ProbeRun == [by : 1 .. MaxStarts, live : BOOLEAN]
Status == {"idle", "posted", "succeeded", "rejected", "failed", "refused", "error"}

Init == /\ clock = 0
        /\ env \in Environment
        /\ gateway = "starting"
        /\ starts = 1
        /\ consumed = {}
        /\ queue = <<>>
        /\ running = None
        /\ transit = [g \in Grant |-> 0]
        /\ sends = [g \in Grant |-> 0]
        /\ replies = [r \in Request |-> {}]
        /\ attempt = [g \in Grant |-> "idle"]
        /\ probed = [g \in Grant |-> <<>>]
        /\ reached = {}

----------------------------------------------------------------------------
\* _SignedGatewayProbeDispatcher

\* An endpoint of another context, or one that is not literal, is refused; so is a
\* security failure outside the closed set.  The known ones are a failed attempt.
Dispatch(g) ==
    /\ attempt[g] = "idle"
    /\ \E status \in {"posted", "refused", "failed"} :
          LET posted == IF status = "posted" THEN 1 ELSE 0
          IN  /\ attempt' = [attempt EXCEPT ![g] = status]
              /\ transit' = [transit EXCEPT ![g] = posted]
              /\ sends' = [sends EXCEPT ![g] = posted]
    /\ UNCHANGED <<clock, process, replies, history>>

\* The client reports success only for a probe that passed; whether it calls another
\* answer a rejection or a failure is its own affair.
Classified(reply) == IF reply = "passed" THEN {"succeeded"} ELSE {"rejected", "failed"}

TakeReply(g) ==
    /\ attempt[g] = "posted"
    /\ \E reply \in replies[g] : \E status \in Classified(reply) :
          attempt' = [attempt EXCEPT ![g] = status]
    /\ UNCHANGED <<clock, process, network, history>>

\* The client gives up: no answer in time, or one it cannot read.
ClientFails(g) ==
    /\ attempt[g] = "posted"
    /\ attempt' = [attempt EXCEPT ![g] = "failed"]
    /\ UNCHANGED <<clock, process, network, history>>

----------------------------------------------------------------------------
\* The network: a request may be lost, delayed, or sent again by an intermediary.

Lose(g) ==
    /\ transit[g] > 0
    /\ transit' = [transit EXCEPT ![g] = @ - 1]
    /\ UNCHANGED <<clock, process, sends, replies, attempt, history>>

SendAgain(g) ==
    /\ sends[g] \in 1 .. MaxSends - 1
    /\ transit' = [transit EXCEPT ![g] = @ + 1]
    /\ sends' = [sends EXCEPT ![g] = @ + 1]
    /\ UNCHANGED <<clock, process, replies, attempt, history>>

LoseReply(r) ==
    /\ replies[r] # {}
    /\ \E reply \in replies[r] : replies' = [replies EXCEPT ![r] = @ \ {reply}]
    /\ UNCHANGED <<clock, process, transit, sends, attempt, history>>

Arrive(g) ==
    /\ gateway = "serving"
    /\ transit[g] > 0
    /\ transit' = [transit EXCEPT ![g] = @ - 1]
    /\ queue' = Append(queue, g)
    /\ UNCHANGED <<clock, env, gateway, starts, consumed, running, sends, replies, attempt,
                   history>>

\* Someone without a grant asks, one request at a time.
ArriveUntrusted ==
    /\ gateway = "serving"
    /\ None \notin Range(queue)
    /\ replies[None] = {}
    /\ queue' = Append(queue, None)
    /\ UNCHANGED <<clock, env, gateway, starts, consumed, running, network, attempt, history>>

----------------------------------------------------------------------------
\* The gateway process

\* _http_url, _host, _port and the other tests of one target's descriptor.
WellFormed(t) == env.targets[t] # "malformed"

\* GatewayConfiguration.from_environment, and _verifier_from_environment.
TargetsValid == \A t \in Target : WellFormed(t)
VerifierValid == env.verifier = "ed25519"

\* main() ends with status 2 when either is refused.
Start ==
    /\ gateway = "starting"
    /\ gateway' = IF TargetsValid /\ VerifierValid THEN "serving" ELSE "refused"
    /\ UNCHANGED <<clock, env, starts, consumed, queue, running, network, attempt, history>>

\* The process is replaced: its queue, its cache and the probe under way are gone.
Restart ==
    /\ gateway = "serving"
    /\ starts < MaxStarts
    /\ gateway' = "starting"
    /\ starts' = starts + 1
    /\ consumed' = {}
    /\ queue' = <<>>
    /\ running' = None
    /\ UNCHANGED <<clock, env, network, attempt, history>>

Answer(r, reply) == replies' = [replies EXCEPT ![r] = @ \cup {reply}]

Protocol(kind) == IF kind = "http-status" THEN "http" ELSE "postgres"

\* execute_probe and the first lines of the two probes: the target is declared, its
\* id is not secret-shaped, and it speaks the protocol.
Probable(request) == env.targets[request.target] = Protocol(request.kind)

\* The period a grant is good for, widened by the skew on both sides.
TemporallyValid(g, now) == IssuedAt[g] <= now + Skew /\ now < ExpiresAt[g] + Skew

\* What eviction leaves of the cache.  A grant is forgotten at its exp, and is good
\* for another Skew.
Unexpired(now) == {g \in consumed : now < ExpiresAt[g]}
HasRoom(kept) == Cardinality(kept) < MaxEntries

\* The grant is consumed by verify(), whatever becomes of the probe.
Refuse(r, reply, left) == /\ Answer(r, reply)
                          /\ consumed' = left
                          /\ UNCHANGED <<running, probed>>

Run(r, now, left) ==
    /\ consumed' = left
    /\ running' = r
    /\ probed' = [probed EXCEPT ![r] = Append(@, [by |-> starts, live |-> now < ExpiresAt[r]])]
    /\ UNCHANGED replies

\* Mutant of HandleRequest: the grant of a probe that is run is left for another time.
HandleRequestUnspent(r, now) ==
    LET kept == Unexpired(now)
    IN  IF r \notin Grant \/ ~TemporallyValid(r, clock)
          THEN Refuse(r, "capability-rejected", consumed)
        ELSE IF r \in kept \/ ~HasRoom(kept) THEN Refuse(r, "capability-rejected", kept)
        ELSE IF ~Probable(RequestOf[r]) THEN Refuse(r, "probe-rejected", kept \cup {r})
        ELSE Run(r, now, kept)

\* The handler of /cpk/probes, up to the probe itself: the validity period is tested at
\* clock, remember_once reads the time again.
HandleRequest(r, now) ==
    LET kept == Unexpired(now)
    IN  IF r \notin Grant \/ ~TemporallyValid(r, clock)
          THEN Refuse(r, "capability-rejected", consumed)
        ELSE IF r \in kept \/ ~HasRoom(kept) THEN Refuse(r, "capability-rejected", kept)
        ELSE IF ~Probable(RequestOf[r]) THEN Refuse(r, "probe-rejected", kept \cup {r})
        ELSE Run(r, now, kept \cup {r})

Handle == /\ gateway = "serving"
          /\ running = None
          /\ queue # <<>>
          /\ clock' \in clock .. MaxClock
          /\ HandleRequest(Head(queue), clock')
          /\ queue' = Tail(queue)
          /\ UNCHANGED <<env, gateway, starts, transit, sends, attempt, reached>>

\* What a target may do to a probe.
Outcome(kind) ==
    IF kind = "http-status" THEN {"ok", "other status", "unreachable", "oversized"}
                            ELSE {"ok", "unreachable", "other row"}

\* Mutant of ProbeReply: a target that answers has passed, whatever its status.
ProbeReplyAny(kind, outcome) ==
    IF outcome = "oversized" \/ (kind # "http-status" /\ outcome # "ok") THEN "probe-rejected"
    ELSE IF outcome = "unreachable" THEN "uncaught" ELSE "passed"

\* For any HTTP status that is not a 2xx, and for a target it cannot reach, urllib
\* raises what no handler catches.  A body over the bound and every failure of
\* Postgres are refusals.
ProbeReply(kind, outcome) ==
    CASE outcome = "ok" -> "passed"
      [] outcome = "oversized" \/ (kind # "http-status" /\ outcome # "ok") -> "probe-rejected"
      [] OTHER -> "uncaught"

ProbeEnds ==
    /\ running # None
    /\ LET kind == RequestOf[running].kind
       IN  \E outcome \in Outcome(kind) :
              /\ Answer(running, ProbeReply(kind, outcome))
              /\ reached' = IF outcome = "ok" THEN reached \cup {running} ELSE reached
    /\ running' = None
    /\ UNCHANGED <<clock, env, gateway, starts, consumed, queue, transit, sends, attempt,
                   probed>>

----------------------------------------------------------------------------

Tick == /\ clock < MaxClock
        /\ clock' = clock + 1
        /\ UNCHANGED <<process, network, attempt, history>>

Next == \/ \E g \in Grant : \/ Dispatch(g) \/ TakeReply(g) \/ ClientFails(g)
                            \/ Lose(g) \/ SendAgain(g) \/ Arrive(g)
        \/ \E r \in Request : LoseReply(r)
        \/ ArriveUntrusted
        \/ Start \/ Restart \/ Handle \/ ProbeEnds \/ Tick

Spec == Init /\ [][Next]_vars

----------------------------------------------------------------------------

TypeOK == /\ clock \in 0 .. MaxClock
          /\ env \in Environment
          /\ gateway \in {"starting", "serving", "refused"}
          /\ starts \in 1 .. MaxStarts
          /\ consumed \subseteq Grant
          /\ queue \in Seq(Request)
          /\ running \in Request
          /\ transit \in [Grant -> 0 .. MaxSends]
          /\ sends \in [Grant -> 0 .. MaxSends]
          /\ replies \in [Request -> SUBSET Reply]
          /\ attempt \in [Grant -> Status]
          /\ probed \in [Grant -> Seq(ProbeRun)]
          /\ reached \subseteq Grant

\* An attempt is recorded as succeeded only if a declared target that speaks the
\* request's protocol answered a probe for this grant, whatever was lost, repeated or
\* late on the way (server.py:897-937 of cpk-server, server.py:191-265 of the gateway).
SucceededMeansReached ==
    \A g \in Grant : attempt[g] = "succeeded" =>
        /\ g \in reached
        /\ Len(probed[g]) > 0
        /\ env.targets[RequestOf[g].target] = Protocol(RequestOf[g].kind)

\* A gateway process that probed for a grant probes for it again only once the grant
\* has expired, however often the request reaches it and even if the first probe
\* failed.  From exp on the cache no longer knows the grant, which is good for another
\* Skew (remember_once and _require_temporal_validity, verification.py:79-95 and
\* 217-223); the next process never knew it (server.py:160-168).
OnceWhileLive ==
    \A g \in Grant : \A i, j \in DOMAIN probed[g] :
        i < j /\ probed[g][i].by = probed[g][j].by => ~probed[g][j].live
=============================================================================
