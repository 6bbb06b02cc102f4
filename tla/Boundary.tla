-------------------------------- MODULE Boundary --------------------------------
(***************************************************************************)
(* cpk-server's process boundary: the HTTP and MCP surfaces in front of    *)
(* one set of application services, and the static credential verifier.    *)
(* The handlers are coroutines that call a service synchronously, so the   *)
(* event loop runs one handler at a time, from its last await to its       *)
(* answer, in the order in which the requests became ready.                *)
(***************************************************************************)
EXTENDS Requests, Naturals, Sequences, FiniteSets

CONSTANTS
    Client,        \* callers, one request at a time each
    Principal,     \* principals the operator configured
    MaxEntries,    \* StaticDevelopmentMultiCredentialVerifier: 16 entries
    Asked          \* per caller: the requests it makes

DistinctAssumption == /\ Command \cap Read = {}
                      /\ None \notin Command \cup Read \cup Credential \cup Principal
                      /\ None \notin {"400", "401", "404", "413", "uncaught"}
BoundAssumption == MaxEntries \in Nat \ {0}

VARIABLES
    verifier,   \* the configured (credential, principal) entries, in order
    queue,      \* clients whose request is complete, in the order it became so
    request,    \* per client: the request under way
    call,       \* per client: what the service was asked for, if it was
    answer      \* per client: the status answered, None until then

vars == <<verifier, queue, request, call, answer>>

Entry == [credential : Credential, principal : Principal]

AskedAssumption ==
    \A c \in Client : /\ Asked[c] \subseteq HttpRequest \cup McpRequest \cup HealthRequest
                      /\ None \notin Asked[c]

\* A call has an operation, a principal and a size.  Answers are the statuses of _error,
\* the service's own, and "uncaught", the framework's 500 for an exception.

----------------------------------------------------------------------------

\* Mutant of EntriesValid: two principals may share a credential.
EntriesValidShared(entries) == Len(entries) \in 1 .. MaxEntries

\* The verifier's __post_init__: between one and sixteen entries, no credential twice.
EntriesValid(entries) ==
    /\ Len(entries) \in 1 .. MaxEntries
    /\ \A i, j \in DOMAIN entries :
          entries[i].credential = entries[j].credential => i = j

\* The first entry with this credential decides.  A header that is absent,
\* repeated, malformed or too long is the credential None.
Matching(credential) == {i \in DOMAIN verifier : verifier[i].credential = credential}

authenticate(credential) ==
    IF Matching(credential) = {} THEN None
    ELSE verifier[CHOOSE i \in Matching(credential) :
                     \A j \in Matching(credential) : i <= j].principal

\* A handler tests its conditions in this order and answers with the first that
\* applies; when none does, the service is called.
FirstOf(checks) ==
    LET failing == {i \in DOMAIN checks : checks[i].when}
    IN  IF failing = {} THEN None
        ELSE checks[CHOOSE i \in failing : \A j \in failing : i <= j].status

Check(when, status) == [when |-> when, status |-> status]

HttpRefusal(r) ==
    FirstOf(<<Check(r.operation = None, "404"),
              Check(authenticate(r.credential) = None, "401"),
              Check(r.operation \in Read /\ r.body # "empty", "400"),
              Check(r.operation \in Read /\ r.query = "oversized", "413"),
              Check(r.operation \in Read /\ r.query = "garbled", "400"),
              Check(r.operation \in Command /\ r.query # "empty", "400"),
              Check(r.operation \in Command /\ r.body = "oversized", "413"),
              Check(r.operation \in Command /\ r.body = "fatal", "uncaught"),
              Check(r.operation \in Command /\ r.body \in {"garbled", "other value"}, "400")>>)

\* A message that is JSON but no object has no method to compare with the header.
McpRefusal(r) ==
    FirstOf(<<Check(r.body = "fatal", "uncaught"),
              Check(r.body = "garbled", "400"),
              Check(r.headers = "missing", "400"),
              Check(authenticate(r.credential) = None, "401"),
              Check(r.body = "other value", "uncaught"),
              Check(r.headers = "other method", "400"),
              Check(r.body = "other envelope", "400"),
              Check(r.method = "other", "404"),
              Check(r.body = "misshapen", "400"),
              Check(r.operation = None, "404"),
              Check(r.method = "tools/call" /\ r.operation \in Read, "400"),
              Check(r.method = "resources/read" /\ r.operation \in Command, "400")>>)

ServiceRequest(r) ==
    [operation |-> r.operation,
     principal |-> authenticate(r.credential),
     size |-> IF r.body = "oversized" \/ (r.surface = "http" /\ r.query = "oversized")
                 THEN "oversized" ELSE "bounded"]

----------------------------------------------------------------------------

\* The lists of entries the operator may configure.
Configured == {e \in UNION {[1 .. n -> Entry] : n \in 1 .. MaxEntries} : EntriesValid(e)}

Init == /\ verifier \in Configured
        /\ queue = <<>>
        /\ request = [c \in Client |-> None]
        /\ call = [c \in Client |-> None]
        /\ answer = [c \in Client |-> None]

\* The body of a request has arrived (await request.body()).
Arrive(c) ==
    /\ request[c] = None
    /\ \E r \in Asked[c] : request' = [request EXCEPT ![c] = r]
    /\ queue' = Append(queue, c)
    /\ UNCHANGED <<verifier, call, answer>>

\* The loop runs the first handler that is ready, unless one is still in a service.
Runs(c) == /\ queue # <<>>
           /\ Head(queue) = c
           /\ call[c] = None

Reply(c, status) == /\ answer' = [answer EXCEPT ![c] = status]
                    /\ queue' = Tail(queue)

\* /health/live and /health/ready answer at once, but in the same event loop.
Health(c) ==
    /\ Runs(c)
    /\ request[c].surface = "health"
    /\ Reply(c, "200")
    /\ UNCHANGED <<verifier, request, call>>

\* What both surfaces do with the first failing condition, or when there is none.
Handle(c, refusal) ==
    /\ Runs(c)
    /\ IF refusal = None
          THEN /\ call' = [call EXCEPT ![c] = ServiceRequest(request[c])]
               /\ UNCHANGED <<answer, queue>>
          ELSE /\ Reply(c, refusal)
               /\ UNCHANGED call
    /\ UNCHANGED <<verifier, request>>

HandleHttp(c) == /\ request[c] # None
                 /\ request[c].surface = "http"
                 /\ Handle(c, HttpRefusal(request[c]))

\* Mutant of HandleMcp: a message that is no object is put off.
HandleMcpLater(c) ==
    /\ request[c] # None
    /\ request[c].surface = "mcp"
    /\ IF request[c].body = "other value"
          THEN /\ Runs(c)
               /\ queue' = Append(Tail(queue), c)
               /\ UNCHANGED <<verifier, request, call, answer>>
          ELSE Handle(c, McpRefusal(request[c]))

HandleMcp(c) == /\ request[c] # None
                /\ request[c].surface = "mcp"
                /\ Handle(c, McpRefusal(request[c]))

\* _dispatch_application: the service's result, its own refusal, or any other
\* exception, which becomes a closed 500.
ServiceEnds(c) ==
    /\ queue # <<>>
    /\ Head(queue) = c
    /\ call[c] # None
    /\ \E status \in {"200", "refused by service", "500"} : Reply(c, status)
    /\ UNCHANGED <<verifier, request, call>>

\* The client takes its answer and may ask again.
Take(c) ==
    /\ answer[c] # None
    /\ request' = [request EXCEPT ![c] = None]
    /\ call' = [call EXCEPT ![c] = None]
    /\ answer' = [answer EXCEPT ![c] = None]
    /\ UNCHANGED <<verifier, queue>>

Loop(c) == Health(c) \/ HandleHttp(c) \/ HandleMcp(c) \/ ServiceEnds(c)

Next == \E c \in Client : Arrive(c) \/ Loop(c) \/ Take(c)

Spec == Init /\ [][Next]_vars

----------------------------------------------------------------------------

\* A service is only called for what the caller may have.  Exactly one configured entry
\* has the credential of the request, and the call carries its principal
\* (authenticate_bearer_credential and the verifier's refusal of shared credentials,
\* authentication.py:28-43, 102-121); a caller that says it reads never starts a command,
\* and one that calls a tool never gets a read (_decode_mcp_message, boundary.py:360-363);
\* over HTTP the call is within the route's size bound (_decode_http_payload, 207-217).
CallVouched ==
    \A c \in Client : call[c] # None =>
        /\ \E i \in DOMAIN verifier :
              /\ call[c].principal = verifier[i].principal
              /\ \A j \in DOMAIN verifier :
                    verifier[j].credential = request[c].credential <=> j = i
        /\ request[c].surface = "mcp" =>
              (request[c].method = "tools/call" <=> call[c].operation \in Command)
        /\ request[c].surface = "http" => call[c].size = "bounded"

\* Every request whose body arrives is answered, whatever the others do: the queue
\* is first in, first out, and every handler and service call comes to an end
\* (server.py:479-526, boundary.py:412-421).
EveryRequestAnswered ==
    \A c \in Client : request[c] # None ~> answer[c] # None
=============================================================================
