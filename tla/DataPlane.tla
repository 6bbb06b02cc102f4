-------------------------------- MODULE DataPlane --------------------------------
(***************************************************************************)
(* The three data-plane products as the catalogue composes them: clients   *)
(* call the HTTP multiplexer, whose primary is the active router, which    *)
(* forwards to one hello server; the multiplexer's observers are hello     *)
(* servers as well.  Every server runs a thread per request.  A caller     *)
(* whose socket times out goes on while the server it called may still     *)
(* have the request in its queue, and handles it later.  The only state    *)
(* that outlives a request is each hello server's bounded log of the       *)
(* requests for "/" it received.  "/health/live", which multiplexer and    *)
(* router answer themselves, touches none of it and is left out.           *)
(***************************************************************************)
EXTENDS Naturals, Sequences, FiniteSets, Functions, SequencesExt

CONSTANTS
    Request,     \* requests that clients send to the multiplexer
    ForRoot,     \* those for "/", which a hello server records and answers
    Observers,   \* how many observer URLs the multiplexer has
    Replaceable, \* bound of the model: the hello servers that may be replaced
    LogLimit     \* _OBSERVED_REQUEST_LIMIT

ASSUME RequestAssumption == ForRoot \subseteq Request
ASSUME SizeAssumption == Observers \in Nat /\ LogLimit \in Nat \ {0}

Target   == 0               \* the hello server behind the router
Observer == 1 .. Observers  \* in the order of settings.observer_urls
Hello    == {Target} \cup Observer

VARIABLES
    mux,        \* per request: the multiplexer's thread for it
    router,     \* per request: the router's thread for it
    primary,    \* per request: the response the multiplexer got from its primary
    inbox,      \* per hello server: requests it was sent and has not handled
    given,      \* per hello server: the response to each request it handled
    log,        \* per hello server: _OBSERVED_REQUESTS
    reply,      \* per request: what the client received
    recorded,   \* history, per hello server: everything it ever recorded
    restarted   \* hello servers that have been replaced (each at most once)

muxVars   == <<mux, primary, reply>>
helloVars == <<given, log, recorded, restarted>>
vars      == <<muxVars, router, inbox, helloVars>>

Answer     == [from : {"hello", "router", "multiplexer"}, status : {200, 404, 502}]
None       == [from |-> "nobody", status |-> 0]
BadGateway(server) == [from |-> server, status |-> 502]

Stage == {"idle", "primary", "observe", "delivering", "done"}
Task  == [stage : Stage, next : 1 .. Observers + 1, errors : SUBSET Observer]

TypeOK ==
    /\ mux \in [Request -> Task]
    /\ router \in [Request -> {"idle", "queued", "forwarding", "ended"}]
    /\ primary \in [Request -> Answer \cup {None}]
    /\ inbox \in [Hello -> SUBSET Request]
    /\ given \in [Hello -> [Request -> Answer \cup {None}]]
    /\ \A h \in Hello : log[h] \in BoundedSeq(ForRoot, LogLimit)
    /\ reply \in [Request -> Answer \cup {None}]
    /\ \A h \in Hello : recorded[h] \in Seq(ForRoot)
    /\ restarted \subseteq Hello

Init ==
    /\ mux = [r \in Request |-> [stage |-> "idle", next |-> 1, errors |-> {}]]
    /\ router = [r \in Request |-> "idle"]
    /\ primary = [r \in Request |-> None]
    /\ inbox = [h \in Hello |-> {}]
    /\ given = [h \in Hello |-> [r \in Request |-> None]]
    /\ log = [h \in Hello |-> <<>>]
    /\ reply = [r \in Request |-> None]
    /\ recorded = [h \in Hello |-> <<>>]
    /\ restarted = {}

----------------------------------------------------------------------------
\* The multiplexer.

\* _multiplex reads the body and opens the primary with the request.
ForwardPrimary(r) ==
    /\ mux[r].stage = "idle"
    /\ mux' = [mux EXCEPT ![r].stage = "primary"]
    /\ router' = [router EXCEPT ![r] = "queued"]
    /\ UNCHANGED <<primary, reply, inbox, helloVars>>

\* A 2xx response of the primary is held back until the observers had the request.
PrimaryAnswers(r) ==
    /\ mux[r].stage = "primary"
    /\ primary[r].status = 200
    /\ mux' = [mux EXCEPT ![r].stage = "observe"]
    /\ UNCHANGED <<primary, reply, router, inbox, helloVars>>

\* Mutant of PrimaryFails: a failed primary exchange ends like a good one, observers included.
PrimaryFailsLater(r) ==
    /\ mux[r].stage = "primary"
    /\ primary[r].status # 200
    /\ mux' = [mux EXCEPT ![r].stage = "observe"]
    /\ UNCHANGED <<primary, reply, router, inbox, helloVars>>

\* forward_primary raises: nobody answered within the timeout, or the answer
\* has an error status, which the opener turns into an exception.
PrimaryFails(r) ==
    /\ mux[r].stage = "primary"
    /\ primary[r].status # 200
    /\ mux' = [mux EXCEPT ![r].stage = "done"]
    /\ reply' = [reply EXCEPT ![r] = BadGateway("multiplexer")]
    /\ UNCHANGED <<primary, router, inbox, helloVars>>

\* Mutant of OpenObserver: its response is not waited for.
OpenObserverAndGoOn(r) ==
    /\ mux[r].stage = "observe"
    /\ mux[r].next \in Observer
    /\ mux' = [mux EXCEPT ![r].next = @ + 1]
    /\ inbox' = [inbox EXCEPT ![mux[r].next] = @ \cup {r}]
    /\ UNCHANGED <<primary, reply, router, helloVars>>

\* deliver_observers opens the next observer with a copy of the request.
OpenObserver(r) ==
    /\ mux[r].stage = "observe"
    /\ mux[r].next \in Observer
    /\ mux' = [mux EXCEPT ![r].stage = "delivering"]
    /\ inbox' = [inbox EXCEPT ![mux[r].next] = @ \cup {r}]
    /\ UNCHANGED <<primary, reply, router, helloVars>>

\* The next observer has accepted the request: its response is dropped.
ObserverAnswers(r) ==
    /\ mux[r].stage = "delivering"
    /\ given[mux[r].next][r].status = 200
    /\ mux' = [mux EXCEPT ![r] = [mux[r] EXCEPT !.stage = "observe",
                                              !.next = mux[r].next + 1]]
    /\ UNCHANGED <<primary, reply, router, inbox, helloVars>>

\* Mutant of ObserverFails: it ends in the handler for the primary.
ObserverFailsClosed(r) ==
    /\ mux[r].stage \in {"observe", "delivering"}
    /\ mux[r].next \in Observer
    /\ mux' = [mux EXCEPT ![r].stage = "done", ![r].errors = @ \cup {mux[r].next}]
    /\ reply' = [reply EXCEPT ![r] = BadGateway("multiplexer")]
    /\ UNCHANGED <<primary, router, inbox, helloVars>>

\* Mutant of ObserverFails: observers are opened without a timeout.
ObserverFailsOnAnswer(r) ==
    /\ mux[r].stage = "delivering"
    /\ given[mux[r].next][r].status \notin {0, 200}
    /\ mux' = [mux EXCEPT ![r] = [mux[r] EXCEPT !.stage = "observe",
                                              !.next = mux[r].next + 1,
                                              !.errors = mux[r].errors \cup {mux[r].next}]]
    /\ UNCHANGED <<primary, reply, router, inbox, helloVars>>

\* The next observer cannot be reached, its response is an error, too long, lost
\* or late: fail open, the loop goes on.
ObserverFails(r) ==
    /\ mux[r].stage \in {"observe", "delivering"}
    /\ mux[r].next \in Observer
    /\ mux' = [mux EXCEPT ![r] = [mux[r] EXCEPT !.stage = "observe",
                                              !.next = mux[r].next + 1,
                                              !.errors = mux[r].errors \cup {mux[r].next}]]
    /\ UNCHANGED <<primary, reply, router, inbox, helloVars>>

\* Every observer had its turn: the primary's response goes to the client.
SendPrimary(r) ==
    /\ mux[r].stage = "observe"
    /\ mux[r].next \notin Observer
    /\ mux' = [mux EXCEPT ![r].stage = "done"]
    /\ reply' = [reply EXCEPT ![r] = primary[r]]
    /\ UNCHANGED <<primary, router, inbox, helloVars>>

Multiplex(r) == \/ PrimaryAnswers(r) \/ PrimaryFails(r)
                \/ OpenObserver(r) \/ ObserverAnswers(r) \/ ObserverFails(r)
                \/ SendPrimary(r)

----------------------------------------------------------------------------
\* The active router.

\* forward opens the active target, even when the multiplexer has long given up.
RouterForward(r) ==
    /\ router[r] = "queued"
    /\ router' = [router EXCEPT ![r] = "forwarding"]
    /\ inbox' = [inbox EXCEPT ![Target] = @ \cup {r}]
    /\ UNCHANGED <<muxVars, helloVars>>

\* The router's thread ends with answer a, which a caller that has gone misses.
RouterEnds(r, a) ==
    /\ router' = [router EXCEPT ![r] = "ended"]
    /\ primary' = IF mux[r].stage = "primary" THEN [primary EXCEPT ![r] = a] ELSE primary
    /\ UNCHANGED <<mux, reply, inbox, helloVars>>

\* A response of the target is passed on, an error status (HTTPError) as well.
RouterRelay(r) ==
    /\ router[r] = "forwarding"
    /\ given[Target][r] # None
    /\ RouterEnds(r, given[Target][r])

\* Reading the body of an error response fails inside the handler of HTTPError:
\* that exception is not caught, and the connection closes without an answer.
RouterDrops(r) ==
    /\ router[r] = "forwarding"
    /\ given[Target][r].status \notin {0, 200}
    /\ RouterEnds(r, None)

\* Mutant of RouterFails: a failed exchange is tried once more.
RouterRetries(r) ==
    /\ router[r] = "forwarding"
    /\ router' = [router EXCEPT ![r] = "queued"]
    /\ UNCHANGED <<muxVars, inbox, helloVars>>

\* The target cannot be reached, or its response is too long, lost or late.
RouterFails(r) ==
    /\ router[r] \in {"queued", "forwarding"}
    /\ RouterEnds(r, BadGateway("router"))

----------------------------------------------------------------------------
\* The hello servers.

\* Mutant of Remember: the log is a plain list.
RememberAll(entries, r) == Append(entries, r)

\* deque(maxlen = LogLimit).append
Remember(entries, r) ==
    LET longer == Append(entries, r)
    IN  IF Len(longer) > LogLimit THEN Tail(longer) ELSE longer

\* do_GET: "/" is recorded and then answered, any other path is not found.
HelloGet(h, r) ==
    /\ r \in inbox[h]
    /\ inbox' = [inbox EXCEPT ![h] = @ \ {r}]
    /\ given' = [given EXCEPT ![h][r] =
                   [from |-> "hello", status |-> IF r \in ForRoot THEN 200 ELSE 404]]
    /\ log' = IF r \in ForRoot THEN [log EXCEPT ![h] = Remember(@, r)] ELSE log
    /\ recorded' = IF r \in ForRoot THEN [recorded EXCEPT ![h] = Append(@, r)] ELSE recorded
    /\ UNCHANGED <<muxVars, router, restarted>>

\* The server's process is replaced: its queue and its log are gone.
HelloRestart(h) ==
    /\ h \in Replaceable \ restarted
    /\ restarted' = restarted \cup {h}
    /\ inbox' = [inbox EXCEPT ![h] = {}]
    /\ log' = [log EXCEPT ![h] = <<>>]
    /\ UNCHANGED <<muxVars, router, given, recorded>>

----------------------------------------------------------------------------

Next == \/ \E r \in Request :
              \/ ForwardPrimary(r) \/ Multiplex(r)
              \/ RouterForward(r) \/ RouterRelay(r) \/ RouterDrops(r) \/ RouterFails(r)
        \/ \E h \in Hello, r \in Request : HelloGet(h, r)
        \/ \E h \in Hello : HelloRestart(h)

\* Only the multiplexer's threads must go on: router and hello servers may hang.
Spec == Init /\ [][Next]_vars /\ \A r \in Request : WF_vars(Multiplex(r))

----------------------------------------------------------------------------
\* Properties.

\* deliver_observers comes after forward_primary: an observer never gets a
\* request whose primary exchange failed, however late it handles its queue.
ObserversFollowPrimary ==
    \A o \in Observer, r \in Request :
        r \in inbox[o] \/ r \in Range(recorded[o])
            => primary[r].status = 200 /\ reply[r] \in {None, primary[r]}

\* An observer that fails changes nothing for the client: it still receives
\* the primary's response (deliver_observers is "explicitly fail-open").
ObserversFailOpen ==
    \A r \in Request :
        mux[r].errors # {} /\ reply[r] # None
            => reply[r] = primary[r] /\ reply[r].from = "hello"

\* A client that has a success may look for the evidence of its request: the
\* target and every observer that did not fail have recorded it, and each
\* still lists it unless it was replaced or later requests pushed it out.
ReceiptBeforeReply ==
    \A r \in Request : reply[r].status = 200 =>
        \A h \in Hello \ mux[r].errors :
            /\ r \in Range(recorded[h])
            /\ \/ r \in Range(log[h])
               \/ h \in restarted
               \/ Len(recorded[h]) > LogLimit

\* No server records a request twice: timeouts on the way never make the
\* multiplexer or the router send it again.
RecordedOnce == \A h \in Hello : IsInjective(recorded[h])

\* Every request is answered although router and hello servers may hang for
\* ever: each of the multiplexer's exchanges has a timeout.
EveryRequestAnswered ==
    \A r \in Request : mux[r].stage # "idle" ~> reply[r] # None

\* "The primary upstream owns the response": what the hello server behind the
\* primary answered is what the client receives, whatever its status.
PrimaryOwnsResponse ==
    \A r \in Request :
        reply[r] # None /\ primary[r].from = "hello" => reply[r] = primary[r]

====
