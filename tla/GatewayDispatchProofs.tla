-------------------------- MODULE GatewayDispatchProofs --------------------------
(***************************************************************************)
(* The two ends of a signed probe agree, for any number of grants, targets,*)
(* deliveries and gateway processes.                                       *)
(***************************************************************************)
EXTENDS GatewayDispatch, TLAPS

\* An intermediary has no more requests on their way than it was given.
TransitSent == \A g \in Grant : transit[g] <= sends[g]

\* Probes are dated by the processes so far, those of a grant that has not expired and
\* is not in the cache by earlier ones.
ProbesDated ==
    \A g \in Grant : \A i \in DOMAIN probed[g] :
        /\ probed[g][i].by <= starts
        /\ probed[g][i].by = starts => g \in consumed \/ ExpiresAt[g] <= clock

\* What a probe that is run, or was, had to go on.
Probed(g) == Len(probed[g]) > 0 /\ Probable(RequestOf[g])

ProbesJustified == /\ running # None => Probed(running)
                   /\ \A g \in reached : Probed(g)

\* A reply that says "passed" is true, and so is a success made of it.
PassedReached == \A g \in Grant : "passed" \in replies[g] => g \in reached
SucceededReached == \A g \in Grant : attempt[g] = "succeeded" => g \in reached

\* The inductive invariant.
IInv == /\ TypeOK
        /\ TransitSent
        /\ ProbesDated
        /\ ProbesJustified
        /\ PassedReached
        /\ SucceededReached
        /\ OnceWhileLive

----------------------------------------------------------------------------

\* Before the first dispatch nothing is anywhere.
LEMMA InitIInv == Init => IInv
<1> SUFFICES ASSUME Init PROVE IInv
  OBVIOUS
<1> USE DEF Init
<1>1. TypeOK
  BY BoundAssumption DEF TypeOK, Request, Status
<1>2. TransitSent /\ PassedReached /\ SucceededReached /\ ProbesJustified
  BY DEF TransitSent, PassedReached, SucceededReached, ProbesJustified, Request
<1>3. ProbesDated /\ OnceWhileLive
  BY DEF ProbesDated, OnceWhileLive
<1> QED BY ONLY <1>1, <1>2, <1>3 DEF IInv

\* What is known of the probes stands as long as no process and no probe intervenes.
LEMMA ProbesKept ==
    ASSUME ProbesDated, ProbesJustified, OnceWhileLive,
           UNCHANGED <<clock, env, starts, consumed, running, probed, reached>>
    PROVE  ProbesDated' /\ ProbesJustified' /\ OnceWhileLive'
  BY DEF ProbesDated, ProbesJustified, Probed, Probable, OnceWhileLive

\* The dispatcher posts a request once.
LEMMA DispatchIInv == \A g \in Grant : IInv /\ Dispatch(g) => IInv'
<1> SUFFICES ASSUME NEW g \in Grant, IInv, Dispatch(g) PROVE IInv'
  OBVIOUS
<1> USE DEF IInv, Dispatch
<1>1. PICK status \in {"posted", "refused", "failed"} :
         /\ attempt' = [attempt EXCEPT ![g] = status]
         /\ transit' = [transit EXCEPT ![g] = IF status = "posted" THEN 1 ELSE 0]
         /\ sends' = [sends EXCEPT ![g] = IF status = "posted" THEN 1 ELSE 0]
  OBVIOUS
<1>2. UNCHANGED <<clock, process, replies, history>>
  OBVIOUS
<1>3. (IF status = "posted" THEN 1 ELSE 0) \in 0 .. MaxSends
  BY BoundAssumption
<1>4. TypeOK'
  BY <1>1, <1>2, <1>3 DEF TypeOK, Status, process, history
<1>5. TransitSent'
  BY <1>1 DEF TransitSent, TypeOK
<1>6. PassedReached' /\ SucceededReached'
  BY <1>1, <1>2 DEF PassedReached, SucceededReached, TypeOK, history
<1> QED BY <1>2, <1>4, <1>5, <1>6, ProbesKept DEF process, history

\* Only a reply that says "passed" makes a success.
LEMMA TakeReplyIInv == \A g \in Grant : IInv /\ TakeReply(g) => IInv'
<1> SUFFICES ASSUME NEW g \in Grant, IInv, TakeReply(g) PROVE IInv'
  OBVIOUS
<1> USE DEF IInv, TakeReply
<1>0. PICK reply \in replies[g] : \E status \in Classified(reply) :
         attempt' = [attempt EXCEPT ![g] = status]
  OBVIOUS
<1>1. PICK status \in Classified(reply) : attempt' = [attempt EXCEPT ![g] = status]
  BY <1>0
<1>2. status \in Status /\ (status = "succeeded" => reply = "passed")
  BY DEF Classified, Status
<1>3. UNCHANGED <<clock, process, network, history>>
  OBVIOUS
<1>4. TypeOK'
  BY <1>1, <1>2, <1>3 DEF TypeOK, process, network, history
<1>5. TransitSent' /\ PassedReached'
  BY <1>3 DEF TransitSent, PassedReached, network, history
<1>6. SucceededReached'
  BY <1>1, <1>2, <1>3 DEF SucceededReached, PassedReached, TypeOK, history
<1> QED BY <1>3, <1>4, <1>5, <1>6, ProbesKept DEF process, history

\* Giving up is no success.
LEMMA ClientFailsIInv == \A g \in Grant : IInv /\ ClientFails(g) => IInv'
<1> SUFFICES ASSUME NEW g \in Grant, IInv, ClientFails(g) PROVE IInv'
  OBVIOUS
<1> USE DEF IInv, ClientFails
<1>1. TypeOK'
  BY DEF TypeOK, Status, process, network, history
<1>2. TransitSent' /\ PassedReached'
  BY DEF TransitSent, PassedReached, network, history
<1>3. SucceededReached'
  BY DEF SucceededReached, TypeOK, history
<1> QED BY <1>1, <1>2, <1>3, ProbesKept DEF process, history

\* The network moves requests and drops replies; it makes up neither.
LEMMA NetworkIInv ==
    ASSUME NEW g \in Request, IInv,
           (g \in Grant /\ (Lose(g) \/ SendAgain(g))) \/ LoseReply(g)
    PROVE  IInv'
<1> USE DEF IInv
<1>1. UNCHANGED <<clock, process, attempt, history>>
  BY DEF Lose, SendAgain, LoseReply
<1>2. /\ transit' \in [Grant -> 0 .. MaxSends]
      /\ sends' \in [Grant -> 0 .. MaxSends]
      /\ \A h \in Grant : transit'[h] <= sends'[h]
  <2>1. CASE g \in Grant /\ Lose(g)
    BY <2>1, BoundAssumption DEF Lose, TypeOK, TransitSent
  <2>2. CASE g \in Grant /\ SendAgain(g)
    BY <2>2, BoundAssumption DEF SendAgain, TypeOK, TransitSent
  <2>3. CASE LoseReply(g)
    BY <2>3 DEF LoseReply, TypeOK, TransitSent
  <2> QED BY <2>1, <2>2, <2>3
<1>3. /\ replies' \in [Request -> SUBSET Reply]
      /\ \A q \in Request : replies'[q] \subseteq replies[q]
  <2>1. CASE Lose(g) \/ SendAgain(g)
    BY <2>1 DEF Lose, SendAgain, TypeOK
  <2>2. CASE LoseReply(g)
    BY <2>2 DEF LoseReply, TypeOK
  <2> QED BY <2>1, <2>2
<1>4. TypeOK'
  BY <1>1, <1>2, <1>3 DEF TypeOK, process, history
<1>5. TransitSent'
  BY <1>2 DEF TransitSent
<1>6. PassedReached' /\ SucceededReached'
  BY <1>1, <1>3 DEF PassedReached, SucceededReached, Request, history
<1> QED BY <1>1, <1>4, <1>5, <1>6, ProbesKept DEF process, history

\* Requests wait in the order in which their bodies are complete.
LEMMA ArriveIInv ==
    ASSUME NEW g \in Request, IInv, (g \in Grant /\ Arrive(g)) \/ ArriveUntrusted
    PROVE  IInv'
<1> USE DEF IInv
<1>1. UNCHANGED <<clock, env, gateway, starts, consumed, running, sends, replies, attempt,
                   history>>
  BY DEF Arrive, ArriveUntrusted, network
<1>2. queue' \in Seq(Request)
  <2>1. queue \in Seq(Request) /\ None \in Request
    BY DEF TypeOK, Request
  <2>2. queue' = Append(queue, g) \/ queue' = Append(queue, None)
    BY DEF Arrive, ArriveUntrusted
  <2> QED BY <2>1, <2>2
<1>3. /\ transit' \in [Grant -> 0 .. MaxSends]
      /\ \A h \in Grant : transit'[h] <= sends[h]
  <2>1. CASE g \in Grant /\ Arrive(g)
    BY <2>1, BoundAssumption DEF Arrive, TypeOK, TransitSent
  <2>2. CASE ArriveUntrusted
    BY <2>2 DEF ArriveUntrusted, TypeOK, TransitSent, network
  <2> QED BY <2>1, <2>2
<1>4. TypeOK'
  BY <1>1, <1>2, <1>3 DEF TypeOK, history
<1>5. TransitSent' /\ PassedReached' /\ SucceededReached'
  BY <1>1, <1>3 DEF TransitSent, PassedReached, SucceededReached, history
<1> QED BY <1>1, <1>4, <1>5, ProbesKept DEF history

\* A gateway starts or refuses to; nothing was probed by it yet.
LEMMA StartIInv == IInv /\ Start => IInv'
<1> SUFFICES ASSUME IInv, Start PROVE IInv'
  OBVIOUS
<1> USE DEF IInv, Start
<1>1. TypeOK'
  BY DEF TypeOK, network, history
<1>2. TransitSent' /\ PassedReached' /\ SucceededReached'
  BY DEF TransitSent, PassedReached, SucceededReached, network, history
<1> QED BY <1>1, <1>2, ProbesKept DEF history

\* To the next process all earlier probes are earlier.
LEMMA RestartIInv == IInv /\ Restart => IInv'
<1> SUFFICES ASSUME IInv, Restart PROVE IInv'
  OBVIOUS
<1> USE DEF IInv, Restart
<1>1. TypeOK'
  BY BoundAssumption DEF TypeOK, network, history, Request
<1>2. TransitSent' /\ PassedReached' /\ SucceededReached'
  BY DEF TransitSent, PassedReached, SucceededReached, network, history
<1>3. ProbesDated'
  <2>1. \A g \in Grant : \A i \in DOMAIN probed[g] :
           probed[g][i].by \in Nat /\ probed[g][i].by <= starts
    <3>1. ASSUME NEW g \in Grant, NEW i \in DOMAIN probed[g]
          PROVE  probed[g][i].by \in Nat
      <4>1. probed[g] \in Seq(ProbeRun)
        BY DEF TypeOK
      <4>2. probed[g][i] \in ProbeRun
        BY <3>1, <4>1
      <4> QED BY <4>2, BoundAssumption DEF ProbeRun
    <3> QED BY <3>1 DEF ProbesDated
  <2>2. starts \in Nat /\ starts' = starts + 1 /\ probed' = probed
    BY BoundAssumption DEF TypeOK, history
  <2> QED BY ONLY <2>1, <2>2 DEF ProbesDated
<1>4. ProbesJustified' /\ OnceWhileLive'
  BY DEF ProbesJustified, Probed, Probable, OnceWhileLive, history
<1> QED BY ONLY <1>1, <1>2, <1>3, <1>4 DEF IInv

\* A refusal probes nothing, and the reply does not say "passed".
LEMMA RefuseIInv ==
    ASSUME NEW r \in Request, NEW reply \in Reply \ {"passed"}, NEW left \in SUBSET Grant,
           IInv, Refuse(r, reply, left), queue' \in Seq(Request), clock' \in clock .. MaxClock,
           \A g \in consumed \ left : ExpiresAt[g] <= clock',
           UNCHANGED <<env, gateway, starts, transit, sends, attempt, reached>>
    PROVE  IInv'
<1> USE DEF IInv, Refuse, Answer
<1>1. clock \in Nat /\ clock' \in 0 .. MaxClock /\ clock <= clock' /\ clock' \in Nat
  BY BoundAssumption DEF TypeOK
<1>2. TypeOK'
  BY <1>1 DEF TypeOK
<1>3. TransitSent' /\ SucceededReached'
  BY DEF TransitSent, SucceededReached
<1>4. PassedReached'
  BY DEF PassedReached, TypeOK, Request
<1>5. ProbesDated'
  BY <1>1, GrantAssumption DEF ProbesDated
<1>6. ProbesJustified' /\ OnceWhileLive'
  BY DEF ProbesJustified, Probed, Probable, OnceWhileLive
<1> QED BY ONLY <1>2, <1>3, <1>4, <1>5, <1>6 DEF IInv

\* A probe is this process's first for the grant, unless the grant has expired, and
\* leaves the grant in the cache.
LEMMA RunIInv ==
    ASSUME NEW r \in Grant, NEW now \in clock .. MaxClock, Probable(RequestOf[r]),
           r \notin Unexpired(now), IInv, Run(r, now, Unexpired(now) \cup {r}),
           clock' = now, queue' \in Seq(Request),
           UNCHANGED <<env, gateway, starts, transit, sends, attempt, reached>>
    PROVE  IInv'
<1> USE DEF IInv, Run
<1>1. /\ clock \in Nat /\ now \in Nat /\ clock <= now /\ now \in 0 .. MaxClock
      /\ starts \in 1 .. MaxStarts /\ starts \in Nat
      /\ \A g \in Grant : ExpiresAt[g] \in Nat
      /\ probed[r] \in Seq(ProbeRun)
  <2>1. /\ clock \in 0 .. MaxClock /\ starts \in 1 .. MaxStarts
        /\ probed \in [Grant -> Seq(ProbeRun)]
    BY DEF TypeOK
  <2> QED BY ONLY <2>1, now \in clock .. MaxClock, r \in Grant, BoundAssumption,
             GrantAssumption
<1> DEFINE live == now < ExpiresAt[r]
           run == [by |-> starts, live |-> live]
<1>2. run \in ProbeRun /\ run.by = starts /\ (run.live => now < ExpiresAt[r])
  <2>1. run.by = starts /\ (run.live => now < ExpiresAt[r])
    OBVIOUS
  <2>2. live \in BOOLEAN
    OBVIOUS
  <2> HIDE DEF live
  <2>3. run \in [by : 1 .. MaxStarts, live : BOOLEAN]
    BY ONLY <1>1, <2>2
  <2> QED BY <2>1, <2>3 DEF ProbeRun
<1>3. probed' = [probed EXCEPT ![r] = Append(probed[r], run)]
  OBVIOUS
<1> HIDE DEF run
<1>4. /\ probed' \in [Grant -> Seq(ProbeRun)]
      /\ probed'[r] = Append(probed[r], run)
      /\ \A g \in Grant \ {r} : probed'[g] = probed[g]
  BY <1>1, <1>2, <1>3 DEF TypeOK
<1>5. /\ DOMAIN probed'[r] = 1 .. Len(probed[r]) + 1
      /\ DOMAIN probed[r] = 1 .. Len(probed[r])
      /\ \A i \in DOMAIN probed[r] : probed'[r][i] = probed[r][i]
      /\ probed'[r][Len(probed[r]) + 1] = run
      /\ Len(probed'[r]) = Len(probed[r]) + 1
      /\ Len(probed[r]) \in Nat
  BY <1>1, <1>2, <1>4
<1>6. /\ \A i \in DOMAIN probed[r] : probed[r][i].by <= starts
      /\ \A i \in DOMAIN probed[r] : probed[r][i].by = starts => ExpiresAt[r] <= now
  BY <1>1 DEF ProbesDated, Unexpired
<1>7. consumed' = Unexpired(now) \cup {r} /\ consumed' \in SUBSET Grant
  BY DEF TypeOK, Unexpired
<1>8. TypeOK'
  BY <1>1, <1>4, <1>7 DEF TypeOK, Request
<1>9. TransitSent' /\ SucceededReached' /\ PassedReached'
  BY DEF TransitSent, SucceededReached, PassedReached
<1>10. ProbesDated'
  <2>1. ASSUME NEW g \in Grant, NEW i \in DOMAIN probed'[g]
        PROVE  /\ probed'[g][i].by <= starts
               /\ probed'[g][i].by = starts => g \in consumed' \/ ExpiresAt[g] <= now
    <3>1. CASE g = r
      BY <1>1, <1>2, <1>5, <1>6, <1>7, <3>1
    <3>2. CASE g # r
      <4>1. i \in DOMAIN probed[g] /\ probed'[g][i] = probed[g][i]
        BY <1>4, <3>2
      <4>2. /\ probed[g][i].by <= starts
            /\ probed[g][i].by = starts => g \in consumed \/ ExpiresAt[g] <= clock
        BY <4>1 DEF ProbesDated
      <4>3. g \in consumed => g \in consumed' \/ ExpiresAt[g] <= now
        BY <1>1, <1>7 DEF Unexpired
      <4>4. ExpiresAt[g] <= clock => ExpiresAt[g] <= now
        BY <1>1
      <4> QED BY ONLY <4>1, <4>2, <4>3, <4>4
    <3> QED BY <3>1, <3>2
  <2> QED BY <2>1 DEF ProbesDated
<1>11. ProbesJustified'
  <2>1. \A g \in Grant : Probed(g) => Probed(g)'
    BY <1>4, <1>5 DEF Probed, Probable
  <2>2. Probed(r)'
    BY <1>5 DEF Probed, Probable
  <2> QED BY <2>1, <2>2 DEF ProbesJustified, TypeOK
<1>12. OnceWhileLive'
  <2>1. ASSUME NEW g \in Grant, NEW i \in DOMAIN probed'[g], NEW j \in DOMAIN probed'[g],
               i < j, probed'[g][i].by = probed'[g][j].by
        PROVE  ~probed'[g][j].live
    <3>1. CASE g # r
      BY <1>4, <2>1, <3>1 DEF OnceWhileLive
    <3>2. CASE g = r /\ j \in DOMAIN probed[r]
      <4>1. i \in DOMAIN probed[r]
        BY <1>5, <2>1, <3>2
      <4> QED BY <1>5, <2>1, <3>2, <4>1 DEF OnceWhileLive
    <3>3. CASE g = r /\ j \notin DOMAIN probed[r]
      <4>1. i \in DOMAIN probed[r] /\ probed'[r][j] = run
        BY <1>5, <2>1, <3>3
      <4>2. probed[r][i].by = starts
        BY <1>2, <1>5, <2>1, <3>3, <4>1
      <4>3. ~(now < ExpiresAt[r])
        BY <1>1, <1>6, <4>1, <4>2
      <4> QED BY <1>2, <3>3, <4>1, <4>3
    <3> QED BY <3>1, <3>2, <3>3
  <2> QED BY <2>1 DEF OnceWhileLive
<1> QED BY ONLY <1>8, <1>9, <1>10, <1>11, <1>12 DEF IInv

\* The handler refuses, or probes for a grant that is not in the cache after eviction.
LEMMA HandleIInv == IInv /\ Handle => IInv'
<1> SUFFICES ASSUME IInv, Handle PROVE IInv'
  OBVIOUS
<1> DEFINE r == Head(queue)
<1> DEFINE kept == Unexpired(clock')
<1>1. r \in Request /\ queue' \in Seq(Request)
  BY DEF IInv, TypeOK, Handle
<1>2. /\ clock' \in clock .. MaxClock
      /\ UNCHANGED <<env, gateway, starts, transit, sends, attempt, reached>>
  BY DEF Handle
<1>3. HandleRequest(r, clock')
  BY DEF Handle
<1>4. /\ consumed \in SUBSET Grant /\ kept \in SUBSET Grant
      /\ \A g \in consumed \ kept : ExpiresAt[g] <= clock'
  BY <1>2, BoundAssumption, GrantAssumption DEF IInv, TypeOK, Unexpired
<1> HIDE DEF r
<1>5. CASE r \notin Grant \/ ~TemporallyValid(r, clock)
  <2>1. Refuse(r, "capability-rejected", consumed)
    BY <1>3, <1>5 DEF HandleRequest
  <2> QED BY <1>1, <1>2, <1>4, <2>1, RefuseIInv DEF Reply
<1>6. CASE r \in Grant /\ TemporallyValid(r, clock) /\ (r \in kept \/ ~HasRoom(kept))
  <2>1. Refuse(r, "capability-rejected", kept)
    BY <1>3, <1>6 DEF HandleRequest
  <2> QED BY <1>1, <1>2, <1>4, <2>1, RefuseIInv DEF Reply
<1>7. CASE /\ r \in Grant /\ TemporallyValid(r, clock) /\ r \notin kept /\ HasRoom(kept)
           /\ ~Probable(RequestOf[r])
  <2>1. Refuse(r, "probe-rejected", kept \cup {r})
    BY <1>3, <1>7 DEF HandleRequest
  <2>2. /\ kept \cup {r} \in SUBSET Grant
        /\ \A g \in consumed \ (kept \cup {r}) : ExpiresAt[g] <= clock'
    BY <1>4, <1>7
  <2>3. "probe-rejected" \in Reply \ {"passed"}
    BY DEF Reply
  <2> HIDE DEF kept
  <2> QED BY <1>1, <1>2, <2>1, <2>2, <2>3, RefuseIInv
<1>8. CASE /\ r \in Grant /\ TemporallyValid(r, clock) /\ r \notin kept /\ HasRoom(kept)
           /\ Probable(RequestOf[r])
  <2>1. Run(r, clock', kept \cup {r})
    BY <1>3, <1>8 DEF HandleRequest
  <2> QED BY <1>1, <1>2, <1>8, <2>1, RunIInv
<1> QED BY <1>5, <1>6, <1>7, <1>8

\* As time passes, what was live when it was probed for is still in the cache or no
\* longer live.
LEMMA TickIInv == IInv /\ Tick => IInv'
<1> SUFFICES ASSUME IInv, Tick PROVE IInv'
  OBVIOUS
<1> USE DEF IInv, Tick
<1>1. clock \in Nat /\ clock' = clock + 1 /\ clock' \in 0 .. MaxClock
  BY BoundAssumption DEF TypeOK
<1>2. UNCHANGED <<process, network, attempt, history>>
  OBVIOUS
<1>3. TypeOK'
  BY <1>1, <1>2 DEF TypeOK, process, network, history
<1>4. TransitSent' /\ PassedReached' /\ SucceededReached'
  BY <1>2 DEF TransitSent, PassedReached, SucceededReached, network, history
<1>5. ProbesDated'
  BY <1>1, <1>2, GrantAssumption DEF ProbesDated, process, history
<1>6. ProbesJustified' /\ OnceWhileLive'
  BY <1>2 DEF ProbesJustified, Probed, Probable, OnceWhileLive, process, history
<1> QED BY ONLY <1>3, <1>4, <1>5, <1>6 DEF IInv

\* "passed" is only answered for a target that answered as asked.
LEMMA ProbeEndsIInv == IInv /\ ProbeEnds => IInv'
<1> SUFFICES ASSUME IInv, ProbeEnds PROVE IInv'
  OBVIOUS
<1> USE DEF IInv, ProbeEnds, Answer
<1>1. running \in Grant
  BY DEF TypeOK, Request
<1> DEFINE kind == RequestOf[running].kind
<1>2. PICK outcome \in Outcome(kind) :
         /\ replies' = [replies EXCEPT ![running] = @ \cup {ProbeReply(kind, outcome)}]
         /\ reached' = IF outcome = "ok" THEN reached \cup {running} ELSE reached
  OBVIOUS
<1>3. /\ ProbeReply(kind, outcome) \in Reply
      /\ ProbeReply(kind, outcome) = "passed" => outcome = "ok"
  BY DEF ProbeReply, Reply
<1> HIDE DEF kind
<1>4. UNCHANGED <<clock, env, gateway, starts, consumed, queue, transit, sends, attempt,
                   probed>>
  OBVIOUS
<1>5. replies' \in [Request -> SUBSET Reply]
  BY <1>1, <1>2, <1>3 DEF TypeOK
<1>6. reached' \in SUBSET Grant /\ reached \subseteq reached'
  BY <1>1, <1>2 DEF TypeOK
<1>7. TypeOK'
  BY <1>4, <1>5, <1>6 DEF TypeOK, Request
<1>8. TransitSent' /\ SucceededReached'
  BY <1>4, <1>6 DEF TransitSent, SucceededReached
<1>9. PassedReached'
  BY <1>1, <1>2, <1>3, <1>6 DEF PassedReached, TypeOK, Request
<1>10. ProbesDated' /\ OnceWhileLive'
  BY <1>4 DEF ProbesDated, OnceWhileLive
<1>11. ProbesJustified'
  <2>1. \A g : Probed(g) => Probed(g)'
    BY <1>4 DEF Probed, Probable
  <2>2. Probed(running) /\ running' = None
    BY DEF ProbesJustified
  <2> QED BY <1>2, <2>1, <2>2 DEF ProbesJustified
<1> QED BY ONLY <1>7, <1>8, <1>9, <1>10, <1>11 DEF IInv

----------------------------------------------------------------------------

\* The strengthening is an invariant.
LEMMA SpecIInv == Spec => []IInv
<1>1. IInv /\ [Next]_vars => IInv'
  <2> SUFFICES ASSUME IInv, [Next]_vars PROVE IInv'
    OBVIOUS
  <2>1. CASE UNCHANGED vars
    <3>1. UNCHANGED <<clock, process, network, attempt, history>>
      BY <2>1 DEF vars
    <3>2. TypeOK' /\ TransitSent' /\ PassedReached' /\ SucceededReached'
      BY <3>1 DEF IInv, TypeOK, TransitSent, PassedReached, SucceededReached, process,
         network, history
    <3> QED BY <3>1, <3>2, ProbesKept DEF IInv, process, history
  <2>2. CASE \E g \in Grant : Dispatch(g) \/ TakeReply(g) \/ ClientFails(g)
    BY <2>2, DispatchIInv, TakeReplyIInv, ClientFailsIInv
  <2>3. CASE \E g \in Request : (g \in Grant /\ (Lose(g) \/ SendAgain(g))) \/ LoseReply(g)
    BY <2>3, NetworkIInv
  <2>4. CASE \E g \in Request : (g \in Grant /\ Arrive(g)) \/ ArriveUntrusted
    BY <2>4, ArriveIInv
  <2> QED BY <2>1, <2>2, <2>3, <2>4, StartIInv, RestartIInv, HandleIInv, ProbeEndsIInv,
             TickIInv DEF Next, Request
<1> QED BY <1>1, InitIInv, PTL DEF Spec

\* A success is a declared target's answer to a probe for this grant, whatever the
\* network did (_SignedGatewayProbeDispatcher, server.py:897-937).
THEOREM SpecSucceededMeansReached == Spec => []SucceededMeansReached
<1>1. IInv => SucceededMeansReached
  BY DEF IInv, SucceededReached, ProbesJustified, Probed, Probable, SucceededMeansReached
<1> QED BY <1>1, SpecIInv, PTL

\* A process that probed for a grant probes for it again only once it has expired
\* (verification.py:79-95 of the gateway).
THEOREM SpecOnceWhileLive == Spec => []OnceWhileLive
<1>1. IInv => OnceWhileLive
  BY DEF IInv
<1> QED BY <1>1, SpecIInv, PTL
=============================================================================
