----------------------------- MODULE DataPlaneProofs -----------------------------
(***************************************************************************)
(* The data plane's order of deliveries, for any number of requests and    *)
(* observers and any limit of the hello servers' logs.                     *)
(***************************************************************************)
EXTENDS DataPlane, TLAPS

\* What a hello server has of a request: in its queue or already recorded.
Reached(h, r) == r \in inbox[h] \/ r \in Range(recorded[h])

Types == /\ mux \in [Request -> Task]
         /\ router \in [Request -> {"idle", "queued", "forwarding", "ended"}]
         /\ primary \in [Request -> Answer \cup {None}]
         /\ inbox \in [Hello -> SUBSET Request]
         /\ given \in [Hello -> [Request -> Answer \cup {None}]]
         /\ reply \in [Request -> Answer \cup {None}]
         /\ recorded \in [Hello -> Seq(Request)]

\* A thread before its primary exchange has sent and received nothing.
BeforePrimary ==
    \A r \in Request :
        /\ mux[r].stage = "idle" => router[r] = "idle" /\ primary[r] = None
        /\ mux[r].stage \in {"idle", "primary"} =>
              /\ reply[r] = None /\ mux[r].errors = {}
              /\ \A o \in Observer : ~Reached(o, r)

\* The observers' turn comes with the primary's response in hand.
ResponseInHand ==
    \A r \in Request :
        mux[r].stage \in {"observe", "delivering"}
            => primary[r].status = 200 /\ reply[r] = None

\* A thread that waits for an observer waits for one there is.
DeliveringToObserver ==
    \A r \in Request : mux[r].stage = "delivering" => mux[r].next \in Observer

\* Only hello servers answer 200.
SuccessIsHellos ==
    /\ \A h \in Hello, r \in Request : given[h][r] # None => given[h][r].from = "hello"
    /\ \A r \in Request : primary[r].status = 200 => primary[r].from = "hello"

\* Once an observer failed, the client's answer is settled.
FailedOpen ==
    \A r \in Request :
        mux[r].errors # {} => primary[r].status = 200 /\ reply[r] \in {None, primary[r]}

\* A server that has a request in its queue has not recorded it, and a thread
\* that has not opened a server yet has not reached it.
NotYetReached ==
    /\ \A h \in Hello, r \in Request : r \in inbox[h] => r \notin Range(recorded[h])
    /\ \A r \in Request : router[r] \in {"idle", "queued"} => ~Reached(Target, r)
    /\ \A r \in Request, o \in Observer :
          mux[r].next < o \/ (mux[r].next = o /\ mux[r].stage # "delivering")
              => ~Reached(o, r)

IInv == /\ Types
        /\ BeforePrimary
        /\ ResponseInHand
        /\ DeliveringToObserver
        /\ SuccessIsHellos
        /\ FailedOpen
        /\ NotYetReached
        /\ ObserversFollowPrimary
        /\ RecordedOnce

USE SizeAssumption, RequestAssumption DEF Target, Observer, Hello

\* Appending adds the element to what a sequence holds.
LEMMA RangeAppend ==
    ASSUME NEW S, NEW s \in Seq(S), NEW e \in S
    PROVE  Range(Append(s, e)) = Range(s) \cup {e}
<1>1. DOMAIN Append(s, e) = DOMAIN s \cup {Len(s) + 1}
    OBVIOUS
<1>2. \A i \in DOMAIN s : Append(s, e)[i] = s[i]
    OBVIOUS
<1>3. Append(s, e)[Len(s) + 1] = e
    OBVIOUS
<1> QED
    BY <1>1, <1>2, <1>3, Zenon DEF Range

\* Appending a new element keeps a sequence without repetitions.
LEMMA InjectiveAppend ==
    ASSUME NEW S, NEW s \in Seq(S), NEW e \in S, IsInjective(s), e \notin Range(s)
    PROVE  IsInjective(Append(s, e))
<1>1. \A i \in 1 .. Len(s) : s[i] # e
    BY DEF Range
<1>2. \A i, j \in 1 .. Len(s) : s[i] = s[j] => i = j
    BY DEF IsInjective
<1> QED
    BY <1>1, <1>2 DEF IsInjective

\* A thread stays well formed when its stage changes, and when the loop moves on.
LEMMA TaskStage ==
    ASSUME NEW t \in Task, NEW s \in Stage
    PROVE  [t EXCEPT !.stage = s] \in Task
    BY DEF Task

LEMMA TaskNext ==
    ASSUME NEW t \in Task, t.next \in Observer
    PROVE  /\ [t EXCEPT !.stage = "observe", !.next = t.next + 1] \in Task
           /\ [t EXCEPT !.stage = "observe", !.next = t.next + 1,
                         !.errors = t.errors \cup {t.next}] \in Task
<1>1. t.next + 1 \in 1 .. Observers + 1 /\ t.errors \cup {t.next} \in SUBSET Observer
    BY DEF Task
<1>2. "observe" \in Stage
    BY DEF Stage
<1> QED
    BY <1>1, <1>2 DEF Task

\* The initial state: nothing was sent.
LEMMA InitIInv == Init => IInv
<1> SUFFICES ASSUME Init PROVE IInv
    OBVIOUS
<1>1. \A h \in Hello : Range(recorded[h]) = {} /\ IsInjective(recorded[h])
    BY DEF Init, Range, IsInjective
<1>2. \A h \in Hello, r \in Request : ~Reached(h, r)
    BY <1>1 DEF Init, Reached
<1>3. Types
    BY DEF Init, Types, Task, Stage, None
<1>4. /\ BeforePrimary /\ ResponseInHand /\ DeliveringToObserver
      /\ SuccessIsHellos /\ FailedOpen
    BY <1>2 DEF Init, BeforePrimary, ResponseInHand, DeliveringToObserver, SuccessIsHellos,
                FailedOpen, None
<1>5. NotYetReached /\ ObserversFollowPrimary /\ RecordedOnce
    BY <1>1, <1>2 DEF Init, NotYetReached, ObserversFollowPrimary, RecordedOnce, Reached
<1> QED
    BY <1>3, <1>4, <1>5 DEF IInv

\* The request is accepted: the router has it, nobody else.
LEMMA ForwardPrimaryIInv ==
    ASSUME IInv, NEW r \in Request, ForwardPrimary(r)
    PROVE  IInv'
<1> USE DEF IInv, ForwardPrimary, muxVars, helloVars
<1>1. Types'
    <2>1. mux[r] \in Task
        BY DEF Types
    <2>2. [mux[r] EXCEPT !.stage = "primary"] \in Task
        BY ONLY <2>1, TaskStage DEF Stage, Observer
    <2>3. mux' = [mux EXCEPT ![r] = [mux[r] EXCEPT !.stage = "primary"]]
        BY <2>1 DEF Types
    <2>4. mux' \in [Request -> Task]
        BY ONLY <2>2, <2>3, Types DEF Types
    <2> QED
        BY <2>4 DEF Types, Answer, BadGateway
<1>2. BeforePrimary'
    BY DEF BeforePrimary, Reached, Types
<1>3. ResponseInHand'
    BY DEF ResponseInHand, BeforePrimary, Types
<1>4. DeliveringToObserver'
    BY DEF DeliveringToObserver, Types
<1>5. SuccessIsHellos'
    BY DEF SuccessIsHellos, Types
<1>6. FailedOpen'
    BY DEF FailedOpen, ResponseInHand, BeforePrimary, Types
<1>7. NotYetReached'
    BY DEF NotYetReached, BeforePrimary, DeliveringToObserver, Reached, Types
<1>8. ObserversFollowPrimary'
    BY DEF ObserversFollowPrimary, BeforePrimary, ResponseInHand, Reached, Types
<1>9. RecordedOnce'
    BY DEF RecordedOnce
<1> QED
    BY ONLY <1>1, <1>2, <1>3, <1>4, <1>5, <1>6, <1>7, <1>8, <1>9 DEF IInv

\* The primary's response opens the observers' turn.
LEMMA PrimaryAnswersIInv ==
    ASSUME IInv, NEW r \in Request, PrimaryAnswers(r)
    PROVE  IInv'
<1> USE DEF IInv, PrimaryAnswers, muxVars, helloVars
<1>1. Types'
    <2>1. mux[r] \in Task
        BY DEF Types
    <2>2. [mux[r] EXCEPT !.stage = "observe"] \in Task
        BY ONLY <2>1, TaskStage DEF Stage, Observer
    <2>3. mux' = [mux EXCEPT ![r] = [mux[r] EXCEPT !.stage = "observe"]]
        BY <2>1 DEF Types
    <2>4. mux' \in [Request -> Task]
        BY ONLY <2>2, <2>3, Types DEF Types
    <2> QED
        BY <2>4 DEF Types, Answer, BadGateway
<1>2. BeforePrimary'
    BY DEF BeforePrimary, Reached, Types
<1>3. ResponseInHand'
    BY DEF ResponseInHand, BeforePrimary, Types
<1>4. DeliveringToObserver'
    BY DEF DeliveringToObserver, Types
<1>5. SuccessIsHellos'
    BY DEF SuccessIsHellos, Types
<1>6. FailedOpen'
    BY DEF FailedOpen, ResponseInHand, BeforePrimary, Types
<1>7. NotYetReached'
    BY DEF NotYetReached, BeforePrimary, DeliveringToObserver, Reached, Types
<1>8. ObserversFollowPrimary'
    BY DEF ObserversFollowPrimary, BeforePrimary, ResponseInHand, Reached, Types
<1>9. RecordedOnce'
    BY DEF RecordedOnce
<1> QED
    BY ONLY <1>1, <1>2, <1>3, <1>4, <1>5, <1>6, <1>7, <1>8, <1>9 DEF IInv

\* A failed exchange ends the thread before any observer had its request.
LEMMA PrimaryFailsIInv ==
    ASSUME IInv, NEW r \in Request, PrimaryFails(r)
    PROVE  IInv'
<1> USE DEF IInv, PrimaryFails, muxVars, helloVars
<1>1. Types'
    <2>1. mux[r] \in Task
        BY DEF Types
    <2>2. [mux[r] EXCEPT !.stage = "done"] \in Task
        BY ONLY <2>1, TaskStage DEF Stage, Observer
    <2>3. mux' = [mux EXCEPT ![r] = [mux[r] EXCEPT !.stage = "done"]]
        BY <2>1 DEF Types
    <2>4. mux' \in [Request -> Task]
        BY ONLY <2>2, <2>3, Types DEF Types
    <2> QED
        BY <2>4 DEF Types, Answer, BadGateway
<1>2. BeforePrimary'
    BY DEF BeforePrimary, Reached, Types
<1>3. ResponseInHand'
    BY DEF ResponseInHand, BeforePrimary, Types
<1>4. DeliveringToObserver'
    BY DEF DeliveringToObserver, Types
<1>5. SuccessIsHellos'
    BY DEF SuccessIsHellos, Types
<1>6. FailedOpen'
    BY DEF FailedOpen, ResponseInHand, BeforePrimary, Types
<1>7. NotYetReached'
    BY DEF NotYetReached, BeforePrimary, DeliveringToObserver, Reached, Types
<1>8. ObserversFollowPrimary'
    BY DEF ObserversFollowPrimary, BeforePrimary, ResponseInHand, Reached, Types
<1>9. RecordedOnce'
    BY DEF RecordedOnce
<1> QED
    BY ONLY <1>1, <1>2, <1>3, <1>4, <1>5, <1>6, <1>7, <1>8, <1>9 DEF IInv

\* The next observer gets the request for the first time.
LEMMA OpenObserverIInv ==
    ASSUME IInv, NEW r \in Request, OpenObserver(r)
    PROVE  IInv'
<1> USE DEF IInv, OpenObserver, muxVars, helloVars
<1>1. Types'
    <2>1. mux[r] \in Task
        BY DEF Types
    <2>2. [mux[r] EXCEPT !.stage = "delivering"] \in Task
        BY ONLY <2>1, TaskStage DEF Stage, Observer
    <2>3. mux' = [mux EXCEPT ![r] = [mux[r] EXCEPT !.stage = "delivering"]]
        BY <2>1 DEF Types
    <2>4. mux' \in [Request -> Task]
        BY ONLY <2>2, <2>3, Types DEF Types
    <2> QED
        BY <2>4 DEF Types, Answer, BadGateway
<1>2. BeforePrimary'
    BY DEF BeforePrimary, Reached, Types
<1>3. ResponseInHand'
    BY DEF ResponseInHand, BeforePrimary, Types
<1>4. DeliveringToObserver'
    BY DEF DeliveringToObserver, Types
<1>5. SuccessIsHellos'
    BY DEF SuccessIsHellos, Types
<1>6. FailedOpen'
    BY DEF FailedOpen, ResponseInHand, BeforePrimary, Types
<1>7. NotYetReached'
    BY DEF NotYetReached, BeforePrimary, DeliveringToObserver, Reached, Types
<1>8. ObserversFollowPrimary'
    BY DEF ObserversFollowPrimary, BeforePrimary, ResponseInHand, Reached, Types
<1>9. RecordedOnce'
    BY DEF RecordedOnce
<1> QED
    BY ONLY <1>1, <1>2, <1>3, <1>4, <1>5, <1>6, <1>7, <1>8, <1>9 DEF IInv

\* The loop moves on to an observer that was not opened.
LEMMA ObserverAnswersIInv ==
    ASSUME IInv, NEW r \in Request, ObserverAnswers(r)
    PROVE  IInv'
<1> USE DEF IInv, ObserverAnswers, muxVars, helloVars
<1>1. Types'
    <2>0. mux[r].next \in Observer
        <3>1. mux[r].next \in 1 .. Observers + 1
            BY DEF Types, Task
        <3>2. mux[r].next \in Observer
            BY <3>1 DEF DeliveringToObserver
        <3> QED
            BY <3>2
    <2>1. mux[r] \in Task
        BY DEF Types
    <2>2. [mux[r] EXCEPT !.stage = "observe", !.next = mux[r].next + 1] \in Task
        BY ONLY <2>1, <2>0, TaskNext DEF Stage, Observer
    <2>3. mux' = [mux EXCEPT ![r] = [mux[r] EXCEPT !.stage = "observe", !.next = mux[r].next + 1]]
        BY <2>1 DEF Types
    <2>4. mux' \in [Request -> Task]
        BY ONLY <2>2, <2>3, Types DEF Types
    <2> QED
        BY <2>4 DEF Types, Answer, BadGateway
<1>2. BeforePrimary'
    BY DEF BeforePrimary, Reached, Types
<1>3. ResponseInHand'
    BY DEF ResponseInHand, BeforePrimary, Types
<1>4. DeliveringToObserver'
    BY DEF DeliveringToObserver, Types
<1>5. SuccessIsHellos'
    BY DEF SuccessIsHellos, Types
<1>6. FailedOpen'
    BY DEF FailedOpen, ResponseInHand, BeforePrimary, Types
<1>7. NotYetReached'
    BY DEF NotYetReached, BeforePrimary, DeliveringToObserver, Reached, Types
<1>8. ObserversFollowPrimary'
    BY DEF ObserversFollowPrimary, BeforePrimary, ResponseInHand, Reached, Types
<1>9. RecordedOnce'
    BY DEF RecordedOnce
<1> QED
    BY ONLY <1>1, <1>2, <1>3, <1>4, <1>5, <1>6, <1>7, <1>8, <1>9 DEF IInv

\* The loop moves on, with the primary's response still in hand.
LEMMA ObserverFailsIInv ==
    ASSUME IInv, NEW r \in Request, ObserverFails(r)
    PROVE  IInv'
<1> USE DEF IInv, ObserverFails, muxVars, helloVars
<1>1. Types'
    <2>0. mux[r].next \in Observer
        OBVIOUS
    <2>1. mux[r] \in Task
        BY DEF Types
    <2>2. [mux[r] EXCEPT !.stage = "observe", !.next = mux[r].next + 1,
                      !.errors = mux[r].errors \cup {mux[r].next}] \in Task
        BY ONLY <2>1, <2>0, TaskNext DEF Stage, Observer
    <2>3. mux' = [mux EXCEPT ![r] = [mux[r] EXCEPT !.stage = "observe", !.next = mux[r].next + 1,
                      !.errors = mux[r].errors \cup {mux[r].next}]]
        BY <2>1 DEF Types
    <2>4. mux' \in [Request -> Task]
        BY ONLY <2>2, <2>3, Types DEF Types
    <2> QED
        BY <2>4 DEF Types, Answer, BadGateway
<1>2. BeforePrimary'
    BY DEF BeforePrimary, Reached, Types
<1>3. ResponseInHand'
    BY DEF ResponseInHand, BeforePrimary, Types
<1>4. DeliveringToObserver'
    BY DEF DeliveringToObserver, Types
<1>5. SuccessIsHellos'
    BY DEF SuccessIsHellos, Types
<1>6. FailedOpen'
    BY DEF FailedOpen, ResponseInHand, BeforePrimary, Types
<1>7. NotYetReached'
    BY DEF NotYetReached, BeforePrimary, DeliveringToObserver, Reached, Types
<1>8. ObserversFollowPrimary'
    BY DEF ObserversFollowPrimary, BeforePrimary, ResponseInHand, Reached, Types
<1>9. RecordedOnce'
    BY DEF RecordedOnce
<1> QED
    BY ONLY <1>1, <1>2, <1>3, <1>4, <1>5, <1>6, <1>7, <1>8, <1>9 DEF IInv

\* The client receives the primary's response.
LEMMA SendPrimaryIInv ==
    ASSUME IInv, NEW r \in Request, SendPrimary(r)
    PROVE  IInv'
<1> USE DEF IInv, SendPrimary, muxVars, helloVars
<1>1. Types'
    <2>1. mux[r] \in Task
        BY DEF Types
    <2>2. [mux[r] EXCEPT !.stage = "done"] \in Task
        BY ONLY <2>1, TaskStage DEF Stage, Observer
    <2>3. mux' = [mux EXCEPT ![r] = [mux[r] EXCEPT !.stage = "done"]]
        BY <2>1 DEF Types
    <2>4. mux' \in [Request -> Task]
        BY ONLY <2>2, <2>3, Types DEF Types
    <2> QED
        BY <2>4 DEF Types, Answer, BadGateway
<1>2. BeforePrimary'
    BY DEF BeforePrimary, Reached, Types
<1>3. ResponseInHand'
    BY DEF ResponseInHand, BeforePrimary, Types
<1>4. DeliveringToObserver'
    BY DEF DeliveringToObserver, Types
<1>5. SuccessIsHellos'
    BY DEF SuccessIsHellos, Types
<1>6. FailedOpen'
    BY DEF FailedOpen, ResponseInHand, BeforePrimary, Types
<1>7. NotYetReached'
    BY DEF NotYetReached, BeforePrimary, DeliveringToObserver, Reached, Types
<1>8. ObserversFollowPrimary'
    BY DEF ObserversFollowPrimary, BeforePrimary, ResponseInHand, Reached, Types
<1>9. RecordedOnce'
    BY DEF RecordedOnce
<1> QED
    BY ONLY <1>1, <1>2, <1>3, <1>4, <1>5, <1>6, <1>7, <1>8, <1>9 DEF IInv

\* The target gets the request for the first time.
LEMMA RouterForwardIInv ==
    ASSUME IInv, NEW r \in Request, RouterForward(r)
    PROVE  IInv'
<1> USE DEF IInv, RouterForward, muxVars, helloVars
<1>1. Types'
    BY DEF Types
<1>2. BeforePrimary'
    BY DEF BeforePrimary, Reached, Types, None
<1>3. ResponseInHand'
    BY DEF ResponseInHand, BeforePrimary, Types
<1>4. DeliveringToObserver'
    BY DEF DeliveringToObserver, Types
<1>5. SuccessIsHellos'
    BY DEF SuccessIsHellos, Types
<1>6. FailedOpen'
    BY DEF FailedOpen, ResponseInHand, BeforePrimary, Types
<1>7. NotYetReached'
    BY DEF NotYetReached, BeforePrimary, DeliveringToObserver, Reached, Types, None
<1>8. ObserversFollowPrimary'
    BY DEF ObserversFollowPrimary, BeforePrimary, ResponseInHand, Reached, Types
<1>9. RecordedOnce'
    BY DEF RecordedOnce
<1> QED
    BY ONLY <1>1, <1>2, <1>3, <1>4, <1>5, <1>6, <1>7, <1>8, <1>9 DEF IInv

\* The router's thread ends: its answer reaches a primary exchange, or nobody.
LEMMA RouterEndsIInv ==
    ASSUME IInv, NEW r \in Request, NEW a \in Answer \cup {None},
           router[r] \in {"queued", "forwarding"},
           a.status = 200 => a.from = "hello", RouterEnds(r, a)
    PROVE  IInv'
<1> USE DEF IInv, RouterEnds, muxVars, helloVars
<1>1. Types'
    BY DEF Types
<1>2. BeforePrimary'
    BY DEF BeforePrimary, Reached, Types
<1>3. ResponseInHand'
    BY DEF ResponseInHand, BeforePrimary, Types
<1>4. DeliveringToObserver'
    BY DEF DeliveringToObserver, Types
<1>5. SuccessIsHellos'
    BY DEF SuccessIsHellos, Types
<1>6. FailedOpen'
    BY DEF FailedOpen, ResponseInHand, BeforePrimary, Types
<1>7. NotYetReached'
    BY DEF NotYetReached, BeforePrimary, Reached, Types
<1>8. ObserversFollowPrimary'
    BY DEF ObserversFollowPrimary, BeforePrimary, ResponseInHand, Reached, Types
<1>9. RecordedOnce'
    BY DEF RecordedOnce
<1> QED
    BY ONLY <1>1, <1>2, <1>3, <1>4, <1>5, <1>6, <1>7, <1>8, <1>9 DEF IInv

\* A hello server takes a request from its queue: it reaches nobody new, and
\* what it appends was not recorded before.
LEMMA HelloGetIInv ==
    ASSUME IInv, NEW h \in Hello, NEW r \in Request, HelloGet(h, r)
    PROVE  IInv'
<1> USE DEF IInv, muxVars
<1>1. recorded[h] \in Seq(Request) /\ r \notin Range(recorded[h])
    BY DEF HelloGet, Types, NotYetReached
<1>2. /\ recorded'[h] \in Seq(Request)
      /\ Range(recorded'[h]) \subseteq Range(recorded[h]) \cup {r}
      /\ IsInjective(recorded'[h])
    <2>1. CASE r \in ForRoot
        <3>1. recorded'[h] = Append(recorded[h], r)
            BY <2>1 DEF HelloGet, Types
        <3>2. IsInjective(recorded[h])
            BY DEF RecordedOnce
        <3> QED
            BY <1>1, <3>1, <3>2, RangeAppend, InjectiveAppend
    <2>2. CASE r \notin ForRoot
        BY <1>1, <2>2 DEF HelloGet, RecordedOnce
    <2> QED
        BY <2>1, <2>2
<1>3. \A g \in Hello : g # h => recorded'[g] = recorded[g] /\ inbox'[g] = inbox[g]
    BY DEF HelloGet, Types
<1>4. r \in inbox[h] /\ inbox'[h] = inbox[h] \ {r}
    BY DEF HelloGet, Types
<1>5. \A g \in Hello, q \in Request : Reached(g, q)' => Reached(g, q)
    BY <1>2, <1>3, <1>4 DEF Reached
<1>6. UNCHANGED <<mux, primary, reply, router>>
    BY DEF HelloGet
<1>7. given' \in [Hello -> [Request -> Answer \cup {None}]]
    BY DEF HelloGet, Types, Answer
<1>8. recorded' \in [Hello -> Seq(Request)]
    BY <1>2 DEF HelloGet, Types
<1>9. Types'
    BY <1>6, <1>7, <1>8 DEF HelloGet, Types
<1>10. /\ BeforePrimary' /\ ResponseInHand' /\ DeliveringToObserver' /\ FailedOpen'
    BY <1>5, <1>6 DEF BeforePrimary, ResponseInHand, DeliveringToObserver, FailedOpen
<1>11. SuccessIsHellos'
    BY <1>6 DEF SuccessIsHellos, HelloGet, Types, None
<1>12. NotYetReached'
    BY <1>2, <1>3, <1>4, <1>5, <1>6 DEF NotYetReached
<1>13. ObserversFollowPrimary'
    BY <1>5, <1>6 DEF ObserversFollowPrimary, Reached
<1>14. RecordedOnce'
    BY <1>2, <1>3 DEF RecordedOnce
<1> QED
    BY ONLY <1>9, <1>10, <1>11, <1>12, <1>13, <1>14 DEF IInv

\* A replaced hello server loses its queue.
LEMMA HelloRestartIInv ==
    ASSUME IInv, NEW h \in Hello, HelloRestart(h)
    PROVE  IInv'
<1> USE DEF IInv, muxVars
<1>1. UNCHANGED <<mux, primary, reply, router, given, recorded>>
    BY DEF HelloRestart
<1>2. \A g \in Hello : inbox'[g] \subseteq inbox[g]
    BY DEF HelloRestart, Types
<1>3. \A g \in Hello, q \in Request : Reached(g, q)' => Reached(g, q)
    BY <1>1, <1>2 DEF Reached
<1>4. Types'
    BY <1>1 DEF HelloRestart, Types
<1>5. /\ BeforePrimary' /\ ResponseInHand' /\ DeliveringToObserver'
      /\ SuccessIsHellos' /\ FailedOpen'
    BY <1>1, <1>3 DEF BeforePrimary, ResponseInHand, DeliveringToObserver,
                      SuccessIsHellos, FailedOpen
<1>6. NotYetReached' /\ ObserversFollowPrimary' /\ RecordedOnce'
    BY <1>1, <1>2, <1>3 DEF NotYetReached, ObserversFollowPrimary, RecordedOnce, Reached
<1> QED
    BY ONLY <1>4, <1>5, <1>6 DEF IInv

\* IInv is inductive.
LEMMA Invariance == Spec => []IInv
<1>1. IInv /\ [Next]_vars => IInv'
    <2> SUFFICES ASSUME IInv, [Next]_vars PROVE IInv'
        OBVIOUS
    <2>1. CASE UNCHANGED vars
        BY <2>1 DEF vars, muxVars, helloVars, IInv, Types, BeforePrimary, ResponseInHand,
            DeliveringToObserver, SuccessIsHellos, FailedOpen, NotYetReached,
            ObserversFollowPrimary, RecordedOnce, Reached
    <2>2. CASE \E r \in Request : ForwardPrimary(r) \/ Multiplex(r)
        BY <2>2, ForwardPrimaryIInv, PrimaryAnswersIInv, PrimaryFailsIInv, OpenObserverIInv,
            ObserverAnswersIInv, ObserverFailsIInv, SendPrimaryIInv DEF Multiplex
    <2>3. ASSUME NEW r \in Request, RouterForward(r) PROVE IInv'
        BY <2>3, RouterForwardIInv
    <2>4. ASSUME NEW r \in Request, RouterRelay(r) PROVE IInv'
        <3>1. given[Target][r] \in Answer \cup {None} /\ given[Target][r].from = "hello"
            BY <2>4 DEF RouterRelay, IInv, Types, SuccessIsHellos
        <3> QED
            BY <2>4, <3>1, RouterEndsIInv DEF RouterRelay
    <2>5. ASSUME NEW r \in Request, RouterDrops(r) PROVE IInv'
        <3>1. None \in Answer \cup {None} /\ None.status # 200
            BY DEF None
        <3> QED
            BY <2>5, <3>1, RouterEndsIInv DEF RouterDrops
    <2>6. ASSUME NEW r \in Request, RouterFails(r) PROVE IInv'
        <3>1. BadGateway("router") \in Answer \cup {None} /\ BadGateway("router").status # 200
            BY DEF BadGateway, Answer
        <3> QED
            BY <2>6, <3>1, RouterEndsIInv DEF RouterFails
    <2>7. ASSUME NEW h \in Hello, NEW r \in Request, HelloGet(h, r) PROVE IInv'
        BY <2>7, HelloGetIInv
    <2>8. ASSUME NEW h \in Hello, HelloRestart(h) PROVE IInv'
        BY <2>8, HelloRestartIInv
    <2> QED
        BY <2>1, <2>2, <2>3, <2>4, <2>5, <2>6, <2>7, <2>8 DEF Next
<1> QED
    BY InitIInv, <1>1, PTL DEF Spec

\* No observer ever gets a request whose primary exchange failed.
THEOREM SpecObserversFollowPrimary == Spec => []ObserversFollowPrimary
<1>1. IInv => ObserversFollowPrimary
    BY DEF IInv
<1> QED
    BY Invariance, <1>1, PTL

\* An observer that fails changes nothing for the client.
THEOREM SpecObserversFailOpen == Spec => []ObserversFailOpen
<1>1. IInv => ObserversFailOpen
    BY DEF IInv, FailedOpen, SuccessIsHellos, ObserversFailOpen
<1> QED
    BY Invariance, <1>1, PTL

\* No hello server records a request twice.
THEOREM SpecRecordedOnce == Spec => []RecordedOnce
<1>1. IInv => RecordedOnce
    BY DEF IInv
<1> QED
    BY Invariance, <1>1, PTL

----------------------------------------------------------------------------
\* What the hello servers keep: a second invariant, on top of IInv.

\* A log is what its server ever recorded, until the limit or a replacement.
Logs ==
    /\ log \in [Hello -> Seq(ForRoot)]
    /\ recorded \in [Hello -> Seq(ForRoot)]
    /\ restarted \subseteq Hello
    /\ \A h \in Hello : Len(log[h]) <= LogLimit
    /\ \A h \in Hello : h \in restarted \/ Len(recorded[h]) > LogLimit \/ log[h] = recorded[h]

\* Every success on the way to the client stands for a record, and the loop has
\* passed only observers that failed or recorded.
Delivered ==
    /\ \A r \in Request : mux[r].stage \in {"idle", "primary"} => mux[r].next = 1
    /\ \A h \in Hello, r \in Request : given[h][r].status = 200 => r \in Range(recorded[h])
    /\ \A r \in Request : primary[r].status = 200 => r \in Range(recorded[Target])
    /\ \A r \in Request, o \in Observer :
          mux[r].stage \in {"observe", "delivering"} /\ o < mux[r].next
              => o \in mux[r].errors \/ r \in Range(recorded[o])
    /\ \A r \in Request, h \in Hello :
          reply[r].status = 200 => h \in mux[r].errors \/ r \in Range(recorded[h])

KInv == Logs /\ Delivered

\* The bounded append: within the limit it appends, beyond it forgets the oldest.
LEMMA RememberBounds ==
    ASSUME NEW s \in Seq(ForRoot), Len(s) <= LogLimit, NEW r \in ForRoot
    PROVE  /\ Remember(s, r) \in Seq(ForRoot)
           /\ Len(Remember(s, r)) <= LogLimit
           /\ Len(s) < LogLimit => Remember(s, r) = Append(s, r)
<1>1. Append(s, r) \in Seq(ForRoot) /\ Len(Append(s, r)) = Len(s) + 1
    OBVIOUS
<1>2. Tail(Append(s, r)) \in Seq(ForRoot) /\ Len(Tail(Append(s, r))) = Len(s)
    BY <1>1
<1> QED
    BY <1>1, <1>2 DEF Remember

LEMMA InitKInv == Init => KInv
<1> SUFFICES ASSUME Init PROVE KInv
    OBVIOUS
<1>1. Logs
    BY DEF Init, Logs
<1>2. Delivered
    BY DEF Init, Delivered, None
<1> QED
    BY <1>1, <1>2 DEF KInv

\* One multiplexer thread moves.
LEMMA ThreadMoves ==
    ASSUME Delivered, NEW r \in Request, UNCHANGED <<given, recorded, primary>>,
           \A q \in Request : q # r => mux'[q] = mux[q] /\ reply'[q] = reply[q],
           mux'[r].stage \in {"idle", "primary"} => mux'[r].next = 1,
           mux'[r].stage \in {"observe", "delivering"} =>
              \A o \in Observer :
                 o < mux'[r].next => o \in mux'[r].errors \/ r \in Range(recorded[o]),
           reply'[r].status = 200 =>
              \A h \in Hello : h \in mux'[r].errors \/ r \in Range(recorded[h])
    PROVE  Delivered'
    BY DEF Delivered

\* The multiplexer moves: a client's success needs the primary's and every
\* observer's turn behind it.
LEMMA MuxKInv ==
    ASSUME IInv, KInv, NEW r \in Request, ForwardPrimary(r) \/ Multiplex(r)
    PROVE  KInv'
<1> USE DEF muxVars, helloVars
<1>1. UNCHANGED <<given, log, recorded, restarted, primary>>
    BY DEF ForwardPrimary, Multiplex, PrimaryAnswers, PrimaryFails, OpenObserver,
           ObserverAnswers, ObserverFails, SendPrimary
<1>2. Logs'
    BY <1>1 DEF KInv, Logs
<1>3. /\ Delivered /\ mux \in [Request -> Task] /\ mux[r] \in Task
      /\ reply \in [Request -> Answer \cup {None}]
    BY DEF IInv, KInv, Types
<1>4. mux[r].next \in 1 .. Observers + 1 /\ mux[r].errors \subseteq Observer
    BY <1>3 DEF Task
<1>5. CASE ForwardPrimary(r) \/ PrimaryAnswers(r) \/ OpenObserver(r)
    <2>1. PICK stage \in {"primary", "observe", "delivering"} :
             /\ mux' = [mux EXCEPT ![r].stage = stage] /\ reply' = reply
             /\ stage = "primary" => mux[r].stage = "idle"
             /\ stage = "observe" => mux[r].stage = "primary"
             /\ stage = "delivering" => mux[r].stage = "observe"
        BY <1>5 DEF ForwardPrimary, PrimaryAnswers, OpenObserver
    <2>2. /\ mux'[r].stage = stage /\ mux'[r].next = mux[r].next /\ mux'[r].errors = mux[r].errors
          /\ \A q \in Request : q # r => mux'[q] = mux[q]
        BY <1>3, <2>1 DEF Task
    <2>3. stage = "observe" => \A o \in Observer : ~(o < mux'[r].next)
        BY <1>3, <2>1, <2>2 DEF Delivered
    <2>4. stage \in {"observe", "delivering"} =>
             \A o \in Observer :
                o < mux'[r].next => o \in mux'[r].errors \/ r \in Range(recorded[o])
        BY <1>3, <2>1, <2>2, <2>3 DEF Delivered
    <2>5. reply'[r].status = 200 =>
             \A h \in Hello : h \in mux'[r].errors \/ r \in Range(recorded[h])
        BY <1>3, <2>1, <2>2 DEF Delivered
    <2>6. mux'[r].stage \in {"idle", "primary"} => mux'[r].next = 1
        BY <1>3, <2>1, <2>2 DEF Delivered
    <2> QED
        BY ONLY <1>1, <1>2, <1>3, <2>1, <2>2, <2>4, <2>5, <2>6, ThreadMoves DEF KInv
<1>6. CASE PrimaryFails(r) \/ SendPrimary(r)
    <2>1. mux' = [mux EXCEPT ![r].stage = "done"]
        BY <1>6 DEF PrimaryFails, SendPrimary
    <2>2. /\ mux'[r].stage = "done" /\ mux'[r].errors = mux[r].errors
          /\ \A q \in Request : q # r => mux'[q] = mux[q]
        BY <1>3, <2>1 DEF Task
    <2>3. /\ \A q \in Request : q # r => reply'[q] = reply[q]
          /\ reply'[r] = BadGateway("multiplexer") \/ SendPrimary(r)
        BY <1>3, <1>6 DEF PrimaryFails, SendPrimary
    <2>4. SendPrimary(r) => \A h \in Hello : h \in mux[r].errors \/ r \in Range(recorded[h])
        BY <1>3, <1>4 DEF SendPrimary, IInv, ResponseInHand, Delivered
    <2>5. reply'[r].status = 200 =>
             \A h \in Hello : h \in mux'[r].errors \/ r \in Range(recorded[h])
        BY <2>2, <2>3, <2>4 DEF BadGateway
    <2> QED
        BY ONLY <1>1, <1>2, <1>3, <2>2, <2>3, <2>5, ThreadMoves DEF KInv
<1>7. CASE ObserverAnswers(r) \/ ObserverFails(r)
    <2>1. PICK errors \in SUBSET Observer :
             /\ mux' = [mux EXCEPT ![r] = [mux[r] EXCEPT !.stage = "observe",
                                            !.next = mux[r].next + 1, !.errors = errors]]
             /\ mux[r].errors \subseteq errors
             /\ mux[r].next \in errors \/ r \in Range(recorded[mux[r].next])
        <3>1. CASE ObserverAnswers(r)
            <4>1. mux[r].next \in Observer /\ r \in Range(recorded[mux[r].next])
                BY <1>3, <1>4, <3>1 DEF ObserverAnswers, IInv, DeliveringToObserver, Delivered
            <4>2. [mux[r] EXCEPT !.stage = "observe", !.next = mux[r].next + 1]
                     = [mux[r] EXCEPT !.stage = "observe", !.next = mux[r].next + 1,
                                      !.errors = mux[r].errors]
                BY <1>3 DEF Task
            <4> QED
                BY <1>4, <3>1, <4>1, <4>2 DEF ObserverAnswers
        <3>2. CASE ObserverFails(r)
            <4> DEFINE errors == mux[r].errors \cup {mux[r].next}
            <4>1. /\ mux' = [mux EXCEPT ![r] = [mux[r] EXCEPT !.stage = "observe",
                                            !.next = mux[r].next + 1, !.errors = errors]]
                  /\ mux[r].next \in Observer
                BY <3>2 DEF ObserverFails
            <4>2. errors \in SUBSET Observer /\ mux[r].errors \subseteq errors
                  /\ mux[r].next \in errors
                BY <1>4, <4>1
            <4> HIDE DEF errors
            <4> QED
                BY <4>1, <4>2
        <3> QED
            BY <1>7, <3>1, <3>2
    <2>2. /\ mux'[r].stage = "observe" /\ mux'[r].errors = errors
          /\ mux'[r].next = mux[r].next + 1
          /\ \A q \in Request : q # r => mux'[q] = mux[q]
        BY <1>3, <2>1 DEF Task
    <2>3. reply' = reply /\ mux[r].stage \in {"observe", "delivering"}
        BY <1>7 DEF ObserverAnswers, ObserverFails
    <2>4. \A o \in Observer :
             o < mux'[r].next => o \in mux'[r].errors \/ r \in Range(recorded[o])
        <3> TAKE o \in Observer
        <3>1. o < mux'[r].next => o < mux[r].next \/ o = mux[r].next
            BY <1>4, <2>2
        <3>2. o < mux[r].next => o \in mux[r].errors \/ r \in Range(recorded[o])
            BY <1>3, <2>3 DEF Delivered
        <3> QED
            BY <2>1, <2>2, <3>1, <3>2
    <2>5. reply'[r].status = 200 =>
             \A h \in Hello : h \in mux'[r].errors \/ r \in Range(recorded[h])
        BY <1>3, <2>1, <2>2, <2>3 DEF Delivered
    <2> QED
        BY ONLY <1>1, <1>2, <1>3, <2>2, <2>3, <2>4, <2>5, ThreadMoves DEF KInv
<1> QED
    BY <1>5, <1>6, <1>7 DEF Multiplex

\* The router passes on what the target gave, or no success at all.
LEMMA RouterKInv ==
    ASSUME IInv, KInv, NEW r \in Request,
           RouterForward(r) \/ RouterRelay(r) \/ RouterDrops(r) \/ RouterFails(r)
    PROVE  KInv'
<1> USE DEF muxVars, helloVars
<1>1. UNCHANGED <<mux, reply, given, log, recorded, restarted>>
    BY DEF RouterForward, RouterRelay, RouterDrops, RouterFails, RouterEnds
<1>2. \A q \in Request : primary'[q].status = 200 => q \in Range(recorded[Target])
    <2>1. ASSUME NEW a, a.status = 200 => r \in Range(recorded[Target]), RouterEnds(r, a)
          PROVE  \A q \in Request : primary'[q].status = 200 => q \in Range(recorded[Target])
        BY <2>1 DEF RouterEnds, KInv, Delivered, IInv, Types
    <2>2. CASE RouterForward(r)
        BY <2>2 DEF RouterForward, KInv, Delivered
    <2>3. CASE RouterRelay(r)
        <3>1. given[Target][r].status = 200 => r \in Range(recorded[Target])
            BY DEF KInv, Delivered
        <3> QED
            BY ONLY <2>1, <2>3, <3>1 DEF RouterRelay
    <2>4. CASE RouterDrops(r)
        <3>1. None.status # 200
            BY DEF None
        <3> QED
            BY <2>1, <2>4, <3>1 DEF RouterDrops
    <2>5. CASE RouterFails(r)
        <3>1. BadGateway("router").status # 200
            BY DEF BadGateway
        <3> QED
            BY <2>1, <2>5, <3>1 DEF RouterFails
    <2> QED
        BY <2>2, <2>3, <2>4, <2>5
<1> QED
    BY <1>1, <1>2 DEF KInv, Logs, Delivered

\* A hello server answers 200 for what it appends in the same step.
LEMMA HelloGetKInv ==
    ASSUME IInv, KInv, NEW h \in Hello, NEW r \in Request, HelloGet(h, r)
    PROVE  KInv'
<1>1. UNCHANGED <<mux, primary, reply, restarted>>
    BY DEF HelloGet, muxVars
<1>2. /\ log \in [Hello -> Seq(ForRoot)] /\ recorded \in [Hello -> Seq(ForRoot)]
      /\ log[h] \in Seq(ForRoot) /\ recorded[h] \in Seq(ForRoot) /\ Len(log[h]) <= LogLimit
    BY DEF KInv, Logs
<1>3. \A g \in Hello : g # h => recorded'[g] = recorded[g] /\ log'[g] = log[g]
    BY <1>2 DEF HelloGet
<1>4. CASE r \in ForRoot
    <2>1. recorded'[h] = Append(recorded[h], r) /\ log'[h] = Remember(log[h], r)
        BY <1>2, <1>4 DEF HelloGet
    <2>2. Range(recorded'[h]) = Range(recorded[h]) \cup {r}
        BY <1>2, <1>4, <2>1, RangeAppend
    <2>3. \A g \in Hello : Range(recorded[g]) \subseteq Range(recorded'[g])
        BY <1>3, <2>2
    <2>4. log' \in [Hello -> Seq(ForRoot)] /\ recorded' \in [Hello -> Seq(ForRoot)]
        <3>1. /\ log' = [log EXCEPT ![h] = Remember(log[h], r)]
              /\ recorded' = [recorded EXCEPT ![h] = Append(recorded[h], r)]
            BY <1>2, <1>4 DEF HelloGet
        <3>2. Remember(log[h], r) \in Seq(ForRoot) /\ Append(recorded[h], r) \in Seq(ForRoot)
            BY <1>2, <1>4, RememberBounds
        <3> QED
            BY ONLY <1>2, <3>1, <3>2
    <2>5. Len(recorded'[h]) = Len(recorded[h]) + 1
        BY <1>2, <1>4, <2>1
    <2>6. h \in restarted \/ Len(recorded'[h]) > LogLimit \/ log'[h] = recorded'[h]
        <3> SUFFICES ASSUME h \notin restarted, ~(Len(recorded'[h]) > LogLimit)
                     PROVE  log'[h] = recorded'[h]
            OBVIOUS
        <3>1. Len(recorded[h]) < LogLimit /\ log[h] = recorded[h]
            BY <1>2, <2>5 DEF KInv, Logs
        <3> QED
            BY <1>2, <1>4, <2>1, <3>1, RememberBounds
    <2>7. Logs'
        BY <1>1, <1>2, <1>3, <1>4, <2>1, <2>4, <2>6, RememberBounds DEF KInv, Logs
    <2>8. \A g \in Hello, q \in Request : given'[g][q].status = 200 => q \in Range(recorded'[g])
        <3> TAKE g \in Hello, q \in Request
        <3>1. given'[g][q].status = 200 => given[g][q].status = 200 \/ (g = h /\ q = r)
            BY DEF HelloGet, IInv, Types
        <3> QED
            BY <2>2, <2>3, <3>1 DEF KInv, Delivered
    <2>9. Delivered'
        BY <1>1, <2>3, <2>8 DEF KInv, Delivered
    <2> QED
        BY <2>7, <2>9 DEF KInv
<1>5. CASE r \notin ForRoot
    <2>1. UNCHANGED <<log, recorded>>
        BY <1>5 DEF HelloGet
    <2>2. \A g \in Hello, q \in Request : given'[g][q].status = 200 => q \in Range(recorded'[g])
        BY <1>5, <2>1 DEF HelloGet, KInv, Delivered, IInv, Types
    <2> QED
        BY <1>1, <2>1, <2>2 DEF KInv, Logs, Delivered
<1> QED
    BY <1>4, <1>5

\* The record of a replaced server is gone from its log only.
LEMMA HelloRestartKInv ==
    ASSUME KInv, NEW h \in Hello, HelloRestart(h)
    PROVE  KInv'
<1>1. UNCHANGED <<mux, primary, reply, given, recorded>>
    BY DEF HelloRestart, muxVars
<1>2. Logs'
    BY <1>1 DEF HelloRestart, KInv, Logs
<1> QED
    BY <1>1, <1>2 DEF KInv, Delivered

LEMMA Evidence == Spec => [](IInv /\ KInv)
<1>1. IInv /\ KInv /\ [Next]_vars => KInv'
    <2> SUFFICES ASSUME IInv, KInv, [Next]_vars PROVE KInv'
        OBVIOUS
    <2>1. CASE UNCHANGED vars
        BY <2>1 DEF vars, muxVars, helloVars, KInv, Logs, Delivered
    <2> QED
        BY <2>1, MuxKInv, RouterKInv, HelloGetKInv, HelloRestartKInv DEF Next
<1> QED
    BY InitKInv, Invariance, <1>1, PTL DEF Spec

\* Every log stays within its limit, and all the state well typed.
THEOREM SpecTypeOK == Spec => []TypeOK
<1>1. ASSUME IInv, KInv PROVE TypeOK
    <2>1. ASSUME NEW h \in Hello PROVE log[h] \in BoundedSeq(ForRoot, LogLimit)
        <3>1. log[h] \in [1 .. Len(log[h]) -> ForRoot] /\ Len(log[h]) \in 0 .. LogLimit
            BY <1>1 DEF KInv, Logs
        <3> QED
            BY <3>1 DEF BoundedSeq, SeqOf
    <2> QED
        BY <1>1, <2>1 DEF IInv, Types, KInv, Logs, TypeOK
<1> QED
    BY <1>1, Evidence, PTL

\* Whoever received a success finds the evidence: the target and every observer
\* that did not fail recorded the request, and list it unless they were replaced
\* or later requests pushed it out (deliver_observers, _OBSERVED_REQUESTS).
THEOREM SpecReceiptBeforeReply == Spec => []ReceiptBeforeReply
<1>1. IInv /\ KInv => ReceiptBeforeReply
    BY DEF KInv, Logs, Delivered, ReceiptBeforeReply
<1> QED
    BY <1>1, Evidence, PTL
=============================================================================
