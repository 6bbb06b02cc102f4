-------------------------- MODULE HostedActivityProofs --------------------------
(***************************************************************************)
(* What the hosted scripts rely on, from one step to the next, for any     *)
(* set of scripts, any bounds and any interference of other operators.     *)
(* The invariant relates what runs to the steps a script has behind it;    *)
(* that the scripts are written so that this is enough is a fact of each   *)
(* one of them.                                                            *)
(***************************************************************************)
EXTENDS HostedActivity, FiniteSetTheorems, SequenceTheorems, TLAPS

----------------------------------------------------------------------------
(* Scripts.                                                                 *)

Op == {"bootstrap", "transition", "mentions", "public probe", "reads", "unreachable",
       "no networks", "no containers", "volume", "sync", "disconnect"}
Products == {"hello", "router", "multiplexer", "postgres", "gateway", "cloudflared"}
ScriptStep == [op : Op, w : Workspace, role : Role \cup {""}, nodes : SUBSET Node,
               products : SUBSET Products, ingress : BOOLEAN, synced : BOOLEAN]

Joins(step) == step.op = "sync" \/ (step.op = "transition" /\ step.synced)

\* No step between j and i does op to workspace w.
Without(s, op, w, j, i) == \A k \in j + 1 .. i - 1 : ~(s[k].op = op /\ s[k].w = w)
NoneOf(s, ops, j, i) == \A k \in j + 1 .. i - 1 : s[k].op \notin ops

\* When step i is reached w may have a network: nothing has checked that it is gone.
Opened(s, w, i) ==
    \E j \in 1 .. i : /\ j <= Len(s) /\ s[j].op = "transition" /\ s[j].w = w
                      /\ Without(s, "no networks", w, j, i)

\* When step i is reached the driver may be in w's networks.
Joined(s, w, i) ==
    \E j \in 1 .. i : /\ j <= Len(s) /\ Joins(s[j]) /\ s[j].w = w
                      /\ Without(s, "disconnect", w, j, i)

\* One workspace at a time; nothing is torn down around the driver; and what is read was
\* put there by the transition before, with the driver joined since.
OneAtATime(s) ==
    \A i \in 1 .. Len(s) + 1 : \A u, v \in Workspace :
        Opened(s, u, i) /\ Opened(s, v, i) => u = v
LeavesFirst(s) ==
    \A i \in 1 .. Len(s) :
        s[i].op = "transition" /\ s[i].nodes = {} => ~Joined(s, s[i].w, i)
ReadsWhatRuns(s) ==
    \A i \in 1 .. Len(s) : s[i].op = "reads" =>
        \E t \in 1 .. i - 1 :
            /\ s[t].op = "transition" /\ s[t].w = s[i].w /\ s[i].role \in Roles(s[t].nodes)
            /\ NoneOf(s, {"transition"}, t, i)
            /\ \E j \in t .. i - 1 : /\ Joins(s[j]) /\ s[j].w = s[i].w
                                     /\ NoneOf(s, {"disconnect"}, j, i)
Proper(s) == s \in Seq(ScriptStep) /\ OneAtATime(s) /\ LeavesFirst(s) /\ ReadsWhatRuns(s)

\* Every transition is followed by a look at the networks, and the data that is to be
\* retained by a look at its volume.
Checked(s) ==
    /\ \A w \in Workspace : ~Opened(s, w, Len(s) + 1)
    /\ \A i \in 1 .. Len(s) : s[i].op = "bootstrap" /\ s[i].w = "workspace-c-postgres" =>
          \E k \in 1 .. Len(s) : s[k].op = "volume" /\ s[k].w = s[i].w

----------------------------------------------------------------------------
(* The invariant.                                                           *)

TheScript == Steps(script)
Within == driver.step <= Len(TheScript)

Idle == {"ready", "admissions", "next", "passed"}
At == TransitionAt \cup Idle \cup {"failed"}
Status == {"none", "progressed", "in-flight", "uncertain", "completed", "failed",
           "unsupported", "blocked"}
Run == {"none", "planned", "pending", "approved", "admitted", "claimed", "running",
        "succeeded", "failed", "paused"}

Driver == [step : Nat, at : At, current : Graph, desired : Graph \cup {None},
           seen : Nat, authored : Graph, generation : Nat, attempt : Nat, status : Status]
Space == [created : BOOLEAN, products : SUBSET Products,
          authorities : SUBSET {"pull", "docker", "delivery", "cloudflare"}, current : Graph,
          desired : Graph \cup {None}, revision : 0 .. MaxRevision]
Change == [run : Run, base : Graph, wanted : Graph, generation : Nat,
           stepped : SUBSET Role, others : Nat]
Docker == [network : BOOLEAN, attached : SUBSET Attached, nodes : SUBSET Node,
           volume : BOOLEAN]

TypeOK ==
    /\ script \in Scripts
    /\ driver \in Driver /\ driver.step \in 1 .. Len(TheScript) + 1
    /\ space \in [Workspace -> Space] /\ change \in Change
    /\ docker \in [Workspace -> Docker]
    /\ spent \in [Workspace -> Nat] /\ keyed \in {"run", "by itself"}

\* Where the driver stands fits the step it is at, and what it is taking the workspace to
\* is what the step says.
AtAuthored == TransitionAt \ {"session", "read desired", "set desired"}
AtPlanned == AtAuthored \ {"read current", "plan"}

Placed ==
    /\ driver.at \in TransitionAt => Within /\ Now.op = "transition"
    /\ driver.at = "admissions" => Within /\ Now.op = "bootstrap"
    /\ driver.at = "passed" => driver.step = Len(TheScript) + 1
    /\ driver.at \in AtAuthored => driver.authored.nodes = Now.nodes
    /\ driver.at \in AtPlanned => change.wanted = driver.authored

\* A completed run has made what was wanted, and a driver that is to join has joined.
Completed ==
    /\ (\/ driver.at \in {"advance", "read back"}
        \/ driver.at = "resync" /\ driver.status = "completed")
       => change.run = "succeeded" /\ Matches(Now.w)
    /\ driver.at \in {"sync", "resync"} => Now.synced
    /\ driver.at \in {"advance", "read back"} /\ Now.synced
       => docker[Now.w].attached = Attached

\* What is there has a step behind it that put it there.
Accounted ==
    \A w \in Workspace :
        /\ ~docker[w].network => docker[w].nodes = {} /\ docker[w].attached = {}
        /\ docker[w].network => Opened(TheScript, w, driver.step)
        /\ docker[w].attached # {} => Joined(TheScript, w, driver.step)

\* A step behind has left what it was to leave.
Settled(st) ==
    Roles(docker[st.w].nodes) = Roles(st.nodes) /\ (docker[st.w].network <=> st.nodes # {})
Lasting ==
    driver.at \in Idle => \A j \in 1 .. driver.step - 1 :
        LET st == TheScript[j]
        IN /\ st.op = "transition" /\ NoneOf(TheScript, {"transition"}, j, driver.step)
              => Settled(st)
           /\ Joins(st) /\ NoneOf(TheScript, {"transition", "disconnect"}, j, driver.step)
                        /\ docker[st.w].network
              => docker[st.w].attached = Attached

\* The database whose volume was looked at has it still.
Recorded ==
    /\ \A w \in Workspace : space[w].created =>
          \E j \in 1 .. driver.step : j <= Len(TheScript) /\ TheScript[j].op = "bootstrap"
                                      /\ TheScript[j].w = w
    /\ \A j \in 1 .. driver.step - 1 :
          TheScript[j].op = "volume" => docker[TheScript[j].w].volume

HInv == TypeOK /\ Placed /\ Completed /\ Accounted /\ Lasting /\ Recorded

----------------------------------------------------------------------------
(* The scripts, each of them.                                               *)

\* The graphs are made of nodes, and none of those that run is empty.
LEMMA Graphs ==
    /\ RouterGraph("blue", "hello-blue") \in SUBSET Node
    /\ RouterGraph("green", "hello-green") \in SUBSET Node
    /\ SingleHelloGraph \in SUBSET Node /\ MultiplexerGraph \in SUBSET Node
    /\ PostgresGraph \in SUBSET Node /\ PublicGatewayIngressGraph \in SUBSET Node
    /\ AuthenticatedGatewayPrivateGraph \in SUBSET Node
    /\ RouterGraph("blue", "hello-blue") # {} /\ RouterGraph("green", "hello-green") # {}
    /\ SingleHelloGraph # {} /\ MultiplexerGraph # {} /\ PostgresGraph # {}
    /\ PublicGatewayIngressGraph # {} /\ AuthenticatedGatewayPrivateGraph # {}
<1>1. \A role \in Role : Plain(role) \in Node
  BY DEF Plain, Node
<1>2. /\ [role |-> "hello-blue", config |-> "blue"] \in Node
      /\ [role |-> "router", config |-> "blue"] \in Node
      /\ [role |-> "hello-green", config |-> "green"] \in Node
      /\ [role |-> "router", config |-> "green"] \in Node
  BY DEF Node, Role
<1>3. {"hello", "hello-primary", "hello-observer", "multiplexer", "postgres", "gateway",
       "cloudflared-gateway"} \subseteq Role
  BY DEF Role
<1>4. /\ Plain("hello") \in Node /\ Plain("hello-primary") \in Node
      /\ Plain("hello-observer") \in Node /\ Plain("multiplexer") \in Node
      /\ Plain("postgres") \in Node /\ Plain("gateway") \in Node
      /\ Plain("cloudflared-gateway") \in Node
  BY <1>1, <1>3
<1>5. PublicOverlay \in SUBSET Node /\ Plain("gateway") \in PublicOverlay
  BY <1>4 DEF PublicOverlay
<1>6. /\ RouterGraph("blue", "hello-blue") \in SUBSET Node
      /\ RouterGraph("green", "hello-green") \in SUBSET Node
      /\ Plain("gateway") \in RouterGraph("blue", "hello-blue")
      /\ Plain("gateway") \in RouterGraph("green", "hello-green")
  BY <1>2, <1>5 DEF RouterGraph
<1>7. /\ SingleHelloGraph \in SUBSET Node /\ Plain("hello") \in SingleHelloGraph
      /\ PostgresGraph \in SUBSET Node /\ Plain("gateway") \in PostgresGraph
      /\ AuthenticatedGatewayPrivateGraph \in SUBSET Node
      /\ Plain("gateway") \in AuthenticatedGatewayPrivateGraph
  BY <1>4 DEF SingleHelloGraph, PostgresGraph, AuthenticatedGatewayPrivateGraph
<1>8. /\ MultiplexerGraph \in SUBSET Node /\ Plain("hello-primary") \in MultiplexerGraph
      /\ PublicGatewayIngressGraph \in SUBSET Node
      /\ Plain("hello") \in PublicGatewayIngressGraph
  BY <1>4, <1>5 DEF MultiplexerGraph, PublicGatewayIngressGraph
<1> QED BY <1>6, <1>7, <1>8

\* The private services the scripts ask run in the graphs they are asked in.
LEMMA Asked ==
    /\ "hello" \in Roles(SingleHelloGraph)
    /\ "router" \in Roles(RouterGraph("blue", "hello-blue"))
    /\ "router" \in Roles(RouterGraph("green", "hello-green"))
    /\ {"multiplexer", "hello-observer"} \subseteq Roles(MultiplexerGraph)
    /\ {"gateway", "hello"} \subseteq Roles(AuthenticatedGatewayPrivateGraph)
<1>1. \A role : Plain(role).role = role
  BY DEF Plain
<1>2. \A nodes, role : Plain(role) \in nodes => role \in Roles(nodes)
  BY <1>1 DEF Roles
<1>3. /\ "router" \in Roles(RouterGraph("blue", "hello-blue"))
      /\ "router" \in Roles(RouterGraph("green", "hello-green"))
  <2> DEFINE b == [role |-> "router", config |-> "blue"]
             g == [role |-> "router", config |-> "green"]
  <2>1. b \in RouterGraph("blue", "hello-blue") /\ g \in RouterGraph("green", "hello-green")
    BY DEF RouterGraph
  <2>2. b.role = "router" /\ g.role = "router"
    OBVIOUS
  <2> HIDE DEF b, g
  <2> QED BY <2>1, <2>2 DEF Roles
<1> QED BY <1>2, <1>3
        DEF SingleHelloGraph, MultiplexerGraph, AuthenticatedGatewayPrivateGraph

\* What the builders of steps make.
LEMMA Built ==
    ASSUME NEW w \in Workspace
    PROVE  /\ \A op \in Op : /\ Step(op, w) \in ScriptStep /\ Step(op, w).op = op
                             /\ Step(op, w).w = w /\ Step(op, w).nodes = {}
                             /\ Step(op, w).synced = FALSE
           /\ \A products \in SUBSET Products, ingress \in BOOLEAN :
                 /\ Bootstrap(w, products, ingress) \in ScriptStep
                 /\ Bootstrap(w, products, ingress).op = "bootstrap"
                 /\ Bootstrap(w, products, ingress).w = w
           /\ \A nodes \in SUBSET Node, synced \in BOOLEAN :
                 /\ Transition(w, nodes, synced) \in ScriptStep
                 /\ Transition(w, nodes, synced).op = "transition"
                 /\ Transition(w, nodes, synced).w = w
                 /\ Transition(w, nodes, synced).nodes = nodes
                 /\ Transition(w, nodes, synced).synced = synced
           /\ \A role \in Role :
                 /\ Mentions(w, role) \in ScriptStep /\ Mentions(w, role).op = "mentions"
                 /\ Mentions(w, role).w = w
                 /\ PublicProbe(w, role) \in ScriptStep
                 /\ PublicProbe(w, role).op = "public probe" /\ PublicProbe(w, role).w = w
                 /\ Reads(w, role) \in ScriptStep /\ Reads(w, role).op = "reads"
                 /\ Reads(w, role).w = w /\ Reads(w, role).role = role
                 /\ [Step("no containers", w) EXCEPT !.role = role] \in ScriptStep
                 /\ [Step("no containers", w) EXCEPT !.role = role].op = "no containers"
                 /\ [Step("no containers", w) EXCEPT !.role = role].w = w
<1>1. \A op \in Op : /\ Step(op, w) \in ScriptStep /\ Step(op, w).op = op
                     /\ Step(op, w).w = w /\ Step(op, w).nodes = {}
                     /\ Step(op, w).synced = FALSE
  BY DEF Step, ScriptStep
<1>2. {"bootstrap", "transition", "mentions", "public probe", "reads", "no containers"}
      \subseteq Op
  BY DEF Op
<1>3. ASSUME NEW products \in SUBSET Products, NEW ingress \in BOOLEAN
      PROVE  /\ Bootstrap(w, products, ingress) \in ScriptStep
             /\ Bootstrap(w, products, ingress).op = "bootstrap"
             /\ Bootstrap(w, products, ingress).w = w
  <2> DEFINE st == Step("bootstrap", w)
  <2>1. st \in ScriptStep /\ st.op = "bootstrap" /\ st.w = w
    BY <1>1, <1>2
  <2>2. Bootstrap(w, products, ingress)
        = [[st EXCEPT !.products = products] EXCEPT !.ingress = ingress]
    BY DEF Bootstrap
  <2> HIDE DEF st
  <2> QED BY <2>1, <2>2 DEF ScriptStep
<1>4. ASSUME NEW nodes \in SUBSET Node, NEW synced \in BOOLEAN
      PROVE  /\ Transition(w, nodes, synced) \in ScriptStep
             /\ Transition(w, nodes, synced).op = "transition"
             /\ Transition(w, nodes, synced).w = w
             /\ Transition(w, nodes, synced).nodes = nodes
             /\ Transition(w, nodes, synced).synced = synced
  <2> DEFINE st == Step("transition", w)
  <2>1. st \in ScriptStep /\ st.op = "transition" /\ st.w = w
    BY <1>1, <1>2
  <2>2. Transition(w, nodes, synced)
        = [[st EXCEPT !.nodes = nodes] EXCEPT !.synced = synced]
    BY DEF Transition
  <2> HIDE DEF st
  <2> QED BY <2>1, <2>2 DEF ScriptStep
<1>5. ASSUME NEW op \in Op, NEW role \in Role
      PROVE  /\ [Step(op, w) EXCEPT !.role = role] \in ScriptStep
             /\ [Step(op, w) EXCEPT !.role = role].op = op
             /\ [Step(op, w) EXCEPT !.role = role].w = w
             /\ [Step(op, w) EXCEPT !.role = role].role = role
  <2> DEFINE st == Step(op, w)
  <2>1. st \in ScriptStep /\ st.op = op /\ st.w = w
    BY <1>1
  <2> HIDE DEF st
  <2>2. /\ [st EXCEPT !.role = role] \in ScriptStep
        /\ [st EXCEPT !.role = role].op = op
        /\ [st EXCEPT !.role = role].w = w
        /\ [st EXCEPT !.role = role].role = role
    BY <2>1 DEF ScriptStep
  <2> QED BY <2>2 DEF st
<1>6. ASSUME NEW role \in Role
      PROVE  /\ Mentions(w, role) \in ScriptStep /\ Mentions(w, role).op = "mentions"
             /\ Mentions(w, role).w = w
             /\ PublicProbe(w, role) \in ScriptStep
             /\ PublicProbe(w, role).op = "public probe" /\ PublicProbe(w, role).w = w
             /\ Reads(w, role) \in ScriptStep /\ Reads(w, role).op = "reads"
             /\ Reads(w, role).w = w /\ Reads(w, role).role = role
  <2>1. {"mentions", "public probe", "reads"} \subseteq Op
    BY <1>2
  <2> QED BY <1>5, <2>1 DEF Mentions, PublicProbe, Reads
<1>7. "no containers" \in Op
  BY <1>2
<1> QED BY <1>1, <1>3, <1>4, <1>5, <1>6, <1>7

\* A script for one workspace is a proper one if the driver has just left when it tears
\* down, or has not joined at all, and what it reads it has put there.
LEMMA ProperOne ==
    ASSUME NEW s \in Seq(ScriptStep), NEW w \in Workspace,
           \A i \in 1 .. Len(s) : s[i].w = w,
           \A i \in 1 .. Len(s) : s[i].op = "transition" /\ s[i].nodes = {} =>
              /\ ~s[i].synced
              /\ \/ i - 1 \in 1 .. Len(s) /\ s[i - 1].op = "disconnect"
                 \/ \A j \in 1 .. i - 1 : ~Joins(s[j]),
           \A i \in 1 .. Len(s) : s[i].op = "reads" =>
              \E t \in 1 .. i - 1 :
                 /\ s[t].op = "transition" /\ s[i].role \in Roles(s[t].nodes)
                 /\ NoneOf(s, {"transition"}, t, i)
                 /\ \E j \in t .. i - 1 : Joins(s[j]) /\ NoneOf(s, {"disconnect"}, j, i)
    PROVE  Proper(s)
<1> DEFINE n == Len(s)
<1>1. n \in Nat
  BY LenProperties
<1> HIDE DEF n
<1>2. OneAtATime(s)
  <2>1. ASSUME NEW i \in 1 .. n + 1, NEW u, Opened(s, u, i) PROVE u = w
    <3>1. PICK j \in 1 .. i : j <= n /\ s[j].w = u
      BY <2>1 DEF Opened, n
    <3>2. j \in 1 .. n
      BY <1>1, <3>1
    <3> QED BY <3>1, <3>2 DEF n
  <2> QED BY <2>1 DEF OneAtATime, n
<1>3. LeavesFirst(s)
  <2> SUFFICES ASSUME NEW i \in 1 .. n, s[i].op = "transition", s[i].nodes = {},
                      Joined(s, w, i)
               PROVE  FALSE
    BY DEF LeavesFirst, n
  <2>1. PICK j \in 1 .. i : Joins(s[j]) /\ Without(s, "disconnect", w, j, i)
    BY DEF Joined
  <2>2. j # i
    BY <2>1 DEF Joins, n
  <2>3. j \in 1 .. i - 1 /\ (j = i - 1 \/ i - 1 \in j + 1 .. i - 1)
    BY <1>1, <2>2
  <2>4. i - 1 \in 1 .. n /\ s[i - 1].op = "disconnect"
    BY <2>1, <2>3 DEF n
  <2>5. j # i - 1
    BY <2>1, <2>4 DEF Joins
  <2> QED BY <2>1, <2>3, <2>4, <2>5 DEF Without, n
<1>4. ReadsWhatRuns(s)
  <2> SUFFICES ASSUME NEW i \in 1 .. n, s[i].op = "reads"
               PROVE  \E t \in 1 .. i - 1 :
                         /\ s[t].op = "transition" /\ s[t].w = s[i].w
                         /\ s[i].role \in Roles(s[t].nodes)
                         /\ NoneOf(s, {"transition"}, t, i)
                         /\ \E j \in t .. i - 1 : /\ Joins(s[j]) /\ s[j].w = s[i].w
                                                  /\ NoneOf(s, {"disconnect"}, j, i)
    BY DEF ReadsWhatRuns, n
  <2>1. PICK t \in 1 .. i - 1 :
                 /\ s[t].op = "transition" /\ s[i].role \in Roles(s[t].nodes)
                 /\ NoneOf(s, {"transition"}, t, i)
                 /\ \E j \in t .. i - 1 : Joins(s[j]) /\ NoneOf(s, {"disconnect"}, j, i)
    BY DEF n
  <2>2. \A k \in t .. i - 1 : s[k].w = s[i].w
    BY <1>1 DEF n
  <2>3. t \in t .. i - 1
    BY <1>1
  <2> QED BY <2>1, <2>2, <2>3
<1> QED BY <1>2, <1>3, <1>4 DEF Proper

\* Positions of a sequence of n steps, and the one after.
LEMMA Positions ==
    ASSUME NEW n \in Nat
    PROVE  /\ \A j \in 1 .. n + 1 : j <= n => j \in 1 .. n
           /\ \A j, k \in 1 .. n : j < k => k \in j + 1 .. (n + 1) - 1
  OBVIOUS

\* It is a checked one if its last transition is followed by a look at the networks.
LEMMA CheckedOne ==
    ASSUME NEW s \in Seq(ScriptStep), NEW w \in Workspace,
           \A i \in 1 .. Len(s) : s[i].w = w,
           NEW k \in 1 .. Len(s), s[k].op = "no networks",
           \A i \in 1 .. Len(s) : s[i].op = "transition" => i < k,
           w = "workspace-c-postgres" => \E i \in 1 .. Len(s) : s[i].op = "volume"
    PROVE  Checked(s)
<1>1. Len(s) \in Nat
  BY LenProperties
<1>2. ASSUME NEW u \in Workspace, Opened(s, u, Len(s) + 1) PROVE FALSE
  <2>1. PICK j \in 1 .. Len(s) + 1 : /\ j <= Len(s) /\ s[j].op = "transition" /\ s[j].w = u
                                     /\ Without(s, "no networks", u, j, Len(s) + 1)
    BY <1>2 DEF Opened
  <2>2. j \in 1 .. Len(s)
    BY <1>1, <2>1, Positions
  <2>4. j < k
    BY <2>1, <2>2
  <2>3. k \in j + 1 .. (Len(s) + 1) - 1
    BY <1>1, <2>2, <2>4, Positions
  <2> QED BY <2>1, <2>2, <2>3 DEF Without
<1> QED BY <1>2 DEF Checked

\* _run_single_hello.
LEMMA SingleHelloProper ==
    ASSUME NEW w \in Workspace
    PROVE  /\ Proper(SingleHello(w))
           /\ \A i \in 1 .. Len(SingleHello(w)) : SingleHello(w)[i].w = w
<1> DEFINE boot == Bootstrap(w, {"hello"}, FALSE)
           to   == Transition(w, SingleHelloGraph, TRUE)
           read == Reads(w, "hello")
           s    == SingleHello(w)
<1>1. /\ {"hello"} \subseteq Role /\ {"hello"} \subseteq Products
  BY DEF Role, Op, Products
<1>2. /\ boot \in ScriptStep /\ to \in ScriptStep /\ read \in ScriptStep
  BY <1>1, Built, Graphs
<1>3. /\ boot.w = w /\ to.w = w /\ read.w = w
  BY DEF Bootstrap, Reads, Transition, Step
<1>4. /\ boot.op = "bootstrap" /\ to.op = "transition" /\ read.op = "reads"
  BY DEF Bootstrap, Reads, Transition, Step
<1>5. /\ to.nodes # {} /\ to.synced /\ read.role \in Roles(to.nodes)
  BY Graphs, Asked DEF Transition, Reads, Step
<1>6. s = << boot, to, read >>
  BY DEF SingleHello
<1> HIDE DEF boot, to, read, s
<1>7. s \in Seq(ScriptStep) /\ Len(s) = 3
  BY <1>2, <1>6
<1>8. \A i \in 1 .. 3 : i \in {1, 2, 3}
  OBVIOUS
<1>9. /\ s[1].w = w /\ s[2].w = w /\ s[3].w = w
  BY <1>3, <1>6
<1>10. \A i \in 1 .. 3 : s[i].w = w
  BY <1>8, <1>9
<1>11. /\ s[1].op = "bootstrap" /\ s[2].op = "transition" /\ s[3].op = "reads"
  BY <1>4, <1>6
<1>12. \A i \in 1 .. 3 : s[i].op = "transition" => i \in {2}
  BY <1>8, <1>11
<1>13. \A i \in 1 .. 3 : s[i].op = "reads" => i \in {3}
  BY <1>8, <1>11
<1>14. \A i \in 1 .. 3 : s[i].op # "disconnect"
  BY <1>8, <1>11
<1>15. \A i \in 1 .. 3 : s[i].op = "transition" /\ s[i].nodes = {} =>
          /\ ~s[i].synced
          /\ \/ i - 1 \in 1 .. 3 /\ s[i - 1].op = "disconnect"
             \/ \A j \in 1 .. i - 1 : ~Joins(s[j])
  BY <1>5, <1>6, <1>12
<1>16. \A i \in 1 .. 3 : s[i].op = "reads" =>
          \E t \in 1 .. i - 1 :
             /\ s[t].op = "transition" /\ s[i].role \in Roles(s[t].nodes)
             /\ NoneOf(s, {"transition"}, t, i)
             /\ \E j \in t .. i - 1 : Joins(s[j]) /\ NoneOf(s, {"disconnect"}, j, i)
  <2>1. /\ Joins(s[2]) /\ s[3].role \in Roles(s[2].nodes)
    BY <1>4, <1>5, <1>6 DEF Joins
  <2>2. /\ NoneOf(s, {"transition"}, 2, 3) /\ NoneOf(s, {"disconnect"}, 2, 3)
    BY <1>12, <1>14 DEF NoneOf
  <2>3. /\ 2 \in 1 .. 3 - 1 /\ 2 \in 2 .. 3 - 1
    OBVIOUS
  <2> QED BY <1>11, <1>13, <2>1, <2>2, <2>3
<1>17. Proper(s)
  BY <1>7, <1>10, <1>15, <1>16, ProperOne
<1> QED BY <1>7, <1>10, <1>17 DEF s

\* _run_router_transition.
LEMMA RouterTransitionProper ==
    ASSUME NEW w \in Workspace
    PROVE  /\ Proper(RouterTransition(w))
           /\ \A i \in 1 .. Len(RouterTransition(w)) : RouterTransition(w)[i].w = w
           /\ w # "workspace-c-postgres" => Checked(RouterTransition(w))
<1> DEFINE boot  == Bootstrap(w, {"hello", "router", "gateway", "cloudflared"}, TRUE)
           to1   == Transition(w, RouterGraph("blue", "hello-blue"), TRUE)
           said1 == Mentions(w, "hello-blue")
           said2 == Mentions(w, "router")
           said3 == Mentions(w, "gateway")
           said4 == Mentions(w, "cloudflared-gateway")
           probe == PublicProbe(w, "router")
           read  == Reads(w, "router")
           to2   == Transition(w, RouterGraph("green", "hello-green"), TRUE)
           said5 == Mentions(w, "hello-green")
           leave == Step("disconnect", w)
           down  == Teardown(w)
           clean == Step("no networks", w)
           s     == RouterTransition(w)
<1>1. /\ {"cloudflared-gateway", "gateway", "hello-blue"} \subseteq Role
      /\ {"hello-green", "router"} \subseteq Role
      /\ {"disconnect", "no networks"} \subseteq Op
      /\ {"hello", "router", "gateway", "cloudflared"} \subseteq Products
  BY DEF Role, Op, Products
<1>2. /\ boot \in ScriptStep /\ to1 \in ScriptStep /\ said1 \in ScriptStep
      /\ said2 \in ScriptStep /\ said3 \in ScriptStep /\ said4 \in ScriptStep
      /\ probe \in ScriptStep /\ read \in ScriptStep /\ to2 \in ScriptStep
      /\ said5 \in ScriptStep /\ leave \in ScriptStep /\ down \in ScriptStep
      /\ clean \in ScriptStep
  BY <1>1, Built, Graphs DEF Teardown
<1>3. /\ boot.w = w /\ to1.w = w /\ said1.w = w /\ said2.w = w /\ said3.w = w /\ said4.w = w
      /\ probe.w = w /\ read.w = w /\ to2.w = w /\ said5.w = w /\ leave.w = w /\ down.w = w
      /\ clean.w = w
  BY DEF Bootstrap, Mentions, PublicProbe, Reads, Transition, Teardown, Step
<1>4. /\ boot.op = "bootstrap" /\ to1.op = "transition" /\ said1.op = "mentions"
      /\ said2.op = "mentions" /\ said3.op = "mentions" /\ said4.op = "mentions"
      /\ probe.op = "public probe" /\ read.op = "reads" /\ to2.op = "transition"
      /\ said5.op = "mentions" /\ leave.op = "disconnect" /\ down.op = "transition"
      /\ clean.op = "no networks"
  BY DEF Bootstrap, Mentions, PublicProbe, Reads, Transition, Teardown, Step
<1>5. /\ to1.nodes # {} /\ to1.synced /\ read.role \in Roles(to1.nodes)
      /\ read.role \in Roles(to2.nodes) /\ to2.nodes # {} /\ to2.synced /\ down.nodes = {}
      /\ ~down.synced
  BY Graphs, Asked DEF Teardown, Transition, Reads, Step
<1>6. s = << boot, to1, said1, said2, said3, said4, probe, read, to2, said5, said2,
             probe, read, leave, down, said4, clean >>
  BY DEF RouterTransition
<1> HIDE DEF boot, to1, said1, said2, said3, said4, probe, read, to2, said5, leave,
             down, clean, s
<1>7. s \in Seq(ScriptStep) /\ Len(s) = 17
  BY <1>2, <1>6
<1>8. \A i \in 1 .. 17 : i \in {1, 2, 3, 4, 5, 6, 7, 8, 9, 10, 11, 12, 13, 14, 15, 16, 17}
  OBVIOUS
<1>9. /\ s[1].w = w /\ s[2].w = w /\ s[3].w = w /\ s[4].w = w /\ s[5].w = w /\ s[6].w = w
      /\ s[7].w = w /\ s[8].w = w /\ s[9].w = w /\ s[10].w = w /\ s[11].w = w /\ s[12].w = w
      /\ s[13].w = w /\ s[14].w = w /\ s[15].w = w /\ s[16].w = w /\ s[17].w = w
  BY <1>3, <1>6
<1>10. \A i \in 1 .. 17 : s[i].w = w
  BY <1>8, <1>9
<1>11. /\ s[1].op = "bootstrap" /\ s[2].op = "transition" /\ s[3].op = "mentions"
       /\ s[4].op = "mentions" /\ s[5].op = "mentions" /\ s[6].op = "mentions"
       /\ s[7].op = "public probe" /\ s[8].op = "reads" /\ s[9].op = "transition"
       /\ s[10].op = "mentions" /\ s[11].op = "mentions" /\ s[12].op = "public probe"
       /\ s[13].op = "reads" /\ s[14].op = "disconnect" /\ s[15].op = "transition"
       /\ s[16].op = "mentions" /\ s[17].op = "no networks"
  BY <1>4, <1>6
<1>12. \A i \in 1 .. 17 : s[i].op = "transition" => i \in {2, 9, 15}
  BY <1>8, <1>11
<1>13. \A i \in 1 .. 17 : s[i].op = "reads" => i \in {8, 13}
  BY <1>8, <1>11
<1>14. \A i \in 1 .. 17 : s[i].op = "disconnect" => i \in {14}
  BY <1>8, <1>11
<1>15. \A i \in 1 .. 17 : s[i].op = "transition" /\ s[i].nodes = {} =>
          /\ ~s[i].synced
          /\ \/ i - 1 \in 1 .. 17 /\ s[i - 1].op = "disconnect"
             \/ \A j \in 1 .. i - 1 : ~Joins(s[j])
  <2>1. s[2].nodes # {} /\ s[9].nodes # {} /\ ~s[15].synced
    BY <1>5, <1>6
  <2>2. 15 - 1 = 14 /\ 14 \in 1 .. 17
    OBVIOUS
  <2> QED BY <1>11, <1>12, <2>1, <2>2
<1>16. \A i \in 1 .. 17 : s[i].op = "reads" =>
          \E t \in 1 .. i - 1 :
             /\ s[t].op = "transition" /\ s[i].role \in Roles(s[t].nodes)
             /\ NoneOf(s, {"transition"}, t, i)
             /\ \E j \in t .. i - 1 : Joins(s[j]) /\ NoneOf(s, {"disconnect"}, j, i)
  <2>1. /\ Joins(s[2]) /\ s[8].role \in Roles(s[2].nodes) /\ Joins(s[9])
          /\ s[13].role \in Roles(s[9].nodes)
    BY <1>4, <1>5, <1>6 DEF Joins
  <2>2. /\ NoneOf(s, {"transition"}, 2, 8) /\ NoneOf(s, {"disconnect"}, 2, 8)
          /\ NoneOf(s, {"transition"}, 9, 13) /\ NoneOf(s, {"disconnect"}, 9, 13)
    BY <1>12, <1>14 DEF NoneOf
  <2>3. /\ 2 \in 1 .. 8 - 1 /\ 2 \in 2 .. 8 - 1 /\ 9 \in 1 .. 13 - 1 /\ 9 \in 9 .. 13 - 1
    OBVIOUS
  <2> QED BY <1>11, <1>13, <2>1, <2>2, <2>3
<1>17. Proper(s)
  BY <1>7, <1>10, <1>15, <1>16, ProperOne
<1>18. ASSUME w # "workspace-c-postgres" PROVE Checked(s)
  <2>1. 17 \in 1 .. 17 /\ \A i \in {2, 9, 15} : i < 17
    OBVIOUS
  <2>2. \A i \in 1 .. Len(s) : s[i].op = "transition" => i < 17
    BY <1>7, <1>12, <2>1
  <2>3. s[17].op = "no networks"
    BY <1>11
  <2> QED BY <1>7, <1>10, <1>18, <2>1, <2>2, <2>3, CheckedOne
<1> QED BY <1>7, <1>10, <1>17, <1>18 DEF s

\* _run_multiplexer_observer.
LEMMA MultiplexerObserverProper ==
    ASSUME NEW w \in Workspace
    PROVE  /\ Proper(MultiplexerObserver(w))
           /\ \A i \in 1 .. Len(MultiplexerObserver(w)) : MultiplexerObserver(w)[i].w = w
           /\ w # "workspace-c-postgres" => Checked(MultiplexerObserver(w))
<1> DEFINE boot  == Bootstrap(w, {"hello", "multiplexer", "gateway", "cloudflared"}, TRUE)
           to    == Transition(w, MultiplexerGraph, TRUE)
           said1 == Mentions(w, "hello-primary")
           said2 == Mentions(w, "hello-observer")
           said3 == Mentions(w, "multiplexer")
           said4 == Mentions(w, "gateway")
           said5 == Mentions(w, "cloudflared-gateway")
           probe == PublicProbe(w, "multiplexer")
           read1 == Reads(w, "multiplexer")
           read2 == Reads(w, "hello-observer")
           leave == Step("disconnect", w)
           down  == Teardown(w)
           clean == Step("no networks", w)
           s     == MultiplexerObserver(w)
<1>1. /\ {"cloudflared-gateway", "gateway", "hello-observer"} \subseteq Role
      /\ {"hello-primary", "multiplexer"} \subseteq Role
      /\ {"disconnect", "no networks"} \subseteq Op
      /\ {"hello", "multiplexer", "gateway", "cloudflared"} \subseteq Products
  BY DEF Role, Op, Products
<1>2. /\ boot \in ScriptStep /\ to \in ScriptStep /\ said1 \in ScriptStep
      /\ said2 \in ScriptStep /\ said3 \in ScriptStep /\ said4 \in ScriptStep
      /\ said5 \in ScriptStep /\ probe \in ScriptStep /\ read1 \in ScriptStep
      /\ read2 \in ScriptStep /\ leave \in ScriptStep /\ down \in ScriptStep
      /\ clean \in ScriptStep
  BY <1>1, Built, Graphs DEF Teardown
<1>3. /\ boot.w = w /\ to.w = w /\ said1.w = w /\ said2.w = w /\ said3.w = w /\ said4.w = w
      /\ said5.w = w /\ probe.w = w /\ read1.w = w /\ read2.w = w /\ leave.w = w
      /\ down.w = w /\ clean.w = w
  BY DEF Bootstrap, Mentions, PublicProbe, Reads, Transition, Teardown, Step
<1>4. /\ boot.op = "bootstrap" /\ to.op = "transition" /\ said1.op = "mentions"
      /\ said2.op = "mentions" /\ said3.op = "mentions" /\ said4.op = "mentions"
      /\ said5.op = "mentions" /\ probe.op = "public probe" /\ read1.op = "reads"
      /\ read2.op = "reads" /\ leave.op = "disconnect" /\ down.op = "transition"
      /\ clean.op = "no networks"
  BY DEF Bootstrap, Mentions, PublicProbe, Reads, Transition, Teardown, Step
<1>5. /\ to.nodes # {} /\ to.synced /\ read1.role \in Roles(to.nodes)
      /\ read2.role \in Roles(to.nodes) /\ down.nodes = {} /\ ~down.synced
  BY Graphs, Asked DEF Teardown, Transition, Reads, Step
<1>6. s = << boot, to, said1, said2, said3, said4, said5, probe, read1, read2, leave,
             down, said5, clean >>
  BY DEF MultiplexerObserver
<1> HIDE DEF boot, to, said1, said2, said3, said4, said5, probe, read1, read2, leave,
             down, clean, s
<1>7. s \in Seq(ScriptStep) /\ Len(s) = 14
  BY <1>2, <1>6
<1>8. \A i \in 1 .. 14 : i \in {1, 2, 3, 4, 5, 6, 7, 8, 9, 10, 11, 12, 13, 14}
  OBVIOUS
<1>9. /\ s[1].w = w /\ s[2].w = w /\ s[3].w = w /\ s[4].w = w /\ s[5].w = w /\ s[6].w = w
      /\ s[7].w = w /\ s[8].w = w /\ s[9].w = w /\ s[10].w = w /\ s[11].w = w /\ s[12].w = w
      /\ s[13].w = w /\ s[14].w = w
  BY <1>3, <1>6
<1>10. \A i \in 1 .. 14 : s[i].w = w
  BY <1>8, <1>9
<1>11. /\ s[1].op = "bootstrap" /\ s[2].op = "transition" /\ s[3].op = "mentions"
       /\ s[4].op = "mentions" /\ s[5].op = "mentions" /\ s[6].op = "mentions"
       /\ s[7].op = "mentions" /\ s[8].op = "public probe" /\ s[9].op = "reads"
       /\ s[10].op = "reads" /\ s[11].op = "disconnect" /\ s[12].op = "transition"
       /\ s[13].op = "mentions" /\ s[14].op = "no networks"
  BY <1>4, <1>6
<1>12. \A i \in 1 .. 14 : s[i].op = "transition" => i \in {2, 12}
  BY <1>8, <1>11
<1>13. \A i \in 1 .. 14 : s[i].op = "reads" => i \in {9, 10}
  BY <1>8, <1>11
<1>14. \A i \in 1 .. 14 : s[i].op = "disconnect" => i \in {11}
  BY <1>8, <1>11
<1>15. \A i \in 1 .. 14 : s[i].op = "transition" /\ s[i].nodes = {} =>
          /\ ~s[i].synced
          /\ \/ i - 1 \in 1 .. 14 /\ s[i - 1].op = "disconnect"
             \/ \A j \in 1 .. i - 1 : ~Joins(s[j])
  <2>1. s[2].nodes # {} /\ ~s[12].synced
    BY <1>5, <1>6
  <2>2. 12 - 1 = 11 /\ 11 \in 1 .. 14
    OBVIOUS
  <2> QED BY <1>11, <1>12, <2>1, <2>2
<1>16. \A i \in 1 .. 14 : s[i].op = "reads" =>
          \E t \in 1 .. i - 1 :
             /\ s[t].op = "transition" /\ s[i].role \in Roles(s[t].nodes)
             /\ NoneOf(s, {"transition"}, t, i)
             /\ \E j \in t .. i - 1 : Joins(s[j]) /\ NoneOf(s, {"disconnect"}, j, i)
  <2>1. /\ Joins(s[2]) /\ s[9].role \in Roles(s[2].nodes)
          /\ s[10].role \in Roles(s[2].nodes)
    BY <1>4, <1>5, <1>6 DEF Joins
  <2>2. /\ NoneOf(s, {"transition"}, 2, 9) /\ NoneOf(s, {"disconnect"}, 2, 9)
          /\ NoneOf(s, {"transition"}, 2, 10) /\ NoneOf(s, {"disconnect"}, 2, 10)
    BY <1>12, <1>14 DEF NoneOf
  <2>3. /\ 2 \in 1 .. 9 - 1 /\ 2 \in 2 .. 9 - 1 /\ 2 \in 1 .. 10 - 1 /\ 2 \in 2 .. 10 - 1
    OBVIOUS
  <2> QED BY <1>11, <1>13, <2>1, <2>2, <2>3
<1>17. Proper(s)
  BY <1>7, <1>10, <1>15, <1>16, ProperOne
<1>18. ASSUME w # "workspace-c-postgres" PROVE Checked(s)
  <2>1. 14 \in 1 .. 14 /\ \A i \in {2, 12} : i < 14
    OBVIOUS
  <2>2. \A i \in 1 .. Len(s) : s[i].op = "transition" => i < 14
    BY <1>7, <1>12, <2>1
  <2>3. s[14].op = "no networks"
    BY <1>11
  <2> QED BY <1>7, <1>10, <1>18, <2>1, <2>2, <2>3, CheckedOne
<1> QED BY <1>7, <1>10, <1>17, <1>18 DEF s

\* _run_postgres_retained_data.
LEMMA PostgresRetainedDataProper ==
    ASSUME NEW w \in Workspace
    PROVE  /\ Proper(PostgresRetainedData(w))
           /\ \A i \in 1 .. Len(PostgresRetainedData(w)) : PostgresRetainedData(w)[i].w = w
           /\ Checked(PostgresRetainedData(w))
<1> DEFINE boot  == Bootstrap(w, {"gateway", "postgres", "cloudflared"}, TRUE)
           to    == Transition(w, PostgresGraph, FALSE)
           said1 == Mentions(w, "gateway")
           said2 == Mentions(w, "postgres")
           said3 == Mentions(w, "cloudflared-gateway")
           probe == PublicProbe(w, "postgres")
           kept  == Step("volume", w)
           down  == Teardown(w)
           gone  == [Step("no containers", w) EXCEPT !.role = "postgres"]
           clean == Step("no networks", w)
           s     == PostgresRetainedData(w)
<1>1. /\ {"cloudflared-gateway", "gateway", "postgres"} \subseteq Role
      /\ {"no networks", "volume"} \subseteq Op
      /\ {"gateway", "postgres", "cloudflared"} \subseteq Products
  BY DEF Role, Op, Products
<1>2. /\ boot \in ScriptStep /\ to \in ScriptStep /\ said1 \in ScriptStep
      /\ said2 \in ScriptStep /\ said3 \in ScriptStep /\ probe \in ScriptStep
      /\ kept \in ScriptStep /\ down \in ScriptStep /\ gone \in ScriptStep
      /\ clean \in ScriptStep
  BY <1>1, Built, Graphs DEF Teardown
<1>3. /\ boot.w = w /\ to.w = w /\ said1.w = w /\ said2.w = w /\ said3.w = w /\ probe.w = w
      /\ kept.w = w /\ down.w = w /\ gone.w = w /\ clean.w = w
  BY DEF Bootstrap, Mentions, PublicProbe, Transition, Teardown, Step
<1>4. /\ boot.op = "bootstrap" /\ to.op = "transition" /\ said1.op = "mentions"
      /\ said2.op = "mentions" /\ said3.op = "mentions" /\ probe.op = "public probe"
      /\ kept.op = "volume" /\ down.op = "transition" /\ gone.op = "no containers"
      /\ clean.op = "no networks"
  BY DEF Bootstrap, Mentions, PublicProbe, Transition, Teardown, Step
<1>5. /\ to.nodes # {} /\ ~to.synced /\ down.nodes = {} /\ ~down.synced
  BY Graphs DEF Teardown, Transition, Step
<1>6. s = << boot, to, said1, said2, said3, probe, kept, down, said2, gone, clean,
             kept >>
  BY DEF PostgresRetainedData
<1> HIDE DEF boot, to, said1, said2, said3, probe, kept, down, gone, clean, s
<1>7. s \in Seq(ScriptStep) /\ Len(s) = 12
  BY <1>2, <1>6
<1>8. \A i \in 1 .. 12 : i \in {1, 2, 3, 4, 5, 6, 7, 8, 9, 10, 11, 12}
  OBVIOUS
<1>9. /\ s[1].w = w /\ s[2].w = w /\ s[3].w = w /\ s[4].w = w /\ s[5].w = w /\ s[6].w = w
      /\ s[7].w = w /\ s[8].w = w /\ s[9].w = w /\ s[10].w = w /\ s[11].w = w /\ s[12].w = w
  BY <1>3, <1>6
<1>10. \A i \in 1 .. 12 : s[i].w = w
  BY <1>8, <1>9
<1>11. /\ s[1].op = "bootstrap" /\ s[2].op = "transition" /\ s[3].op = "mentions"
       /\ s[4].op = "mentions" /\ s[5].op = "mentions" /\ s[6].op = "public probe"
       /\ s[7].op = "volume" /\ s[8].op = "transition" /\ s[9].op = "mentions"
       /\ s[10].op = "no containers" /\ s[11].op = "no networks" /\ s[12].op = "volume"
  BY <1>4, <1>6
<1>12. \A i \in 1 .. 12 : s[i].op = "transition" => i \in {2, 8}
  BY <1>8, <1>11
<1>13. \A i \in 1 .. 12 : s[i].op # "reads"
  BY <1>8, <1>11
<1>14. \A i \in 1 .. 12 : s[i].op = "transition" /\ s[i].nodes = {} =>
          /\ ~s[i].synced
          /\ \/ i - 1 \in 1 .. 12 /\ s[i - 1].op = "disconnect"
             \/ \A j \in 1 .. i - 1 : ~Joins(s[j])
  <2>1. s[2].nodes # {} /\ ~s[8].synced
    BY <1>5, <1>6
  <2>2. ~Joins(s[2])
    BY <1>4, <1>5, <1>6 DEF Joins
  <2>3. \A j \in 1 .. 8 - 1 : j \in {1, 2, 3, 4, 5, 6, 7}
    OBVIOUS
  <2>4. \A j \in 1 .. 8 - 1 : ~Joins(s[j])
    BY <1>11, <2>2, <2>3 DEF Joins
  <2> QED BY <1>12, <2>1, <2>4
<1>15. \A i \in 1 .. 12 : s[i].op = "reads" =>
          \E t \in 1 .. i - 1 :
             /\ s[t].op = "transition" /\ s[i].role \in Roles(s[t].nodes)
             /\ NoneOf(s, {"transition"}, t, i)
             /\ \E j \in t .. i - 1 : Joins(s[j]) /\ NoneOf(s, {"disconnect"}, j, i)
  BY <1>13
<1>16. Proper(s)
  BY <1>7, <1>10, <1>14, <1>15, ProperOne
<1>17. Checked(s)
  <2>1. 11 \in 1 .. 12 /\ \A i \in {2, 8} : i < 11
    OBVIOUS
  <2>2. \E i \in 1 .. 12 : s[i].op = "volume"
    <3>1. 7 \in 1 .. 12
      OBVIOUS
    <3> QED BY <1>11, <3>1
  <2>3. \A i \in 1 .. Len(s) : s[i].op = "transition" => i < 11
    BY <1>7, <1>12, <2>1
  <2>4. s[11].op = "no networks"
    BY <1>11
  <2> QED BY <1>7, <1>10, <2>1, <2>2, <2>3, <2>4, CheckedOne
<1> QED BY <1>7, <1>10, <1>16, <1>17 DEF s

\* _run_negative_cleanup.
LEMMA NegativeCleanupProper ==
    ASSUME NEW w \in Workspace
    PROVE  /\ Proper(NegativeCleanup(w))
           /\ \A i \in 1 .. Len(NegativeCleanup(w)) : NegativeCleanup(w)[i].w = w
           /\ w # "workspace-c-postgres" => Checked(NegativeCleanup(w))
<1> DEFINE boot  == Bootstrap(w, {"gateway", "hello", "cloudflared"}, TRUE)
           to    == Transition(w, PublicGatewayIngressGraph, FALSE)
           said1 == Mentions(w, "gateway")
           said2 == Mentions(w, "hello")
           said3 == Mentions(w, "cloudflared-gateway")
           probe == PublicProbe(w, "hello")
           down  == Teardown(w)
           shut  == Step("unreachable", w)
           clean == Step("no networks", w)
           s     == NegativeCleanup(w)
<1>1. /\ {"cloudflared-gateway", "gateway", "hello"} \subseteq Role
      /\ {"no networks", "unreachable"} \subseteq Op
      /\ {"gateway", "hello", "cloudflared"} \subseteq Products
  BY DEF Role, Op, Products
<1>2. /\ boot \in ScriptStep /\ to \in ScriptStep /\ said1 \in ScriptStep
      /\ said2 \in ScriptStep /\ said3 \in ScriptStep /\ probe \in ScriptStep
      /\ down \in ScriptStep /\ shut \in ScriptStep /\ clean \in ScriptStep
  BY <1>1, Built, Graphs DEF Teardown
<1>3. /\ boot.w = w /\ to.w = w /\ said1.w = w /\ said2.w = w /\ said3.w = w /\ probe.w = w
      /\ down.w = w /\ shut.w = w /\ clean.w = w
  BY DEF Bootstrap, Mentions, PublicProbe, Transition, Teardown, Step
<1>4. /\ boot.op = "bootstrap" /\ to.op = "transition" /\ said1.op = "mentions"
      /\ said2.op = "mentions" /\ said3.op = "mentions" /\ probe.op = "public probe"
      /\ down.op = "transition" /\ shut.op = "unreachable" /\ clean.op = "no networks"
  BY DEF Bootstrap, Mentions, PublicProbe, Transition, Teardown, Step
<1>5. /\ to.nodes # {} /\ ~to.synced /\ down.nodes = {} /\ ~down.synced
  BY Graphs DEF Teardown, Transition, Step
<1>6. s = << boot, to, said1, said2, said3, probe, down, said3, shut, clean >>
  BY DEF NegativeCleanup
<1> HIDE DEF boot, to, said1, said2, said3, probe, down, shut, clean, s
<1>7. s \in Seq(ScriptStep) /\ Len(s) = 10
  BY <1>2, <1>6
<1>8. \A i \in 1 .. 10 : i \in {1, 2, 3, 4, 5, 6, 7, 8, 9, 10}
  OBVIOUS
<1>9. /\ s[1].w = w /\ s[2].w = w /\ s[3].w = w /\ s[4].w = w /\ s[5].w = w /\ s[6].w = w
      /\ s[7].w = w /\ s[8].w = w /\ s[9].w = w /\ s[10].w = w
  BY <1>3, <1>6
<1>10. \A i \in 1 .. 10 : s[i].w = w
  BY <1>8, <1>9
<1>11. /\ s[1].op = "bootstrap" /\ s[2].op = "transition" /\ s[3].op = "mentions"
       /\ s[4].op = "mentions" /\ s[5].op = "mentions" /\ s[6].op = "public probe"
       /\ s[7].op = "transition" /\ s[8].op = "mentions" /\ s[9].op = "unreachable"
       /\ s[10].op = "no networks"
  BY <1>4, <1>6
<1>12. \A i \in 1 .. 10 : s[i].op = "transition" => i \in {2, 7}
  BY <1>8, <1>11
<1>13. \A i \in 1 .. 10 : s[i].op # "reads"
  BY <1>8, <1>11
<1>14. \A i \in 1 .. 10 : s[i].op = "transition" /\ s[i].nodes = {} =>
          /\ ~s[i].synced
          /\ \/ i - 1 \in 1 .. 10 /\ s[i - 1].op = "disconnect"
             \/ \A j \in 1 .. i - 1 : ~Joins(s[j])
  <2>1. s[2].nodes # {} /\ ~s[7].synced
    BY <1>5, <1>6
  <2>2. ~Joins(s[2])
    BY <1>4, <1>5, <1>6 DEF Joins
  <2>3. \A j \in 1 .. 7 - 1 : j \in {1, 2, 3, 4, 5, 6}
    OBVIOUS
  <2>4. \A j \in 1 .. 7 - 1 : ~Joins(s[j])
    BY <1>11, <2>2, <2>3 DEF Joins
  <2> QED BY <1>12, <2>1, <2>4
<1>15. \A i \in 1 .. 10 : s[i].op = "reads" =>
          \E t \in 1 .. i - 1 :
             /\ s[t].op = "transition" /\ s[i].role \in Roles(s[t].nodes)
             /\ NoneOf(s, {"transition"}, t, i)
             /\ \E j \in t .. i - 1 : Joins(s[j]) /\ NoneOf(s, {"disconnect"}, j, i)
  BY <1>13
<1>16. Proper(s)
  BY <1>7, <1>10, <1>14, <1>15, ProperOne
<1>17. ASSUME w # "workspace-c-postgres" PROVE Checked(s)
  <2>1. 10 \in 1 .. 10 /\ \A i \in {2, 7} : i < 10
    OBVIOUS
  <2>2. \A i \in 1 .. Len(s) : s[i].op = "transition" => i < 10
    BY <1>7, <1>12, <2>1
  <2>3. s[10].op = "no networks"
    BY <1>11
  <2> QED BY <1>7, <1>10, <1>17, <2>1, <2>2, <2>3, CheckedOne
<1> QED BY <1>7, <1>10, <1>16, <1>17 DEF s

\* _run_public_gateway_ingress.
LEMMA PublicGatewayIngressProper ==
    ASSUME NEW w \in Workspace
    PROVE  /\ Proper(PublicGatewayIngress(w))
           /\ \A i \in 1 .. Len(PublicGatewayIngress(w)) : PublicGatewayIngress(w)[i].w = w
           /\ w # "workspace-c-postgres" => Checked(PublicGatewayIngress(w))
<1> DEFINE boot  == Bootstrap(w, {"gateway", "hello", "cloudflared"}, TRUE)
           to    == Transition(w, PublicGatewayIngressGraph, FALSE)
           said1 == Mentions(w, "gateway")
           said2 == Mentions(w, "hello")
           said3 == Mentions(w, "cloudflared-gateway")
           probe == PublicProbe(w, "hello")
           down  == Teardown(w)
           clean == Step("no networks", w)
           s     == PublicGatewayIngress(w)
<1>1. /\ {"cloudflared-gateway", "gateway", "hello"} \subseteq Role
      /\ {"no networks"} \subseteq Op
      /\ {"gateway", "hello", "cloudflared"} \subseteq Products
  BY DEF Role, Op, Products
<1>2. /\ boot \in ScriptStep /\ to \in ScriptStep /\ said1 \in ScriptStep
      /\ said2 \in ScriptStep /\ said3 \in ScriptStep /\ probe \in ScriptStep
      /\ down \in ScriptStep /\ clean \in ScriptStep
  BY <1>1, Built, Graphs DEF Teardown
<1>3. /\ boot.w = w /\ to.w = w /\ said1.w = w /\ said2.w = w /\ said3.w = w /\ probe.w = w
      /\ down.w = w /\ clean.w = w
  BY DEF Bootstrap, Mentions, PublicProbe, Transition, Teardown, Step
<1>4. /\ boot.op = "bootstrap" /\ to.op = "transition" /\ said1.op = "mentions"
      /\ said2.op = "mentions" /\ said3.op = "mentions" /\ probe.op = "public probe"
      /\ down.op = "transition" /\ clean.op = "no networks"
  BY DEF Bootstrap, Mentions, PublicProbe, Transition, Teardown, Step
<1>5. /\ to.nodes # {} /\ ~to.synced /\ down.nodes = {} /\ ~down.synced
  BY Graphs DEF Teardown, Transition, Step
<1>6. s = << boot, to, said1, said2, said3, probe, down, said3, clean >>
  BY DEF PublicGatewayIngress
<1> HIDE DEF boot, to, said1, said2, said3, probe, down, clean, s
<1>7. s \in Seq(ScriptStep) /\ Len(s) = 9
  BY <1>2, <1>6
<1>8. \A i \in 1 .. 9 : i \in {1, 2, 3, 4, 5, 6, 7, 8, 9}
  OBVIOUS
<1>9. /\ s[1].w = w /\ s[2].w = w /\ s[3].w = w /\ s[4].w = w /\ s[5].w = w /\ s[6].w = w
      /\ s[7].w = w /\ s[8].w = w /\ s[9].w = w
  BY <1>3, <1>6
<1>10. \A i \in 1 .. 9 : s[i].w = w
  BY <1>8, <1>9
<1>11. /\ s[1].op = "bootstrap" /\ s[2].op = "transition" /\ s[3].op = "mentions"
       /\ s[4].op = "mentions" /\ s[5].op = "mentions" /\ s[6].op = "public probe"
       /\ s[7].op = "transition" /\ s[8].op = "mentions" /\ s[9].op = "no networks"
  BY <1>4, <1>6
<1>12. \A i \in 1 .. 9 : s[i].op = "transition" => i \in {2, 7}
  BY <1>8, <1>11
<1>13. \A i \in 1 .. 9 : s[i].op # "reads"
  BY <1>8, <1>11
<1>14. \A i \in 1 .. 9 : s[i].op = "transition" /\ s[i].nodes = {} =>
          /\ ~s[i].synced
          /\ \/ i - 1 \in 1 .. 9 /\ s[i - 1].op = "disconnect"
             \/ \A j \in 1 .. i - 1 : ~Joins(s[j])
  <2>1. s[2].nodes # {} /\ ~s[7].synced
    BY <1>5, <1>6
  <2>2. ~Joins(s[2])
    BY <1>4, <1>5, <1>6 DEF Joins
  <2>3. \A j \in 1 .. 7 - 1 : j \in {1, 2, 3, 4, 5, 6}
    OBVIOUS
  <2>4. \A j \in 1 .. 7 - 1 : ~Joins(s[j])
    BY <1>11, <2>2, <2>3 DEF Joins
  <2> QED BY <1>12, <2>1, <2>4
<1>15. \A i \in 1 .. 9 : s[i].op = "reads" =>
          \E t \in 1 .. i - 1 :
             /\ s[t].op = "transition" /\ s[i].role \in Roles(s[t].nodes)
             /\ NoneOf(s, {"transition"}, t, i)
             /\ \E j \in t .. i - 1 : Joins(s[j]) /\ NoneOf(s, {"disconnect"}, j, i)
  BY <1>13
<1>16. Proper(s)
  BY <1>7, <1>10, <1>14, <1>15, ProperOne
<1>17. ASSUME w # "workspace-c-postgres" PROVE Checked(s)
  <2>1. 9 \in 1 .. 9 /\ \A i \in {2, 7} : i < 9
    OBVIOUS
  <2>2. \A i \in 1 .. Len(s) : s[i].op = "transition" => i < 9
    BY <1>7, <1>12, <2>1
  <2>3. s[9].op = "no networks"
    BY <1>11
  <2> QED BY <1>7, <1>10, <1>17, <2>1, <2>2, <2>3, CheckedOne
<1> QED BY <1>7, <1>10, <1>16, <1>17 DEF s

\* _run_public_gateway_toggle.
LEMMA PublicGatewayToggleProper ==
    ASSUME NEW w \in Workspace
    PROVE  /\ Proper(PublicGatewayToggle(w))
           /\ \A i \in 1 .. Len(PublicGatewayToggle(w)) : PublicGatewayToggle(w)[i].w = w
           /\ w # "workspace-c-postgres" => Checked(PublicGatewayToggle(w))
<1> DEFINE boot  == Bootstrap(w, {"gateway", "hello", "cloudflared"}, TRUE)
           to1   == Transition(w, PublicGatewayIngressGraph, FALSE)
           said1 == Mentions(w, "gateway")
           said2 == Mentions(w, "hello")
           said3 == Mentions(w, "cloudflared-gateway")
           probe == PublicProbe(w, "hello")
           to2   == Transition(w, SingleHelloGraph, FALSE)
           shut  == Step("unreachable", w)
           join  == Step("sync", w)
           read  == Reads(w, "hello")
           to3   == Transition(w, PublicGatewayIngressGraph, TRUE)
           leave == Step("disconnect", w)
           down  == Teardown(w)
           clean == Step("no networks", w)
           s     == PublicGatewayToggle(w)
<1>1. /\ {"cloudflared-gateway", "gateway", "hello"} \subseteq Role
      /\ {"disconnect", "no networks", "sync", "unreachable"} \subseteq Op
      /\ {"gateway", "hello", "cloudflared"} \subseteq Products
  BY DEF Role, Op, Products
<1>2. /\ boot \in ScriptStep /\ to1 \in ScriptStep /\ said1 \in ScriptStep
      /\ said2 \in ScriptStep /\ said3 \in ScriptStep /\ probe \in ScriptStep
      /\ to2 \in ScriptStep /\ shut \in ScriptStep /\ join \in ScriptStep
      /\ read \in ScriptStep /\ to3 \in ScriptStep /\ leave \in ScriptStep
      /\ down \in ScriptStep /\ clean \in ScriptStep
  BY <1>1, Built, Graphs DEF Teardown
<1>3. /\ boot.w = w /\ to1.w = w /\ said1.w = w /\ said2.w = w /\ said3.w = w /\ probe.w = w
      /\ to2.w = w /\ shut.w = w /\ join.w = w /\ read.w = w /\ to3.w = w /\ leave.w = w
      /\ down.w = w /\ clean.w = w
  BY DEF Bootstrap, Mentions, PublicProbe, Reads, Transition, Teardown, Step
<1>4. /\ boot.op = "bootstrap" /\ to1.op = "transition" /\ said1.op = "mentions"
      /\ said2.op = "mentions" /\ said3.op = "mentions" /\ probe.op = "public probe"
      /\ to2.op = "transition" /\ shut.op = "unreachable" /\ join.op = "sync"
      /\ read.op = "reads" /\ to3.op = "transition" /\ leave.op = "disconnect"
      /\ down.op = "transition" /\ clean.op = "no networks"
  BY DEF Bootstrap, Mentions, PublicProbe, Reads, Transition, Teardown, Step
<1>5. /\ to1.nodes # {} /\ ~to1.synced /\ to2.nodes # {} /\ ~to2.synced
      /\ read.role \in Roles(to2.nodes) /\ to3.nodes # {} /\ to3.synced /\ down.nodes = {}
      /\ ~down.synced
  BY Graphs, Asked DEF Teardown, Transition, Reads, Step
<1>6. s = << boot, to1, said1, said2, said3, probe, to2, said3, shut, join, read, to3,
             said1, said3, probe, leave, down, said3, clean >>
  BY DEF PublicGatewayToggle
<1> HIDE DEF boot, to1, said1, said2, said3, probe, to2, shut, join, read, to3, leave,
             down, clean, s
<1>7. s \in Seq(ScriptStep) /\ Len(s) = 19
  BY <1>2, <1>6
<1>8. \A i \in 1 .. 19 : i \in {1, 2, 3, 4, 5, 6, 7, 8, 9, 10, 11, 12, 13, 14, 15, 16, 17, 18, 19}
  OBVIOUS
<1>9. /\ s[1].w = w /\ s[2].w = w /\ s[3].w = w /\ s[4].w = w /\ s[5].w = w /\ s[6].w = w
      /\ s[7].w = w /\ s[8].w = w /\ s[9].w = w /\ s[10].w = w /\ s[11].w = w /\ s[12].w = w
      /\ s[13].w = w /\ s[14].w = w /\ s[15].w = w /\ s[16].w = w /\ s[17].w = w
      /\ s[18].w = w /\ s[19].w = w
  BY <1>3, <1>6
<1>10. \A i \in 1 .. 19 : s[i].w = w
  BY <1>8, <1>9
<1>11. /\ s[1].op = "bootstrap" /\ s[2].op = "transition" /\ s[3].op = "mentions"
       /\ s[4].op = "mentions" /\ s[5].op = "mentions" /\ s[6].op = "public probe"
       /\ s[7].op = "transition" /\ s[8].op = "mentions" /\ s[9].op = "unreachable"
       /\ s[10].op = "sync" /\ s[11].op = "reads" /\ s[12].op = "transition"
       /\ s[13].op = "mentions" /\ s[14].op = "mentions" /\ s[15].op = "public probe"
       /\ s[16].op = "disconnect" /\ s[17].op = "transition" /\ s[18].op = "mentions"
       /\ s[19].op = "no networks"
  BY <1>4, <1>6
<1>12. \A i \in 1 .. 19 : s[i].op = "transition" => i \in {2, 7, 12, 17}
  BY <1>8, <1>11
<1>13. \A i \in 1 .. 19 : s[i].op = "reads" => i \in {11}
  BY <1>8, <1>11
<1>14. \A i \in 1 .. 19 : s[i].op = "disconnect" => i \in {16}
  BY <1>8, <1>11
<1>15. \A i \in 1 .. 19 : s[i].op = "transition" /\ s[i].nodes = {} =>
          /\ ~s[i].synced
          /\ \/ i - 1 \in 1 .. 19 /\ s[i - 1].op = "disconnect"
             \/ \A j \in 1 .. i - 1 : ~Joins(s[j])
  <2>1. s[2].nodes # {} /\ s[7].nodes # {} /\ s[12].nodes # {} /\ ~s[17].synced
    BY <1>5, <1>6
  <2>2. 17 - 1 = 16 /\ 16 \in 1 .. 19
    OBVIOUS
  <2> QED BY <1>11, <1>12, <2>1, <2>2
<1>16. \A i \in 1 .. 19 : s[i].op = "reads" =>
          \E t \in 1 .. i - 1 :
             /\ s[t].op = "transition" /\ s[i].role \in Roles(s[t].nodes)
             /\ NoneOf(s, {"transition"}, t, i)
             /\ \E j \in t .. i - 1 : Joins(s[j]) /\ NoneOf(s, {"disconnect"}, j, i)
  <2>1. /\ Joins(s[10]) /\ s[11].role \in Roles(s[7].nodes)
    BY <1>4, <1>5, <1>6 DEF Joins
  <2>2. /\ NoneOf(s, {"transition"}, 7, 11) /\ NoneOf(s, {"disconnect"}, 10, 11)
    BY <1>12, <1>14 DEF NoneOf
  <2>3. /\ 7 \in 1 .. 11 - 1 /\ 10 \in 7 .. 11 - 1
    OBVIOUS
  <2> QED BY <1>11, <1>13, <2>1, <2>2, <2>3
<1>17. Proper(s)
  BY <1>7, <1>10, <1>15, <1>16, ProperOne
<1>18. ASSUME w # "workspace-c-postgres" PROVE Checked(s)
  <2>1. 19 \in 1 .. 19 /\ \A i \in {2, 7, 12, 17} : i < 19
    OBVIOUS
  <2>2. \A i \in 1 .. Len(s) : s[i].op = "transition" => i < 19
    BY <1>7, <1>12, <2>1
  <2>3. s[19].op = "no networks"
    BY <1>11
  <2> QED BY <1>7, <1>10, <1>18, <2>1, <2>2, <2>3, CheckedOne
<1> QED BY <1>7, <1>10, <1>17, <1>18 DEF s

\* _run_authenticated_gateway_private.
LEMMA AuthenticatedGatewayPrivateProper ==
    ASSUME NEW w \in Workspace
    PROVE  /\ Proper(AuthenticatedGatewayPrivate(w))
           /\ \A i \in 1 .. Len(AuthenticatedGatewayPrivate(w)) :
                 AuthenticatedGatewayPrivate(w)[i].w = w
           /\ w # "workspace-c-postgres" => Checked(AuthenticatedGatewayPrivate(w))
<1> DEFINE boot  == Bootstrap(w, {"gateway", "hello", "postgres"}, FALSE)
           to    == Transition(w, AuthenticatedGatewayPrivateGraph, TRUE)
           said1 == Mentions(w, "gateway")
           said2 == Mentions(w, "hello")
           said3 == Mentions(w, "postgres")
           join  == Step("sync", w)
           read1 == Reads(w, "gateway")
           read2 == Reads(w, "hello")
           leave == Step("disconnect", w)
           down  == Teardown(w)
           clean == Step("no networks", w)
           s     == AuthenticatedGatewayPrivate(w)
<1>1. /\ {"gateway", "hello", "postgres"} \subseteq Role
      /\ {"disconnect", "no networks", "sync"} \subseteq Op
      /\ {"gateway", "hello", "postgres"} \subseteq Products
  BY DEF Role, Op, Products
<1>2. /\ boot \in ScriptStep /\ to \in ScriptStep /\ said1 \in ScriptStep
      /\ said2 \in ScriptStep /\ said3 \in ScriptStep /\ join \in ScriptStep
      /\ read1 \in ScriptStep /\ read2 \in ScriptStep /\ leave \in ScriptStep
      /\ down \in ScriptStep /\ clean \in ScriptStep
  BY <1>1, Built, Graphs DEF Teardown
<1>3. /\ boot.w = w /\ to.w = w /\ said1.w = w /\ said2.w = w /\ said3.w = w /\ join.w = w
      /\ read1.w = w /\ read2.w = w /\ leave.w = w /\ down.w = w /\ clean.w = w
  BY DEF Bootstrap, Mentions, Reads, Transition, Teardown, Step
<1>4. /\ boot.op = "bootstrap" /\ to.op = "transition" /\ said1.op = "mentions"
      /\ said2.op = "mentions" /\ said3.op = "mentions" /\ join.op = "sync"
      /\ read1.op = "reads" /\ read2.op = "reads" /\ leave.op = "disconnect"
      /\ down.op = "transition" /\ clean.op = "no networks"
  BY DEF Bootstrap, Mentions, Reads, Transition, Teardown, Step
<1>5. /\ to.nodes # {} /\ to.synced /\ read1.role \in Roles(to.nodes)
      /\ read2.role \in Roles(to.nodes) /\ down.nodes = {} /\ ~down.synced
  BY Graphs, Asked DEF Teardown, Transition, Reads, Step
<1>6. s = << boot, to, said1, said2, said3, join, read1, read2, leave, down, said1,
             clean >>
  BY DEF AuthenticatedGatewayPrivate
<1> HIDE DEF boot, to, said1, said2, said3, join, read1, read2, leave, down, clean, s
<1>7. s \in Seq(ScriptStep) /\ Len(s) = 12
  BY <1>2, <1>6
<1>8. \A i \in 1 .. 12 : i \in {1, 2, 3, 4, 5, 6, 7, 8, 9, 10, 11, 12}
  OBVIOUS
<1>9. /\ s[1].w = w /\ s[2].w = w /\ s[3].w = w /\ s[4].w = w /\ s[5].w = w /\ s[6].w = w
      /\ s[7].w = w /\ s[8].w = w /\ s[9].w = w /\ s[10].w = w /\ s[11].w = w /\ s[12].w = w
  BY <1>3, <1>6
<1>10. \A i \in 1 .. 12 : s[i].w = w
  BY <1>8, <1>9
<1>11. /\ s[1].op = "bootstrap" /\ s[2].op = "transition" /\ s[3].op = "mentions"
       /\ s[4].op = "mentions" /\ s[5].op = "mentions" /\ s[6].op = "sync"
       /\ s[7].op = "reads" /\ s[8].op = "reads" /\ s[9].op = "disconnect"
       /\ s[10].op = "transition" /\ s[11].op = "mentions" /\ s[12].op = "no networks"
  BY <1>4, <1>6
<1>12. \A i \in 1 .. 12 : s[i].op = "transition" => i \in {2, 10}
  BY <1>8, <1>11
<1>13. \A i \in 1 .. 12 : s[i].op = "reads" => i \in {7, 8}
  BY <1>8, <1>11
<1>14. \A i \in 1 .. 12 : s[i].op = "disconnect" => i \in {9}
  BY <1>8, <1>11
<1>15. \A i \in 1 .. 12 : s[i].op = "transition" /\ s[i].nodes = {} =>
          /\ ~s[i].synced
          /\ \/ i - 1 \in 1 .. 12 /\ s[i - 1].op = "disconnect"
             \/ \A j \in 1 .. i - 1 : ~Joins(s[j])
  <2>1. s[2].nodes # {} /\ ~s[10].synced
    BY <1>5, <1>6
  <2>2. 10 - 1 = 9 /\ 9 \in 1 .. 12
    OBVIOUS
  <2> QED BY <1>11, <1>12, <2>1, <2>2
<1>16. \A i \in 1 .. 12 : s[i].op = "reads" =>
          \E t \in 1 .. i - 1 :
             /\ s[t].op = "transition" /\ s[i].role \in Roles(s[t].nodes)
             /\ NoneOf(s, {"transition"}, t, i)
             /\ \E j \in t .. i - 1 : Joins(s[j]) /\ NoneOf(s, {"disconnect"}, j, i)
  <2>1. /\ Joins(s[6]) /\ s[7].role \in Roles(s[2].nodes) /\ s[8].role \in Roles(s[2].nodes)
    BY <1>4, <1>5, <1>6 DEF Joins
  <2>2. /\ NoneOf(s, {"transition"}, 2, 7) /\ NoneOf(s, {"disconnect"}, 6, 7)
          /\ NoneOf(s, {"transition"}, 2, 8) /\ NoneOf(s, {"disconnect"}, 6, 8)
    BY <1>12, <1>14 DEF NoneOf
  <2>3. /\ 2 \in 1 .. 7 - 1 /\ 6 \in 2 .. 7 - 1 /\ 2 \in 1 .. 8 - 1 /\ 6 \in 2 .. 8 - 1
    OBVIOUS
  <2> QED BY <1>11, <1>13, <2>1, <2>2, <2>3
<1>17. Proper(s)
  BY <1>7, <1>10, <1>15, <1>16, ProperOne
<1>18. ASSUME w # "workspace-c-postgres" PROVE Checked(s)
  <2>1. 12 \in 1 .. 12 /\ \A i \in {2, 10} : i < 12
    OBVIOUS
  <2>2. \A i \in 1 .. Len(s) : s[i].op = "transition" => i < 12
    BY <1>7, <1>12, <2>1
  <2>3. s[12].op = "no networks"
    BY <1>11
  <2> QED BY <1>7, <1>10, <1>18, <2>1, <2>2, <2>3, CheckedOne
<1> QED BY <1>7, <1>10, <1>17, <1>18 DEF s

----------------------------------------------------------------------------
(* Scripts one after the other, and the scenarios.                          *)

\* What two scripts one after the other do.
LEMMA Joint ==
    ASSUME NEW s \in Seq(ScriptStep), NEW t \in Seq(ScriptStep)
    PROVE  /\ s \o t \in Seq(ScriptStep) /\ Len(s) \in Nat /\ Len(t) \in Nat
           /\ Len(s \o t) = Len(s) + Len(t)
           /\ \A i \in 1 .. Len(s) : (s \o t)[i] = s[i]
           /\ \A i \in 1 .. Len(t) : (s \o t)[i + Len(s)] = t[i]
<1>1. /\ s \o t \in Seq(ScriptStep) /\ Len(s) \in Nat /\ Len(t) \in Nat
      /\ Len(s \o t) = Len(s) + Len(t)
      /\ \A i \in 1 .. Len(s) + Len(t) :
            (s \o t)[i] = IF i <= Len(s) THEN s[i] ELSE t[i - Len(s)]
  BY ConcatProperties, LenProperties
<1>2. \A n, m \in Nat : /\ \A i \in 1 .. n : i \in 1 .. n + m /\ i <= n
                        /\ \A i \in 1 .. m : /\ i + n \in 1 .. n + m /\ ~(i + n <= n)
                                             /\ (i + n) - n = i
  OBVIOUS
<1>3. \A i \in 1 .. Len(s) : i \in 1 .. Len(s) + Len(t) /\ i <= Len(s)
  BY <1>1, <1>2
<1>4. \A i \in 1 .. Len(t) : /\ i + Len(s) \in 1 .. Len(s) + Len(t)
                             /\ ~(i + Len(s) <= Len(s)) /\ (i + Len(s)) - Len(s) = i
  BY <1>1, <1>2
<1> QED BY <1>1, <1>3, <1>4

\* Positions in the second of two sequences of n and m steps, and in the first.
LEMMA Shifts ==
    ASSUME NEW n \in Nat, NEW m \in Nat
    PROVE  /\ \A i \in 1 .. n + m + 1 :
                 i \in 1 .. n \/ \E k \in 1 .. m + 1 : i = k + n /\ (i <= n + m => k \in 1 .. m)
           /\ \A i \in 1 .. n : i \in 1 .. n + 1 /\ \A j \in 1 .. i : j \in 1 .. n
           /\ \A i \in 1 .. n : i - 1 \in Nat /\ \A j \in 1 .. i - 1 : j \in 1 .. n /\ j \in 1 .. i
           /\ \A i \in 1 .. m + 1 : \A j \in 1 .. i + n : j <= n + m =>
                 j \in 1 .. n \/ \E k \in 1 .. i : j = k + n /\ k \in 1 .. m
           /\ \A i \in 1 .. m : i \in 1 .. m + 1 /\ i + n \in 1 .. n + m
           /\ \A i \in 1 .. m : \A a \in 1 .. i - 1 : \A b \in a .. i - 1 :
                 /\ a \in 1 .. m /\ b \in 1 .. m
                 /\ a + n \in 1 .. (i + n) - 1 /\ b + n \in a + n .. (i + n) - 1
           /\ \A i \in 1 .. m + 1 : \A k \in 1 .. n : k \in 1 .. n + 1 /\
                 \A j \in k + 1 .. (n + 1) - 1 : j \in k + 1 .. (i + n) - 1
  OBVIOUS

\* What is done, or not done, between two steps of one of them.
LEMMA Between ==
    ASSUME NEW s \in Seq(ScriptStep), NEW t \in Seq(ScriptStep), NEW op, NEW ops, NEW w
    PROVE  /\ \A i \in 1 .. Len(s) + 1 : \A j \in 1 .. Len(s) :
                 /\ Without(s \o t, op, w, j, i) <=> Without(s, op, w, j, i)
                 /\ NoneOf(s \o t, ops, j, i) <=> NoneOf(s, ops, j, i)
           /\ \A i \in 1 .. Len(t) + 1 : \A j \in 1 .. Len(t) :
                 /\ Without(s \o t, op, w, j + Len(s), i + Len(s)) => Without(t, op, w, j, i)
                 /\ NoneOf(t, ops, j, i) => NoneOf(s \o t, ops, j + Len(s), i + Len(s))
<1> DEFINE r == s \o t
           n == Len(s)
           m == Len(t)
<1>1. /\ n \in Nat /\ m \in Nat /\ \A i \in 1 .. n : r[i] = s[i]
      /\ \A i \in 1 .. m : r[i + n] = t[i]
  BY Joint
<1> HIDE DEF r, n, m
<1>2. ASSUME NEW i \in 1 .. n + 1, NEW j \in 1 .. n
      PROVE  \A k \in j + 1 .. i - 1 : r[k] = s[k]
  <2>1. \A k \in j + 1 .. i - 1 : k \in 1 .. n
    BY <1>1
  <2> QED BY <1>1, <2>1
<1>3. ASSUME NEW i \in 1 .. m + 1, NEW j \in 1 .. m
      PROVE  /\ \A k \in j + 1 .. i - 1 : /\ k + n \in (j + n) + 1 .. (i + n) - 1
                                          /\ r[k + n] = t[k]
             /\ \A k \in (j + n) + 1 .. (i + n) - 1 : /\ k - n \in j + 1 .. i - 1
                                                      /\ r[k] = t[k - n]
  <2>1. /\ \A k \in j + 1 .. i - 1 : k \in 1 .. m /\ k + n \in (j + n) + 1 .. (i + n) - 1
        /\ \A k \in (j + n) + 1 .. (i + n) - 1 :
              k - n \in j + 1 .. i - 1 /\ k - n \in 1 .. m /\ (k - n) + n = k
    BY <1>1
  <2> QED BY <1>1, <2>1
<1>4. ASSUME NEW i \in 1 .. n + 1, NEW j \in 1 .. n
      PROVE  /\ Without(r, op, w, j, i) <=> Without(s, op, w, j, i)
             /\ NoneOf(r, ops, j, i) <=> NoneOf(s, ops, j, i)
  BY <1>2 DEF Without, NoneOf
<1>5. ASSUME NEW i \in 1 .. m + 1, NEW j \in 1 .. m
      PROVE  /\ Without(r, op, w, j + n, i + n) => Without(t, op, w, j, i)
             /\ NoneOf(t, ops, j, i) => NoneOf(r, ops, j + n, i + n)
  <2>1. Without(r, op, w, j + n, i + n) => Without(t, op, w, j, i)
    BY <1>3 DEF Without
  <2>2. NoneOf(t, ops, j, i) => NoneOf(r, ops, j + n, i + n)
    BY <1>3 DEF NoneOf
  <2> QED BY <2>1, <2>2
<1> QED BY <1>4, <1>5 DEF r, n, m

\* Two scripts over other workspaces, the first of which leaves nothing, make one that is
\* a proper one, and a checked one if the second is.
LEMMA Compose ==
    ASSUME NEW s, NEW t, Proper(s), Proper(t), Checked(s), NEW V, NEW W, V \cap W = {},
           \A i \in 1 .. Len(s) : s[i].w \in V, \A i \in 1 .. Len(t) : t[i].w \in W
    PROVE  /\ Proper(s \o t) /\ (Checked(t) => Checked(s \o t))
           /\ \A i \in 1 .. Len(s \o t) : (s \o t)[i].w \in V \cup W
<1> DEFINE r == s \o t
           n == Len(s)
           m == Len(t)
<1>1. s \in Seq(ScriptStep) /\ t \in Seq(ScriptStep)
  BY DEF Proper
<1>2. /\ r \in Seq(ScriptStep) /\ n \in Nat /\ m \in Nat /\ Len(r) = n + m
      /\ \A i \in 1 .. n : r[i] = s[i]
      /\ \A i \in 1 .. m : r[i + n] = t[i]
  BY <1>1, Joint
<1>3. \A op, ops, w :
         /\ \A i \in 1 .. n + 1 : \A j \in 1 .. n :
               /\ Without(r, op, w, j, i) <=> Without(s, op, w, j, i)
               /\ NoneOf(r, ops, j, i) <=> NoneOf(s, ops, j, i)
         /\ \A i \in 1 .. m + 1 : \A j \in 1 .. m :
               /\ Without(r, op, w, j + n, i + n) => Without(t, op, w, j, i)
               /\ NoneOf(t, ops, j, i) => NoneOf(r, ops, j + n, i + n)
  BY <1>1, Between
<1>4. \A u \in Workspace : ~Opened(s, u, n + 1)
  BY DEF Checked
<1>5. /\ \A i \in 1 .. n : s[i].w \in V
      /\ \A i \in 1 .. m : t[i].w \in W
  OBVIOUS
<1> HIDE DEF r, n, m
\* Within the first script.
<1>6. ASSUME NEW i \in 1 .. n, NEW u
      PROVE  (Opened(r, u, i) => Opened(s, u, i)) /\ (Joined(r, u, i) => Joined(s, u, i))
  <2>1. i \in 1 .. n + 1 /\ \A j \in 1 .. i : j \in 1 .. n /\ j <= n
    BY <1>2
  <2>2. Opened(r, u, i) => Opened(s, u, i)
    BY <1>2, <1>3, <2>1 DEF Opened, n
  <2>3. Joined(r, u, i) => Joined(s, u, i)
    BY <1>2, <1>3, <2>1 DEF Joined, n
  <2> QED BY <2>2, <2>3
\* Within the second.
<1>7. ASSUME NEW i \in 1 .. m + 1, NEW u \in Workspace, Opened(r, u, i + n)
      PROVE  Opened(t, u, i)
  <2>1. PICK j \in 1 .. i + n : /\ j <= n + m /\ r[j].op = "transition" /\ r[j].w = u
                                /\ Without(r, "no networks", u, j, i + n)
    BY <1>2, <1>7 DEF Opened
  <2>2. ~(j \in 1 .. n)
    <3>1. SUFFICES ASSUME j \in 1 .. n PROVE FALSE
      OBVIOUS
    <3>2. /\ j \in 1 .. n + 1 /\ j <= n /\ n + 1 \in 1 .. n + 1
          /\ \A k \in j + 1 .. (n + 1) - 1 : k \in j + 1 .. (i + n) - 1
      BY <1>2, <3>1
    <3>3. Without(r, "no networks", u, j, n + 1)
      BY <2>1, <3>2 DEF Without
    <3>4. Without(s, "no networks", u, j, n + 1)
      BY <1>3, <3>1, <3>2, <3>3
    <3>5. s[j].op = "transition" /\ s[j].w = u
      BY <1>2, <2>1, <3>1
    <3> QED BY <1>4, <3>2, <3>4, <3>5 DEF Opened, n
  <2>3. PICK k \in 1 .. i : j = k + n /\ k \in 1 .. m
    <3>1. j <= n + m /\ n \in Nat /\ m \in Nat
      BY <1>2, <2>1
    <3> QED BY <2>2, <3>1, Shifts
  <2>4. k <= m /\ r[j] = t[k] /\ Without(t, "no networks", u, k, i)
    <3>1. k <= m /\ r[j] = t[k]
      BY <1>2, <2>3
    <3>2. Without(r, "no networks", u, k + n, i + n)
      BY <2>1, <2>3
    <3> QED BY <1>3, <2>3, <3>1, <3>2
  <2> QED BY <2>1, <2>3, <2>4 DEF Opened, m
<1>8. ASSUME NEW i \in 1 .. m, Joined(r, t[i].w, i + n)
      PROVE  Joined(t, t[i].w, i)
  <2>1. PICK j \in 1 .. i + n : /\ j <= n + m /\ Joins(r[j]) /\ r[j].w = t[i].w
                                /\ Without(r, "disconnect", t[i].w, j, i + n)
    BY <1>2, <1>8 DEF Joined
  <2>2. ~(j \in 1 .. n)
    BY <1>2, <1>5, <2>1
  <2>3. i \in 1 .. m + 1
    BY <1>2
  <2>4. PICK k \in 1 .. i : j = k + n /\ k \in 1 .. m
    BY <1>2, <2>1, <2>2, <2>3, Shifts
  <2>5. k <= m /\ r[j] = t[k] /\ Without(t, "disconnect", t[i].w, k, i)
    <3>1. k <= m /\ r[j] = t[k]
      BY <1>2, <2>4
    <3>2. Without(r, "disconnect", t[i].w, k + n, i + n)
      BY <2>1, <2>4
    <3> QED BY <1>3, <2>3, <2>4, <3>1, <3>2
  <2> QED BY <2>1, <2>4, <2>5 DEF Joined, m
<1>9. \A i \in 1 .. n + m + 1 :
         i \in 1 .. n \/ \E k \in 1 .. m + 1 : i = k + n /\ (i <= n + m => k \in 1 .. m)
  BY <1>2, Shifts
<1>10. OneAtATime(r)
  <2> SUFFICES ASSUME NEW i \in 1 .. n + m + 1, NEW u \in Workspace, NEW v \in Workspace,
                      Opened(r, u, i), Opened(r, v, i)
               PROVE  u = v
    BY <1>2 DEF OneAtATime
  <2>1. CASE i \in 1 .. n
    <3>1. i \in 1 .. n + 1
      BY <1>2, <2>1
    <3> QED BY <1>6, <2>1, <3>1 DEF Proper, OneAtATime, n
  <2>2. CASE \E k \in 1 .. m + 1 : i = k + n
    BY <1>7, <2>2 DEF Proper, OneAtATime, m
  <2> QED BY <1>9, <2>1, <2>2
<1>11. LeavesFirst(r)
  <2> SUFFICES ASSUME NEW i \in 1 .. n + m, r[i].op = "transition", r[i].nodes = {},
                      Joined(r, r[i].w, i)
               PROVE  FALSE
    BY <1>2 DEF LeavesFirst
  <2>1. i \in 1 .. n + m + 1 /\ i <= n + m
    BY <1>2
  <2>2. CASE i \in 1 .. n
    BY <1>2, <1>6, <2>2 DEF Proper, LeavesFirst, n
  <2>3. CASE \E k \in 1 .. m : i = k + n
    BY <1>2, <1>8, <2>3 DEF Proper, LeavesFirst, m
  <2> QED BY <1>9, <2>1, <2>2, <2>3
<1>12. ReadsWhatRuns(r)
  <2> DEFINE Reach(x, i) ==
               \E a \in 1 .. i - 1 :
                  /\ x[a].op = "transition" /\ x[a].w = x[i].w
                  /\ x[i].role \in Roles(x[a].nodes)
                  /\ NoneOf(x, {"transition"}, a, i)
                  /\ \E b \in a .. i - 1 : /\ Joins(x[b]) /\ x[b].w = x[i].w
                                           /\ NoneOf(x, {"disconnect"}, b, i)
  <2>1. /\ \A i \in 1 .. n : s[i].op = "reads" => Reach(s, i)
        /\ \A i \in 1 .. m : t[i].op = "reads" => Reach(t, i)
    BY DEF Proper, ReadsWhatRuns, n, m
  <2>2. ASSUME NEW i \in 1 .. n, r[i].op = "reads" PROVE Reach(r, i)
    <3>1. /\ i \in 1 .. n + 1
          /\ \A a \in 1 .. i - 1 : a \in 1 .. n /\ \A b \in a .. i - 1 : b \in 1 .. n
      BY <1>2
    <3>2. PICK a \in 1 .. i - 1 :
                  /\ s[a].op = "transition" /\ s[a].w = s[i].w
                  /\ s[i].role \in Roles(s[a].nodes)
                  /\ NoneOf(s, {"transition"}, a, i)
                  /\ \E b \in a .. i - 1 : /\ Joins(s[b]) /\ s[b].w = s[i].w
                                           /\ NoneOf(s, {"disconnect"}, b, i)
      BY <1>2, <2>1, <2>2
    <3>3. PICK b \in a .. i - 1 : /\ Joins(s[b]) /\ s[b].w = s[i].w
                                  /\ NoneOf(s, {"disconnect"}, b, i)
      BY <3>2
    <3>4. r[a] = s[a] /\ r[b] = s[b] /\ r[i] = s[i]
      BY <1>2, <3>1
    <3>5. NoneOf(r, {"transition"}, a, i) /\ NoneOf(r, {"disconnect"}, b, i)
      BY <1>3, <3>1, <3>2, <3>3
    <3> QED BY <3>2, <3>3, <3>4, <3>5
  <2>3. ASSUME NEW i \in 1 .. m, r[i + n].op = "reads" PROVE Reach(r, i + n)
    <3>1. t[i].op = "reads"
      BY <1>2, <2>3
    <3>2. PICK a \in 1 .. i - 1 :
                  /\ t[a].op = "transition" /\ t[a].w = t[i].w
                  /\ t[i].role \in Roles(t[a].nodes)
                  /\ NoneOf(t, {"transition"}, a, i)
                  /\ \E b \in a .. i - 1 : /\ Joins(t[b]) /\ t[b].w = t[i].w
                                           /\ NoneOf(t, {"disconnect"}, b, i)
      BY <2>1, <3>1
    <3>3. PICK b \in a .. i - 1 : /\ Joins(t[b]) /\ t[b].w = t[i].w
                                  /\ NoneOf(t, {"disconnect"}, b, i)
      BY <3>2
    <3>4. /\ i \in 1 .. m + 1 /\ a \in 1 .. m /\ b \in 1 .. m
          /\ a + n \in 1 .. (i + n) - 1 /\ b + n \in a + n .. (i + n) - 1
      BY <1>2
    <3>5. r[a + n] = t[a] /\ r[b + n] = t[b] /\ r[i + n] = t[i]
      BY <1>2, <3>4
    <3>6. /\ NoneOf(r, {"transition"}, a + n, i + n)
          /\ NoneOf(r, {"disconnect"}, b + n, i + n)
      BY <1>3, <3>2, <3>3, <3>4
    <3>7. /\ r[a + n].op = "transition" /\ r[a + n].w = r[i + n].w
          /\ r[i + n].role \in Roles(r[a + n].nodes)
          /\ Joins(r[b + n]) /\ r[b + n].w = r[i + n].w
      BY <3>2, <3>3, <3>5
    <3> QED BY <3>4, <3>6, <3>7
  <2> HIDE DEF Reach
  <2>4. ASSUME NEW i \in 1 .. n + m, r[i].op = "reads" PROVE Reach(r, i)
    <3>1. i \in 1 .. n + m + 1 /\ i <= n + m
      BY <1>2
    <3>2. CASE i \in 1 .. n
      BY <2>2, <2>4, <3>2
    <3>3. CASE \E k \in 1 .. m : i = k + n
      BY <2>3, <2>4, <3>3
    <3> QED BY <1>9, <3>1, <3>2, <3>3
  <2> QED BY <1>2, <2>4 DEF ReadsWhatRuns, Reach
<1>13. Checked(t) => Checked(r)
  <2> SUFFICES ASSUME Checked(t) PROVE Checked(r)
    OBVIOUS
  <2>1. ASSUME NEW u \in Workspace PROVE ~Opened(r, u, n + m + 1)
    <3>1. m + 1 \in 1 .. m + 1 /\ (m + 1) + n = n + m + 1
      BY <1>2
    <3> QED BY <1>7, <3>1 DEF Checked, m
  <2>2. ASSUME NEW i \in 1 .. n + m, r[i].op = "bootstrap", r[i].w = "workspace-c-postgres"
        PROVE  \E k \in 1 .. n + m : r[k].op = "volume" /\ r[k].w = r[i].w
    <3>1. i \in 1 .. n + m + 1 /\ i <= n + m
      BY <1>2
    <3>2. CASE i \in 1 .. n
      <4>1. PICK k \in 1 .. n : s[k].op = "volume" /\ s[k].w = s[i].w
        BY <1>2, <2>2, <3>2 DEF Checked, n
      <4>2. k \in 1 .. n + m
        BY <1>2
      <4> QED BY <1>2, <3>2, <4>1, <4>2
    <3>3. CASE \E k \in 1 .. m : i = k + n
      <4>1. PICK a \in 1 .. m : i = a + n
        BY <3>3
      <4>2. r[i] = t[a]
        BY <1>2, <4>1
      <4>3. PICK k \in 1 .. m : t[k].op = "volume" /\ t[k].w = t[a].w
        BY <2>2, <4>2 DEF Checked, m
      <4>4. k + n \in 1 .. n + m
        BY <1>2
      <4> QED BY <1>2, <4>2, <4>3, <4>4
    <3> QED BY <1>9, <3>1, <3>2, <3>3
  <2> QED BY <1>2, <2>1, <2>2 DEF Checked
<1>14. ASSUME NEW i \in 1 .. n + m PROVE r[i].w \in V \cup W
  <2>1. i \in 1 .. n + m + 1 /\ i <= n + m
    BY <1>2
  <2>2. CASE i \in 1 .. n
    BY <1>2, <1>5, <2>2
  <2>3. CASE \E k \in 1 .. m : i = k + n
    BY <1>2, <1>5, <2>3
  <2> QED BY <1>9, <2>1, <2>2, <2>3
<1>15. Proper(r)
  BY <1>2, <1>10, <1>11, <1>12 DEF Proper
<1> QED BY <1>2, <1>13, <1>14, <1>15 DEF r

\* _run_multi_workspace_foundation: four bootstraps, and nothing after them.
LEMMA FoundationProper == Proper(MultiWorkspaceFoundation)
<1> DEFINE a == Bootstrap("workspace-a-router", {"hello", "router"}, FALSE)
           b == Bootstrap("workspace-b-multiplexer", {"hello", "multiplexer"}, FALSE)
           c == Bootstrap("workspace-c-postgres", {"postgres"}, FALSE)
           d == Bootstrap("workspace-d-negative-cleanup",
                          {"hello", "router", "multiplexer", "postgres"}, FALSE)
           s == MultiWorkspaceFoundation
<1>1. /\ "workspace-a-router" \in Workspace /\ "workspace-b-multiplexer" \in Workspace
      /\ "workspace-c-postgres" \in Workspace /\ "workspace-d-negative-cleanup" \in Workspace
  BY WorkspaceAssumption
<1>2. /\ {"hello", "router"} \subseteq Products /\ {"hello", "multiplexer"} \subseteq Products
      /\ {"postgres"} \subseteq Products
      /\ {"hello", "router", "multiplexer", "postgres"} \subseteq Products
  BY DEF Products
<1>3. a \in ScriptStep /\ b \in ScriptStep /\ c \in ScriptStep /\ d \in ScriptStep
  BY <1>1, <1>2, Built
<1>4. /\ a.op = "bootstrap" /\ b.op = "bootstrap" /\ c.op = "bootstrap"
      /\ d.op = "bootstrap"
  BY DEF Bootstrap, Step
<1>5. s = <<a, b, c, d>>
  BY DEF MultiWorkspaceFoundation
<1> HIDE DEF a, b, c, d, s
<1>6. s \in Seq(ScriptStep) /\ Len(s) = 4
  BY <1>3, <1>5
<1>7. \A i \in 1 .. 4 : i \in {1, 2, 3, 4}
  OBVIOUS
<1>8. \A i \in 1 .. 4 : s[i].op = "bootstrap"
  BY <1>4, <1>5, <1>7
<1>9. \A i \in 1 .. 5 : \A j \in 1 .. i : j <= 4 => j \in 1 .. 4
  OBVIOUS
<1>10. \A i \in 1 .. 5 : \A u : ~Opened(s, u, i)
  BY <1>6, <1>8, <1>9 DEF Opened
<1>11. OneAtATime(s)
  <2>1. Len(s) + 1 = 5
    BY <1>6
  <2> QED BY <1>10, <2>1 DEF OneAtATime
<1>12. LeavesFirst(s) /\ ReadsWhatRuns(s)
  BY <1>6, <1>8 DEF LeavesFirst, ReadsWhatRuns
<1> QED BY <1>6, <1>11, <1>12 DEF Proper, s

\* _run_seeded_stress_public_ingress: each workspace is gone before the next is begun.
LEMMA SeededProper == Proper(SeededStressPublicIngress) /\ Checked(SeededStressPublicIngress)
<1> DEFINE a == "workspace-a-router"
           b == "workspace-b-multiplexer"
           c == "workspace-c-postgres"
           d == "workspace-d-negative-cleanup"
           r == RouterTransition(a)
           m == MultiplexerObserver(b)
           p == PostgresRetainedData(c)
           n == NegativeCleanup(d)
<1>1. a \in Workspace /\ b \in Workspace /\ c \in Workspace /\ d \in Workspace
  BY WorkspaceAssumption
<1>2. a # c /\ b # c /\ d # c
  OBVIOUS
<1>3. /\ {a} \cap {b} = {} /\ ({a} \cup {b}) \cap {c} = {}
      /\ (({a} \cup {b}) \cup {c}) \cap {d} = {}
  OBVIOUS
<1>4. SeededStressPublicIngress = ((r \o m) \o p) \o n
  BY DEF SeededStressPublicIngress
<1>5. Proper(r) /\ Checked(r) /\ \A i \in 1 .. Len(r) : r[i].w \in {a}
  BY <1>1, <1>2, RouterTransitionProper
<1>6. Proper(m) /\ Checked(m) /\ \A i \in 1 .. Len(m) : m[i].w \in {b}
  BY <1>1, <1>2, MultiplexerObserverProper
<1>7. Proper(p) /\ Checked(p) /\ \A i \in 1 .. Len(p) : p[i].w \in {c}
  BY <1>1, PostgresRetainedDataProper
<1>8. Proper(n) /\ Checked(n) /\ \A i \in 1 .. Len(n) : n[i].w \in {d}
  BY <1>1, <1>2, NegativeCleanupProper
<1> HIDE DEF a, b, c, d, r, m, p, n
<1>9. /\ Proper(r \o m) /\ Checked(r \o m)
      /\ \A i \in 1 .. Len(r \o m) : (r \o m)[i].w \in {a} \cup {b}
  <2>1. {a} \cap {b} = {}
    BY <1>3
  <2>2. /\ Proper(r) /\ Proper(m) /\ Checked(r) /\ Checked(m)
        /\ \A i \in 1 .. Len(r) : r[i].w \in {a}
        /\ \A i \in 1 .. Len(m) : m[i].w \in {b}
    BY <1>5, <1>6
  <2> QED BY <2>1, <2>2, Compose
<1> DEFINE rm == r \o m
<1> HIDE DEF rm
<1>10. /\ Proper(rm \o p) /\ Checked(rm \o p)
       /\ \A i \in 1 .. Len(rm \o p) : (rm \o p)[i].w \in ({a} \cup {b}) \cup {c}
  <2>1. Proper(rm) /\ Checked(rm) /\ \A i \in 1 .. Len(rm) : rm[i].w \in {a} \cup {b}
    BY <1>9 DEF rm
  <2> QED BY <1>3, <1>7, <2>1, Compose
<1> DEFINE rmp == rm \o p
<1> HIDE DEF rmp
<1>11. Proper(rmp \o n) /\ Checked(rmp \o n)
  <2>1. /\ Proper(rmp) /\ Checked(rmp)
        /\ \A i \in 1 .. Len(rmp) : rmp[i].w \in ({a} \cup {b}) \cup {c}
    BY <1>10 DEF rmp
  <2> QED BY <1>3, <1>8, <2>1, Compose
<1> QED BY <1>4, <1>11 DEF rmp, rm

\* The scenarios main knows.
LEMMA Scenario ==
    ASSUME NEW name \in Scripts
    PROVE  /\ Proper(Steps(name))
           /\ name \notin {"single-hello", "multi-workspace-foundation"} => Checked(Steps(name))
<1>1. /\ Basic \in Workspace /\ "workspace-a-router" \in Workspace
      /\ "workspace-b-multiplexer" \in Workspace /\ "workspace-c-postgres" \in Workspace
  BY WorkspaceAssumption
<1>2. Basic # "workspace-c-postgres"
  BY DEF Basic
<1>3. CASE name = "single-hello"
  BY <1>1, <1>3, SingleHelloProper DEF Steps
<1>4. CASE name = "router-transition"
  BY <1>1, <1>2, <1>4, RouterTransitionProper DEF Steps
<1>5. CASE name = "workspace-a-router-transition"
  BY <1>1, <1>5, RouterTransitionProper DEF Steps
<1>6. CASE name = "workspace-b-multiplexer-observer"
  BY <1>1, <1>6, MultiplexerObserverProper DEF Steps
<1>7. CASE name = "workspace-c-postgres-retained-data"
  BY <1>1, <1>7, PostgresRetainedDataProper DEF Steps
<1>8. CASE name = "seeded-stress-public-ingress"
  BY <1>8, SeededProper DEF Steps
<1>9. CASE name = "multi-workspace-foundation"
  BY <1>9, FoundationProper DEF Steps
<1>10. CASE name = "public-gateway-ingress"
  BY <1>1, <1>2, <1>10, PublicGatewayIngressProper DEF Steps
<1>11. CASE name = "public-gateway-toggle"
  BY <1>1, <1>2, <1>11, PublicGatewayToggleProper DEF Steps
<1>12. CASE name = "authenticated-gateway-private"
  BY <1>1, <1>2, <1>12, AuthenticatedGatewayPrivateProper DEF Steps
<1> QED BY <1>3, <1>4, <1>5, <1>6, <1>7, <1>8, <1>9, <1>10, <1>11, <1>12, ScriptsAssumption

\* Every script is a proper one.
LEMMA ProperScripts == \A name \in Scripts : Proper(Steps(name))
  BY Scenario

\* Those that tear down are checked ones.
LEMMA CheckedScripts ==
    \A name \in Scripts \ {"single-hello", "multi-workspace-foundation"} :
        Checked(Steps(name))
  BY Scenario

----------------------------------------------------------------------------
(* Steps of the driver.                                                     *)


\* Nothing runs that did not, and no step was made.
LEMMA StillThere ==
    ASSUME HInv, UNCHANGED <<script, docker>>, driver'.step = driver.step,
           driver'.at \in Idle => driver.at \in Idle,
           \A w \in Workspace : space'[w].created = space[w].created
    PROVE  Accounted' /\ Lasting' /\ Recorded'
  BY DEF HInv, Accounted, Lasting, Recorded, Settled, TheScript

\* What a field of the driver's frame may become.
LEMMA DriverField ==
    ASSUME NEW d \in Driver
    PROVE  /\ \A n \in Nat : /\ [d EXCEPT !.seen = n] \in Driver
                             /\ [d EXCEPT !.generation = n] \in Driver
                             /\ [d EXCEPT !.attempt = n] \in Driver
                             /\ [d EXCEPT !.step = n] \in Driver
           /\ \A x \in Status : [d EXCEPT !.status = x] \in Driver
           /\ \A x \in At : [d EXCEPT !.at = x] \in Driver
           /\ \A g \in Graph : /\ [d EXCEPT !.authored = g] \in Driver
                               /\ [d EXCEPT !.current = g] \in Driver
                               /\ [d EXCEPT !.desired = g] \in Driver
  BY DEF Driver

LEMMA UnwoundTyped ==
    ASSUME driver \in Driver
    PROVE  /\ Unwound \in Driver
           /\ Unwound.step = driver.step /\ Unwound.at = driver.at
<1> DEFINE d1 == [driver EXCEPT !.seen = 0]
           d2 == [d1 EXCEPT !.authored = Empty]
           d3 == [d2 EXCEPT !.generation = 0]
           d4 == [d3 EXCEPT !.attempt = 0]
           d5 == [d4 EXCEPT !.status = "none"]
<1>1. Empty \in Graph
  BY BoundAssumption DEF Empty, Graph
<1>2. Unwound = d5
  BY DEF Unwound
<1>3. d1 \in Driver /\ d1.step = driver.step /\ d1.at = driver.at
  BY DEF Driver
<1>4. d2 \in Driver /\ d2.step = driver.step /\ d2.at = driver.at
  <2> HIDE DEF d1
  <2> QED BY <1>1, <1>3 DEF Driver
<1>5. d3 \in Driver /\ d3.step = driver.step /\ d3.at = driver.at
  <2> HIDE DEF d2
  <2> QED BY <1>4 DEF Driver
<1>6. d4 \in Driver /\ d4.step = driver.step /\ d4.at = driver.at
  <2> HIDE DEF d3
  <2> QED BY <1>5 DEF Driver
<1>7. d5 \in Driver /\ d5.step = driver.step /\ d5.at = driver.at
  <2> HIDE DEF d4
  <2>1. d5 \in Driver
    <3>1. "none" \in Status
      BY DEF Status
    <3> HIDE DEF d4
    <3>2. \A x \in Status : [d4 EXCEPT !.status = x] \in Driver
      BY <1>6, DriverField
    <3> QED BY <3>1, <3>2
  <2>2. d5.step = d4.step /\ d5.at = d4.at
    BY <1>6 DEF Driver
  <2> QED BY <1>6, <2>1, <2>2
<1> QED BY <1>2, <1>7

\* An exception ends the script where it stands.
LEMMA Raised ==
    ASSUME HInv, Raise, UNCHANGED script
    PROVE  /\ driver'.at = "failed" /\ driver'.step = driver.step /\ driver' \in Driver
           /\ Placed' /\ Completed'
<1>1. driver'.at = "failed" /\ driver'.step = driver.step /\ driver' \in Driver
  <2>1. Unwound \in Driver /\ Unwound.step = driver.step
    BY UnwoundTyped DEF HInv, TypeOK
  <2>2. driver' = [Unwound EXCEPT !.at = "failed"]
    BY DEF Raise
  <2>3. driver' \in Driver
    <3>1. "failed" \in At
      BY DEF At
    <3>2. \A x \in At : [Unwound EXCEPT !.at = x] \in Driver
      BY <2>1, DriverField
    <3> QED BY <2>2, <3>1, <3>2
  <2> QED BY <2>1, <2>2, <2>3 DEF Driver
<1>2. Placed' /\ Completed'
  BY <1>1 DEF Placed, Completed, TransitionAt, AtAuthored, AtPlanned
<1> QED BY <1>1, <1>2

\* The driver goes on to its next call.
LEMMA Went ==
    ASSUME HInv, NEW x \in At, Goto(x)
    PROVE  /\ driver'.at = x /\ driver'.step = driver.step /\ driver' \in Driver
           /\ driver'.authored = driver.authored /\ driver'.status = driver.status
  BY DEF Goto, HInv, TypeOK, Driver

ServerTyped == space \in [Workspace -> Space] /\ change \in Change /\ spent \in [Workspace -> Nat]
SameCreated == \A w \in Workspace : space'[w].created = space[w].created

\* A step that lets what runs alone keeps the invariant if it keeps the frame's part of it.
LEMMA Moved ==
    ASSUME HInv, UNCHANGED <<script, docker, keyed>>, driver'.step = driver.step,
           driver' \in Driver, ServerTyped', SameCreated,
           driver'.at \in Idle => driver.at \in Idle, Placed', Completed'
    PROVE  HInv'
<1>1. TypeOK'
  BY DEF HInv, TypeOK, ServerTyped, TheScript
<1>2. Accounted' /\ Lasting' /\ Recorded'
  BY StillThere DEF SameCreated
<1> QED BY <1>1, <1>2 DEF HInv

\* An exception keeps it, whatever the call did to the server.
LEMMA Failed ==
    ASSUME HInv, Raise, UNCHANGED <<script, docker, keyed>>, ServerTyped', SameCreated
    PROVE  HInv'
  BY Raised, Moved DEF Idle

\* A server that is left alone.
LEMMA Untouched ==
    ASSUME HInv, UNCHANGED serverVars
    PROVE  ServerTyped' /\ SameCreated
  BY DEF HInv, TypeOK, ServerTyped, SameCreated, serverVars

\* The server's record of the transition under way.
LEMMA ChangeField ==
    ASSUME NEW c \in Change
    PROVE  /\ \A x \in Run : [c EXCEPT !.run = x] \in Change
           /\ \A n \in Nat : [c EXCEPT !.generation = n] \in Change
  BY DEF Change

\* A call that gets the driver on keeps it, if what is being made is still what the step
\* says: every call but those that answer with a completed run.
LEMMA WentOn ==
    ASSUME HInv, driver.at \in TransitionAt, UNCHANGED <<script, docker, keyed>>,
           NEW x \in TransitionAt \ {"resync", "advance", "read back"},
           driver'.at = x, driver'.step = driver.step, driver' \in Driver,
           ServerTyped', SameCreated,
           x \in AtAuthored => driver'.authored.nodes = Now.nodes,
           x \in AtPlanned => change'.wanted = driver'.authored,
           x = "sync" => Now.synced
    PROVE  HInv'
<1>1. Now' = Now /\ Within'
  BY DEF HInv, Placed, Now, Within, TheScript
<1>2. Placed'
  BY <1>1 DEF HInv, Placed, TransitionAt, AtAuthored, AtPlanned
<1>3. Completed'
  BY <1>1 DEF Completed
<1>4. driver'.at \notin Idle
  BY DEF Idle, TransitionAt
<1> QED BY <1>2, <1>3, <1>4, Moved

\* The step the driver is at.
LEMMA AtAStep ==
    ASSUME HInv
    PROVE  /\ Proper(TheScript) /\ Len(TheScript) \in Nat
           /\ \A i \in 1 .. Len(TheScript) : TheScript[i] \in ScriptStep
           /\ Within => driver.step \in 1 .. Len(TheScript) /\ Now = TheScript[driver.step]
                                                          /\ Now \in ScriptStep
<1>1. Proper(TheScript)
  BY ProperScripts DEF HInv, TypeOK, TheScript
<1>2. TheScript \in Seq(ScriptStep)
  BY <1>1 DEF Proper
<1>3. Len(TheScript) \in Nat /\ \A i \in 1 .. Len(TheScript) : TheScript[i] \in ScriptStep
  BY <1>2, LenProperties, ElementOfSeq
<1>4. Within => driver.step \in 1 .. Len(TheScript)
  <2>1. driver.step \in 1 .. Len(TheScript) + 1
    BY DEF HInv, TypeOK
  <2> QED BY <1>3, <2>1 DEF Within
<1> QED BY <1>1, <1>3, <1>4 DEF Now, TheScript

\* start_session and the first read of the workspace.
LEMMA BeginsHolds ==
    ASSUME HInv, driver.at \in TransitionAt, UNCHANGED script, NEW w \in Workspace,
           StartSession(w) \/ ReadDesired(w)
    PROVE  HInv'
<1>1. UNCHANGED serverVars /\ UNCHANGED <<docker, keyed>>
  BY DEF StartSession, ReadDesired, Call
<1>2. CASE Raise
  BY <1>1, <1>2, Failed, Untouched
<1>3. CASE Goto("read desired")
  <2>1. "read desired" \in At /\ "read desired" \notin AtAuthored \cup AtPlanned
        /\ "read desired" \in TransitionAt
    BY DEF At, TransitionAt, AtAuthored, AtPlanned
  <2>2. driver'.at = "read desired" /\ driver'.step = driver.step /\ driver' \in Driver
    BY <1>3, <2>1, Went
  <2> QED BY <1>1, <2>1, <2>2, WentOn, Untouched
<1>4. CASE driver' = [driver EXCEPT !.at = "set desired", !.seen = space[w].revision]
  <2>1. "set desired" \in At /\ "set desired" \notin AtAuthored \cup AtPlanned
        /\ "set desired" \in TransitionAt
    BY DEF At, TransitionAt, AtAuthored, AtPlanned
  <2>2. space[w].revision \in Nat
    <3>1. space[w] \in Space /\ MaxRevision \in Nat
      BY BoundAssumption DEF HInv, TypeOK
    <3> QED BY <3>1 DEF Space
  <2>3. driver'.at = "set desired" /\ driver'.step = driver.step /\ driver' \in Driver
    BY <1>4, <2>1, <2>2 DEF HInv, TypeOK, Driver
  <2> QED BY <1>1, <2>1, <2>3, WentOn, Untouched
<1> QED BY <1>2, <1>3, <1>4 DEF StartSession, ReadDesired, Call

\* set_desired_graph.
LEMMA SetDesiredHolds ==
    ASSUME HInv, driver.at \in TransitionAt, UNCHANGED script, NEW w \in Workspace,
           SetDesired(w, Now.nodes)
    PROVE  HInv'
<1>1. UNCHANGED <<docker, keyed>>
  BY DEF SetDesired
<1>2. CASE UNCHANGED serverVars /\ Raise
  BY <1>1, <1>2, Failed, Untouched
<1>3. ASSUME driver.seen < MaxRevision,
             space' = [space EXCEPT ![w].desired = Authored(w, Now.nodes),
                                    ![w].revision = driver.seen + 1],
             UNCHANGED <<change, spent>>
      PROVE  HInv'
  <2> DEFINE g == Authored(w, Now.nodes)
  <2>1. Now.nodes \subseteq Node
    <3>1. Within
      BY DEF HInv, Placed
    <3> QED BY <3>1, AtAStep DEF ScriptStep
  <2>2. driver.seen + 1 \in 0 .. MaxRevision
    <3>1. driver.seen \in Nat /\ MaxRevision \in Nat
      BY BoundAssumption DEF HInv, TypeOK, Driver
    <3> QED BY <1>3, <3>1
  <2>3. g \in Graph /\ g.nodes = Now.nodes
    BY <2>1, <2>2 DEF Authored, Graph
  <2> HIDE DEF g
  <2>4. space' \in [Workspace -> Space] /\ SameCreated
    <3>1. /\ space' = [space EXCEPT ![w] = [[space[w] EXCEPT !.desired = g]
                                                      EXCEPT !.revision = driver.seen + 1]]
      BY <1>3 DEF g
    <3>2. space[w] \in Space /\ space \in [Workspace -> Space]
      BY DEF HInv, TypeOK
    <3>3. /\ [[space[w] EXCEPT !.desired = g] EXCEPT !.revision = driver.seen + 1] \in Space
          /\ [[space[w] EXCEPT !.desired = g] EXCEPT !.revision = driver.seen + 1].created
             = space[w].created
      BY <2>2, <2>3, <3>2 DEF Space
    <3> QED BY <3>1, <3>2, <3>3 DEF SameCreated
  <2>5. ServerTyped'
    BY <1>3, <2>4 DEF ServerTyped, HInv, TypeOK
  <2>6. CASE Raise
    BY <1>1, <2>4, <2>5, <2>6, Failed
  <2>7. CASE driver' = [driver EXCEPT !.at = "read current", !.authored = Authored(w, Now.nodes)]
    <3>1. /\ "read current" \in At /\ "read current" \notin AtPlanned
          /\ "read current" \in TransitionAt
      BY DEF At, TransitionAt, AtAuthored, AtPlanned
    <3>2. /\ driver'.at = "read current" /\ driver'.step = driver.step /\ driver' \in Driver
          /\ driver'.authored = g
      BY <2>3, <2>7, <3>1 DEF HInv, TypeOK, Driver, g
    <3> QED BY <1>1, <2>3, <2>4, <2>5, <3>1, <3>2, WentOn
  <2> QED BY <1>3, <2>6, <2>7 DEF SetDesired, Call, serverVars
<1> QED BY <1>2, <1>3 DEF SetDesired, Call

\* plan_transition: the plan is for the graph the driver authored.
LEMMA PlansHolds ==
    ASSUME HInv, driver.at \in TransitionAt, UNCHANGED script, NEW w \in Workspace,
           ReadCurrent(w) \/ PlanTransition(w)
    PROVE  HInv'
<1>1. UNCHANGED <<docker, keyed>>
  BY DEF ReadCurrent, PlanTransition
<1>2. CASE UNCHANGED serverVars /\ Raise
  BY <1>1, <1>2, Failed, Untouched
<1>3. CASE UNCHANGED serverVars /\ driver.at = "read current" /\ Goto("plan")
  <2>1. /\ "plan" \in At /\ "plan" \notin AtPlanned /\ "plan" \in TransitionAt
        /\ "plan" # "sync" /\ "read current" \in AtAuthored
    BY DEF At, TransitionAt, AtAuthored, AtPlanned
  <2>2. /\ driver'.at = "plan" /\ driver'.step = driver.step /\ driver' \in Driver
        /\ driver'.authored = driver.authored
    BY <1>3, <2>1, Went
  <2>3. driver.authored.nodes = Now.nodes
    BY <1>3, <2>1 DEF HInv, Placed
  <2> QED BY <1>1, <1>3, <2>1, <2>2, <2>3, WentOn, Untouched
<1>4. ASSUME driver.at = "plan", UNCHANGED <<space, spent>>,
             change' = [run |-> "planned", base |-> driver.current,
                        wanted |-> driver.authored, generation |-> 0, stepped |-> {},
                        others |-> change.others]
      PROVE  HInv'
  <2>1. change' \in Change /\ change'.wanted = driver.authored
    <3>1. driver \in Driver /\ change \in Change /\ "planned" \in Run
      BY DEF HInv, TypeOK, Run
    <3> QED BY <1>4, <3>1 DEF Change, Driver
  <2>2. ServerTyped' /\ SameCreated
    BY <1>4, <2>1 DEF ServerTyped, HInv, TypeOK, SameCreated
  <2>3. CASE Raise
    BY <1>1, <2>2, <2>3, Failed
  <2>4. CASE Goto("request")
    <3>1. /\ "request" \in At /\ "request" \in TransitionAt /\ "plan" \in AtAuthored
      BY DEF At, TransitionAt, AtAuthored
    <3>2. /\ driver'.at = "request" /\ driver'.step = driver.step /\ driver' \in Driver
          /\ driver'.authored = driver.authored
      BY <2>4, <3>1, Went
    <3>3. driver.authored.nodes = Now.nodes
      BY <1>4, <3>1 DEF HInv, Placed
    <3> QED BY <1>1, <2>1, <2>2, <3>1, <3>2, <3>3, WentOn
  <2> QED BY <1>4, <2>3, <2>4 DEF PlanTransition, Call, ReadCurrent, serverVars
<1> QED BY <1>2, <1>3, <1>4 DEF ReadCurrent, PlanTransition, Call

\* What is wanted stays what was planned.
LEMMA Planned ==
    ASSUME HInv, driver.at \in AtPlanned
    PROVE  driver.authored.nodes = Now.nodes /\ change.wanted = driver.authored
  BY DEF HInv, Placed, AtPlanned

\* The approval's calls: each moves the plan on, and the driver with it.
LEMMA MovesHolds ==
    ASSUME HInv, driver.at \in AtPlanned, UNCHANGED script,
           NEW at, NEW from, NEW to \in Run,
           NEW next \in AtPlanned \ {"sync", "resync", "advance", "read back"},
           Moves(at, from, to, next)
    PROVE  HInv'
<1>1. UNCHANGED <<docker, keyed>>
  BY DEF Moves
<1>2. CASE UNCHANGED serverVars /\ Raise
  BY <1>1, <1>2, Failed, Untouched
<1>3. ASSUME UNCHANGED <<space, spent>>, change' = [change EXCEPT !.run = to]
      PROVE  HInv'
  <2>1. change' \in Change /\ change'.wanted = change.wanted
    BY <1>3 DEF HInv, TypeOK, Change
  <2>2. ServerTyped' /\ SameCreated
    BY <1>3, <2>1 DEF ServerTyped, HInv, TypeOK, SameCreated
  <2>3. CASE Raise
    BY <1>1, <2>2, <2>3, Failed
  <2>4. CASE Goto(next)
    <3>1. next \in At /\ next \in TransitionAt /\ driver.at \in TransitionAt
      BY DEF At, AtPlanned, AtAuthored
    <3>2. /\ driver'.at = next /\ driver'.step = driver.step /\ driver' \in Driver
          /\ driver'.authored = driver.authored
      BY <2>4, <3>1, Went
    <3> QED BY <1>1, <2>1, <2>2, <3>1, <3>2, Planned, WentOn
  <2> QED BY <1>3, <2>3, <2>4 DEF Moves, Call, serverVars
<1> QED BY <1>2, <1>3 DEF Moves, Call

LEMMA ApprovalHolds ==
    ASSUME HInv, driver.at \in TransitionAt, UNCHANGED script,
           RequestApproval \/ AssertVisible \/ Approve \/ AdmitPlan
    PROVE  HInv'
<1>1. driver.at \in {"request", "visible", "approve", "admit"}
  BY DEF RequestApproval, AssertVisible, Approve, AdmitPlan, Moves
<1>2. driver.at \in AtPlanned
  BY <1>1 DEF AtPlanned, AtAuthored, TransitionAt
<1>3. /\ {"pending", "approved", "admitted"} \subseteq Run
      /\ {"visible", "approve", "admit", "claim"}
         \subseteq AtPlanned \ {"sync", "resync", "advance", "read back"}
  BY DEF Run, AtPlanned, AtAuthored, TransitionAt
<1> QED BY <1>2, <1>3, MovesHolds DEF RequestApproval, AssertVisible, Approve, AdmitPlan

\* Claim and start_run: what the driver holds is what the server recorded.
LEMMA StartsHolds ==
    ASSUME HInv, driver.at \in TransitionAt, UNCHANGED script,
           Claim \/ StartRun(Now.synced)
    PROVE  HInv'
<1>1. UNCHANGED <<docker, keyed>> /\ driver.at \in AtPlanned
  BY DEF Claim, StartRun, AtPlanned, AtAuthored, TransitionAt
<1>2. CASE UNCHANGED serverVars /\ Raise
  BY <1>1, <1>2, Failed, Untouched
<1>3. ASSUME UNCHANGED <<space, spent>>,
             change' \in Change, change'.wanted = change.wanted,
             \/ Raise
             \/ driver' = [driver EXCEPT !.at = "start", !.generation = 1]
             \/ driver' = [driver EXCEPT !.at = IF Now.synced THEN "sync" ELSE "execute",
                                         !.attempt = 0]
      PROVE  HInv'
  <2>1. ServerTyped' /\ SameCreated
    BY <1>3 DEF ServerTyped, HInv, TypeOK, SameCreated
  <2>2. CASE Raise
    BY <1>1, <2>1, <2>2, Failed
  <2>3. ASSUME NEW x \in {"start", "sync", "execute"}, x = "sync" => Now.synced,
               \/ driver' = [driver EXCEPT !.at = x, !.generation = 1]
               \/ driver' = [driver EXCEPT !.at = x, !.attempt = 0]
        PROVE  HInv'
    <3>1. x \in At /\ x \in TransitionAt \ {"resync", "advance", "read back"}
      BY <2>3 DEF At, TransitionAt
    <3>2. /\ driver'.at = x /\ driver'.step = driver.step /\ driver' \in Driver
          /\ driver'.authored = driver.authored
      <4>1. driver \in Driver
        BY DEF HInv, TypeOK
      <4>2. CASE driver' = [driver EXCEPT !.at = x, !.generation = 1]
        BY <3>1, <4>1, <4>2 DEF Driver
      <4>3. CASE driver' = [driver EXCEPT !.at = x, !.attempt = 0]
        BY <3>1, <4>1, <4>3 DEF Driver
      <4> QED BY <2>3, <4>2, <4>3
    <3> QED BY <1>1, <1>3, <2>1, <2>3, <3>1, <3>2, Planned, WentOn
  <2> QED BY <1>3, <2>2, <2>3
<1>4. ASSUME \/ change' = [change EXCEPT !.run = "claimed", !.generation = 1]
             \/ change' = [change EXCEPT !.run = "running"]
      PROVE  change' \in Change /\ change'.wanted = change.wanted
  <2>1. {"claimed", "running"} \subseteq Run
    BY DEF Run
  <2>2. change \in Change
    BY DEF HInv, TypeOK
  <2>3. CASE change' = [change EXCEPT !.run = "claimed", !.generation = 1]
    BY <2>1, <2>2, <2>3 DEF Change
  <2>4. CASE change' = [change EXCEPT !.run = "running"]
    BY <2>1, <2>2, <2>4 DEF Change
  <2> QED BY <1>4, <2>3, <2>4
<1> QED BY <1>2, <1>3, <1>4 DEF Claim, StartRun, Call

\* A step of a transition that changes what runs in its own workspace only, and joins
\* the networks only if it is to.
LEMMA Worked ==
    ASSUME HInv, driver.at \in TransitionAt, UNCHANGED script, driver'.step = driver.step,
           driver'.at \notin Idle, SameCreated, docker' \in [Workspace -> Docker],
           \A w \in Workspace : w # Now.w => docker'[w] = docker[w],
           LET d == docker[Now.w]  e == docker'[Now.w]
           IN /\ d.volume => e.volume
              /\ ~e.network => e.nodes = {} /\ e.attached = {}
              /\ e.attached # {} => d.attached # {} \/ Now.synced
    PROVE  Accounted' /\ Lasting' /\ Recorded'
<1> DEFINE i == driver.step
<1>1. /\ i \in 1 .. Len(TheScript) /\ TheScript' = TheScript
      /\ Now = TheScript[i] /\ Now.op = "transition" /\ Now.w \in Workspace
  BY AtAStep DEF HInv, Placed, ScriptStep, TheScript
<1>2. Opened(TheScript, Now.w, i)
  <2>1. i \in Nat /\ i \in 1 .. i /\ i <= Len(TheScript)
    BY <1>1, AtAStep
  <2>2. \A k \in i + 1 .. i - 1 : FALSE
    BY <2>1
  <2>3. Without(TheScript, "no networks", Now.w, i, i)
    BY <2>2 DEF Without
  <2> QED BY <1>1, <2>1, <2>3 DEF Opened
<1>3. Now.synced => Joined(TheScript, Now.w, i)
  BY <1>1 DEF Joined, Without, Joins
<1>4. Accounted'
  BY <1>1, <1>2, <1>3 DEF Accounted, HInv
<1>5. Lasting'
  BY DEF Lasting
<1>6. Recorded'
  <2>1. \A w \in Workspace : space'[w].created => space[w].created
    BY DEF SameCreated
  <2>2. \A j \in 1 .. i - 1 : TheScript[j].w \in Workspace
    <3>1. \A j \in 1 .. i - 1 : TheScript[j] \in ScriptStep
      BY <1>1, AtAStep
    <3> QED BY <3>1 DEF ScriptStep
  <2>3. \A w \in Workspace : docker[w].volume => docker'[w].volume
    OBVIOUS
  <2> QED BY <1>1, <2>1, <2>2, <2>3 DEF Recorded, HInv
<1> QED BY <1>4, <1>5, <1>6

\* Joining the networks that are there.
LEMMA Joining ==
    ASSUME HInv, NEW w \in Workspace,
           docker' = [docker EXCEPT ![w].attached = IF docker[w].network THEN Attached ELSE @]
    PROVE  /\ docker' \in [Workspace -> Docker]
           /\ \A v \in Workspace : v # w => docker'[v] = docker[v]
           /\ docker'[w].network = docker[w].network /\ docker'[w].nodes = docker[w].nodes
           /\ docker'[w].volume = docker[w].volume
           /\ docker'[w].attached = IF docker[w].network THEN Attached ELSE docker[w].attached
<1> DEFINE a == IF docker[w].network THEN Attached ELSE docker[w].attached
<1>1. docker \in [Workspace -> Docker]
  BY DEF HInv, TypeOK
<1>2. docker' = [docker EXCEPT ![w] = [docker[w] EXCEPT !.attached = a]]
  OBVIOUS
<1>3. a \in SUBSET Attached /\ docker[w] \in Docker
  BY <1>1 DEF Docker
<1> HIDE DEF a
<1>4. /\ [docker[w] EXCEPT !.attached = a] \in Docker
      /\ [docker[w] EXCEPT !.attached = a].network = docker[w].network
      /\ [docker[w] EXCEPT !.attached = a].nodes = docker[w].nodes
      /\ [docker[w] EXCEPT !.attached = a].volume = docker[w].volume
      /\ [docker[w] EXCEPT !.attached = a].attached = a
  BY <1>3 DEF Docker
<1> QED BY <1>1, <1>2, <1>4 DEF a

\* What runs still is what is wanted if neither has changed.
LEMMA StillMatches ==
    ASSUME Matches(Now.w), Now' = Now, change'.wanted = change.wanted,
           docker'[Now.w].nodes = docker[Now.w].nodes,
           docker'[Now.w].network = docker[Now.w].network
    PROVE  Matches(Now.w)'
  BY DEF Matches, Differs, Wanted

\* Where the attempts go on.
LEMMA Again ==
    ASSUME HInv, NEW synced \in BOOLEAN, NextAttempt(synced)
    PROVE  \/ Raise
           \/ /\ driver' \in Driver /\ driver'.step = driver.step
              /\ driver'.authored = driver.authored
              /\ driver'.at = IF synced THEN "sync" ELSE "execute"
<1>1. CASE driver.attempt + 1 < MaxAttempts
  <2>1. driver \in Driver /\ {"sync", "execute"} \subseteq At
    BY DEF HInv, TypeOK, At, TransitionAt
  <2>2. driver' = [driver EXCEPT !.at = IF synced THEN "sync" ELSE "execute",
                                 !.attempt = @ + 1]
    BY <1>1 DEF NextAttempt
  <2> DEFINE x == IF synced THEN "sync" ELSE "execute"
  <2>3. x \in At
    BY <2>1
  <2>4. driver' = [driver EXCEPT !.at = x, !.attempt = @ + 1]
    BY <2>2
  <2> DEFINE n == driver.attempt + 1
  <2>6. n \in Nat /\ driver' = [driver EXCEPT !.at = x, !.attempt = n]
    BY <2>1, <2>4 DEF Driver
  <2> HIDE DEF x, n
  <2>5. /\ driver' \in Driver /\ driver'.step = driver.step
        /\ driver'.authored = driver.authored /\ driver'.at = x
    BY <2>1, <2>3, <2>6 DEF Driver
  <2> QED BY <2>5 DEF x
<1>2. CASE ~(driver.attempt + 1 < MaxAttempts)
  BY <1>2 DEF NextAttempt
<1> QED BY <1>1, <1>2

\* _sync_runtime_networks around an attempt.
LEMMA SyncsHolds ==
    ASSUME HInv, driver.at \in TransitionAt, UNCHANGED script, Sync(Now.w) \/ Resync(Now.w)
    PROVE  HInv'
<1> DEFINE w == Now.w
<1>1. /\ UNCHANGED <<space, change, spent, keyed>> /\ driver.at \in AtPlanned
      /\ driver.at \in {"sync", "resync"}
  BY DEF Sync, Resync, SyncNetworks, serverVars, AtPlanned, AtAuthored, TransitionAt
<1>2. /\ w \in Workspace /\ Now.synced /\ TheScript' = TheScript
      /\ Within /\ Now.op = "transition"
  BY <1>1, AtAStep DEF HInv, Placed, Completed, ScriptStep, TheScript
<1>3. CASE Raise /\ UNCHANGED docker
  BY <1>1, <1>3, Failed, Untouched DEF serverVars
<1>4. ASSUME docker' = [docker EXCEPT ![w].attached = IF docker[w].network THEN Attached
                                                                           ELSE @]
      PROVE  /\ docker' \in [Workspace -> Docker]
             /\ \A v \in Workspace : v # w => docker'[v] = docker[v]
             /\ docker'[w].network = docker[w].network /\ docker'[w].nodes = docker[w].nodes
             /\ docker'[w].volume = docker[w].volume
             /\ docker'[w].attached = IF docker[w].network THEN Attached
                                                           ELSE docker[w].attached
  BY <1>2, <1>4, Joining
<1>5. ASSUME docker' = [docker EXCEPT ![w].attached = IF docker[w].network THEN Attached
                                                                           ELSE @],
             NEW x \in {"failed", "sync", "execute", "advance"},
             driver'.at = x, driver' \in Driver, driver'.step = driver.step,
             x # "failed" => driver'.authored = driver.authored,
             x = "advance" => driver.at = "resync" /\ driver.status = "completed"
                              /\ docker[w].network
      PROVE  HInv'
  <2>1. ServerTyped' /\ SameCreated
    BY <1>1, Untouched DEF serverVars
  <2>2. Now' = Now /\ (Within <=> Within')
    BY <1>2, <1>5 DEF Now, TheScript, Within
  <2>3. Placed'
    <3>1. driver.authored.nodes = Now.nodes /\ change.wanted = driver.authored
      BY <1>1, Planned
    <3> QED BY <1>1, <1>2, <1>5, <2>2, <3>1
          DEF Placed, TransitionAt, AtAuthored, AtPlanned
  <2>4. Completed'
    <3>1. CASE x = "advance"
      <4>1. change.run = "succeeded" /\ Matches(w)
        BY <1>5, <3>1 DEF HInv, Completed
      <4>2. Matches(w)'
        BY <1>1, <1>4, <1>5, <2>2, <4>1, StillMatches
      <4>3. docker'[w].attached = Attached
        BY <1>4, <1>5, <3>1
      <4> QED BY <1>1, <1>2, <1>5, <2>2, <3>1, <4>1, <4>2, <4>3 DEF Completed
    <3>2. CASE x # "advance"
      BY <1>2, <1>5, <2>2, <3>2 DEF Completed
    <3> QED BY <3>1, <3>2
  <2>5. Accounted' /\ Lasting' /\ Recorded'
    <3>1. driver'.at \notin Idle
      BY <1>5 DEF Idle
    <3>2. /\ docker[w].volume => docker'[w].volume
          /\ ~docker'[w].network => docker'[w].nodes = {} /\ docker'[w].attached = {}
      BY <1>2, <1>4, <1>5 DEF HInv, Accounted
    <3> QED BY <1>2, <1>4, <1>5, <2>1, <3>1, <3>2, Worked
  <2>6. TypeOK'
    BY <1>1, <1>2, <1>4, <1>5, <2>1 DEF HInv, TypeOK, ServerTyped
  <2> QED BY <2>3, <2>4, <2>5, <2>6 DEF HInv
<1>6. CASE Sync(w)
  <2>1. SUFFICES ASSUME docker' = [docker EXCEPT ![w].attached = IF docker[w].network
                                                                 THEN Attached ELSE @],
                        Goto("execute")
                 PROVE  HInv'
    BY <1>3, <1>6 DEF Sync, SyncNetworks
  <2>2. "execute" \in At
    BY DEF At, TransitionAt
  <2> QED BY <1>5, <2>1, <2>2, Went
<1>7. CASE Resync(w)
  <2>1. SUFFICES ASSUME docker' = [docker EXCEPT ![w].attached = IF docker[w].network
                                                                 THEN Attached ELSE @],
                        driver.at = "resync",
                        driver.status = "completed" => docker[w].network,
                        \/ driver.status = "completed" /\ Goto("advance")
                        \/ NextAttempt(TRUE)
                        \/ Raise
                 PROVE  HInv'
    BY <1>3, <1>7 DEF Resync, SyncNetworks
  <2>2. CASE Raise
    BY <1>5, <2>1, <2>2, Raised
  <2>3. CASE driver.status = "completed" /\ Goto("advance")
    <3>1. "advance" \in At
      BY DEF At, TransitionAt
    <3> QED BY <1>5, <2>1, <2>3, <3>1, Went
  <2>4. CASE NextAttempt(TRUE)
    BY <1>5, <2>1, <2>2, <2>4, Again
  <2> QED BY <2>1, <2>2, <2>3, <2>4
<1> QED BY <1>6, <1>7

\* What a driver that has taken an answer does next; only a completed run of its own
\* brings it to the end of the attempts.
LEMMA Taken ==
    ASSUME HInv, UNCHANGED script, NEW synced \in BOOLEAN, NEW a, a.status \in Status,
           Take(a, synced)
    PROVE  /\ driver'.step = driver.step /\ driver' \in Driver
           /\ \/ Raise
              \/ /\ driver'.authored = driver.authored /\ ExecuteValid(a)
                 /\ \/ driver'.at = "resync" /\ synced /\ driver'.status = a.status
                    \/ driver'.at = "advance" /\ ~synced /\ a.status = "completed"
                    \/ driver'.at = "sync" /\ synced
                    \/ driver'.at = "execute"
<1>1. CASE Raise
  BY <1>1, Raised
<1>2. CASE ExecuteValid(a) /\ driver' = [driver EXCEPT !.at = "resync", !.status = a.status]
           /\ synced
  <2>1. driver \in Driver /\ "resync" \in At
    BY DEF HInv, TypeOK, At, TransitionAt
  <2> QED BY <1>2, <2>1 DEF Driver
<1>3. CASE ExecuteValid(a) /\ ~synced /\ a.status = "completed" /\ Goto("advance")
  <2>1. "advance" \in At
    BY DEF At, TransitionAt
  <2> QED BY <1>3, <2>1, Went
<1>4. CASE ExecuteValid(a) /\ NextAttempt(synced)
  BY <1>1, <1>4, Again
<1> QED BY <1>1, <1>2, <1>3, <1>4 DEF Take

\* An effect of a run changes its own workspace, keeps what is to be kept and removes
\* a network only when nothing is left in it.
LEMMA EffectMade ==
    ASSUME HInv, NEW w \in Workspace, Effect(w), change.wanted.nodes \subseteq Node
    PROVE  /\ docker' \in [Workspace -> Docker]
           /\ \A v \in Workspace : v # w => docker'[v] = docker[v]
           /\ docker[w].volume => docker'[w].volume
           /\ docker'[w].attached = docker[w].attached
           /\ ~docker'[w].network => docker'[w].nodes = {} /\ docker'[w].attached = {}
           /\ change' \in Change /\ change'.wanted = change.wanted
<1>1. /\ docker \in [Workspace -> Docker] /\ docker[w] \in Docker /\ change \in Change
      /\ docker[w].nodes \in SUBSET Node /\ docker[w].volume \in BOOLEAN
  BY DEF HInv, TypeOK, Docker
<1>2. CASE CreateNetwork(w)
  <2>1. docker' = [docker EXCEPT ![w] = [docker[w] EXCEPT !.network = TRUE]]
        /\ UNCHANGED change
    BY <1>2 DEF CreateNetwork
  <2>2. LET e == [docker[w] EXCEPT !.network = TRUE]
        IN /\ e \in Docker /\ e.network /\ e.attached = docker[w].attached
           /\ e.volume = docker[w].volume
    BY <1>1 DEF Docker
  <2> QED BY <1>1, <2>1, <2>2
<1>3. CASE RemoveNetwork(w)
  <2>1. docker' = [docker EXCEPT ![w] = [docker[w] EXCEPT !.network = FALSE]]
        /\ UNCHANGED change /\ docker[w].attached = {}
    BY <1>3 DEF RemoveNetwork
  <2>2. docker[w].nodes = {}
    <3>1. SUFFICES ASSUME NEW n \in docker[w].nodes PROVE FALSE
      OBVIOUS
    <3>2. n.role \in Role
      BY <1>1 DEF Node
    <3>3. Wanted(w) = {} /\ Differs(w) = {}
      BY <1>3 DEF RemoveNetwork
    <3>4. {m \in docker[w].nodes : m.role = n.role} = {m \in Wanted(w) : m.role = n.role}
      BY <3>2, <3>3 DEF Differs
    <3> QED BY <3>3, <3>4
  <2>3. LET e == [docker[w] EXCEPT !.network = FALSE]
        IN /\ e \in Docker /\ e.attached = docker[w].attached
           /\ e.nodes = docker[w].nodes /\ e.volume = docker[w].volume
    BY <1>1 DEF Docker
  <2> QED BY <1>1, <2>1, <2>2, <2>3
<1>4. ASSUME NEW role \in Role, Reconcile(w, role)
      PROVE  /\ docker' \in [Workspace -> Docker]
             /\ \A v \in Workspace : v # w => docker'[v] = docker[v]
             /\ docker[w].volume => docker'[w].volume
             /\ docker'[w].attached = docker[w].attached
             /\ docker'[w].network
             /\ change' \in Change /\ change'.wanted = change.wanted
  <2> DEFINE nodes == {n \in docker[w].nodes : n.role # role}
                      \cup {n \in Wanted(w) : n.role = role}
             volume == docker[w].volume \/ (role = "postgres")
             e == [[docker[w] EXCEPT !.nodes = nodes] EXCEPT !.volume = volume]
  <2>1. docker' = [docker EXCEPT ![w] = e] /\ docker[w].network
    BY <1>4 DEF Reconcile
  <2>2. nodes \in SUBSET Node /\ volume \in BOOLEAN
    BY <1>1 DEF Wanted
  <2>3. docker[w].volume => volume
    OBVIOUS
  <2> HIDE DEF nodes, volume
  <2>4. /\ e \in Docker /\ e.network = docker[w].network
        /\ e.attached = docker[w].attached /\ e.volume = volume
    BY <1>1, <2>2 DEF Docker
  <2>5. change' \in Change /\ change'.wanted = change.wanted
    <3>1. change' = [change EXCEPT !.stepped = change.stepped \cup {role}]
      BY <1>4 DEF Reconcile
    <3>2. change.stepped \cup {role} \in SUBSET Role
      BY <1>1, <1>4 DEF Change
    <3> QED BY <1>1, <3>1, <3>2 DEF Change
  <2> HIDE DEF e
  <2> QED BY <1>1, <2>1, <2>3, <2>4, <2>5
<1> QED BY <1>2, <1>3, <1>4 DEF Effect

\* An attempt that is answered, or not.
LEMMA Attempted ==
    ASSUME HInv, driver.at = "execute", UNCHANGED <<script, space, keyed>>,
           spent' \in [Workspace -> Nat], change' \in Change, change'.wanted = change.wanted,
           docker' \in [Workspace -> Docker],
           \A w \in Workspace : w # Now.w => docker'[w] = docker[w],
           docker[Now.w].volume => docker'[Now.w].volume,
           docker'[Now.w].attached = docker[Now.w].attached,
           ~docker'[Now.w].network => docker'[Now.w].nodes = {}
                                      /\ docker'[Now.w].attached = {},
           NEW a, a.status \in Status, Take(a, Now.synced) \/ Raise,
           ExecuteValid(a) /\ a.status = "completed"
           => change'.run = "succeeded" /\ Matches(Now.w)'
    PROVE  HInv'
<1>1. driver.at \in AtPlanned /\ driver.at \in TransitionAt
  BY DEF AtPlanned, AtAuthored, TransitionAt
<1>2. /\ Now.synced \in BOOLEAN /\ TheScript' = TheScript
      /\ Within /\ Now.op = "transition"
  BY <1>1, AtAStep DEF HInv, Placed, ScriptStep, TheScript
<1>3. /\ driver'.step = driver.step /\ driver' \in Driver
      /\ \/ Raise
         \/ /\ driver'.authored = driver.authored /\ ExecuteValid(a)
            /\ \/ driver'.at = "resync" /\ Now.synced /\ driver'.status = a.status
               \/ driver'.at = "advance" /\ ~Now.synced /\ a.status = "completed"
               \/ driver'.at = "sync" /\ Now.synced
               \/ driver'.at = "execute"
  BY <1>2, Taken, Raised
<1>4. Now' = Now /\ (Within <=> Within')
  BY <1>2, <1>3 DEF Now, TheScript, Within
<1>5. SameCreated /\ TypeOK'
  BY <1>2, <1>3 DEF HInv, TypeOK, SameCreated
<1>6. Placed' /\ Completed' /\ driver'.at \notin Idle
  <2>1. CASE Raise
    BY <2>1, Raised DEF Idle
  <2>2. CASE ~Raise
    <3>1. driver.authored.nodes = Now.nodes /\ change.wanted = driver.authored
      BY <1>1, Planned
    <3>2. Placed'
      BY <1>2, <1>3, <1>4, <2>2, <3>1 DEF Placed, TransitionAt, AtAuthored, AtPlanned
    <3>3. Completed'
      BY <1>2, <1>3, <1>4, <2>2 DEF Completed
    <3> QED BY <1>3, <2>2, <3>2, <3>3 DEF Idle
  <2> QED BY <2>1, <2>2
<1>7. Accounted' /\ Lasting' /\ Recorded'
  BY <1>1, <1>3, <1>5, <1>6, Worked
<1> QED BY <1>5, <1>6, <1>7 DEF HInv

\* _execute_to_completion.
LEMMA ExecuteHolds ==
    ASSUME HInv, driver.at \in TransitionAt, UNCHANGED script, Execute(Now.w, Now.synced)
    PROVE  HInv'
<1> DEFINE w == Now.w
           synced == Now.synced
           Kept == UNCHANGED docker /\ change' \in Change /\ change'.wanted = change.wanted
<1>1. /\ driver.at = "execute" /\ UNCHANGED <<space, keyed>> /\ driver.at \in AtPlanned
  BY DEF Execute, AtPlanned, AtAuthored, TransitionAt
<1>2. /\ w \in Workspace /\ synced \in BOOLEAN /\ TheScript' = TheScript
      /\ Now.nodes \subseteq Node /\ change.wanted.nodes = Now.nodes
  BY <1>1, AtAStep, Planned DEF HInv, Placed, ScriptStep, TheScript
<1>3. spent' \in [Workspace -> Nat]
  <2>1. spent \in [Workspace -> Nat] /\ driver.attempt \in Nat
    BY DEF HInv, TypeOK, Driver
  <2>2. \E n \in Nat : spent' = [spent EXCEPT ![w] = n]
    <3>1. spent[w] \in Nat /\ driver.attempt + 1 \in Nat
      BY <1>2, <2>1
    <3> QED BY <3>1 DEF Execute
  <2> QED BY <1>2, <2>1, <2>2
<1>4. /\ docker \in [Workspace -> Docker] /\ change \in Change
      /\ ~docker[w].network => docker[w].nodes = {} /\ docker[w].attached = {}
  BY <1>2 DEF HInv, TypeOK, Accounted
<1>5. ASSUME NEW a, a.status \in Status, Take(a, synced) \/ Raise, Kept,
             ~(ExecuteValid(a) /\ a.status = "completed")
      PROVE  HInv'
  BY <1>1, <1>2, <1>3, <1>4, <1>5, Attempted
<1>6. CASE Raise /\ UNCHANGED <<change, docker>>
  <2> DEFINE a == Answer("failed", "failed", 1, TRUE)
  <2>1. a.status = "failed" /\ a.status \in Status
    BY DEF Answer, Status
  <2> HIDE DEF a
  <2> QED BY <1>4, <1>5, <1>6, <2>1
<1>7. CASE Repeated(w, synced)
  <2>1. PICK b \in {Answer("running", "progressed", 1, TRUE),
                    Answer("succeeded", "completed", 0, FALSE)} :
            Take([b EXCEPT !.own = FALSE], synced)
    BY <1>7 DEF Repeated
  <2>2. UNCHANGED <<change, docker>>
    BY <1>7 DEF Repeated
  <2> DEFINE a == [b EXCEPT !.own = FALSE]
  <2>3. a.status \in Status /\ a.own = FALSE
    BY <2>1 DEF Answer, Status
  <2>4. ~ExecuteValid(a)
    BY <2>3 DEF ExecuteValid
  <2> HIDE DEF a
  <2>5. Take(a, synced)
    BY <2>1 DEF a
  <2> QED BY <1>4, <1>5, <2>2, <2>3, <2>4, <2>5
<1>8. CASE Progress(w, synced)
  <2>1. PICK a \in {Answer("running", "progressed", 1, TRUE),
                    Answer("running", "uncertain", 1, TRUE)} :
            Take(a, synced) \/ Raise
    BY <1>8 DEF Progress
  <2>2. a.status \in Status /\ a.status # "completed"
    BY <2>1 DEF Answer, Status
  <2>3. Effect(w)
    BY <1>8 DEF Progress
  <2> QED BY <1>1, <1>2, <1>3, <2>1, <2>2, <2>3, EffectMade, Attempted
<1>9. CASE Waits(synced)
  <2>1. PICK a \in {Answer("running", "in-flight", 0, TRUE),
                    Answer("running", "completed", 0, FALSE)} : Take(a, synced)
    BY <1>9 DEF Waits
  <2>2. a.status \in Status /\ ~(ExecuteValid(a) /\ a.status = "completed")
    BY <2>1 DEF Answer, Status, ExecuteValid
  <2>3. UNCHANGED <<change, docker>>
    BY <1>9 DEF Waits
  <2> QED BY <1>4, <1>5, <2>1, <2>2, <2>3
<1>10. ASSUME NEW run \in Run, NEW a, Ends(run, a, synced)
       PROVE  Kept /\ change'.run = run /\ (Take(a, synced) \/ Raise)
  BY <1>4, <1>10 DEF Ends, Change
<1>11. CASE Matches(w) /\ Ends("succeeded", Answer("succeeded", "completed", 0, FALSE), synced)
  <2> DEFINE a == Answer("succeeded", "completed", 0, FALSE)
  <2>1. a.status \in Status /\ "succeeded" \in Run
    BY DEF Answer, Status, Run
  <2> HIDE DEF a
  <2>2. Kept /\ change'.run = "succeeded" /\ (Take(a, synced) \/ Raise)
    BY <1>10, <1>11, <2>1 DEF a
  <2>3. driver'.step = driver.step
    BY <1>2, <2>1, <2>2, Taken, Raised
  <2>4. Now' = Now
    BY <1>2, <2>3 DEF Now, TheScript
  <2>5. Matches(w)'
    BY <1>11, <2>2, <2>4, StillMatches
  <2> QED BY <1>1, <1>2, <1>3, <1>4, <2>1, <2>2, <2>5, Attempted
<1>12. ASSUME NEW run \in {"failed", "paused"},
              NEW a \in {Answer("failed", "failed", 1, TRUE),
                         Answer("failed", "unsupported", 1, TRUE),
                         Answer("paused", "blocked", 0, FALSE)},
              Ends(run, a, synced)
       PROVE  HInv'
  <2>1. run \in Run /\ a.status \in Status /\ a.status # "completed"
    BY <1>12 DEF Answer, Status, Run
  <2> QED BY <1>5, <1>10, <1>12, <2>1
<1> QED BY <1>6, <1>7, <1>8, <1>9, <1>11, <1>12 DEF Execute

\* advance_current_graph moves the workspace's record and nothing that runs.
LEMMA AdvanceHolds ==
    ASSUME HInv, driver.at \in TransitionAt, UNCHANGED script, Advance(Now.w)
    PROVE  HInv'
<1>1. /\ UNCHANGED <<docker, keyed>> /\ driver.at = "advance" /\ driver.at \in AtPlanned
      /\ Now.w \in Workspace
  BY AtAStep DEF Advance, AtPlanned, AtAuthored, TransitionAt, HInv, Placed, ScriptStep
<1>2. CASE UNCHANGED serverVars /\ Raise
  BY <1>1, <1>2, Failed, Untouched
<1>3. ASSUME space' = [space EXCEPT ![Now.w].current = change.wanted],
             UNCHANGED <<change, spent>>, Raise \/ Goto("read back")
      PROVE  HInv'
  <2>1. ServerTyped' /\ SameCreated
    <3>1. space \in [Workspace -> Space] /\ change.wanted \in Graph
      BY DEF HInv, TypeOK, Change
    <3>2. space' = [space EXCEPT ![Now.w] = [space[Now.w] EXCEPT !.current = change.wanted]]
      BY <1>3
    <3>3. LET e == [space[Now.w] EXCEPT !.current = change.wanted]
          IN e \in Space /\ e.created = space[Now.w].created
      BY <1>1, <3>1 DEF Space
    <3>4. space' \in [Workspace -> Space] /\ SameCreated
      BY <1>1, <3>1, <3>2, <3>3 DEF SameCreated
    <3> QED BY <1>3, <3>4 DEF ServerTyped, HInv, TypeOK
  <2>2. CASE Raise
    BY <1>1, <2>1, <2>2, Failed
  <2>3. CASE Goto("read back")
    <3>1. "read back" \in At /\ "read back" \notin Idle
      BY DEF At, TransitionAt, Idle
    <3>2. /\ driver'.at = "read back" /\ driver'.step = driver.step /\ driver' \in Driver
          /\ driver'.authored = driver.authored
      BY <2>3, <3>1, Went
    <3>3. Now' = Now /\ Within' /\ Now.op = "transition"
      BY <1>1, <3>2 DEF Now, Within, TheScript, HInv, Placed, AtPlanned, AtAuthored
    <3>4. Placed'
      <4>1. driver.authored.nodes = Now.nodes /\ change.wanted = driver.authored
        BY <1>1, Planned
      <4> QED BY <1>3, <3>2, <3>3, <4>1 DEF Placed, TransitionAt, AtAuthored, AtPlanned
    <3>5. Completed'
      <4>1. change.run = "succeeded" /\ Matches(Now.w)
            /\ (Now.synced => docker[Now.w].attached = Attached)
        BY <1>1 DEF HInv, Completed
      <4>2. Matches(Now.w)'
        BY <1>1, <1>3, <3>3, <4>1, StillMatches
      <4> QED BY <1>1, <1>3, <3>2, <3>3, <4>1, <4>2 DEF Completed
    <3> QED BY <1>1, <2>1, <3>1, <3>2, <3>4, <3>5, Moved
  <2> QED BY <1>3, <2>2, <2>3
<1> QED BY <1>2, <1>3 DEF Advance, Call

\* Where that is.
LEMMA Position ==
    ASSUME HInv, Within
    PROVE  /\ driver.step \in Nat /\ Len(TheScript) \in Nat
           /\ driver.step \in 1 .. Len(TheScript) /\ Now = TheScript[driver.step]
           /\ driver.step <= Len(TheScript) /\ driver.step \in 1 .. driver.step
<1>1. Len(TheScript) \in Nat /\ driver.step \in 1 .. Len(TheScript)
      /\ Now = TheScript[driver.step]
  BY AtAStep
<1> QED BY <1>1

\* The steps behind one position and the next.
LEMMA Ranges ==
    ASSUME NEW i \in Nat, NEW j \in 1 .. i
    PROVE  /\ j \in 1 .. i + 1 /\ i + 1 \in 1 .. i + 1
           /\ \A k \in j + 1 .. (i + 1) - 1 : k \in j + 1 .. i - 1 \/ k = i
           /\ \A k \in i + 1 .. (i + 1) - 1 : FALSE
  OBVIOUS

\* A step of the script that is behind the driver: what is there has a step behind it
\* still, unless the step has seen that it is gone.
LEMMA StepBehind ==
    ASSUME HInv, Within, UNCHANGED script, driver'.step = driver.step + 1,
           \A w \in Workspace :
              /\ ~docker'[w].network => docker'[w].nodes = {} /\ docker'[w].attached = {}
              /\ docker'[w].network => docker[w].network
              /\ docker'[w].attached # {} =>
                    docker[w].attached # {} \/ (Joins(Now) /\ Now.w = w),
           Now.op = "no networks" => ~docker'[Now.w].network,
           Now.op = "disconnect" => docker'[Now.w].attached = {}
    PROVE  Accounted'
<1> DEFINE i == driver.step
           s == TheScript
<1>1. i \in Nat /\ i \in 1 .. Len(s) /\ Now = s[i] /\ s' = s
  BY Position DEF TheScript
<1>2. i \in 1 .. i /\ i <= Len(s)
  BY <1>1, Position
<1> HIDE DEF i, s
<1>3. ASSUME NEW w \in Workspace, docker'[w].network PROVE Opened(s, w, i + 1)
  <2>1. Opened(s, w, i) /\ ~(Now.op = "no networks" /\ Now.w = w)
    BY <1>3 DEF HInv, Accounted, i, s
  <2>2. PICK j \in 1 .. i : /\ j <= Len(s) /\ s[j].op = "transition" /\ s[j].w = w
                            /\ Without(s, "no networks", w, j, i)
    BY <2>1 DEF Opened
  <2>3. Without(s, "no networks", w, j, i + 1)
    BY <1>1, <2>1, <2>2, Ranges DEF Without
  <2>4. j \in 1 .. i + 1
    BY <1>1, <2>2, Ranges
  <2> QED BY <2>2, <2>3, <2>4 DEF Opened
<1>4. ASSUME NEW w \in Workspace, docker'[w].attached # {} PROVE Joined(s, w, i + 1)
  <2>1. ~(Now.op = "disconnect" /\ Now.w = w)
    BY <1>4
  <2>2. CASE docker[w].attached # {}
    <3>1. Joined(s, w, i)
      BY <2>2 DEF HInv, Accounted, i, s
    <3>2. PICK j \in 1 .. i : /\ j <= Len(s) /\ Joins(s[j]) /\ s[j].w = w
                              /\ Without(s, "disconnect", w, j, i)
      BY <3>1 DEF Joined
    <3>3. Without(s, "disconnect", w, j, i + 1)
      BY <1>1, <2>1, <3>2, Ranges DEF Without
    <3>4. j \in 1 .. i + 1
      BY <1>1, <3>2, Ranges
    <3> QED BY <3>2, <3>3, <3>4 DEF Joined
  <2>3. CASE Joins(Now) /\ Now.w = w
    <3>1. i \in 1 .. i + 1 /\ \A k \in i + 1 .. (i + 1) - 1 : FALSE
      BY <1>1, <1>2, Ranges
    <3>2. Without(s, "disconnect", w, i, i + 1)
      BY <3>1 DEF Without
    <3> QED BY <1>1, <1>2, <2>3, <3>1, <3>2 DEF Joined
  <2> QED BY <1>4, <2>2, <2>3
<1> QED BY <1>1, <1>3, <1>4 DEF Accounted, i, s

\* The step before the driver's is the only one whose traces were not there before, if it
\* leaves those of the steps before it alone.
LEMMA StepLasts ==
    ASSUME HInv, driver.at \in Idle, Within, UNCHANGED script,
           driver'.step = driver.step + 1, Now.op # "transition",
           \A w \in Workspace : /\ docker'[w].nodes = docker[w].nodes
                                /\ docker'[w].network = docker[w].network
                                /\ Now.op # "disconnect" =>
                                      \/ docker'[w].attached = docker[w].attached
                                      \/ docker'[w].attached = Attached,
           Joins(Now) /\ docker'[Now.w].network => docker'[Now.w].attached = Attached
    PROVE  Lasting'
<1> DEFINE i == driver.step
           s == TheScript
<1>1. i \in Nat /\ i \in 1 .. Len(s) /\ Len(s) \in Nat /\ Now = s[i] /\ s' = s
  BY AtAStep DEF TheScript
<1>2. \A j \in 1 .. i : s[j].w \in Workspace
  <2>1. \A j \in 1 .. i : s[j] \in ScriptStep
    BY <1>1, AtAStep
  <2> QED BY <2>1 DEF ScriptStep
<1>3. SUFFICES ASSUME NEW j \in 1 .. i
               PROVE  /\ s[j].op = "transition" /\ NoneOf(s, {"transition"}, j, i + 1)
                         => Settled(s[j])'
                      /\ Joins(s[j]) /\ NoneOf(s, {"transition", "disconnect"}, j, i + 1)
                         /\ docker'[s[j].w].network
                         => docker'[s[j].w].attached = Attached
  BY <1>1 DEF Lasting
<1>4. CASE j = i
  BY <1>1, <1>4
<1>5. CASE j # i
  <2>1. j \in 1 .. i - 1 /\ i \in j + 1 .. i + 1 - 1
        /\ \A k \in j + 1 .. i - 1 : k \in j + 1 .. i + 1 - 1
    BY <1>1, <1>5
  <2>2. \A ops : NoneOf(s, ops, j, i + 1) => NoneOf(s, ops, j, i) /\ Now.op \notin ops
    BY <1>1, <2>1 DEF NoneOf
  <2>3. /\ s[j].op = "transition" /\ NoneOf(s, {"transition"}, j, i) => Settled(s[j])
        /\ Joins(s[j]) /\ NoneOf(s, {"transition", "disconnect"}, j, i)
                       /\ docker[s[j].w].network
           => docker[s[j].w].attached = Attached
    BY <2>1 DEF HInv, Lasting
  <2>4. Settled(s[j]) => Settled(s[j])'
    BY <1>1, <1>2 DEF Settled
  <2> QED BY <1>2, <2>2, <2>3, <2>4
<1> QED BY <1>4, <1>5

\* The workspaces created and the volumes looked at.
LEMMA StepRecorded ==
    ASSUME HInv, Within, UNCHANGED script, driver'.step = driver.step + 1, SameCreated,
           \A w \in Workspace : docker'[w].volume = docker[w].volume,
           Now.op = "volume" => docker[Now.w].volume
    PROVE  Recorded'
<1> DEFINE i == driver.step
           s == TheScript
<1>1. i \in Nat /\ i \in 1 .. Len(s) /\ Now = s[i] /\ s' = s
  BY Position DEF TheScript
<1>2. \A j \in 1 .. i : s[j].w \in Workspace
  <2>1. \A j \in 1 .. i : s[j] \in ScriptStep
    BY Position, AtAStep
  <2> QED BY <2>1 DEF ScriptStep
<1>3. /\ \A j \in 1 .. i : j \in 1 .. i + 1
      /\ \A j \in 1 .. (i + 1) - 1 : j \in 1 .. i /\ (j \in 1 .. i - 1 \/ j = i)
  BY <1>1
<1>4. /\ \A w \in Workspace : space[w].created =>
            \E j \in 1 .. i : j <= Len(s) /\ s[j].op = "bootstrap" /\ s[j].w = w
      /\ \A j \in 1 .. i - 1 : s[j].op = "volume" => docker[s[j].w].volume
  BY DEF HInv, Recorded
<1> HIDE DEF i, s
<1>5. \A w \in Workspace : space'[w].created =>
          \E j \in 1 .. i + 1 : j <= Len(s) /\ s[j].op = "bootstrap" /\ s[j].w = w
  BY <1>3, <1>4 DEF SameCreated
<1>6. \A j \in 1 .. (i + 1) - 1 : s[j].op = "volume" => docker'[s[j].w].volume
  BY <1>1, <1>2, <1>3, <1>4
<1> QED BY <1>1, <1>5, <1>6 DEF Recorded, i, s

\* One position further.
LEMMA NextPosition ==
    ASSUME HInv, Within
    PROVE  driver.step + 1 \in Nat /\ driver.step + 1 \in 1 .. Len(TheScript) + 1
<1>1. /\ driver.step \in Nat /\ Len(TheScript) \in Nat
      /\ driver.step <= Len(TheScript)
  BY Position
<1> QED BY <1>1

\* A script that goes on to its next step.
LEMMA Stepped ==
    ASSUME HInv, Within, driver.at \in {"next", "admissions"}, UNCHANGED <<script, keyed>>,
           NextStep, ServerTyped', SameCreated, docker' \in [Workspace -> Docker],
           Now.op # "transition",
           \A w \in Workspace :
              /\ docker'[w].nodes = docker[w].nodes
              /\ docker'[w].network = docker[w].network
              /\ docker'[w].volume = docker[w].volume
              /\ docker'[w].attached = docker[w].attached
                 \/ (Now.w = w /\ Now.op = "disconnect" /\ docker'[w].attached = {})
                 \/ (Now.w = w /\ Joins(Now) /\ docker[w].network
                     /\ docker'[w].attached = Attached),
           Joins(Now) /\ docker[Now.w].network => docker'[Now.w].attached = Attached,
           Now.op = "no networks" => ~docker[Now.w].network,
           Now.op = "disconnect" => docker'[Now.w].attached = {},
           Now.op = "volume" => docker[Now.w].volume
    PROVE  HInv'
<1>1. /\ driver'.step = driver.step + 1 /\ driver'.at = "next" /\ driver' \in Driver
      /\ driver'.step \in 1 .. Len(TheScript) + 1 /\ TheScript' = TheScript
  <2>1. driver \in Driver /\ "next" \in At /\ driver.step \in Nat
    BY DEF HInv, TypeOK, At, Idle, Driver
  <2>2. driver'.step = driver.step + 1 /\ driver'.at = "next" /\ driver' \in Driver
    <3> DEFINE m == driver.step + 1
    <3>1. m \in Nat /\ driver' = [driver EXCEPT !.step = m, !.at = "next"]
      <4>1. m \in Nat
        BY NextPosition
      <4>2. driver' = [driver EXCEPT !.step = driver.step + 1, !.at = "next"]
        BY DEF NextStep
      <4> QED BY <4>1, <4>2
    <3> HIDE DEF m
    <3>2. driver' \in Driver /\ driver'.step = m /\ driver'.at = "next"
      BY <2>1, <3>1 DEF Driver
    <3> QED BY <3>2 DEF m
  <2>3. driver.step + 1 \in 1 .. Len(TheScript) + 1
    BY NextPosition
  <2> QED BY <2>2, <2>3 DEF TheScript
<1>2. TypeOK'
  BY <1>1 DEF HInv, TypeOK, ServerTyped
<1>3. Placed' /\ Completed'
  BY <1>1 DEF Placed, Completed, TransitionAt, AtAuthored, AtPlanned
<1>4. driver.at \in Idle
  BY DEF Idle
<1>5. Now.w \in Workspace
  BY AtAStep DEF ScriptStep
<1>6. Accounted'
  <2>1. \A w \in Workspace :
           ~docker'[w].network => docker'[w].nodes = {} /\ docker'[w].attached = {}
    BY DEF HInv, Accounted
  <2>2. \A w \in Workspace :
           docker'[w].attached # {} => docker[w].attached # {} \/ (Joins(Now) /\ Now.w = w)
    OBVIOUS
  <2> QED BY <1>1, <1>5, <2>1, <2>2, StepBehind
<1>7. Lasting'
  <2>1. \A w \in Workspace : Now.op # "disconnect" =>
           docker'[w].attached = docker[w].attached \/ docker'[w].attached = Attached
    OBVIOUS
  <2> QED BY <1>1, <1>4, <1>5, <2>1, StepLasts
<1>8. Recorded'
  BY <1>1, StepRecorded
<1> QED BY <1>2, <1>3, <1>6, <1>7, <1>8 DEF HInv

\* What the transition leaves behind: it has made its graph, and joined if it was to.
LEMMA ReadBackHolds ==
    ASSUME HInv, driver.at \in TransitionAt, UNCHANGED script, ReadBack(Now.w)
    PROVE  HInv'
<1>1. /\ UNCHANGED serverVars /\ UNCHANGED <<docker, keyed>> /\ driver.at = "read back"
      /\ driver.at \in AtPlanned
  BY DEF ReadBack, AtPlanned, AtAuthored, TransitionAt
<1>2. CASE Raise
  BY <1>1, <1>2, Failed, Untouched
<1>3. CASE driver' = [Unwound EXCEPT !.step = @ + 1, !.at = "next",
                                     !.current = driver.authored,
                                     !.desired = driver.authored]
  <2>1. driver' \in Driver /\ driver'.step = driver.step + 1 /\ driver'.at = "next"
    <3> DEFINE n == Unwound.step + 1
               g == driver.authored
               d1 == [Unwound EXCEPT !.step = n]
               d2 == [d1 EXCEPT !.at = "next"]
               d3 == [d2 EXCEPT !.current = g]
               d4 == [d3 EXCEPT !.desired = g]
    <3>1. Unwound \in Driver /\ n \in Nat /\ n = driver.step + 1 /\ g \in Graph
      <4>1. driver \in Driver
        BY DEF HInv, TypeOK
      <4>2. driver.step \in Nat /\ g \in Graph
        BY <4>1 DEF Driver
      <4> QED BY <4>1, <4>2, UnwoundTyped
    <3>2. driver' = d4
      BY <1>3
    <3> HIDE DEF n, g
    <3>3. d1 \in Driver /\ d1.step = n
      BY <3>1 DEF Driver
    <3> HIDE DEF d1
    <3>4. d2 \in Driver /\ d2.step = n /\ d2.at = "next"
      BY <3>3 DEF Driver, At, Idle
    <3> HIDE DEF d2
    <3>5. d3 \in Driver /\ d3.step = n /\ d3.at = "next"
      BY <3>1, <3>4 DEF Driver
    <3> HIDE DEF d3
    <3>6. d4 \in Driver /\ d4.step = n /\ d4.at = "next"
      BY <3>1, <3>5 DEF Driver
    <3> QED BY <3>1, <3>2, <3>6
  <2>2. Within /\ Now.op = "transition" /\ TheScript' = TheScript
    BY <1>1 DEF HInv, Placed, AtPlanned, AtAuthored, TheScript
  <2>3. driver'.step \in 1 .. Len(TheScript) + 1
    BY <2>1, <2>2, Position
  <2>4. TypeOK' /\ SameCreated
    BY <1>1, <2>1, <2>2, <2>3, Untouched DEF HInv, TypeOK, ServerTyped
  <2>5. Placed' /\ Completed'
    BY <2>1 DEF Placed, Completed, TransitionAt, AtAuthored, AtPlanned
  <2>6. Accounted'
    BY <1>1, <2>1, <2>2, StepBehind DEF HInv, Accounted
  <2>7. Recorded'
    BY <1>1, <2>1, <2>2, <2>4, StepRecorded
  <2>8. Lasting'
    <3> DEFINE i == driver.step
               s == TheScript
    <3>1. i \in Nat /\ i \in 1 .. Len(s) /\ Now = s[i]
      BY <2>2, Position
    <3>2. Settled(Now) /\ (Now.synced => docker[Now.w].attached = Attached)
      <4>1. /\ Matches(Now.w) /\ change.wanted.nodes = Now.nodes
            /\ Now.synced => docker[Now.w].attached = Attached
        BY <1>1, Planned DEF HInv, Completed
      <4>2. Now.nodes \subseteq Node /\ docker[Now.w].nodes \subseteq Node
        BY <2>2, AtAStep DEF ScriptStep, HInv, TypeOK, Docker
      <4>3. ASSUME NEW r \in Role
            PROVE  r \in Roles(docker[Now.w].nodes) <=> r \in Roles(Now.nodes)
        <5>1. {n \in docker[Now.w].nodes : n.role = r} = {n \in Now.nodes : n.role = r}
          BY <4>1 DEF Matches, Differs, Wanted
        <5> QED BY <5>1 DEF Roles
      <4>4. Roles(docker[Now.w].nodes) \subseteq Role /\ Roles(Now.nodes) \subseteq Role
        BY <4>2 DEF Roles, Node
      <4> QED BY <4>1, <4>3, <4>4 DEF Settled, Matches, Wanted
    <3>3. SUFFICES ASSUME NEW j \in 1 .. i
                   PROVE  /\ s[j].op = "transition" /\ NoneOf(s, {"transition"}, j, i + 1)
                             => Settled(s[j])
                          /\ Joins(s[j])
                             /\ NoneOf(s, {"transition", "disconnect"}, j, i + 1)
                             => docker[s[j].w].attached = Attached
      <4>1. \A j \in 1 .. (i + 1) - 1 : j \in 1 .. i
        BY <3>1
      <4>2. \A st : Settled(st)' <=> Settled(st)
        BY <1>1 DEF Settled
      <4> HIDE DEF i, s
      <4> QED BY <1>1, <2>1, <2>2, <4>1, <4>2 DEF Lasting, i, s
    <3>4. CASE j = i
      BY <2>2, <3>1, <3>2, <3>4 DEF Joins
    <3>5. CASE j # i
      <4>1. i \in j + 1 .. i + 1 - 1
        BY <3>1, <3>5
      <4>2. \A ops : NoneOf(s, ops, j, i + 1) => Now.op \notin ops
        BY <3>1, <4>1 DEF NoneOf
      <4> QED BY <2>2, <4>2
    <3> QED BY <3>4, <3>5
  <2> QED BY <2>4, <2>5, <2>6, <2>7, <2>8 DEF HInv
<1> QED BY <1>2, <1>3 DEF ReadBack

\* run_approved_transition.
LEMMA TransitionHolds ==
    ASSUME HInv, InTransition, UNCHANGED script,
           RunApprovedTransition(Now.w, Now.nodes, Now.synced)
    PROVE  HInv'
<1>1. driver.at \in TransitionAt
  BY DEF InTransition
<1>2. Now.w \in Workspace
  BY <1>1, AtAStep DEF HInv, Placed, ScriptStep
<1> QED BY <1>1, <1>2, BeginsHolds, SetDesiredHolds, PlansHolds, ApprovalHolds, StartsHolds,
           SyncsHolds, ExecuteHolds, AdvanceHolds, ReadBackHolds DEF RunApprovedTransition

\* Between two steps, or at the ends of the script.
LEMMA RestsHolds ==
    ASSUME HInv, UNCHANGED script, WaitReady \/ Pass
    PROVE  HInv'
<1>1. /\ UNCHANGED serverVars /\ UNCHANGED <<docker, keyed>> /\ driver.at \in Idle
  BY DEF WaitReady, Pass, Idle
<1>2. CASE Raise
  BY <1>1, <1>2, Failed, Untouched
<1>3. ASSUME NEW x \in {"next", "passed"}, Goto(x),
             x = "passed" => driver.step = Len(TheScript) + 1
      PROVE  HInv'
  <2>1. x \in At
    BY DEF At, Idle
  <2>2. driver'.at = x /\ driver'.step = driver.step /\ driver' \in Driver
    BY <1>3, <2>1, Went
  <2>3. Placed' /\ Completed'
    BY <1>3, <2>2 DEF Placed, Completed, TransitionAt, AtAuthored, AtPlanned, TheScript
  <2> QED BY <1>1, <2>2, <2>3, Moved, Untouched
<1> QED BY <1>2, <1>3 DEF WaitReady, Pass, TheScript

\* The checks of a script change nothing but where it is.
LEMMA ChecksHold ==
    ASSUME HInv, UNCHANGED script,
           \/ AssertMentions \/ ProbePublicGateway \/ ReadService \/ AssertUnreachable
           \/ AssertNoNetworks \/ AssertNoContainers \/ AssertVolume
    PROVE  HInv'
<1>1. /\ UNCHANGED serverVars /\ UNCHANGED <<docker, keyed>> /\ (NextStep \/ Raise)
      /\ driver.at = "next" /\ Within
      /\ Now.op \in {"mentions", "public probe", "reads", "unreachable", "no networks",
                     "no containers", "volume"}
  BY DEF AssertMentions, ProbePublicGateway, ReadService, AssertUnreachable, Within,
         AssertNoNetworks, AssertNoContainers, AssertVolume, Check, AtStep, TheScript
<1>2. CASE Raise
  BY <1>1, <1>2, Failed, Untouched
<1>3. CASE ~Raise
  <2>1. /\ Now.op = "no networks" => ~docker[Now.w].network
        /\ Now.op = "volume" => docker[Now.w].volume
    BY <1>3 DEF AssertMentions, ProbePublicGateway, ReadService, AssertUnreachable,
                AssertNoNetworks, AssertNoContainers, AssertVolume, Check, AtStep
  <2>2. ~Joins(Now) /\ Now.op \notin {"disconnect", "transition"}
    BY <1>1 DEF Joins
  <2>3. docker' \in [Workspace -> Docker] /\ ServerTyped' /\ SameCreated
    BY <1>1, Untouched DEF HInv, TypeOK
  <2> QED BY <1>1, <1>3, <2>1, <2>2, <2>3, Stepped
<1> QED BY <1>2, <1>3

\* The driver joins what is there, or leaves it.
LEMMA NetworksHold ==
    ASSUME HInv, UNCHANGED script, SyncStep \/ Disconnect
    PROVE  HInv'
<1> DEFINE w == Now.w
<1>1. /\ UNCHANGED serverVars /\ UNCHANGED keyed /\ driver.at = "next" /\ Within
      /\ Now.op \in {"sync", "disconnect"}
  BY DEF SyncStep, Disconnect, SyncNetworks, AtStep, Within, TheScript
<1>2. w \in Workspace /\ docker \in [Workspace -> Docker]
  BY <1>1, AtAStep DEF ScriptStep, HInv, TypeOK
<1>3. CASE Raise /\ UNCHANGED docker
  BY <1>1, <1>3, Failed, Untouched
<1>4. CASE /\ Now.op = "sync" /\ NextStep
           /\ docker' = [docker EXCEPT ![w].attached = IF docker[w].network THEN Attached
                                                                            ELSE @]
  <2>1. /\ docker' \in [Workspace -> Docker]
        /\ \A v \in Workspace : v # w => docker'[v] = docker[v]
        /\ docker'[w].network = docker[w].network /\ docker'[w].nodes = docker[w].nodes
        /\ docker'[w].volume = docker[w].volume
        /\ docker'[w].attached = IF docker[w].network THEN Attached ELSE docker[w].attached
    BY <1>2, <1>4, Joining
  <2>2. ServerTyped' /\ SameCreated /\ Joins(Now)
    BY <1>1, <1>4, Untouched DEF Joins
  <2>3. \A v \in Workspace :
              /\ docker'[v].nodes = docker[v].nodes
              /\ docker'[v].network = docker[v].network
              /\ docker'[v].volume = docker[v].volume
              /\ docker'[v].attached = docker[v].attached
                 \/ (w = v /\ Joins(Now) /\ docker[v].network
                     /\ docker'[v].attached = Attached)
    BY <2>1, <2>2
  <2> QED BY <1>1, <1>4, <2>1, <2>2, <2>3, Stepped
<1>5. CASE /\ Now.op = "disconnect" /\ NextStep
           /\ docker' = [docker EXCEPT ![w].attached = {}]
  <2>1. docker' = [docker EXCEPT ![w] = [docker[w] EXCEPT !.attached = {}]]
    BY <1>5
  <2>2. LET e == [docker[w] EXCEPT !.attached = {}]
        IN /\ e \in Docker /\ e.attached = {} /\ e.network = docker[w].network
           /\ e.nodes = docker[w].nodes /\ e.volume = docker[w].volume
    BY <1>2 DEF Docker
  <2>3. /\ docker' \in [Workspace -> Docker] /\ docker'[w].attached = {}
        /\ \A v \in Workspace :
              /\ docker'[v].nodes = docker[v].nodes
              /\ docker'[v].network = docker[v].network
              /\ docker'[v].volume = docker[v].volume
              /\ docker'[v].attached = docker[v].attached
                 \/ (w = v /\ docker'[v].attached = {})
    BY <1>2, <2>1, <2>2
  <2>4. ServerTyped' /\ SameCreated /\ ~Joins(Now)
    BY <1>1, <1>5, Untouched DEF Joins
  <2> QED BY <1>1, <1>5, <2>3, <2>4, Stepped
<1>6. CASE SyncStep
  BY <1>3, <1>4, <1>6 DEF SyncStep, SyncNetworks, AtStep
<1>7. CASE Disconnect
  BY <1>3, <1>5, <1>7 DEF Disconnect, AtStep
<1> QED BY <1>6, <1>7

\* A workspace the server has created has its step behind or under way.
LEMMA CreateHolds ==
    ASSUME HInv, UNCHANGED script, Create
    PROVE  HInv'
<1> DEFINE w == Now.w
           i == driver.step
           s == TheScript
<1>1. /\ UNCHANGED <<docker, keyed>> /\ driver.at = "next" /\ Within
      /\ Now.op = "bootstrap" /\ s' = s
  BY DEF Create, AtStep, Within, TheScript
<1>2. w \in Workspace /\ space \in [Workspace -> Space]
  BY <1>1, AtAStep DEF ScriptStep, HInv, TypeOK
<1>3. CASE UNCHANGED serverVars /\ Raise
  BY <1>1, <1>3, Failed, Untouched
<1>4. ASSUME space' = [space EXCEPT ![w].created = TRUE], UNCHANGED <<change, spent>>,
             NEW x \in {"admissions", "failed"}, driver'.at = x, driver'.step = i,
             driver' \in Driver
      PROVE  HInv'
  <2>1. /\ space' \in [Workspace -> Space]
        /\ \A v \in Workspace : v # w => space'[v] = space[v]
    <3>1. space' = [space EXCEPT ![w] = [space[w] EXCEPT !.created = TRUE]]
      BY <1>4
    <3>2. [space[w] EXCEPT !.created = TRUE] \in Space
      BY <1>2 DEF Space
    <3> QED BY <1>2, <3>1, <3>2
  <2>2. TypeOK'
    BY <1>1, <1>4, <2>1 DEF HInv, TypeOK
  <2>3. Now' = Now /\ (Within <=> Within')
    BY <1>1, <1>4 DEF Now, TheScript, Within
  <2>4. Placed' /\ Completed'
    BY <1>1, <1>4, <2>3 DEF Placed, Completed, TransitionAt, AtAuthored, AtPlanned
  <2>5. Accounted' /\ Lasting'
    BY <1>1, <1>4 DEF HInv, Accounted, Lasting, Settled, Idle
  <2>6. Recorded'
    <3>1. i \in 1 .. i /\ i <= Len(s) /\ s[i].op = "bootstrap" /\ s[i].w = w
      BY <1>1, Position
    <3> HIDE DEF i, s
    <3>2. \A v \in Workspace : space'[v].created => space[v].created \/ v = w
      BY <2>1
    <3> QED BY <1>1, <1>4, <3>1, <3>2 DEF HInv, Recorded, i, s
  <2> QED BY <2>2, <2>4, <2>5, <2>6 DEF HInv
<1>5. CASE driver' = [driver EXCEPT !.at = "admissions", !.current = Empty, !.desired = None]
  <2>1. driver \in Driver /\ Empty \in Graph /\ "admissions" \in At
    <3>1. driver \in Driver /\ "admissions" \in At
      BY DEF HInv, TypeOK, At, Idle
    <3>2. Empty \in Graph
      BY BoundAssumption DEF Empty, Graph
    <3> QED BY <3>1, <3>2
  <2>2. driver'.at = "admissions" /\ driver'.step = i /\ driver' \in Driver
    <3> DEFINE d1 == [driver EXCEPT !.at = "admissions"]
               d2 == [d1 EXCEPT !.current = Empty]
               d3 == [d2 EXCEPT !.desired = None]
    <3>1. driver' = d3
      BY <1>5
    <3>2. d1 \in Driver /\ d1.step = i /\ d1.at = "admissions"
      BY <2>1 DEF Driver
    <3> HIDE DEF d1
    <3>3. d2 \in Driver /\ d2.step = i /\ d2.at = "admissions"
      BY <2>1, <3>2 DEF Driver
    <3> HIDE DEF d2
    <3>4. d3 \in Driver /\ d3.step = i /\ d3.at = "admissions"
      BY <3>3 DEF Driver
    <3> QED BY <3>1, <3>4
  <2> QED BY <1>3, <1>4, <2>2 DEF Create, Call, CreateWorkspace, Raise
<1>6. CASE Raise
  BY <1>3, <1>4, <1>6, Raised DEF Create, Call, CreateWorkspace
<1> QED BY <1>3, <1>5, <1>6 DEF Create, Call

\* Products and authorities are the server's own.
LEMMA AdmissionsHold ==
    ASSUME HInv, UNCHANGED script, Admissions
    PROVE  HInv'
<1> DEFINE w == Now.w
<1>1. /\ UNCHANGED <<docker, keyed>> /\ driver.at = "admissions" /\ Within
      /\ Now.op = "bootstrap"
  BY DEF Admissions, HInv, Placed
<1>2. /\ w \in Workspace /\ Now.products \subseteq Products
      /\ space \in [Workspace -> Space]
  BY <1>1, AtAStep DEF ScriptStep, HInv, TypeOK
<1>3. CASE Raise /\ UNCHANGED serverVars
  BY <1>1, <1>3, Failed, Untouched
<1>4. ASSUME NEW p, NEW a, p \subseteq Products,
             a \subseteq {"pull", "docker", "delivery", "cloudflare"},
             Admit(w, p, a), Raise \/ UNCHANGED driver
      PROVE  HInv'
  <2>1. ServerTyped' /\ SameCreated
    <3> DEFINE q == space[w].products \cup p
               b == space[w].authorities \cup a
               e == [[space[w] EXCEPT !.products = q] EXCEPT !.authorities = b]
    <3>1. space' = [space EXCEPT ![w] = e] /\ UNCHANGED <<change, spent>>
      BY <1>4 DEF Admit
    <3>2. /\ q \in SUBSET Products /\ space[w] \in Space
          /\ b \in SUBSET {"pull", "docker", "delivery", "cloudflare"}
      BY <1>2, <1>4 DEF Space
    <3> HIDE DEF q, b
    <3>3. e \in Space /\ e.created = space[w].created
      BY <3>2 DEF Space
    <3> HIDE DEF e
    <3> QED BY <1>2, <3>1, <3>3 DEF ServerTyped, SameCreated, HInv, TypeOK
  <2>2. CASE Raise
    BY <1>1, <2>1, <2>2, Failed
  <2>3. CASE UNCHANGED driver
    <3>1. driver' \in Driver
      BY <2>3 DEF HInv, TypeOK
    <3>2. Now' = Now /\ (Within <=> Within')
      BY <2>3 DEF Now, TheScript, Within
    <3>3. Placed' /\ Completed'
      BY <1>1, <2>3, <3>2 DEF Placed, Completed, TransitionAt, AtAuthored, AtPlanned
    <3> QED BY <1>1, <2>1, <2>3, <3>1, <3>3, Moved
  <2> QED BY <1>4, <2>2, <2>3
<1>5. CASE NextStep /\ UNCHANGED serverVars
  <2>1. ~Joins(Now) /\ docker' \in [Workspace -> Docker] /\ ServerTyped' /\ SameCreated
    BY <1>1, <1>5, Untouched DEF Joins, HInv, TypeOK
  <2> QED BY <1>1, <1>5, <2>1, Stepped
<1>6. \A p \in Now.products \ space[w].products : {p} \subseteq Products
  BY <1>2
<1>7. ASSUME NEW p, NEW a, p \subseteq Products,
             a \subseteq {"pull", "docker", "delivery", "cloudflare"},
             Call(Admit(w, p, a), UNCHANGED driver)
      PROVE  HInv'
  BY <1>3, <1>4, <1>7 DEF Call
<1>8. CASE \/ Call(Admit(w, {}, {"pull"}), UNCHANGED driver)
           \/ Call(Admit(w, {}, {"docker"}), UNCHANGED driver)
           \/ Call(Admit(w, {}, {"delivery"}), UNCHANGED driver)
           \/ Call(Admit(w, {}, {"cloudflare"}), UNCHANGED driver)
  BY <1>7, <1>8
<1>9. CASE \E p \in Now.products \ space[w].products :
              Call(Admit(w, {p}, {}), UNCHANGED driver)
  BY <1>6, <1>7, <1>9
<1> QED BY <1>5, <1>8, <1>9 DEF Admissions

\* The first call of a transition: nothing is known of a change yet.
LEMMA BeginHolds ==
    ASSUME HInv, UNCHANGED script, BeginTransition
    PROVE  HInv'
<1>1. /\ UNCHANGED <<docker, keyed, space, spent>> /\ Within /\ Now.op = "transition"
      /\ change' = NoChange /\ Goto("session")
  BY DEF BeginTransition, AtStep, Within, TheScript
<1>2. "session" \in At /\ "session" \notin Idle
  BY DEF At, TransitionAt, Idle
<1>3. driver'.at = "session" /\ driver'.step = driver.step /\ driver' \in Driver
  BY <1>1, <1>2, Went
<1>4. NoChange \in Change
  BY BoundAssumption DEF NoChange, Change, Empty, Graph, Run
<1>5. ServerTyped' /\ SameCreated
  BY <1>1, <1>4 DEF ServerTyped, SameCreated, HInv, TypeOK
<1>6. Now' = Now /\ (Within <=> Within')
  BY <1>3 DEF Now, TheScript, Within
<1>7. Placed' /\ Completed'
  BY <1>1, <1>3, <1>6 DEF Placed, Completed, TransitionAt, AtAuthored, AtPlanned
<1> QED BY <1>1, <1>2, <1>3, <1>5, <1>7, Moved

\* Other operators and workers touch the records, not what the driver is making.
LEMMA InterfereHolds ==
    ASSUME HInv, Interfere
    PROVE  HInv'
<1> DEFINE w == Now.w
<1>1. /\ UNCHANGED <<script, driver, docker, spent, keyed>> /\ driver.at \in TransitionAt
      /\ Within /\ driver.at \notin Idle
  BY DEF Interfere, Others, InTransition, HInv, Placed, TransitionAt, Idle
<1>2. w \in Workspace /\ space \in [Workspace -> Space] /\ change \in Change
  BY <1>1, AtAStep DEF ScriptStep, HInv, TypeOK
<1>3. change' \in Change /\ change'.wanted = change.wanted /\ change'.run = change.run
  <2>1. CASE change' = [change EXCEPT !.others = @ + 1]
    BY <1>2, <2>1 DEF Change
  <2>2. CASE change' = [change EXCEPT !.generation = @ + 1, !.others = @ + 1]
    <3> DEFINE n == change.generation + 1
               m == change.others + 1
    <3>1. n \in Nat /\ m \in Nat
      BY <1>2 DEF Change
    <3>2. change' = [change EXCEPT !.generation = n, !.others = m]
      BY <2>2
    <3> HIDE DEF n, m
    <3> QED BY <1>2, <3>1, <3>2 DEF Change
  <2> QED BY <2>1, <2>2 DEF Interfere, Others, OtherAuthors, OtherMoves, OtherClaims
<1>4. ServerTyped' /\ SameCreated
  <2>1. CASE OtherAuthors(w)
    <3> DEFINE r == space[w].revision + 1
               g == [nodes |-> {}, revision |-> r]
               e == [[space[w] EXCEPT !.desired = g] EXCEPT !.revision = r]
    <3>1. space[w] \in Space /\ r \in 0 .. MaxRevision
      <4>1. space[w].revision \in 0 .. MaxRevision /\ MaxRevision \in Nat
        BY <1>2, BoundAssumption DEF Space
      <4> QED BY <1>2, <2>1, <4>1 DEF OtherAuthors
    <3>2. space' = [space EXCEPT ![w] = e]
      BY <2>1 DEF OtherAuthors
    <3> HIDE DEF r
    <3>3. g \in Graph
      BY <3>1 DEF Graph
    <3> HIDE DEF g
    <3>4. e \in Space /\ e.created = space[w].created
      BY <3>1, <3>3 DEF Space
    <3> HIDE DEF e
    <3> QED BY <1>1, <1>2, <1>3, <3>2, <3>4 DEF ServerTyped, SameCreated, HInv, TypeOK
  <2>2. CASE OtherMoves(w)
    <3>1. space[w].desired \in Graph /\ space[w] \in Space
      BY <1>2, <2>2 DEF Space, OtherMoves
    <3> DEFINE e == [space[w] EXCEPT !.current = space[w].desired]
    <3>2. space' = [space EXCEPT ![w] = e]
      BY <2>2 DEF OtherMoves
    <3>3. e \in Space /\ e.created = space[w].created
      BY <3>1 DEF Space
    <3> HIDE DEF e
    <3> QED BY <1>1, <1>2, <1>3, <3>2, <3>3 DEF ServerTyped, SameCreated, HInv, TypeOK
  <2>3. CASE OtherClaims
    BY <1>1, <1>3, <2>3 DEF ServerTyped, SameCreated, HInv, TypeOK, OtherClaims
  <2> QED BY <2>1, <2>2, <2>3 DEF Interfere, Others
<1>5. Now' = Now /\ (Within <=> Within') /\ driver' \in Driver
  BY <1>1 DEF Now, TheScript, Within, HInv, TypeOK
<1>6. Placed'
  BY <1>1, <1>3, <1>5 DEF HInv, Placed, TheScript
<1>7. Matches(w) => Matches(w)'
  BY <1>1, <1>3, <1>5, StillMatches
<1>8. Completed'
  BY <1>1, <1>3, <1>5, <1>7 DEF HInv, Completed
<1> QED BY <1>1, <1>4, <1>5, <1>6, <1>8, Moved

----------------------------------------------------------------------------
(* The invariant holds, and what follows from it.                           *)

\* A script starts with nothing behind it and nothing there.
LEMMA InitHolds == Init => HInv
<1> SUFFICES ASSUME Init PROVE HInv
  OBVIOUS
<1>1. Len(TheScript) \in Nat
  <2>1. TheScript \in Seq(ScriptStep)
    BY ProperScripts DEF Init, TheScript, Proper
  <2> QED BY <2>1, LenProperties
<1>2. Empty \in Graph
  BY BoundAssumption DEF Empty, Graph
<1>3. driver.step = 1 /\ driver.at = "ready" /\ driver \in Driver
  BY <1>2 DEF Init, Driver, At, Idle, Status
<1>4. space \in [Workspace -> Space] /\ \A w \in Workspace : ~space[w].created
  <2>1. 0 \in 0 .. MaxRevision
    BY BoundAssumption
  <2>2. /\ [created |-> FALSE, products |-> {}, authorities |-> {}, current |-> Empty,
            desired |-> None, revision |-> 0] \in Space
    BY <1>2, <2>1 DEF Space
  <2> QED BY <2>2 DEF Init
<1>5. change \in Change
  BY <1>2 DEF Init, NoChange, Change, Run
<1>6. /\ docker \in [Workspace -> Docker]
      /\ \A w \in Workspace : ~docker[w].network /\ docker[w].nodes = {}
                              /\ docker[w].attached = {}
  BY DEF Init, Docker
<1>7. TypeOK
  <2>1. driver.step \in 1 .. Len(TheScript) + 1
    BY <1>1, <1>3
  <2> QED BY <1>3, <1>4, <1>5, <1>6, <2>1 DEF Init, TypeOK
<1>8. Placed /\ Completed
  BY <1>3 DEF Placed, Completed, TransitionAt, AtAuthored, AtPlanned
<1>9. Accounted /\ Lasting /\ Recorded
  <2>1. \A j \in 1 .. driver.step - 1 : FALSE
    BY <1>3
  <2> QED BY <1>4, <1>6, <2>1 DEF Accounted, Lasting, Recorded
<1> QED BY <1>7, <1>8, <1>9 DEF HInv

\* Every step keeps it.
LEMMA NextHolds == HInv /\ [Next]_vars => HInv'
<1> SUFFICES ASSUME HInv, [Next]_vars PROVE HInv'
  OBVIOUS
<1>1. CASE UNCHANGED vars
  <2>1. UNCHANGED <<script, driver, space, change, docker, spent, keyed>>
    BY <1>1 DEF vars
  <2>2. Now' = Now /\ TheScript' = TheScript /\ (Within <=> Within')
    BY <2>1 DEF Now, TheScript, Within
  <2>3. TypeOK'
    BY <2>1, <2>2 DEF HInv, TypeOK
  <2>4. Placed' /\ Accounted' /\ Recorded'
    BY <2>1, <2>2 DEF HInv, Placed, Accounted, Recorded
  <2>5. Matches(Now.w) <=> Matches(Now.w)'
    BY <2>1, <2>2 DEF Matches, Differs, Wanted
  <2>6. Completed'
    BY <2>1, <2>2, <2>5 DEF HInv, Completed
  <2>7. Lasting'
    BY <2>1, <2>2 DEF HInv, Lasting, Settled
  <2> QED BY <2>3, <2>4, <2>6, <2>7 DEF HInv
<1>2. CASE Drive
  BY <1>2, TransitionHolds, RestsHolds, ChecksHold, NetworksHold, CreateHolds,
     AdmissionsHold, BeginHolds DEF Drive
<1>3. CASE Interfere
  BY <1>3, InterfereHolds
<1> QED BY <1>1, <1>2, <1>3 DEF Next, Finished

\* What the scripts rely on holds whenever a step of the driver, or of another operator,
\* has been taken (run_approved_transition and the _run_ functions of the driver).
THEOREM SpecInvariant == Spec => []HInv
  BY InitHolds, NextHolds, PTL DEF Spec

\* The driver advances the current graph only when its own run has succeeded and what runs
\* is what the run wanted (_execute_to_completion, _validate_execute_result).
THEOREM SpecOwnRunCompleted == Spec => []OwnRunCompleted
<1>1. HInv => OwnRunCompleted
  BY DEF HInv, Completed, OwnRunCompleted
<1> QED BY <1>1, SpecInvariant, PTL

\* When a teardown has only the network left to remove, nothing of the harness is attached
\* to it (_disconnect_runtime_networks before each teardown that follows a join).
THEOREM SpecRemovalUnobstructed == Spec => []RemovalUnobstructed
<1>1. HInv => RemovalUnobstructed
  <2> SUFFICES ASSUME HInv, driver.at = "execute", Wanted(Now.w) = {}
               PROVE  docker[Now.w].attached = {}
    BY DEF RemovalUnobstructed
  <2>1. driver.at \in AtPlanned /\ driver.at \in TransitionAt
    BY DEF AtPlanned, AtAuthored, TransitionAt
  <2>2. Now.op = "transition" /\ Within /\ Now.nodes = {}
    BY <2>1, Planned DEF HInv, Placed, Wanted
  <2>3. LeavesFirst(TheScript) /\ Now.w \in Workspace
    BY <2>2, AtAStep DEF Proper, ScriptStep
  <2>4. ~Joined(TheScript, Now.w, driver.step)
    BY <2>2, <2>3, Position DEF LeavesFirst
  <2> QED BY <2>3, <2>4 DEF HInv, Accounted
<1> QED BY <1>1, SpecInvariant, PTL

\* The driver asks a private service only while it is in the service's network and the
\* service runs (_assert_body, _assert_observer_receipt, the direct probes).
THEOREM SpecAskedWhereReachable == Spec => []AskedWhereReachable
<1>1. HInv => AskedWhereReachable
  <2> SUFFICES ASSUME HInv, AtStep("reads") PROVE Reachable(Now.w, Now.role)
    BY DEF AskedWhereReachable
  <2> DEFINE i == driver.step
             s == TheScript
             w == Now.w
  <2>1. driver.at = "next" /\ driver.at \in Idle /\ Within /\ Now.op = "reads"
    BY DEF AtStep, Idle, Within, TheScript
  <2>2. /\ i \in Nat /\ i \in 1 .. Len(s) /\ Now = s[i] /\ ReadsWhatRuns(s)
        /\ w \in Workspace
    BY <2>1, AtAStep, Position DEF Proper, ScriptStep
  <2>3. PICK t \in 1 .. i - 1 :
            /\ s[t].op = "transition" /\ s[t].w = w /\ Now.role \in Roles(s[t].nodes)
            /\ NoneOf(s, {"transition"}, t, i)
            /\ \E j \in t .. i - 1 : /\ Joins(s[j]) /\ s[j].w = w
                                     /\ NoneOf(s, {"disconnect"}, j, i)
    BY <2>1, <2>2 DEF ReadsWhatRuns
  <2>4. PICK j \in t .. i - 1 : Joins(s[j]) /\ s[j].w = w /\ NoneOf(s, {"disconnect"}, j, i)
    BY <2>3
  <2>5. j \in 1 .. i - 1 /\ \A k \in j + 1 .. i - 1 : k \in t + 1 .. i - 1
    BY <2>2, <2>3, <2>4
  <2>6. NoneOf(s, {"transition", "disconnect"}, j, i)
    BY <2>3, <2>4, <2>5 DEF NoneOf
  <2>7. Settled(s[t]) /\ (docker[w].network => docker[w].attached = Attached)
    BY <2>1, <2>3, <2>4, <2>5, <2>6 DEF HInv, Lasting
  <2>8. Now.role \in Roles(docker[w].nodes) /\ docker[w].network
    BY <2>3, <2>7 DEF Settled, Roles
  <2> QED BY <2>7, <2>8 DEF Reachable, Attached
<1> QED BY <1>1, SpecInvariant, PTL

\* Never do two workspaces publish a gateway under PUBLIC_GATEWAY_HOSTNAME at a time, the
\* script that goes through four of them included (_run_seeded_stress_public_ingress).
THEOREM SpecHostnameExclusive == Spec => []HostnameExclusive
<1>1. HInv => HostnameExclusive
  <2> SUFFICES ASSUME HInv PROVE Cardinality(Published) <= 1
    BY DEF HostnameExclusive
  <2>1. OneAtATime(TheScript) /\ driver.step \in 1 .. Len(TheScript) + 1
    BY AtAStep DEF Proper, HInv, TypeOK
  <2>2. \A w \in Published : w \in Workspace /\ Opened(TheScript, w, driver.step)
    BY DEF Published, IsPublic, Roles, HInv, Accounted
  <2>3. \A u, v \in Published : u = v
    BY <2>1, <2>2 DEF OneAtATime
  <2>4. CASE Published = {}
    BY <2>4, FS_EmptySet
  <2>5. CASE Published # {}
    <3>1. PICK w \in Published : TRUE
      BY <2>5
    <3>2. Published = {w}
      BY <2>3, <3>1
    <3>3. Cardinality(Published) = 1
      BY <3>2, FS_Singleton
    <3> QED BY <3>3
  <2> QED BY <2>4, <2>5
<1> QED BY <1>1, SpecInvariant, PTL

\* A script that tears down and passes has left nothing of its workspaces but the volume of
\* the database whose data is to be retained (_assert_no_runtime_networks and
\* _assert_retained_volumes_still_exist, after the teardowns).
THEOREM SpecPassedMeansClean == Spec => []PassedMeansClean
<1>1. HInv => PassedMeansClean
  <2> SUFFICES ASSUME HInv, driver.at = "passed",
                      script \notin {"single-hello", "multi-workspace-foundation"},
                      NEW w \in Workspace
               PROVE  /\ docker[w].nodes = {} /\ ~docker[w].network
                      /\ docker[w].attached = {}
                      /\ w = "workspace-c-postgres" /\ space[w].created => docker[w].volume
    BY DEF PassedMeansClean
  <2> DEFINE n == Len(TheScript)
             s == TheScript
  <2>1. driver.step = n + 1 /\ n \in Nat
    BY AtAStep DEF HInv, Placed
  <2>2. Checked(s)
    BY CheckedScripts DEF HInv, TypeOK, TheScript
  <2>3. ~docker[w].network
    BY <2>1, <2>2 DEF Checked, HInv, Accounted
  <2>4. ASSUME w = "workspace-c-postgres", space[w].created PROVE docker[w].volume
    <3>1. PICK j \in 1 .. n + 1 : j <= n /\ s[j].op = "bootstrap" /\ s[j].w = w
      BY <2>1, <2>4 DEF HInv, Recorded
    <3>2. j \in 1 .. n
      BY <2>1, <3>1
    <3>3. PICK k \in 1 .. n : s[k].op = "volume" /\ s[k].w = w
      BY <2>2, <2>4, <3>1, <3>2 DEF Checked
    <3>4. k \in 1 .. driver.step - 1
      BY <2>1
    <3> QED BY <3>3, <3>4 DEF HInv, Recorded
  <2> QED BY <2>3, <2>4 DEF HInv, Accounted
<1> QED BY <1>1, SpecInvariant, PTL
================================================================================
