------------------------------ MODULE CpkServer ------------------------------
(***************************************************************************)
(* The cpk-server process as a whole: the bootstrap decides with which     *)
(* entries the credential verifier is built, and once the process serves   *)
(* its event loop answers the callers.  Nothing the loop does reaches back *)
(* into what the bootstrap composed.                                       *)
(***************************************************************************)
EXTENDS Bootstrap, Sequences, Naturals

CONSTANTS Client, Credential, Principal, Command, Read, MaxEntries, Asked, None,
    Followed   \* bound of the model: the environments whose process gets requests

VARIABLES verifier, queue, request, call, answer

edgeVars == <<verifier, queue, request, call, answer>>
serverVars == <<vars, edgeVars>>

Edge == INSTANCE Boundary

ASSUME EdgeAssumption == /\ Edge!DistinctAssumption
                         /\ Edge!BoundAssumption
                         /\ Edge!AskedAssumption
ASSUME FollowedAssumption == Followed \subseteq Environment

ServerInit == /\ Init
              /\ verifier = <<>>
              /\ queue = <<>>
              /\ request = [c \in Client |-> None]
              /\ call = [c \in Client |-> None]
              /\ answer = [c \in Client |-> None]

\* _credential_verifier: one entry for a single credential, else the parsed list.
\* A process that is not followed gets no request; which entries it has is left out.
Entries == CASE env \notin Followed -> {<<>>}
             [] env.auth = "single" -> {e \in Edge!Configured : Len(e) = 1}
             [] env.auth = "principals" -> Edge!Configured
             [] OTHER -> {<<>>}

Bootstraps ==
    \/ /\ Verifier
       /\ verifier' \in Entries
       /\ UNCHANGED <<queue, request, call, answer>>
    \/ /\ \/ Parse \/ Announce \/ DatabaseUrl \/ InstallSchema \/ SecretProvider
          \/ RuntimeAdapter \/ IngressAdapter \/ RuntimeObserver \/ GatewayProbes
          \/ Done
       /\ UNCHANGED edgeVars

Serves == phase = "serving" /\ env \in Followed

Loops == Serves /\ (\E c \in Client : Edge!Loop(c)) /\ UNCHANGED vars

ServerNext ==
    \/ Bootstraps
    \/ Loops
    \/ Serves /\ (\E c \in Client : Edge!Arrive(c) \/ Edge!Take(c)) /\ UNCHANGED vars

\* The event loop runs what is ready and a service call comes back.
ServerSpec == ServerInit /\ [][ServerNext]_serverVars /\ WF_serverVars(Loops)

----------------------------------------------------------------------------

\* A service acts for one configured principal, there is no doubt which, and the call is
\* one its surface may make.
CallVouched == Edge!CallVouched

\* Every request whose body arrives is answered, whatever the other callers do.
EveryRequestAnswered == Edge!EveryRequestAnswered
=============================================================================
