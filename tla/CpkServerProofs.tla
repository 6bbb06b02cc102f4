---------------------------- MODULE CpkServerProofs ----------------------------
(***************************************************************************)
(* What create_app composes is what the configuration promised, for any    *)
(* runtime and ingress kinds and whatever the callers do afterwards.       *)
(***************************************************************************)
EXTENDS CpkServer, WellFoundedInduction, TLAPS

\* The phases that come after a constructor has done its part.
AfterVerifier == {"announce", "database", "schema", "provider", "adapters", "ingress",
                  "observer", "probes", "serving", "died"}
AfterProvider == {"adapters", "ingress", "observer", "probes", "serving"}
AfterAdapters == AfterProvider \ {"adapters"}
AfterIngress == AfterAdapters \ {"ingress"}
AfterObserver == AfterIngress \ {"observer"}

\* Whatever is composed comes from an accepted configuration.
Accepted == phase \notin {"parse", "refused"} => ConfigurationValid

\* What each constructor leaves for those that follow it.
VerifierBuilt == phase \in AfterVerifier => composed.verifier = env.auth /\ env.auth # "none"
SchemaInstalled == phase \in AfterProvider \cup {"provider"} => schema
ProviderBuilt == phase \in AfterProvider => composed.provider = env.resolver
AdaptersBuilt == phase \in AfterAdapters => composed.adapters = env.runtimes /\ AdaptersUsable
IngressBuilt == phase \in AfterIngress => composed.ingress = env.ingress
                                          /\ env.ingress \subseteq {"cloudflare"}
ObserverBuilt == phase \in AfterObserver =>
                    composed.observer = IF env.runtimes = {"docker"} THEN "docker"
                                                                     ELSE "unsupported"
ProbesBuilt == phase = "serving" => composed.probes = env.signer

\* The constructors' defaults, until it is their turn.
Untouched == /\ phase \notin AfterObserver \cup {"died"} => composed.observer = "unsupported"
             /\ phase \notin {"serving", "died"} => composed.probes = "none"

\* What has been built so far.
Built == /\ VerifierBuilt
         /\ SchemaInstalled
         /\ ProviderBuilt
         /\ AdaptersBuilt
         /\ IngressBuilt
         /\ ObserverBuilt
         /\ ProbesBuilt
         /\ Untouched

\* The inductive invariant.
IInv == TypeOK /\ Accepted /\ Built /\ AcceptedSettingsFit

----------------------------------------------------------------------------

\* The settings the constructors copy.
LEMMA EnvironmentTyped ==
    ASSUME NEW e \in Environment
    PROVE  /\ e.auth \in {"none", "none with static", "single", "single incomplete",
                          "single malformed", "principals", "principals malformed", "mixed"}
           /\ e.resolver \in {"none", "provider", "local-development"}
           /\ e.signer \in {"none", "ed25519"}
           /\ e.values \in {"absent", "empty", "malformed", "unusable", "present"}
           /\ e.registries \in {"absent", "one", "malformed", "unusable", "both"}
           /\ e.dns \in {"usable", "unusable"}
           /\ e.databases \in {"one", "several"}
           /\ e.packages \in {"installed", "missing"}
           /\ e.runtimes \in SUBSET RuntimeKind
           /\ e.ingress \in SUBSET IngressKind
  BY DEF Environment

\* A constructor that fills in its own part leaves a composition.
LEMMA ComposedTyped ==
    ASSUME NEW c \in Composed
    PROVE  /\ \A v \in {"none", "single", "principals"} : [c EXCEPT !.verifier = v] \in Composed
           /\ \A r \in {"none", "provider", "local-development"} :
                 [c EXCEPT !.provider = r] \in Composed
           /\ \A k \in SUBSET RuntimeKind : [c EXCEPT !.adapters = k] \in Composed
           /\ \A k \in SUBSET IngressKind : [c EXCEPT !.ingress = k] \in Composed
           /\ [c EXCEPT !.observer = "docker"] \in Composed
           /\ \A g \in {"none", "ed25519"} : [c EXCEPT !.probes = g] \in Composed
  BY DEF Composed

\* Nothing is composed before the configuration is parsed.
LEMMA InitIInv == Init => IInv
<1> SUFFICES ASSUME Init PROVE IInv
  OBVIOUS
<1> USE DEF Init
<1>0. Nothing \in Composed
  BY DEF Nothing, Composed
<1>1. TypeOK /\ AcceptedSettingsFit
  BY <1>0 DEF TypeOK, Phase, AcceptedSettingsFit
<1>2. Accepted /\ Built
  BY DEF Accepted, Built, Nothing, VerifierBuilt, SchemaInstalled, ProviderBuilt,
     AdaptersBuilt, IngressBuilt, ObserverBuilt, ProbesBuilt, Untouched,
     AfterVerifier, AfterProvider, AfterAdapters, AfterIngress, AfterObserver
<1> QED BY ONLY <1>1, <1>2 DEF IInv

\* Only an accepted configuration goes on (main, server.py:127-136).
LEMMA ParseIInv == IInv /\ Parse => IInv'
<1> SUFFICES ASSUME IInv, Parse PROVE IInv'
  OBVIOUS
<1> USE DEF IInv, Parse, Goto
<1>0. env \in Environment /\ composed \in Composed
  BY DEF TypeOK
<1>1. TypeOK'
  <2>1. composed' \in Composed
    BY <1>0, EnvironmentTyped, ComposedTyped
  <2>2. phase' \in Phase /\ announced' \in BOOLEAN /\ schema' \in BOOLEAN
    BY DEF TypeOK, Phase
  <2> QED BY <1>0, <2>1, <2>2 DEF TypeOK
<1>2. Accepted'
  BY DEF Accepted, ConfigurationValid, AuthenticationValid, GrantsWellFormed,
     PrincipalsWellFormed, SignerValid, LocalDevelopmentValid, ProviderValid,
     WellFormed, IngressValid
<1>3. Built'
  BY <1>0, EnvironmentTyped DEF Built, VerifierBuilt, SchemaInstalled,
     ProviderBuilt, AdaptersBuilt, IngressBuilt, ObserverBuilt, ProbesBuilt,
     Untouched, Composed, AdaptersUsable, AfterVerifier, AfterProvider,
     AfterAdapters, AfterIngress, AfterObserver
<1>4. AcceptedSettingsFit'
  BY <1>0, EnvironmentTyped DEF AcceptedSettingsFit, Built, SchemaInstalled,
     ProviderBuilt, AdaptersBuilt, Accepted, AdaptersUsable, ConfigurationValid,
     AuthenticationValid, GrantsWellFormed, PrincipalsWellFormed, SignerValid,
     LocalDevelopmentValid, ProviderValid, WellFormed, IngressValid, AfterVerifier,
     AfterProvider, AfterAdapters, AfterIngress, AfterObserver
<1> QED BY ONLY <1>1, <1>2, <1>3, <1>4 DEF IInv

\* A configuration that was accepted has a single credential or principals.
LEMMA VerifierIInv == IInv /\ Verifier => IInv'
<1> SUFFICES ASSUME IInv, Verifier PROVE IInv'
  OBVIOUS
<1> USE DEF IInv, Verifier, Goto
<1>0. env \in Environment /\ composed \in Composed
  BY DEF TypeOK
<1>1. TypeOK'
  <2>1. composed' \in Composed
    <3>1. env.auth \in {"none", "single", "principals"}
      BY <1>0, EnvironmentTyped DEF Accepted, ConfigurationValid, AuthenticationValid,
         GrantsWellFormed, PrincipalsWellFormed
    <3> QED BY <1>0, <3>1, ComposedTyped
  <2>2. phase' \in Phase /\ announced' \in BOOLEAN /\ schema' \in BOOLEAN
    BY DEF TypeOK, Phase
  <2> QED BY <1>0, <2>1, <2>2 DEF TypeOK
<1>2. Accepted'
  BY DEF Accepted, ConfigurationValid, AuthenticationValid, GrantsWellFormed,
     PrincipalsWellFormed, SignerValid, LocalDevelopmentValid, ProviderValid,
     WellFormed, IngressValid
<1>3. Built'
  BY <1>0, EnvironmentTyped DEF Built, VerifierBuilt, SchemaInstalled,
     ProviderBuilt, AdaptersBuilt, IngressBuilt, ObserverBuilt, ProbesBuilt,
     Untouched, Composed, AdaptersUsable, AfterVerifier, AfterProvider,
     AfterAdapters, AfterIngress, AfterObserver, AuthenticationValid
<1>4. AcceptedSettingsFit'
  BY <1>0, EnvironmentTyped DEF AcceptedSettingsFit, Built, SchemaInstalled,
     ProviderBuilt, AdaptersBuilt, Accepted, AdaptersUsable, ConfigurationValid,
     AuthenticationValid, GrantsWellFormed, PrincipalsWellFormed, SignerValid,
     LocalDevelopmentValid, ProviderValid, WellFormed, IngressValid, AfterVerifier,
     AfterProvider, AfterAdapters, AfterIngress, AfterObserver, AuthenticationValid
<1> QED BY ONLY <1>1, <1>2, <1>3, <1>4 DEF IInv

\* The announcement changes nothing else.
LEMMA AnnounceIInv == IInv /\ Announce => IInv'
<1> SUFFICES ASSUME IInv, Announce PROVE IInv'
  OBVIOUS
<1> USE DEF IInv, Announce, Goto
<1>0. env \in Environment /\ composed \in Composed
  BY DEF TypeOK
<1>1. TypeOK'
  <2>1. composed' \in Composed
    BY <1>0, EnvironmentTyped, ComposedTyped
  <2>2. phase' \in Phase /\ announced' \in BOOLEAN /\ schema' \in BOOLEAN
    BY DEF TypeOK, Phase
  <2> QED BY <1>0, <2>1, <2>2 DEF TypeOK
<1>2. Accepted'
  BY DEF Accepted, ConfigurationValid, AuthenticationValid, GrantsWellFormed,
     PrincipalsWellFormed, SignerValid, LocalDevelopmentValid, ProviderValid,
     WellFormed, IngressValid
<1>3. Built'
  BY <1>0, EnvironmentTyped DEF Built, VerifierBuilt, SchemaInstalled,
     ProviderBuilt, AdaptersBuilt, IngressBuilt, ObserverBuilt, ProbesBuilt,
     Untouched, Composed, AdaptersUsable, AfterVerifier, AfterProvider,
     AfterAdapters, AfterIngress, AfterObserver
<1>4. AcceptedSettingsFit'
  BY <1>0, EnvironmentTyped DEF AcceptedSettingsFit, Built, SchemaInstalled,
     ProviderBuilt, AdaptersBuilt, Accepted, AdaptersUsable, ConfigurationValid,
     AuthenticationValid, GrantsWellFormed, PrincipalsWellFormed, SignerValid,
     LocalDevelopmentValid, ProviderValid, WellFormed, IngressValid, AfterVerifier,
     AfterProvider, AfterAdapters, AfterIngress, AfterObserver
<1> QED BY ONLY <1>1, <1>2, <1>3, <1>4 DEF IInv

\* Only several databases stop the process here.
LEMMA DatabaseUrlIInv == IInv /\ DatabaseUrl => IInv'
<1> SUFFICES ASSUME IInv, DatabaseUrl PROVE IInv'
  OBVIOUS
<1> USE DEF IInv, DatabaseUrl, Goto
<1>0. env \in Environment /\ composed \in Composed
  BY DEF TypeOK
<1>1. TypeOK'
  <2>1. composed' \in Composed
    BY <1>0, EnvironmentTyped, ComposedTyped
  <2>2. phase' \in Phase /\ announced' \in BOOLEAN /\ schema' \in BOOLEAN
    BY DEF TypeOK, Phase
  <2> QED BY <1>0, <2>1, <2>2 DEF TypeOK
<1>2. Accepted'
  BY DEF Accepted, ConfigurationValid, AuthenticationValid, GrantsWellFormed,
     PrincipalsWellFormed, SignerValid, LocalDevelopmentValid, ProviderValid,
     WellFormed, IngressValid
<1>3. Built'
  BY <1>0, EnvironmentTyped DEF Built, VerifierBuilt, SchemaInstalled,
     ProviderBuilt, AdaptersBuilt, IngressBuilt, ObserverBuilt, ProbesBuilt,
     Untouched, Composed, AdaptersUsable, AfterVerifier, AfterProvider,
     AfterAdapters, AfterIngress, AfterObserver
<1>4. AcceptedSettingsFit'
  BY <1>0, EnvironmentTyped DEF AcceptedSettingsFit, Built, SchemaInstalled,
     ProviderBuilt, AdaptersBuilt, Accepted, AdaptersUsable, ConfigurationValid,
     AuthenticationValid, GrantsWellFormed, PrincipalsWellFormed, SignerValid,
     LocalDevelopmentValid, ProviderValid, WellFormed, IngressValid, AfterVerifier,
     AfterProvider, AfterAdapters, AfterIngress, AfterObserver
<1> QED BY ONLY <1>1, <1>2, <1>3, <1>4 DEF IInv

\* The process goes on with the schema installed.
LEMMA InstallSchemaIInv == IInv /\ InstallSchema => IInv'
<1> SUFFICES ASSUME IInv, InstallSchema PROVE IInv'
  OBVIOUS
<1> USE DEF IInv, InstallSchema, Goto
<1>0. env \in Environment /\ composed \in Composed
  BY DEF TypeOK
<1>1. TypeOK'
  <2>1. composed' \in Composed
    BY <1>0, EnvironmentTyped, ComposedTyped
  <2>2. phase' \in Phase /\ announced' \in BOOLEAN /\ schema' \in BOOLEAN
    BY DEF TypeOK, Phase
  <2> QED BY <1>0, <2>1, <2>2 DEF TypeOK
<1>2. Accepted'
  BY DEF Accepted, ConfigurationValid, AuthenticationValid, GrantsWellFormed,
     PrincipalsWellFormed, SignerValid, LocalDevelopmentValid, ProviderValid,
     WellFormed, IngressValid
<1>3. \/ phase' = "provider" /\ schema'
      \/ phase' = "died" /\ ~schema'
  <2>1. PICK reached \in BOOLEAN :
           schema' = reached /\ phase' = (IF reached THEN "provider" ELSE "died")
    OBVIOUS
  <2>2. CASE reached
    BY ONLY <2>1, <2>2
  <2>3. CASE ~reached
    BY ONLY <2>1, <2>3
  <2> QED BY ONLY <2>2, <2>3
<1>4. Built'
  BY <1>0, <1>3 DEF Built, VerifierBuilt, SchemaInstalled, ProviderBuilt,
     AdaptersBuilt, IngressBuilt, ObserverBuilt, ProbesBuilt, Untouched,
     AdaptersUsable, AfterVerifier, AfterProvider, AfterAdapters, AfterIngress,
     AfterObserver
<1>5. AcceptedSettingsFit'
  BY ONLY <1>3 DEF AcceptedSettingsFit
<1> QED BY ONLY <1>1, <1>2, <1>4, <1>5 DEF IInv

\* The provider of an accepted configuration fails for its registries, its values or
\* its packages.
LEMMA SecretProviderIInv == IInv /\ SecretProvider => IInv'
<1> SUFFICES ASSUME IInv, SecretProvider PROVE IInv'
  OBVIOUS
<1> USE DEF IInv, SecretProvider, Goto
<1>0. env \in Environment /\ composed \in Composed
  BY DEF TypeOK
<1>1. TypeOK'
  <2>1. composed' \in Composed
    BY <1>0, EnvironmentTyped, ComposedTyped
  <2>2. phase' \in Phase /\ announced' \in BOOLEAN /\ schema' \in BOOLEAN
    BY DEF TypeOK, Phase
  <2> QED BY <1>0, <2>1, <2>2 DEF TypeOK
<1>2. Accepted'
  BY DEF Accepted, ConfigurationValid, AuthenticationValid, GrantsWellFormed,
     PrincipalsWellFormed, SignerValid, LocalDevelopmentValid, ProviderValid,
     WellFormed, IngressValid
<1>3. Built'
  BY <1>0, EnvironmentTyped DEF Built, VerifierBuilt, SchemaInstalled,
     ProviderBuilt, AdaptersBuilt, IngressBuilt, ObserverBuilt, ProbesBuilt,
     Untouched, Composed, AdaptersUsable, AfterVerifier, AfterProvider,
     AfterAdapters, AfterIngress, AfterObserver, ProviderUsable
<1>4. AcceptedSettingsFit'
  BY <1>0, EnvironmentTyped DEF AcceptedSettingsFit, Built, SchemaInstalled,
     ProviderBuilt, AdaptersBuilt, Accepted, AdaptersUsable, ConfigurationValid,
     AuthenticationValid, GrantsWellFormed, PrincipalsWellFormed, SignerValid,
     LocalDevelopmentValid, ProviderValid, WellFormed, IngressValid, AfterVerifier,
     AfterProvider, AfterAdapters, AfterIngress, AfterObserver, ProviderUsable
<1> QED BY ONLY <1>1, <1>2, <1>3, <1>4 DEF IInv

\* Runtimes other than Docker, or missing packages.
LEMMA RuntimeAdapterIInv == IInv /\ RuntimeAdapter => IInv'
<1> SUFFICES ASSUME IInv, RuntimeAdapter PROVE IInv'
  OBVIOUS
<1> USE DEF IInv, RuntimeAdapter, Goto
<1>0. env \in Environment /\ composed \in Composed
  BY DEF TypeOK
<1>1. TypeOK'
  <2>1. composed' \in Composed
    BY <1>0, EnvironmentTyped, ComposedTyped
  <2>2. phase' \in Phase /\ announced' \in BOOLEAN /\ schema' \in BOOLEAN
    BY DEF TypeOK, Phase
  <2> QED BY <1>0, <2>1, <2>2 DEF TypeOK
<1>2. Accepted'
  BY DEF Accepted, ConfigurationValid, AuthenticationValid, GrantsWellFormed,
     PrincipalsWellFormed, SignerValid, LocalDevelopmentValid, ProviderValid,
     WellFormed, IngressValid
<1>3. Built'
  BY <1>0, EnvironmentTyped DEF Built, VerifierBuilt, SchemaInstalled,
     ProviderBuilt, AdaptersBuilt, IngressBuilt, ObserverBuilt, ProbesBuilt,
     Untouched, Composed, AdaptersUsable, AfterVerifier, AfterProvider,
     AfterAdapters, AfterIngress, AfterObserver
<1>4. AcceptedSettingsFit'
  BY <1>0, EnvironmentTyped DEF AcceptedSettingsFit, Built, SchemaInstalled,
     ProviderBuilt, AdaptersBuilt, Accepted, AdaptersUsable, ConfigurationValid,
     AuthenticationValid, GrantsWellFormed, PrincipalsWellFormed, SignerValid,
     LocalDevelopmentValid, ProviderValid, WellFormed, IngressValid, AfterVerifier,
     AfterProvider, AfterAdapters, AfterIngress, AfterObserver
<1> QED BY ONLY <1>1, <1>2, <1>3, <1>4 DEF IInv

\* An accepted ingress provider finds the provider composition it needs.
LEMMA IngressAdapterIInv == IInv /\ IngressAdapter => IInv'
<1> SUFFICES ASSUME IInv, IngressAdapter PROVE IInv'
  OBVIOUS
<1> USE DEF IInv, IngressAdapter, Goto
<1>0. env \in Environment /\ composed \in Composed
  BY DEF TypeOK
<1>1. TypeOK'
  <2>1. composed' \in Composed
    BY <1>0, EnvironmentTyped, ComposedTyped
  <2>2. phase' \in Phase /\ announced' \in BOOLEAN /\ schema' \in BOOLEAN
    BY DEF TypeOK, Phase
  <2> QED BY <1>0, <2>1, <2>2 DEF TypeOK
<1>2. Accepted'
  BY DEF Accepted, ConfigurationValid, AuthenticationValid, GrantsWellFormed,
     PrincipalsWellFormed, SignerValid, LocalDevelopmentValid, ProviderValid,
     WellFormed, IngressValid
<1>3. Built'
  BY <1>0, EnvironmentTyped DEF Built, VerifierBuilt, SchemaInstalled,
     ProviderBuilt, AdaptersBuilt, IngressBuilt, ObserverBuilt, ProbesBuilt,
     Untouched, Composed, AdaptersUsable, AfterVerifier, AfterProvider,
     AfterAdapters, AfterIngress, AfterObserver, IngressUsable
<1>4. AcceptedSettingsFit'
  BY <1>0, EnvironmentTyped DEF AcceptedSettingsFit, Built, SchemaInstalled,
     ProviderBuilt, AdaptersBuilt, Accepted, AdaptersUsable, ConfigurationValid,
     AuthenticationValid, GrantsWellFormed, PrincipalsWellFormed, SignerValid,
     LocalDevelopmentValid, ProviderValid, WellFormed, IngressValid, AfterVerifier,
     AfterProvider, AfterAdapters, AfterIngress, AfterObserver, IngressUsable
<1> QED BY ONLY <1>1, <1>2, <1>3, <1>4 DEF IInv

\* What the adapters accepted has an observer.
LEMMA RuntimeObserverIInv == IInv /\ RuntimeObserver => IInv'
<1> SUFFICES ASSUME IInv, RuntimeObserver PROVE IInv'
  OBVIOUS
<1> USE DEF IInv, RuntimeObserver, Goto
<1>0. env \in Environment /\ composed \in Composed
  BY DEF TypeOK
<1>1. TypeOK'
  <2>1. composed' \in Composed
    BY <1>0, EnvironmentTyped, ComposedTyped
  <2>2. phase' \in Phase /\ announced' \in BOOLEAN /\ schema' \in BOOLEAN
    BY DEF TypeOK, Phase
  <2> QED BY <1>0, <2>1, <2>2 DEF TypeOK
<1>2. Accepted'
  BY DEF Accepted, ConfigurationValid, AuthenticationValid, GrantsWellFormed,
     PrincipalsWellFormed, SignerValid, LocalDevelopmentValid, ProviderValid,
     WellFormed, IngressValid
<1>3. Built'
  BY <1>0, EnvironmentTyped DEF Built, VerifierBuilt, SchemaInstalled,
     ProviderBuilt, AdaptersBuilt, IngressBuilt, ObserverBuilt, ProbesBuilt,
     Untouched, Composed, AdaptersUsable, AfterVerifier, AfterProvider,
     AfterAdapters, AfterIngress, AfterObserver
<1>4. AcceptedSettingsFit'
  <2>1. env.runtimes \in {{}, {"docker"}}
    BY <1>0, EnvironmentTyped DEF Built, AdaptersBuilt, AdaptersUsable,
       AfterVerifier, AfterProvider, AfterAdapters, AfterIngress, AfterObserver
  <2> QED BY <2>1 DEF AcceptedSettingsFit
<1> QED BY ONLY <1>1, <1>2, <1>3, <1>4 DEF IInv

\* An accepted signer finds its resolver.
LEMMA GatewayProbesIInv == IInv /\ GatewayProbes => IInv'
<1> SUFFICES ASSUME IInv, GatewayProbes PROVE IInv'
  OBVIOUS
<1> USE DEF IInv, GatewayProbes, Goto
<1>0. env \in Environment /\ composed \in Composed
  BY DEF TypeOK
<1>1. TypeOK'
  <2>1. composed' \in Composed
    BY <1>0, EnvironmentTyped, ComposedTyped
  <2>2. phase' \in Phase /\ announced' \in BOOLEAN /\ schema' \in BOOLEAN
    BY DEF TypeOK, Phase
  <2> QED BY <1>0, <2>1, <2>2 DEF TypeOK
<1>2. Accepted'
  BY DEF Accepted, ConfigurationValid, AuthenticationValid, GrantsWellFormed,
     PrincipalsWellFormed, SignerValid, LocalDevelopmentValid, ProviderValid,
     WellFormed, IngressValid
<1>3. Built'
  BY <1>0, EnvironmentTyped DEF Built, VerifierBuilt, SchemaInstalled,
     ProviderBuilt, AdaptersBuilt, IngressBuilt, ObserverBuilt, ProbesBuilt,
     Untouched, Composed, AdaptersUsable, AfterVerifier, AfterProvider,
     AfterAdapters, AfterIngress, AfterObserver, ProbesUsable, ResolverUsable
<1>4. AcceptedSettingsFit'
  BY <1>0, EnvironmentTyped DEF AcceptedSettingsFit, Built, SchemaInstalled,
     ProviderBuilt, AdaptersBuilt, Accepted, AdaptersUsable, ConfigurationValid,
     AuthenticationValid, GrantsWellFormed, PrincipalsWellFormed, SignerValid,
     LocalDevelopmentValid, ProviderValid, WellFormed, IngressValid, AfterVerifier,
     AfterProvider, AfterAdapters, AfterIngress, AfterObserver, ProbesUsable,
     ResolverUsable
<1> QED BY ONLY <1>1, <1>2, <1>3, <1>4 DEF IInv

\* A step of the process composes, or leaves the composition alone while it serves.
LEMMA ServerNextIInv == IInv /\ [ServerNext]_serverVars => IInv'
<1> SUFFICES ASSUME IInv, [ServerNext]_serverVars PROVE IInv'
  OBVIOUS
<1>1. CASE UNCHANGED vars
  <2> USE <1>1 DEF vars, IInv
  <2>1. TypeOK' /\ AcceptedSettingsFit'
    BY DEF TypeOK, AcceptedSettingsFit
  <2>2. Accepted'
    BY DEF Accepted, ConfigurationValid, AuthenticationValid, GrantsWellFormed,
       PrincipalsWellFormed, SignerValid, LocalDevelopmentValid, ProviderValid,
       WellFormed, IngressValid
  <2>3. Built'
    BY DEF Built, VerifierBuilt, SchemaInstalled, ProviderBuilt, AdaptersBuilt,
       AdaptersUsable, IngressBuilt, ObserverBuilt, ProbesBuilt, Untouched
  <2> QED BY ONLY <2>1, <2>2, <2>3 DEF IInv
<1>2. CASE Bootstraps
  BY <1>1, <1>2, ParseIInv, VerifierIInv, AnnounceIInv, DatabaseUrlIInv,
     InstallSchemaIInv,
     SecretProviderIInv, RuntimeAdapterIInv, IngressAdapterIInv, RuntimeObserverIInv,
     GatewayProbesIInv DEF Bootstraps, Done
<1> QED BY <1>1, <1>2 DEF ServerNext, serverVars, Loops

\* The strengthening is an invariant of the whole process.
LEMMA SpecIInv == ServerSpec => []IInv
<1>1. ServerInit => IInv
  BY InitIInv DEF ServerInit
<1> QED BY <1>1, ServerNextIInv, PTL DEF ServerSpec

\* Every setting the bootstrap accepts or passes on stays within what the code tells
\* apart of it (CpkServerBootstrapConfiguration, create_app).
THEOREM SpecTypeOK == ServerSpec => []TypeOK
<1>1. IInv => TypeOK
  BY DEF IInv
<1> QED BY <1>1, SpecIInv, PTL

\* A process that serves has a verifier, and it composed what /health/ready announces
\* (create_app, server.py:443-559).
THEOREM SpecServesWhatItAnnounces == ServerSpec => []ServesWhatItAnnounces
<1>1. IInv => ServesWhatItAnnounces
  <2> SUFFICES ASSUME IInv, phase = "serving" PROVE ServesWhatItAnnounces
    BY DEF ServesWhatItAnnounces
  <2> USE DEF IInv
  <2>1. env \in Environment
    BY DEF TypeOK
  <2>2. /\ composed.verifier # "none"
        /\ composed.provider = env.resolver
        /\ composed.adapters = env.runtimes
        /\ composed.ingress = env.ingress
        /\ composed.probes = env.signer
    BY DEF Built, VerifierBuilt, ProviderBuilt, AdaptersBuilt, IngressBuilt,
       ProbesBuilt,
       AfterVerifier, AfterProvider, AfterAdapters, AfterIngress, AfterObserver
  <2>3. env.runtimes \in {{}, {"docker"}}
    BY <2>1, EnvironmentTyped DEF Built, AdaptersBuilt, AdaptersUsable,
       AfterProvider, AfterAdapters
  <2>4. (env.runtimes # {}) <=> (composed.observer = "docker")
    BY <2>3 DEF Built, ObserverBuilt, AfterProvider, AfterAdapters, AfterIngress,
       AfterObserver
  <2>5. env.ingress # {} => env.resolver = "provider"
    BY <2>1, EnvironmentTyped DEF Accepted, Built, ConfigurationValid,
       IngressValid, IngressBuilt,
       AfterProvider, AfterAdapters, AfterIngress
  <2>6. env.resolver = "local-development" => env.runtimes = {"docker"} /\ env.signer = "none"
    BY <2>1, <2>3, EnvironmentTyped DEF Accepted, ConfigurationValid,
       LocalDevelopmentValid,
       IngressValid, SignerValid
  <2> QED BY ONLY <2>2, <2>4, <2>5, <2>6 DEF ServesWhatItAnnounces
<1> QED BY <1>1, SpecIInv, PTL

\* A process whose configuration was accepted only dies of what no configuration can
\* settle (from_environment, server.py:182-440, against create_app's own checks).
THEOREM SpecAcceptedSettingsFit == ServerSpec => []AcceptedSettingsFit
<1>1. IInv => AcceptedSettingsFit
  BY DEF IInv
<1> QED BY <1>1, SpecIInv, PTL

----------------------------------------------------------------------------
\* What the serving process calls a service for: a second invariant, on top of IInv.

\* A set of positions that is not empty has a smallest one.
LEMMA Smallest ==
    ASSUME NEW T, T \subseteq Nat, T # {}
    PROVE  \E i \in T : \A j \in T : i <= j
<1>1. PICK i \in T : \A j \in T : ~(<<j, i>> \in OpToRel(<, Nat))
  BY NatLessThanWellFounded, WFMin
<1>2. \A j \in T : ~(j < i)
  BY <1>1 DEF OpToRel
<1> QED BY <1>2

\* A handler that answers none of its refusals found none of its conditions.
LEMMA FirstOfNone ==
    ASSUME NEW n \in Nat, NEW checks, DOMAIN checks = 1 .. n,
           Edge!FirstOf(checks) = None,
           \A i \in 1 .. n : checks[i].status # None
    PROVE  \A i \in 1 .. n : ~checks[i].when
<1> DEFINE failing == {i \in DOMAIN checks : checks[i].when}
           first == CHOOSE i \in failing : \A j \in failing : i <= j
<1> SUFFICES ASSUME failing # {} PROVE FALSE
  OBVIOUS
<1>1. failing \subseteq 1 .. n
  OBVIOUS
<1>2. Edge!FirstOf(checks) = checks[first].status
  BY DEF Edge!FirstOf
<1> HIDE DEF failing
<1>3. \E i \in failing : \A j \in failing : i <= j
  BY <1>1, Smallest, failing \subseteq Nat, failing # {}
<1>4. first \in failing
  BY <1>3
<1> QED BY <1>1, <1>2, <1>4

\* The fields of a check: its condition and the answer it gives.
LEMMA CheckFields ==
    ASSUME NEW w \in BOOLEAN, NEW s
    PROVE  Edge!Check(w, s).status = s /\ (Edge!Check(w, s).when <=> w)
  BY DEF Edge!Check

\* Over HTTP a service is only called for a known operation, an authenticated
\* caller and a payload within the route's bound.
LEMMA HttpVouched ==
    ASSUME NEW r \in Edge!HttpRequest, Edge!HttpRefusal(r) = None
    PROVE  /\ Edge!authenticate(r.credential) # None
           /\ Edge!ServiceRequest(r).size = "bounded"
<1> DEFINE checks == <<Edge!Check(r.operation = None, "404"),
              Edge!Check(Edge!authenticate(r.credential) = None, "401"),
              Edge!Check(r.operation \in Read /\ r.body # "empty", "400"),
              Edge!Check(r.operation \in Read /\ r.query = "oversized", "413"),
              Edge!Check(r.operation \in Read /\ r.query = "garbled", "400"),
              Edge!Check(r.operation \in Command /\ r.query # "empty", "400"),
              Edge!Check(r.operation \in Command /\ r.body = "oversized", "413"),
              Edge!Check(r.operation \in Command /\ r.body = "fatal", "uncaught"),
              Edge!Check(r.operation \in Command /\ r.body \in {"garbled", "other value"}, "400")>>
<1>1. checks[1].status = "404" /\ (checks[1].when <=> r.operation = None)
  BY CheckFields
<1>2. checks[2].status = "401" /\ (checks[2].when <=> Edge!authenticate(r.credential) = None)
  BY CheckFields
<1>3. checks[3].status = "400" /\ (checks[3].when <=> (r.operation \in Read /\ r.body # "empty"))
  BY CheckFields
<1>4. checks[4].status = "413" /\ (checks[4].when <=> (r.operation \in Read /\ r.query = "oversized"))
  BY CheckFields
<1>5. checks[5].status = "400" /\ (checks[5].when <=> (r.operation \in Read /\ r.query = "garbled"))
  BY CheckFields
<1>6. checks[6].status = "400" /\ (checks[6].when <=> (r.operation \in Command /\ r.query # "empty"))
  BY CheckFields
<1>7. checks[7].status = "413" /\ (checks[7].when <=> (r.operation \in Command /\ r.body = "oversized"))
  BY CheckFields
<1>8. checks[8].status = "uncaught" /\ (checks[8].when <=> (r.operation \in Command /\ r.body = "fatal"))
  BY CheckFields
<1>9. checks[9].status = "400" /\ (checks[9].when <=> (r.operation \in Command /\ r.body \in {"garbled", "other value"}))
  BY CheckFields
<1>10. Edge!FirstOf(checks) = None
  BY DEF Edge!HttpRefusal
<1>11. DOMAIN checks = 1 .. 9
  OBVIOUS
<1> HIDE DEF checks
<1>12. \A i \in 1 .. 9 : checks[i].status # None
  <2>1. None \notin {"400", "401", "404", "413", "uncaught"}
    BY EdgeAssumption DEF Edge!DistinctAssumption
  <2>2. /\ checks[1].status = "404" /\ checks[2].status = "401" /\ checks[3].status = "400"
        /\ checks[4].status = "413" /\ checks[5].status = "400" /\ checks[6].status = "400"
        /\ checks[7].status = "413" /\ checks[8].status = "uncaught" /\ checks[9].status = "400"
    BY <1>1, <1>2, <1>3, <1>4, <1>5, <1>6, <1>7, <1>8, <1>9
  <2> QED BY <2>1, <2>2
<1>13. \A i \in 1 .. 9 : ~checks[i].when
  BY <1>10, <1>11, <1>12, FirstOfNone
<1>14. /\ r.operation # None
       /\ Edge!authenticate(r.credential) # None
       /\ ~(r.operation \in Read /\ r.body # "empty")
       /\ ~(r.operation \in Read /\ r.query = "oversized")
       /\ ~(r.operation \in Command /\ r.query # "empty")
       /\ ~(r.operation \in Command /\ r.body = "oversized")
  BY <1>1, <1>2, <1>3, <1>4, <1>6, <1>7, <1>13
<1>15. r.operation \in Command \cup Read
  BY <1>14 DEF Edge!HttpRequest, Edge!Operation
<1> QED BY <1>14, <1>15 DEF Edge!ServiceRequest

\* Over MCP the method says whether the operation is a command.
LEMMA McpVouched ==
    ASSUME NEW r \in Edge!McpRequest, Edge!McpRefusal(r) = None
    PROVE  /\ Edge!authenticate(r.credential) # None
           /\ r.method = "tools/call" <=> r.operation \in Command
<1> DEFINE checks == <<Edge!Check(r.body = "fatal", "uncaught"),
              Edge!Check(r.body = "garbled", "400"),
              Edge!Check(r.headers = "missing", "400"),
              Edge!Check(Edge!authenticate(r.credential) = None, "401"),
              Edge!Check(r.body = "other value", "uncaught"),
              Edge!Check(r.headers = "other method", "400"),
              Edge!Check(r.body = "other envelope", "400"),
              Edge!Check(r.method = "other", "404"),
              Edge!Check(r.body = "misshapen", "400"),
              Edge!Check(r.operation = None, "404"),
              Edge!Check(r.method = "tools/call" /\ r.operation \in Read, "400"),
              Edge!Check(r.method = "resources/read" /\ r.operation \in Command, "400")>>
<1>1. checks[1].status = "uncaught" /\ (checks[1].when <=> r.body = "fatal")
  BY CheckFields
<1>2. checks[2].status = "400" /\ (checks[2].when <=> r.body = "garbled")
  BY CheckFields
<1>3. checks[3].status = "400" /\ (checks[3].when <=> r.headers = "missing")
  BY CheckFields
<1>4. checks[4].status = "401" /\ (checks[4].when <=> Edge!authenticate(r.credential) = None)
  BY CheckFields
<1>5. checks[5].status = "uncaught" /\ (checks[5].when <=> r.body = "other value")
  BY CheckFields
<1>6. checks[6].status = "400" /\ (checks[6].when <=> r.headers = "other method")
  BY CheckFields
<1>7. checks[7].status = "400" /\ (checks[7].when <=> r.body = "other envelope")
  BY CheckFields
<1>8. checks[8].status = "404" /\ (checks[8].when <=> r.method = "other")
  BY CheckFields
<1>9. checks[9].status = "400" /\ (checks[9].when <=> r.body = "misshapen")
  BY CheckFields
<1>10. checks[10].status = "404" /\ (checks[10].when <=> r.operation = None)
  BY CheckFields
<1>11. checks[11].status = "400" /\ (checks[11].when <=> (r.method = "tools/call" /\ r.operation \in Read))
  BY CheckFields
<1>12. checks[12].status = "400" /\ (checks[12].when <=> (r.method = "resources/read" /\ r.operation \in Command))
  BY CheckFields
<1>13. Edge!FirstOf(checks) = None
  BY DEF Edge!McpRefusal
<1>14. DOMAIN checks = 1 .. 12
  OBVIOUS
<1> HIDE DEF checks
<1>15. \A i \in 1 .. 12 : checks[i].status # None
  <2>1. None \notin {"400", "401", "404", "413", "uncaught"}
    BY EdgeAssumption DEF Edge!DistinctAssumption
  <2>2. /\ checks[1].status = "uncaught" /\ checks[2].status = "400" /\ checks[3].status = "400"
        /\ checks[4].status = "401" /\ checks[5].status = "uncaught" /\ checks[6].status = "400"
        /\ checks[7].status = "400" /\ checks[8].status = "404" /\ checks[9].status = "400"
        /\ checks[10].status = "404" /\ checks[11].status = "400" /\ checks[12].status = "400"
    BY <1>1, <1>2, <1>3, <1>4, <1>5, <1>6, <1>7, <1>8, <1>9, <1>10, <1>11, <1>12
  <2> QED BY <2>1, <2>2
<1>16. \A i \in 1 .. 12 : ~checks[i].when
  BY <1>13, <1>14, <1>15, FirstOfNone
<1>17. /\ Edge!authenticate(r.credential) # None
       /\ r.method # "other"
       /\ r.operation # None
       /\ ~(r.method = "tools/call" /\ r.operation \in Read)
       /\ ~(r.method = "resources/read" /\ r.operation \in Command)
  BY <1>4, <1>8, <1>10, <1>11, <1>12, <1>16
<1> QED BY <1>17 DEF Edge!McpRequest, Edge!Operation


\* A credential that authenticates is in exactly one entry, whose principal it gets.
LEMMA AuthenticatedByOne ==
    ASSUME verifier \in Edge!Configured, NEW k, Edge!authenticate(k) # None
    PROVE  \E i \in DOMAIN verifier :
              /\ Edge!authenticate(k) = verifier[i].principal
              /\ \A j \in DOMAIN verifier : verifier[j].credential = k <=> j = i
<1>1. PICK n \in 1 .. MaxEntries : verifier \in [1 .. n -> Edge!Entry]
  BY DEF Edge!Configured
<1>2. \A i, j \in 1 .. n : verifier[i].credential = verifier[j].credential => i = j
  BY <1>1 DEF Edge!Configured, Edge!EntriesValid
<1> DEFINE matching == Edge!Matching(k)
<1>3. matching = {i \in 1 .. n : verifier[i].credential = k}
  BY <1>1 DEF Edge!Matching
<1>4. PICK i \in matching : TRUE
  BY DEF Edge!authenticate
<1>5. \A j \in matching : j = i
  BY <1>2, <1>3, <1>4
<1> DEFINE first == CHOOSE h \in matching : \A j \in matching : h <= j
<1>6. first = i
  BY <1>3, <1>4, <1>5
<1>7. Edge!authenticate(k) = verifier[first].principal
  BY <1>4 DEF Edge!authenticate
<1> HIDE DEF matching, first
<1> QED BY <1>1, <1>3, <1>4, <1>5, <1>6, <1>7

\* The verifier a followed process serves with is one the operator may configure,
\* and a service is called only then, for a request that was asked.
Vouched ==
    /\ phase \in AfterVerifier /\ env \in Followed => verifier \in Edge!Configured
    /\ DOMAIN request = Client /\ DOMAIN call = Client
    /\ \A c \in Client : /\ request[c] \in Asked[c] \cup {None}
                         /\ call[c] # None => Serves /\ request[c] # None
    /\ CallVouched

\* Nobody has asked anything of a process that has not started.
LEMMA InitVouched == ServerInit => Vouched
  BY DEF ServerInit, Init, Vouched, AfterVerifier, CallVouched, Edge!CallVouched

\* Nothing that is not serving has called a service.
LEMMA BootstrapsVouched == IInv /\ Vouched /\ Bootstraps => Vouched'
<1> SUFFICES ASSUME IInv, Vouched, Bootstraps PROVE Vouched'
  OBVIOUS
<1>1. UNCHANGED <<request, call, env>>
  BY DEF Bootstraps, edgeVars, Verifier, Parse, Announce, DatabaseUrl, InstallSchema,
         SecretProvider, RuntimeAdapter, IngressAdapter, RuntimeObserver, GatewayProbes,
         Done, Goto, vars
<1>2. CASE Verifier /\ verifier' \in Entries
  <2>1. phase = "verifier" /\ \A c \in Client : call[c] = None
    BY <1>2 DEF Verifier, Vouched, Serves
  <2>2. phase' \in AfterVerifier /\ env \in Followed => verifier' \in Edge!Configured
    <3> SUFFICES ASSUME phase' \in AfterVerifier, env \in Followed
                 PROVE  verifier' \in Edge!Configured
      OBVIOUS
    <3>1. env \in Environment
      BY DEF IInv, TypeOK
    <3>2. env.auth \in {"single", "principals"}
      BY <1>2, <3>1, EnvironmentTyped
         DEF Verifier, Goto, AfterVerifier, IInv, Accepted, ConfigurationValid,
             AuthenticationValid, GrantsWellFormed, PrincipalsWellFormed
    <3> QED BY <1>2, <3>2 DEF Entries
  <2> QED BY <1>1, <2>1, <2>2 DEF Vouched, CallVouched, Edge!CallVouched
<1>3. CASE /\ \/ Parse \/ Announce \/ DatabaseUrl \/ InstallSchema \/ SecretProvider
              \/ RuntimeAdapter \/ IngressAdapter \/ RuntimeObserver \/ GatewayProbes
              \/ Done
           /\ UNCHANGED edgeVars
  <2>1. /\ phase' \in AfterVerifier => phase \in AfterVerifier
        /\ phase = "serving" => phase' = "serving"
    BY <1>3 DEF Parse, Announce, DatabaseUrl, InstallSchema,
         SecretProvider, RuntimeAdapter, IngressAdapter, RuntimeObserver, GatewayProbes,
         Done, Goto, vars, AfterVerifier
  <2> QED BY <1>1, <1>3, <2>1 DEF Vouched, CallVouched, Edge!CallVouched, edgeVars, Serves
<1> QED BY <1>2, <1>3 DEF Bootstraps

\* A handler calls a service for a request its checks let through.
LEMMA HandleVouched ==
    ASSUME IInv, Vouched, Serves, NEW c \in Client, UNCHANGED vars,
           Edge!HandleHttp(c) \/ Edge!HandleMcp(c)
    PROVE  Vouched'
<1> DEFINE r == request[c]
           refusal == IF r.surface = "http" THEN Edge!HttpRefusal(r) ELSE Edge!McpRefusal(r)
<1>1. /\ r # None /\ r.surface \in {"http", "mcp"}
      /\ UNCHANGED <<verifier, request>>
      /\ \/ UNCHANGED call
         \/ refusal = None /\ call' = [call EXCEPT ![c] = Edge!ServiceRequest(r)]
  BY DEF Edge!HandleHttp, Edge!HandleMcp, Edge!Handle
<1>2. r \in Edge!HttpRequest \cup Edge!McpRequest \cup Edge!HealthRequest
  BY <1>1, EdgeAssumption DEF Vouched, Edge!AskedAssumption
<1>3. /\ r.surface = "http" => r \in Edge!HttpRequest
      /\ r.surface = "mcp" => r \in Edge!McpRequest
  BY <1>1, <1>2 DEF Edge!HttpRequest, Edge!McpRequest, Edge!HealthRequest
<1>4. UNCHANGED <<phase, env>> /\ verifier \in Edge!Configured
  BY DEF vars, Serves, Vouched, AfterVerifier
<1>5. CASE UNCHANGED call
  BY <1>1, <1>4, <1>5 DEF Vouched, CallVouched, Edge!CallVouched, Serves
<1>6. CASE refusal = None /\ call' = [call EXCEPT ![c] = Edge!ServiceRequest(r)]
  <2>1. call'[c] = Edge!ServiceRequest(r) /\ \A d \in Client : d # c => call'[d] = call[d]
    BY <1>6 DEF Vouched
  <2>2. Edge!authenticate(r.credential) # None
    BY <1>1, <1>3, <1>6, HttpVouched, McpVouched
  <2>3. \E i \in DOMAIN verifier :
           /\ call'[c].principal = verifier[i].principal
           /\ \A j \in DOMAIN verifier : verifier[j].credential = r.credential <=> j = i
    BY <1>4, <2>1, <2>2, AuthenticatedByOne DEF Edge!ServiceRequest
  <2>4. r.surface = "mcp" => (r.method = "tools/call" <=> call'[c].operation \in Command)
    BY <1>3, <1>6, <2>1, McpVouched DEF Edge!ServiceRequest
  <2>5. r.surface = "http" => call'[c].size = "bounded"
    BY <1>3, <1>6, <2>1, HttpVouched
  <2>6. CallVouched'
    BY <1>1, <2>1, <2>3, <2>4, <2>5 DEF Vouched, CallVouched, Edge!CallVouched
  <2>7. DOMAIN call' = Client
    BY <1>6 DEF Vouched
  <2> QED BY <1>1, <1>4, <2>1, <2>6, <2>7 DEF Vouched, Serves
<1> QED BY <1>1, <1>5, <1>6

\* Every step of the process and of its callers keeps the calls vouched for.
LEMMA ServerNextVouched == IInv /\ Vouched /\ [ServerNext]_serverVars => Vouched'
<1> SUFFICES ASSUME IInv, Vouched, [ServerNext]_serverVars PROVE Vouched'
  OBVIOUS
<1>1. CASE UNCHANGED serverVars
  BY <1>1 DEF serverVars, vars, edgeVars, Vouched, Serves, CallVouched, Edge!CallVouched
<1>2. CASE Bootstraps
  BY <1>2, BootstrapsVouched
<1>3. ASSUME Serves, NEW c \in Client, UNCHANGED vars,
             Edge!Health(c) \/ Edge!ServiceEnds(c)
      PROVE  Vouched'
  <2>1. UNCHANGED <<verifier, request, call, phase, env>>
    BY <1>3 DEF Edge!Health, Edge!ServiceEnds, vars
  <2> QED BY <2>1 DEF Vouched, Serves, CallVouched, Edge!CallVouched
<1>4. ASSUME Serves, NEW c \in Client, UNCHANGED vars, Edge!Arrive(c)
      PROVE  Vouched'
  <2>1. UNCHANGED <<verifier, call, phase, env>>
    BY <1>4 DEF Edge!Arrive, vars
  <2>2. request[c] = None /\ call[c] = None
    BY <1>4 DEF Edge!Arrive, Vouched
  <2>3. PICK r \in Asked[c] : request' = [request EXCEPT ![c] = r]
    BY <1>4 DEF Edge!Arrive
  <2>4. /\ DOMAIN request' = Client /\ request'[c] \in Asked[c]
        /\ \A d \in Client : d # c => request'[d] = request[d]
    BY <2>3 DEF Vouched
  <2> QED BY <2>1, <2>2, <2>4 DEF Vouched, Serves, CallVouched, Edge!CallVouched
<1>5. ASSUME Serves, NEW c \in Client, UNCHANGED vars, Edge!Take(c)
      PROVE  Vouched'
  <2>1. UNCHANGED <<verifier, phase, env>>
    BY <1>5 DEF Edge!Take, vars
  <2>2. /\ DOMAIN request' = Client /\ request'[c] = None
        /\ DOMAIN call' = Client /\ call'[c] = None
        /\ \A d \in Client : d # c => request'[d] = request[d] /\ call'[d] = call[d]
    BY <1>5 DEF Edge!Take, Vouched
  <2> QED BY <2>1, <2>2 DEF Vouched, Serves, CallVouched, Edge!CallVouched
<1> QED BY <1>1, <1>2, <1>3, <1>4, <1>5, HandleVouched DEF ServerNext, Loops, Edge!Loop

\* A service acts for the one configured principal of the caller's credential, for an
\* operation its surface may ask for and within the route's size, whatever the callers
\* send and in whatever order the event loop runs them (authenticate_bearer_credential,
\* _decode_mcp_message, _decode_http_payload).
THEOREM SpecCallVouched == ServerSpec => []CallVouched
<1>1. Vouched => CallVouched
  BY DEF Vouched
<1> QED BY <1>1, InitVouched, SpecIInv, ServerNextVouched, PTL DEF ServerSpec

============================================================================
