-------------------------------- MODULE Bootstrap --------------------------------
(***************************************************************************)
(* cpk-server from its environment to a process that serves: main() parses *)
(* the configuration, builds the credential verifier, announces itself,    *)
(* and create_app composes the application.  Composing checks again what   *)
(* parsing should have settled, when the announcement has been printed and *)
(* the schema of the operations database may have been installed.          *)
(***************************************************************************)
EXTENDS FiniteSets

CONSTANTS
    RuntimeKind,   \* runtime kinds the operations library accepts, "docker" among them
    IngressKind    \* ingress provider kinds, "cloudflare" among them

ASSUME KindAssumption == "docker" \in RuntimeKind /\ "cloudflare" \in IngressKind

VARIABLES
    env,        \* the process environment, as far as the code tells it apart
    phase,      \* how far main() got
    announced,  \* "listening on" has been printed
    schema,     \* install_schema committed
    composed    \* what create_app has built so far

vars == <<env, phase, announced, schema, composed>>

\* basics: required names, mode, closed vocabularies, port, grant lifetime and the
\* withdrawn Docker credentials.  registries: the two provider registries; dns: the
\* endpoint of the public resolver.  "unusable" is well formed for the parser and
\* refused by the constructor that gets it in the end.
Environment ==
    [basics : {"valid", "invalid"},
     auth : {"none", "none with static", "single", "single incomplete",
             "single malformed", "principals", "principals malformed", "mixed"},
     resolver : {"none", "provider", "local-development"},
     values : {"absent", "empty", "malformed", "unusable", "present"},
     registries : {"absent", "one", "malformed", "unusable", "both"},
     signer : {"none", "ed25519"},
     dns : {"usable", "unusable"},
     runtimes : SUBSET RuntimeKind,
     ingress : SUBSET IngressKind,
     databases : {"one", "several"},
     packages : {"installed", "missing"}]

Nothing == [verifier |-> "none", provider |-> "none", adapters |-> {}, ingress |-> {},
            observer |-> "unsupported", probes |-> "none"]

Composed == [verifier : {"none", "single", "principals"},
             provider : {"none", "provider", "local-development"},
             adapters : SUBSET RuntimeKind,
             ingress : SUBSET IngressKind,
             observer : {"unsupported", "docker"},
             probes : {"none", "ed25519"}]

Phase == {"parse", "verifier", "announce", "database", "schema", "provider", "adapters",
          "ingress", "observer", "probes", "serving", "refused", "died"}

Init == /\ env \in Environment
        /\ phase = "parse"
        /\ announced = FALSE
        /\ schema = FALSE
        /\ composed = Nothing

----------------------------------------------------------------------------
\* CpkServerBootstrapConfiguration.from_environment

\* _static_workspace_grants and _static_principals.
GrantsWellFormed == env.auth # "single malformed"
PrincipalsWellFormed == env.auth # "principals malformed"

\* Mutant of AuthenticationValid: principals win over a single credential.
AuthenticationValidMixed ==
    /\ env.auth \notin {"none with static", "single incomplete"}
    /\ GrantsWellFormed
    /\ PrincipalsWellFormed

AuthenticationValid ==
    /\ env.auth \notin {"none with static", "single incomplete", "mixed"}
    /\ GrantsWellFormed
    /\ PrincipalsWellFormed

SignerValid == env.signer = "ed25519" => env.resolver = "provider"

LocalDevelopmentValid ==
    IF env.resolver = "local-development"
       THEN /\ \/ "docker" \in env.runtimes
               \/ "cloudflare" \in env.ingress
               \/ env.signer # "none"
            /\ env.values \notin {"absent", "empty"}
            /\ env.registries = "absent"
       ELSE env.values = "absent"

\* _validated_bootstrap_mapping_json.
WellFormed(mapping) == mapping # "malformed"

ProviderValid ==
    IF env.resolver = "provider"
       THEN env.registries \notin {"absent", "one"} /\ WellFormed(env.registries)
       ELSE env.registries = "absent"

\* Mutant of IngressValid: any resolver will do.
IngressValidWithAny == "cloudflare" \in env.ingress => env.resolver # "none"

IngressValid == "cloudflare" \in env.ingress => env.resolver = "provider"

ConfigurationValid == /\ env.basics = "valid"
                      /\ AuthenticationValid
                      /\ SignerValid
                      /\ LocalDevelopmentValid
                      /\ ProviderValid
                      /\ IngressValid

----------------------------------------------------------------------------
\* main() and create_app

Goto(next) == phase' = next /\ UNCHANGED env

\* A BootstrapConfigurationError inside main's try ends the process with status 2.
Parse == /\ phase = "parse"
         /\ Goto(IF ConfigurationValid THEN "verifier" ELSE "refused")
         /\ UNCHANGED <<announced, schema, composed>>

\* Mutant of Verifier: without a verifier the process goes on.
VerifierOptional ==
    /\ phase = "verifier"
    /\ Goto("announce")
    /\ composed' = [composed EXCEPT !.verifier = env.auth]
    /\ UNCHANGED <<announced, schema>>

\* _credential_verifier: "none" is refused, still inside the try.
Verifier == /\ phase = "verifier"
            /\ Goto(IF env.auth = "none" THEN "refused" ELSE "announce")
            /\ composed' = [composed EXCEPT !.verifier = env.auth]
            /\ UNCHANGED <<announced, schema>>

Announce == /\ phase = "announce"
            /\ announced' = TRUE
            /\ Goto("database")
            /\ UNCHANGED <<schema, composed>>

\* operations_database_url: outside the try, like everything from here on.
DatabaseUrl == /\ phase = "database"
               /\ Goto(IF env.databases = "one" THEN "schema" ELSE "died")
               /\ UNCHANGED <<announced, schema, composed>>

\* _install_operations_schema: the database may be out of reach.
InstallSchema == /\ phase = "schema"
                 /\ \E reached \in BOOLEAN : /\ schema' = reached
                                             /\ Goto(IF reached THEN "provider" ELSE "died")
                 /\ UNCHANGED <<announced, composed>>

\* _secret_provider_composition.  The values of local development are parsed here,
\* not when the configuration is.
ProviderUsable ==
    CASE env.resolver = "none" -> TRUE
      [] env.resolver = "local-development" -> WellFormed(env.values) /\ env.values # "unusable"
      [] env.resolver = "provider" -> env.packages = "installed" /\ env.registries = "both"

SecretProvider ==
    /\ phase = "provider"
    /\ Goto(IF ProviderUsable THEN "adapters" ELSE "died")
    /\ composed' = IF ProviderUsable THEN [composed EXCEPT !.provider = env.resolver]
                                     ELSE composed
    /\ UNCHANGED <<announced, schema>>

\* _runtime_adapter: disabled, or one interpreter per kind; only Docker has one.
AdaptersUsable == env.runtimes \subseteq {"docker"}
                  /\ (env.runtimes # {} => env.packages = "installed")

RuntimeAdapter ==
    /\ phase = "adapters"
    /\ Goto(IF AdaptersUsable THEN "ingress" ELSE "died")
    /\ composed' = IF AdaptersUsable THEN [composed EXCEPT !.adapters = env.runtimes]
                                     ELSE composed
    /\ UNCHANGED <<announced, schema>>

\* _ingress_interpreters: only Cloudflare has one, and it needs a resolver and a
\* custodian, which only the provider composition has.
IngressUsable == /\ env.ingress \subseteq {"cloudflare"}
                 /\ env.ingress # {} => /\ env.packages = "installed"
                                        /\ composed.provider = "provider"

IngressAdapter ==
    /\ phase = "ingress"
    /\ Goto(IF IngressUsable THEN "observer" ELSE "died")
    /\ composed' = IF IngressUsable THEN [composed EXCEPT !.ingress = env.ingress]
                                    ELSE composed
    /\ UNCHANGED <<announced, schema>>

\* Mutant of RuntimeObserver: a process that executes does without an observer.
RuntimeObserverLeftOut ==
    /\ phase = "observer"
    /\ Goto("probes")
    /\ UNCHANGED <<announced, schema, composed>>

\* _runtime_observer: disabled, or exactly one Docker provider.
RuntimeObserver ==
    /\ phase = "observer"
    /\ Goto(IF env.runtimes \in {{}, {"docker"}} THEN "probes" ELSE "died")
    /\ composed' = IF env.runtimes = {"docker"} THEN [composed EXCEPT !.observer = "docker"]
                                                ELSE composed
    /\ UNCHANGED <<announced, schema>>

\* _public_dns_resolver
ResolverUsable == env.packages = "installed" /\ env.dns = "usable"

\* _gateway_probe_dispatcher: a signer needs an authorized resolver, and a public DNS
\* resolver even if every gateway of the workspace is private.
ProbesUsable == env.signer = "ed25519" => composed.provider # "none" /\ ResolverUsable

GatewayProbes ==
    /\ phase = "probes"
    /\ Goto(IF ProbesUsable THEN "serving" ELSE "died")
    /\ composed' = IF ProbesUsable THEN [composed EXCEPT !.probes = env.signer] ELSE composed
    /\ UNCHANGED <<announced, schema>>

\* uvicorn.run; the process ends otherwise.
Done == /\ phase \in {"serving", "refused", "died"}
        /\ UNCHANGED vars

Next == \/ Parse \/ Verifier \/ Announce
        \/ DatabaseUrl \/ InstallSchema \/ SecretProvider
        \/ RuntimeAdapter \/ IngressAdapter \/ RuntimeObserver \/ GatewayProbes
        \/ Done

Spec == Init /\ [][Next]_vars

----------------------------------------------------------------------------

TypeOK == /\ env \in Environment
          /\ phase \in Phase
          /\ announced \in BOOLEAN
          /\ schema \in BOOLEAN
          /\ composed \in Composed

\* A process that serves has a credential verifier, and what it announces as ready
\* (/health/ready, server.py:483-499) is what it composed: each runtime kind with
\* an adapter and an observer of its own, each ingress kind with an interpreter
\* that can resolve and keep secrets.  Values of local development only ever reach
\* containers of the Docker runtime (357-368): the other consumers the refusal names
\* cannot be had without a provider (339-344, 408-416).
ServesWhatItAnnounces ==
    phase = "serving" =>
        /\ composed.verifier # "none"
        /\ composed.adapters = env.runtimes
        /\ (env.runtimes # {}) <=> (composed.observer = "docker")
        /\ composed.ingress = env.ingress
        /\ composed.ingress # {} => composed.provider = "provider"
        /\ composed.probes = env.signer
        /\ composed.provider = "local-development" =>
              composed.adapters = {"docker"} /\ composed.probes = "none"

\* What can still stop a process whose configuration was accepted: several
\* databases, an unreachable one, a registry or values only the library can judge,
\* a kind without an interpreter, or packages that are not installed.  The settings
\* themselves fit together, whatever their combination (from_environment,
\* server.py:182-440, against create_app's own checks).
AcceptedSettingsFit ==
    phase = "died" => \/ env.databases = "several"
                      \/ ~schema
                      \/ env.packages = "missing"
                      \/ env.registries = "unusable"
                      \/ env.dns = "unusable"
                      \/ env.values \in {"malformed", "unusable"}
                      \/ ~(env.runtimes \subseteq {"docker"})
                      \/ ~(env.ingress \subseteq {"cloudflare"})
=============================================================================
