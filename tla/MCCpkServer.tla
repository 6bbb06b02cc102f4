------------------------------ MODULE MCCpkServer ------------------------------
EXTENDS CpkServer, TLC

Asks == INSTANCE Requests

CONSTANTS c1, c2, k1, k2, p, q, plan, graph

\* c1 asks everything there is; c2 shares the event loop with it.
MCAsked ==
    c1 :> Asks!HttpRequest \cup Asks!McpRequest \cup Asks!HealthRequest
    @@ c2 :> {[surface |-> "http", operation |-> plan, credential |-> k1,
               body |-> "empty", query |-> "empty"]}

\* The hosted deployment, with one credential or a list of principals.
MCFollowed ==
    {[basics |-> "valid", auth |-> a, resolver |-> "provider", values |-> "absent",
      registries |-> "both", signer |-> "ed25519", dns |-> "usable",
      runtimes |-> {"docker"}, ingress |-> {"cloudflare"}, databases |-> "one",
      packages |-> "installed"] : a \in {"single", "principals"}}
====
