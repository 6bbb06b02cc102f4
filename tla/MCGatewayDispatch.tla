--------------------------- MODULE MCGatewayDispatch ---------------------------
EXTENDS GatewayDispatch, TLC

CONSTANTS g1, g2, web, store

MCRequestOf == g1 :> [kind |-> "http-status", target |-> web]
               @@ g2 :> [kind |-> "postgres-select-one", target |-> store]

\* g1 expires first and is good for as long as g2 is live.
MCIssuedAt == g1 :> 0 @@ g2 :> 1
MCExpiresAt == g1 :> 1 @@ g2 :> 2

\* Both targets as the requests need them, one of them absent or of the other
\* protocol, and a map the gateway refuses.
MCTargets == {web :> a @@ store :> b : a \in {"http", "postgres"},
                                         b \in {"absent", "secret-shaped", "postgres"}}
             \cup {web :> "http" @@ store :> "malformed"}
====
