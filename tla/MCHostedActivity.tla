---------------------------- MODULE MCHostedActivity ----------------------------
(* HostedActivity with the workspaces of the seeded scenarios and the default one. *)
EXTENDS HostedActivity

MCWorkspaces == {"workspace-a-router", "workspace-b-multiplexer", "workspace-c-postgres",
                 "workspace-d-negative-cleanup", Basic}
MCScripts == {"single-hello", "seeded-stress-public-ingress",
              "multi-workspace-foundation", "public-gateway-ingress",
              "public-gateway-toggle", "authenticated-gateway-private"}
=============================================================================
