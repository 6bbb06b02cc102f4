----------------------------- MODULE MCTopologyClient -----------------------------
EXTENDS TopologyClient
CONSTANTS base, wanted, other
MCGraph == {base, wanted, other}
=============================================================================
