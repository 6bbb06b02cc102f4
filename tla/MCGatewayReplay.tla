----------------------------- MODULE MCGatewayReplay -----------------------------
EXTENDS GatewayReplay

CONSTANTS t1, t2, j1, j2, j3

MCThread == {t1, t2}
MCJti == {j1, j2, j3}

\* j1 and j2 expire while the run lasts, j3 outlives it; with MaxEntries = 2
\* the cache fills up and empties again.
MCIssuedAt == [j \in MCJti |-> IF j = j3 THEN 1 ELSE 0]
MCExpiresAt == [j \in MCJti |-> IF j = j1 THEN 1 ELSE IF j = j2 THEN 2 ELSE 9]
====
