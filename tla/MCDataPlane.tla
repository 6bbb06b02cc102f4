------------------------------ MODULE MCDataPlane ------------------------------
EXTENDS DataPlane

CONSTANTS r1, r2, other

\* Two requests for "/" and one for a path the hello servers do not know.
MCRequest == {r1, r2, other}
MCForRoot == {r1, r2}

\* One request of each kind.
FewRequest == {r1, other}
FewForRoot == {r1}
====
