SPECIFICATION Spec
INVARIANT CheckpointBehind
INVARIANT CurrentIngressSpared
PROPERTY CleanExitMeansGone
PROPERTY CustodyEnds
