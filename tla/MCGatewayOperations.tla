------------------------- MODULE MCGatewayOperations -------------------------
EXTENDS GatewayOperations, TLC

CONSTANTS a1, a2

MCKind == [k \in Key |-> k]
MCCandidate == [k \in Key |-> "kernel"]
MCUsable == {u \in Attempt \X Key : u[1] = a2 => u[2] = "evaluate"}

Arm(read, experiments, broadcast, dev) ==
  [read |-> read, experiments |-> experiments, broadcast |-> broadcast, dev |-> dev]
Isolated == Arm(FALSE, TRUE, FALSE, FALSE)
Broadcast == Arm(FALSE, FALSE, TRUE, FALSE)
Readable == Arm(TRUE, TRUE, TRUE, FALSE)
DevOnly == Arm(FALSE, FALSE, FALSE, TRUE)
MCArms == {Isolated, Broadcast, Readable, DevOnly}

\* Two faults where a Trajectory falls back on a task of its own; a measurement
\* and both reports, with a fault where no evaluation need come first.
MCRequests == [l \in MCArms |-> IF l \in {Readable, DevOnly} THEN 3 ELSE 2]
MCFaults == [l \in MCArms |-> CASE l = Isolated -> 2
                                [] l = Readable -> 0
                                [] OTHER -> 1]

Symmetry == Permutations(Handler)
=============================================================================
