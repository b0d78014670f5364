------------------------ MODULE MCUpstreamScheduler ------------------------
(* A small instance of UpstreamScheduler for TLC: two instances, one of them *)
(* with a single slot, two interactive requests on it, one on the other, and *)
(* a batch request on each.                                                  *)
EXTENDS UpstreamScheduler

CONSTANTS a1, a2, b1, x1, x2, A, B

MCRequests == {a1, a2, b1, x1, x2}
MCInstances == {A, B}
MCBatch == {x1, x2}
MCInstanceOf == [r \in MCRequests |-> IF r \in {a1, a2, x1} THEN A ELSE B]
MCInstanceLimit == [i \in MCInstances |-> IF i = A THEN 1 ELSE 2]
=============================================================================
