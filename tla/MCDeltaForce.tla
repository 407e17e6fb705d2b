---------------------------- MODULE MCDeltaForce ----------------------------
(* delta_force.Reconcile on every slice of up to MaxActuals instances, at  *)
(* indices 0 .. MaxIndex, and every count from -1 to MaxDesired.           *)
EXTENDS DeltaForceLoop

CONSTANTS MaxActuals, MaxIndex, MaxDesired

MCGuids == 1 .. MaxActuals
MCNumDesireds == -1 .. MaxDesired

\* Guids are only compared for equality: number the instances in slice order.
MCInputs ==
    UNION { { [k \in 1 .. n |-> [index |-> f[k], instance |-> k]]
                : f \in [1 .. n -> 0 .. MaxIndex] }
            : n \in 0 .. MaxActuals }
=============================================================================
