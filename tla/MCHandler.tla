----------------------------- MODULE MCHandler -----------------------------
(* Handler on small instances.                                              *)
EXTENDS Handler

\* Nothing runs, or a cell that was thought dead runs one index again.
MCLeftovers ==
    {{}, {[process |-> p, index |-> 0, instance |-> g] : p \in Processes, g \in Guids}}
=============================================================================
