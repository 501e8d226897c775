-------------------------- MODULE MCWindowOutputs --------------------------
(***************************************************************************)
(* Instances of WindowOutputs for TLC.                                     *)
(***************************************************************************)
EXTENDS WindowOutputs, TLC

Symmetry == Permutations(Outputs)

\* A third output is bound only while no input is in flight: it is there for
\* the ownership of sizes and families, which no input step reads.
ThirdOutputIsQuiet ==
    Cardinality({o \in Outputs : Bound(o)}) > 2 =>
        down = {} /\ direct = {} /\ pointer = None /\ cursor = None /\ exported = None
=============================================================================
