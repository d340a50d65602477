-------------------------- MODULE MCObjectVersioning --------------------------
(* Constants of ObjectVersioning that a configuration file cannot state. *)
EXTENDS ObjectVersioning, TLC

\* A PUT of a version overwrites an unversioned master, or may leave it.
Overwrites == {TRUE}
Either == BOOLEAN

Symmetry == Permutations(Reqs)
=============================================================================
