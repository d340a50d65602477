--------------------------- MODULE MCBucketLifecycle ---------------------------
(* Constants of BucketLifecycle that a configuration file cannot state. *)
EXTENDS BucketLifecycle, TLC

Always == {TRUE}
Never == {FALSE}
Either == BOOLEAN

Symmetry == Permutations(Reqs)
=============================================================================
