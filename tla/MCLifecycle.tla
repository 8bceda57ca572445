---------------------------- MODULE MCLifecycle ----------------------------
(* Lifecycle with two slaves.  The environments are chosen in the configurations. *)
EXTENDS Lifecycle

Always == {TRUE}
Never == {FALSE}
Both == {TRUE, FALSE}
=============================================================================
