---------------------------- MODULE MCLifecycle ----------------------------
(* Lifecycle with room for a second task. Every property but the types says *)
(* nothing once the owner was hasty, so nothing is explored behind that.    *)
EXTENDS Lifecycle

BeforeHaste == hasty = "never"
=============================================================================
