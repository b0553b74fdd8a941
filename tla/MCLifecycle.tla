----------------------------- MODULE MCLifecycle -----------------------------
(* Two torrents for TLC. *)
EXTENDS Lifecycle, TLC

CONSTANTS t1, t2

OneEach == [d \in Directions |-> 1]
=============================================================================
