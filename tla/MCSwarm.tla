------------------------------- MODULE MCSwarm -------------------------------
(* Small torrents for TLC. *)
EXTENDS Swarm, TLC

CONSTANTS p1, p2, f1, f2

\* Two pieces of one and a half blocks: block 1 belongs to both.
SharedBegin == (0 :> 0) @@ (1 :> 1)
SharedEnd == (0 :> 2) @@ (1 :> 3)

\* A piece of two blocks and a last piece of one.
AlignedBegin == (0 :> 0) @@ (1 :> 2)
AlignedEnd == (0 :> 2) @@ (1 :> 3)

\* Where no peer has the fast extension, peers differ by name only.
PeerSymmetry == Permutations(Peers)

OneFilePerPiece == (f1 :> {0}) @@ (f2 :> {1})
OneFile == f1 :> {0, 1}
=============================================================================
