----------------------------- MODULE MCStorage -----------------------------
(* A torrent of two pieces, of a block each, in one file. *)
EXTENDS Storage, TLC

CONSTANTS torrent, file

BothOf(x) == 0 :> x @@ 1 :> x
OneOwner == BothOf(torrent)
OneFile == BothOf(file)
TwoPieces == 0 :> 0 @@ 1 :> 1
=============================================================================
