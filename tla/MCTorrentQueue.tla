--------------------------- MODULE MCTorrentQueue ---------------------------
(* Three torrents; a session gives three ids, so that one that leaves comes back in
   the next session only. *)
EXTENDS TorrentQueue, TLC
=============================================================================
