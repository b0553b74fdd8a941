----------------------------- MODULE MCAnnouncer -----------------------------
(* Small announce lists for TLC. *)
EXTENDS Announcer, TLC

CONSTANTS t1, k1, k2

\* One tier of two trackers.
OnePair == {t1 :> <<k1, k2>>}

\* The user may remove one of two trackers of a tier, and put it back.
Edited == {t1 :> <<k1, k2>>, t1 :> <<k1>>}
=============================================================================
