----------------------------- MODULE MCSession -----------------------------
(* Two addresses to look up and two other tasks. *)
EXTENDS Session, TLC

CONSTANTS announce, scrape

AllTasks == {0, 1, announce, scrape}
=============================================================================
