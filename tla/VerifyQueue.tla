----------------------------- MODULE VerifyQueue -----------------------------
(***************************************************************************)
(* What the verification of local data promises the rest of the program:   *)
(* a torrent is queued, then verified or taken back, and at most one       *)
(* torrent is verified at a time.  Module Lifecycle, with the worker       *)
(* thread, its mutex and the two threads that talk to it, implements it.   *)
(***************************************************************************)
CONSTANT Torrents

VARIABLE state   \* the verify_state_ of every torrent

VerifyStates == {"none", "queued", "active"}

Init == state = [t \in Torrents |-> "none"]

Queue(t) ==
    /\ state[t] = "none"
    /\ state' = [state EXCEPT ![t] = "queued"]

\* Never a second torrent while one is verified.
Begin(t) ==
    /\ state[t] = "queued"
    /\ \A u \in Torrents : state[u] # "active"
    /\ state' = [state EXCEPT ![t] = "active"]

\* Completed, aborted, or taken off the queue.
End(t) ==
    /\ state[t] # "none"
    /\ state' = [state EXCEPT ![t] = "none"]

\* Shutdown forgets the whole queue; nothing is being verified then.
Forget ==
    /\ \A t \in Torrents : state[t] # "active"
    /\ state' = [t \in Torrents |-> "none"]

Next == (\E t \in Torrents : Queue(t) \/ Begin(t) \/ End(t)) \/ Forget

Spec == Init /\ [][Next]_state
=============================================================================
