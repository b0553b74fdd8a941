---------------------------- MODULE VerifyWorker ----------------------------
(***************************************************************************)
(* tr_verify_worker: a queue of torrents to verify and the detached thread *)
(* that empties it (libtransmission/verify.cc).  The operators below are   *)
(* the critical sections of verify_mutex_, as relations between the        *)
(* worker's variables; module Lifecycle composes them with the session     *)
(* thread and with what the callbacks do to a torrent.                     *)
(***************************************************************************)
EXTENDS Naturals

CONSTANTS Torrents, None,
          NumPieces   \* pieces of each torrent

ASSUME WorkerAssumption ==
    /\ None \notin Torrents
    /\ NumPieces \in Nat \ {0}

Pieces == 0 .. NumPieces - 1

VARIABLES
    todo,         \* the torrents of todo_
    current,      \* the torrent of current_node_, or None
    stopCurrent,  \* stop_current_
    piece,        \* the next piece that verify_torrent() checks
    thread        \* where the worker thread is

\* absent: there is no thread, verify_thread_id_ is empty
\* next: at the top of the loop of verify_thread_func()
\* picked: has a node, has not called on_verify_started() yet
\* checking: in the loop of verify_torrent()
\* reporting: past that loop, has not called on_verify_done() yet
ThreadStates == {"absent", "next", "picked", "checking", "reporting"}

workerVars == <<todo, current, stopCurrent, piece, thread>>

WorkerTypeOK ==
    /\ todo \in SUBSET Torrents
    /\ current \in Torrents \cup {None}
    /\ stopCurrent \in BOOLEAN
    /\ piece \in 0 .. NumPieces
    /\ thread \in ThreadStates

WorkerInit ==
    /\ todo = {}
    /\ current = None
    /\ stopCurrent = FALSE
    /\ piece = 0
    /\ thread = "absent"

\* Fault: a torrent that is being verified is only looked for in the queue.
NeedsWaitFault(t) == FALSE

\* remove() of torrent t has to wait for the thread to let go of it.
NeedsWait(t) == current = t

\* remove() of a torrent that is being verified, up to the wait.
StopCurrent == stopCurrent' = TRUE /\ UNCHANGED <<todo, current, piece, thread>>

\* Fault: no thread is started for the new node.
RequeueFault(t, added) ==
    /\ todo' = (todo \ {t}) \cup added
    /\ UNCHANGED <<current, stopCurrent, piece, thread>>

\* remove() of a torrent that is not: `added' holds the torrent if it is put
\* back at once by add().
Requeue(t, added) ==
    /\ todo' = (todo \ {t}) \cup added
    /\ thread' = IF added # {} /\ thread = "absent" THEN "next" ELSE thread
    /\ UNCHANGED <<current, stopCurrent, piece>>

\* Fault: the last node stays current when the thread ends.
NextNodeFault ==
    /\ thread = "next"
    /\ stopCurrent' = FALSE
    /\ \/ /\ todo = {}
          /\ thread' = "absent"
          /\ UNCHANGED <<todo, current>>
       \/ \E t \in todo : todo' = todo \ {t} /\ current' = t /\ thread' = "picked"
    /\ UNCHANGED piece

\* verify_thread_func(), the part under the mutex: answer a waiting remove(),
\* then take the best node or end the thread.  (Which node is best depends on
\* priority and size: any node may be.)
NextNode ==
    /\ thread = "next"
    /\ stopCurrent' = FALSE
    /\ \/ /\ todo = {}
          /\ current' = None
          /\ thread' = "absent"
          /\ UNCHANGED todo
       \/ \E t \in todo : todo' = todo \ {t} /\ current' = t /\ thread' = "picked"
    /\ UNCHANGED piece

\* verify_torrent(): on_verify_started() ...
StartNode ==
    /\ thread = "picked"
    /\ thread' = "checking"
    /\ piece' = 0
    /\ UNCHANGED <<todo, current, stopCurrent>>

\* Fault: the loop does not end at the last piece.
NextPieceFault ==
    /\ thread = "checking"
    /\ ~stopCurrent
    /\ piece' = piece + 1
    /\ UNCHANGED <<todo, current, stopCurrent, thread>>

\* ... a turn of the loop that checks a piece ...
NextPiece ==
    /\ thread = "checking"
    /\ ~stopCurrent
    /\ piece < NumPieces
    /\ piece' = piece + 1
    /\ UNCHANGED <<todo, current, stopCurrent, thread>>

\* ... out of the loop ...
LeaveLoop ==
    /\ thread = "checking"
    /\ stopCurrent \/ piece = NumPieces
    /\ thread' = "reporting"
    /\ UNCHANGED <<todo, current, stopCurrent, piece>>

\* ... and on_verify_done(), which is told of a stop up to that moment.
ReportNode ==
    /\ thread = "reporting"
    /\ thread' = "next"
    /\ UNCHANGED <<todo, current, stopCurrent, piece>>

\* The destructor, up to its wait for the thread.
Abandon == stopCurrent' = TRUE /\ todo' = {} /\ UNCHANGED <<current, piece, thread>>
=============================================================================
