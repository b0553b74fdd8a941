-------------------------------- MODULE Web --------------------------------
(***************************************************************************)
(* tr_web: tasks that the session thread fetches and a thread that runs    *)
(* curl (libtransmission/web.cc).  The curl thread is taken step by step,  *)
(* as others change the queue of new tasks and the deadline under it; what *)
(* it does while it holds tasks_mutex_ is one step.  A finished task's     *)
(* callback is a closure for the session thread: module Session composes   *)
(* the two.                                                                *)
(*                                                                         *)
(* Definitions called ...Fault are wrong on purpose.                       *)
(***************************************************************************)
EXTENDS Sequences

CONSTANTS Tasks   \* what may be fetched; one at a time of each

VARIABLES
    queued,    \* queued_tasks_
    running,   \* running_tasks_
    deadline,  \* deadline_ns_, as it compares with the clock
    curl,      \* where curlThreadFunc() is
    work       \* work_queue_ of the session thread

\* top: at the top of the loop; killing: in the loop that ends the running
\* tasks; idling: about to look whether it may end; taking: about to take
\* the lock; sleeping: waits on queued_tasks_cv_; splicing: has the lock, and new
\* tasks; performing: past the lock.
CurlStates == {"top", "killing", "idling", "taking", "sleeping", "splicing", "performing", "ended"}

\* none: NoDeadline; ahead: in the future; reached: deadline_reached()
Deadlines == {"none", "ahead", "reached"}

webVars == <<queued, running, deadline, curl>>

WebTypeOK ==
    /\ queued \in SUBSET Tasks
    /\ running \in SUBSET Tasks
    /\ deadline \in Deadlines
    /\ curl \in CurlStates

WebInit ==
    /\ queued = {}
    /\ running = {}
    /\ deadline = "none"
    /\ curl = "top"

\* is_idle()
IsIdle == queued = {} /\ running = {}

\* What is_idle() may say to another thread.  It takes no lock: while all there is
\* moves from one list to the other, neither list may seem to have it.
MaySeemIdle == IsIdle \/ (curl = "splicing" /\ running = {})

\* deadline_exists()
DeadlineExists == deadline # "none"

-----------------------------------------------------------------------------
(* What the session does to it.                                            *)

\* fetch() of tasks ts: refused, without a word, once there is a deadline.  It takes
\* the lock.
Fetch(ts) ==
    /\ curl # "splicing"
    /\ queued' = IF DeadlineExists THEN queued ELSE queued \cup ts

\* startShutdown(), with time left or without.
StartShutdown(d) == deadline' = d

\* The clock reaches the deadline.
DeadlinePasses ==
    /\ deadline = "ahead"
    /\ deadline' = "reached"
    /\ UNCHANGED <<queued, running, curl, work>>

-----------------------------------------------------------------------------
(* The curl thread.                                                        *)

Goes(from, to) == curl = from /\ curl' = to

\* deadline_reached() at the top of the loop
Top ==
    /\ Goes("top", IF deadline = "reached" THEN "killing" ELSE "idling")
    /\ UNCHANGED <<queued, running, deadline, work>>

\* Fault: the task stays in the list.
RemoveTaskFault(t) == t \in running /\ work' = Append(work, t) /\ UNCHANGED running

\* remove_task(): the callback goes to the session thread.
RemoveTask(t) ==
    /\ t \in running
    /\ running' = running \ {t}
    /\ work' = Append(work, t)

\* timeout_task() of a task that the deadline has caught.
Kill(t) == curl = "killing" /\ RemoveTask(t) /\ UNCHANGED <<queued, deadline, curl>>

KilledAll ==
    /\ running = {}
    /\ Goes("killing", "idling")
    /\ UNCHANGED <<queued, running, deadline, work>>

\* Ends if there is a deadline and nothing to do.
EndOrGoOn ==
    /\ Goes("idling", IF DeadlineExists /\ IsIdle THEN "ended" ELSE "taking")
    /\ UNCHANGED <<queued, running, deadline, work>>

\* Fault: sleeps whenever there is a deadline, whatever there is to do.
StopWaitingFault == ~DeadlineExists

\* stop_waiting()
StopWaiting == ~IsIdle \/ ~DeadlineExists

\* With the lock: go to sleep, or see what tasks are new...
Sleep ==
    /\ ~StopWaiting
    /\ Goes("taking", "sleeping")
    /\ UNCHANGED <<queued, running, deadline, work>>

TakeQueued ==
    /\ curl \in {"taking", "sleeping"}
    /\ StopWaiting
    /\ curl' = IF queued = {} THEN "performing" ELSE "splicing"
    /\ UNCHANGED <<queued, running, deadline, work>>

\* ...and move them to the running ones.
Splice ==
    /\ Goes("splicing", "performing")
    /\ running' = running \cup queued
    /\ queued' = {}
    /\ UNCHANGED <<deadline, work>>

\* A task of curl's is finished, one way or the other.
Finish(t) == curl = "performing" /\ RemoveTask(t) /\ UNCHANGED <<queued, deadline, curl>>

Again ==
    /\ Goes("performing", "top")
    /\ UNCHANGED <<queued, running, deadline, work>>

CurlThread ==
    \/ Top
    \/ KilledAll
    \/ EndOrGoOn
    \/ Sleep
    \/ TakeQueued
    \/ Splice
    \/ Again
    \/ \E t \in Tasks : Kill(t) \/ Finish(t)
=============================================================================
