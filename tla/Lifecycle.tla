------------------------------ MODULE Lifecycle ------------------------------
(***************************************************************************)
(* Starting, stopping, queueing, verifying and removing torrents.  Three   *)
(* kinds of thread meet here: the session thread, which runs RPC handlers, *)
(* timers and the closures given to run_in_session_thread(); a front end   *)
(* that calls the tr_torrent... functions from a thread of its own; and    *)
(* the verify worker's thread, which changes a torrent's blocks under      *)
(* nobody's lock.  A verification can only be taken back by waiting for    *)
(* the worker, with the session lock held (torrent.cc, verify.cc,          *)
(* session.cc).                                                            *)
(*                                                                         *)
(* A torrent is a record; a handler of one torrent is a function from      *)
(* record to record.  Definitions called ...Fault are wrong on purpose.    *)
(***************************************************************************)
EXTENDS VerifyWorker, Sequences, FiniteSets

CONSTANTS QueueSize,     \* QueueSize[d]: how many torrents may be active in direction d
          Front,         \* "rpc": commands come by RPC; "direct": from a thread of their own
          VerifyComplete,\* torrent_complete_verify_enabled: verify what is newly complete
          MaxCommands    \* bound on the commands of the user

Directions == {"up", "down"}

ASSUME LifecycleAssumption ==
    /\ QueueSize \in [Directions -> Nat]
    /\ Front \in {"rpc", "direct"}
    /\ VerifyComplete \in BOOLEAN
    /\ MaxCommands \in Nat

VARIABLES
    alive,     \* the torrents that are not freed
    tor,       \* tor[t]: the state of torrent t
    work,      \* closures queued for the session thread
    waiting,   \* what the session thread does when remove() returns
    starts,    \* the torrents that on_queue_timer() has still to start
    closing,   \* has the session been told to close?
    commands   \* number of commands so far

sessionVars == <<alive, tor, work, waiting, starts, closing>>
vars == <<workerVars, sessionVars, commands>>

VerifyStates == {"none", "queued", "active"}

TorrentRecords == [
    running : BOOLEAN,      \* is_running_
    joined : BOOLEAN,       \* its swarm is running: started_, not yet stopped_
    stopping : BOOLEAN,     \* is_stopping_
    queued : BOOLEAN,       \* is_queued_
    stable : BOOLEAN,       \* start_when_stable_
    deleting : BOOLEAN,     \* is_deleting_
    done : BOOLEAN,         \* completeness_ is not TR_LEECH
    needsCheck : BOOLEAN,   \* needs_completeness_check_
    verify : VerifyStates,  \* verify_state_
    has : SUBSET Pieces,    \* completion_
    checked : SUBSET Pieces,\* checked_pieces_
    disk : SUBSET Pieces,   \* pieces whose bytes on disk match their hash
    cached : SUBSET Pieces] \* pieces with blocks in the cache only

Idle == [op |-> "none", tor |-> None]
CloseSession == [op |-> "close", tor |-> None]
Closures == [op : {"start", "stop", "verify", "remove", "verified"}, tor : Torrents]
            \cup {CloseSession}
Waits == [op : {"stop", "verify", "restart", "remove"}, tor : Torrents] \cup {Idle, CloseSession}
TypeOK ==
    /\ WorkerTypeOK
    /\ alive \in SUBSET Torrents
    /\ tor \in [Torrents -> TorrentRecords]
    /\ work \in Seq(Closures)
    /\ waiting \in Waits
    /\ starts \in SUBSET Torrents
    /\ closing \in BOOLEAN
    /\ commands \in 0 .. MaxCommands

\* A paused torrent loaded from its resume file, which may name pieces that
\* are no longer on disk and miss pieces that are.
LoadedRecords == {[
    running |-> FALSE, joined |-> FALSE, stopping |-> FALSE, queued |-> FALSE,
    stable |-> FALSE, deleting |-> FALSE, done |-> has = Pieces, needsCheck |-> FALSE,
    verify |-> "none", has |-> has, checked |-> {}, disk |-> disk, cached |-> {}] :
        has, disk \in SUBSET Pieces}

Init ==
    /\ WorkerInit
    /\ alive = Torrents
    /\ tor \in [Torrents -> LoadedRecords]
    /\ work = << >>
    /\ waiting = Idle
    /\ starts = {}
    /\ closing = FALSE
    /\ commands = 0

-----------------------------------------------------------------------------
(* What handlers do to a torrent.                                          *)

\* close_torrent_files(): the cached blocks go to disk.
CloseFiles(r) == [r EXCEPT !.disk = @ \cup r.cached, !.cached = {}]

\* A running torrent that recheck_completeness() finds newly complete is to be
\* verified first, if the preference says so.  (Not if it is about to be removed,
\* but its completeness is left as it is all the same.)
Unproven(r) == VerifyComplete /\ r.running /\ ~r.done /\ r.has = Pieces
Reverifies(r) == Unproven(r) /\ ~r.deleting

\* recheck_completeness(), but for the verification.
Recheck(r) ==
    LET s == [r EXCEPT !.needsCheck = FALSE, !.done = r.has = Pieces /\ ~Unproven(r)]
    IN IF s.done /\ ~r.done THEN CloseFiles(s) ELSE s

\* activity()
Activity(r) ==
    CASE r.verify = "active" -> "check"
      [] r.verify = "queued" -> "check_wait"
      [] r.verify = "none" /\ r.running -> IF r.done THEN "seed" ELSE "download"
      [] r.verify = "none" /\ ~r.running /\ r.queued -> IF r.done THEN "seed_wait" ELSE "download_wait"
      [] OTHER -> "stopped"

\* queue_direction()
Direction(r) == IF r.done THEN "up" ELSE "down"

\* The torrents that count_queue_free_slots() counts as active.
Active(d) == {t \in alive : Activity(tor[t]) = IF d = "up" THEN "seed" ELSE "download"}

FreeSlots(d) ==
    LET n == Cardinality(Active(d))
    IN IF n < QueueSize[d] THEN QueueSize[d] - n ELSE 0

\* start() puts a torrent with record r in the queue, or goes ahead.
Queues(r, bypass) == ~bypass /\ Activity(r) = "stopped" /\ FreeSlots(Direction(r)) = 0
Starts(r, bypass) ==
    /\ Activity(r) \in {"stopped"} \cup IF bypass THEN {"seed_wait", "download_wait"} ELSE {}
    /\ ~Queues(r, bypass)

\* start_in_session_thread() after recheck_completeness(), with started_.
Begun(r) == [r EXCEPT !.queued = FALSE, !.running = TRUE, !.joined = TRUE]

\* stop_now(), before and after it calls verify_remove().
StopHead(r) == [r EXCEPT !.running = FALSE, !.stopping = FALSE]

\* Fault: the cached blocks are not written.
StopTailFault(r) == [r EXCEPT !.joined = FALSE, !.queued = FALSE]

StopTail(r) == [CloseFiles(r) EXCEPT !.joined = FALSE, !.queued = FALSE]

ToVerify(r) == [r EXCEPT !.verify = "queued"]

-----------------------------------------------------------------------------
(* The session thread.                                                     *)

\* No closure or event is in progress; nobody holds the session lock.
Free == waiting = Idle /\ starts = {}

\* An operation that takes back a verification: what it does to the torrent
\* before and after.  "verify" then queues the torrent again, and "restart",
\* which is a start that met recheck_completeness(), starts it after that.
Before(op, r) == IF op \in {"verify", "restart"} THEN r ELSE StopHead(r)
Requeued(r) == ToVerify(IF r.running THEN StopTail(StopHead(r)) ELSE r)
After(op, r) ==
    CASE op = "verify" -> Requeued(r)
      [] op = "restart" -> Begun(Requeued(r))
      [] op \in {"stop", "remove"} -> StopTail(r)

OffQueue(t, r) == IF t \in todo THEN [r EXCEPT !.verify = "none"] ELSE r

Added(op, t) == IF op \in {"verify", "restart"} THEN {t} ELSE {}

\* stop_now(), or the closure of tr_torrentVerify() or tr_torrentRemove(), of
\* torrent t with record r.  It waits if the worker has the torrent.
TakeBack(op, t, r) ==
    \/ /\ NeedsWait(t)
       /\ StopCurrent
       /\ waiting' = [op |-> op, tor |-> t]
       /\ tor' = [tor EXCEPT ![t] = Before(op, r)]
       /\ UNCHANGED alive
    \/ /\ ~NeedsWait(t)
       /\ Requeue(t, Added(op, t))
       /\ tor' = [tor EXCEPT ![t] = After(op, OffQueue(t, Before(op, r)))]
       /\ alive' = IF op = "remove" THEN alive \ {t} ELSE alive
       /\ UNCHANGED waiting

\* The worker has let go of the torrent: the operation goes on.
TakenBack ==
    /\ waiting.op \in {"stop", "verify", "restart", "remove"}
    /\ ~stopCurrent
    /\ Requeue(waiting.tor, Added(waiting.op, waiting.tor))
    /\ tor' = [tor EXCEPT ![waiting.tor] = After(waiting.op, @)]
    /\ alive' = IF waiting.op = "remove" THEN alive \ {waiting.tor} ELSE alive
    /\ waiting' = Idle
    /\ UNCHANGED <<work, starts, closing, commands>>

\* Torrents change, but neither the worker nor what the session thread does.
SetTorrent(t, r) ==
    /\ tor' = [tor EXCEPT ![t] = r]
    /\ UNCHANGED <<workerVars, alive, waiting>>

\* Fault: completeness is not looked at again.
StartInSessionThreadFault(t, r) == SetTorrent(t, Begun(r))

\* start_in_session_thread() of torrent t with record r.
StartInSessionThread(t, r) ==
    IF Reverifies(r) THEN TakeBack("restart", t, Recheck(r)) ELSE SetTorrent(t, Begun(Recheck(r)))

\* Fault: a torrent that is being verified is started all the same.
StartFault(t, r, bypass) ==
    IF ~Queues(r, bypass) /\ ~r.running
    THEN StartInSessionThread(t, [r EXCEPT !.running = TRUE])
    ELSE SetTorrent(t, [r EXCEPT !.queued = @ \/ Queues(r, bypass)])

\* start() of torrent t with record r, in the session thread.
Start(t, r, bypass) ==
    IF Starts(r, bypass)
    THEN StartInSessionThread(t, [r EXCEPT !.running = TRUE])
    ELSE SetTorrent(t, [r EXCEPT !.queued = @ \/ Queues(r, bypass)])

\* on_queue_timer() goes on to the next torrent that it chose.
StartNext ==
    /\ waiting = Idle
    /\ \E t \in starts :
          /\ starts' = starts \ {t}
          /\ Start(t, [tor[t] EXCEPT !.stable = TRUE], TRUE)
    /\ UNCHANGED <<work, closing, commands>>

\* The closure that on_verify_done() queues.  It names its torrent by id.  If
\* the torrent has to be verified again, start() finds it queued and returns.
Verified(t) ==
    LET r == Recheck(tor[t])
    IN IF t \notin alive \/ tor[t].deleting THEN SetTorrent(t, tor[t])
       ELSE IF Reverifies(tor[t]) THEN TakeBack("verify", t, r)
       ELSE IF tor[t].stable THEN Start(t, r, FALSE)
       ELSE SetTorrent(t, r)

\* closeImplPart1(): the destructor of the worker waits for its thread ...
Close ==
    /\ Abandon
    /\ waiting' = CloseSession
    /\ UNCHANGED <<alive, tor>>

\* on_work_available(), one closure at a time.  That of tr_torrentVerify()
\* looks whether its torrent is still there, those of start() and stop do not.
RunWork ==
    /\ Free
    /\ work # << >>
    /\ work' = Tail(work)
    /\ LET op == Head(work).op
           t  == Head(work).tor
           gone == t \notin alive \/ tor[t].deleting
       IN \/ op = "start" /\ StartInSessionThread(t, tor[t])
          \/ op = "verified" /\ Verified(t)
          \/ op = "verify" /\ gone /\ SetTorrent(t, tor[t])
          \/ op = "verify" /\ ~gone /\ TakeBack(op, t, tor[t])
          \/ op \in {"stop", "remove"} /\ TakeBack(op, t, tor[t])
          \/ op = "close" /\ Close
    /\ UNCHANGED <<starts, closing, commands>>

\* bandwidth_pulse() calls do_idle_work() of each torrent.
IdleWork(t) ==
    LET r == IF tor[t].needsCheck THEN Recheck(tor[t]) ELSE tor[t]
    IN /\ Free
       /\ tor[t].needsCheck \/ tor[t].stopping
       /\ IF tor[t].needsCheck /\ Reverifies(tor[t]) THEN TakeBack("verify", t, r)
          ELSE IF r.stopping THEN TakeBack("stop", t, [r EXCEPT !.stable = FALSE])
          ELSE SetTorrent(t, r)
       /\ UNCHANGED <<work, starts, closing, commands>>

Candidates(d) == {t \in alive : tor[t].queued /\ Direction(tor[t]) = d}

\* ts are the torrents that come first in the queue, as many as there are free slots.
FromQueue(d, ts) ==
    LET n == Cardinality(Candidates(d))
    IN /\ ts \subseteq Candidates(d)
       /\ Cardinality(ts) = IF FreeSlots(d) < n THEN FreeSlots(d) ELSE n

\* One direction of on_queue_timer().  (Events may come between the two directions:
\* more than the code can do.)
OnQueueTimer(d) ==
    /\ Free
    /\ \E ts \in SUBSET alive :
          /\ FromQueue(d, ts)
          /\ ts # {}
          /\ starts' = ts
    /\ UNCHANGED <<workerVars, alive, tor, work, waiting, closing, commands>>

\* A running torrent gets a piece from its peers; its blocks are cached.
GotPiece(t, p) ==
    /\ Free
    /\ tor[t].joined
    /\ ~tor[t].done
    /\ p \notin tor[t].has
    /\ SetTorrent(t, [tor[t] EXCEPT !.has = @ \cup {p}, !.cached = @ \cup {p}, !.needsCheck = TRUE])
    /\ UNCHANGED <<work, starts, closing, commands>>

\* ... and then every torrent is stopped and freed.
Closed ==
    /\ waiting = CloseSession
    /\ thread = "absent"
    /\ waiting' = Idle
    /\ tor' = [t \in Torrents |-> IF t \in alive THEN StopTail(StopHead(tor[t])) ELSE tor[t]]
    /\ alive' = {}
    /\ UNCHANGED <<workerVars, work, starts, closing, commands>>

-----------------------------------------------------------------------------
(* The worker thread.                                                      *)

WorkerNext == NextNode /\ UNCHANGED <<sessionVars, commands>>

OnVerifyStarted ==
    /\ StartNode
    /\ tor' = [tor EXCEPT ![current].verify = "active"]
    /\ UNCHANGED <<alive, work, waiting, starts, closing, commands>>

\* on_piece_checked() of a piece as it is on disk.
PieceChecked(r, p) ==
    [r EXCEPT !.has = IF p \in r.disk THEN @ \cup {p} ELSE @ \ {p},
              !.checked = @ \cup {p}]

OnPieceChecked ==
    /\ NextPiece
    /\ tor' = [tor EXCEPT ![current] = PieceChecked(@, piece)]
    /\ UNCHANGED <<alive, work, waiting, starts, closing, commands>>

WorkerLeaveLoop == LeaveLoop /\ UNCHANGED <<sessionVars, commands>>

\* on_verify_done()
OnVerifyDone ==
    /\ ReportNode
    /\ tor' = [tor EXCEPT ![current].verify = "none"]
    /\ work' = IF stopCurrent \/ tor[current].deleting THEN work
               ELSE Append(work, [op |-> "verified", tor |-> current])
    /\ UNCHANGED <<alive, waiting, starts, closing, commands>>

Worker == WorkerNext \/ OnVerifyStarted \/ OnPieceChecked \/ WorkerLeaveLoop \/ OnVerifyDone

-----------------------------------------------------------------------------
(* The user.                                                               *)

\* RPC handlers run in the session thread; of the functions that another thread
\* may call only start and stop take the session lock.
Command(kind, t) ==
    /\ IF Front = "rpc" THEN Free ELSE kind \in {"verify", "remove"} \/ waiting = Idle
    /\ commands < MaxCommands
    /\ ~closing
    /\ t \in alive /\ ~tor[t].deleting
    /\ commands' = commands + 1
    /\ UNCHANGED closing

StartKind(bypass) == IF bypass THEN "startNow" ELSE "start"

RpcStart(t, bypass) ==
    /\ Command(StartKind(bypass), t)
    /\ IF tor[t].running THEN SetTorrent(t, tor[t])
       ELSE Start(t, [tor[t] EXCEPT !.stable = TRUE], bypass)
    /\ UNCHANGED <<work, starts>>

RpcStop(t) ==
    /\ Command("stop", t)
    /\ SetTorrent(t, [tor[t] EXCEPT !.stopping = @ \/ Activity(tor[t]) # "stopped"])
    /\ UNCHANGED <<work, starts>>

RpcVerify(t) ==
    /\ Command("verify", t)
    /\ TakeBack("verify", t, tor[t])
    /\ UNCHANGED <<work, starts>>

RpcRemove(t) ==
    /\ Command("remove", t)
    /\ TakeBack("remove", t, [tor[t] EXCEPT !.deleting = TRUE])
    /\ UNCHANGED <<work, starts>>

\* The same functions in a thread of the front end leave a closure for the
\* session thread.
Leaves(op, t) == work' = Append(work, [op |-> op, tor |-> t])

CallStart(t, bypass) ==
    LET r == [tor[t] EXCEPT !.stable = TRUE]
    IN /\ Command(StartKind(bypass), t)
       /\ UNCHANGED starts
       /\ \/ /\ Starts(r, bypass)
             /\ SetTorrent(t, [r EXCEPT !.running = TRUE])
             /\ Leaves("start", t)
          \/ /\ ~Starts(r, bypass)
             /\ SetTorrent(t, [r EXCEPT !.queued = @ \/ Queues(r, bypass)])
             /\ UNCHANGED work

CallStop(t) ==
    /\ Command("stop", t)
    /\ SetTorrent(t, [tor[t] EXCEPT !.stable = FALSE])
    /\ Leaves("stop", t)
    /\ UNCHANGED starts

CallVerify(t) ==
    /\ Command("verify", t)
    /\ SetTorrent(t, tor[t])
    /\ Leaves("verify", t)
    /\ UNCHANGED starts

CallRemove(t) ==
    /\ Command("remove", t)
    /\ SetTorrent(t, [tor[t] EXCEPT !.deleting = TRUE])
    /\ Leaves("remove", t)
    /\ UNCHANGED starts

\* tr_sessionClose(), after which the front end gives no commands.
CallClose ==
    /\ ~closing
    /\ closing' = TRUE
    /\ work' = Append(work, CloseSession)
    /\ UNCHANGED <<workerVars, alive, tor, waiting, starts, commands>>

User(t) ==
    \/ /\ Front = "rpc"
       /\ (\E bypass \in BOOLEAN : RpcStart(t, bypass)) \/ RpcStop(t) \/ RpcVerify(t) \/ RpcRemove(t)
    \/ /\ Front = "direct"
       /\ (\E bypass \in BOOLEAN : CallStart(t, bypass)) \/ CallStop(t) \/ CallVerify(t) \/ CallRemove(t)

SessionThread ==
    \/ TakenBack
    \/ RunWork
    \/ StartNext
    \/ \E t \in alive : IdleWork(t)
    \/ \E d \in Directions : OnQueueTimer(d)
    \/ Closed

Next ==
    \/ SessionThread
    \/ Worker
    \/ CallClose
    \/ \E t \in alive : User(t)
    \/ \E t \in alive, p \in Pieces : GotPiece(t, p)

Spec == Init /\ [][Next]_vars

-----------------------------------------------------------------------------
(* Properties.                                                             *)

\* verify_state_ tells where the worker has a torrent, until the session is
\* closed, and the worker has it in one place only.
StateMatchesWorker ==
    /\ current \notin todo
    /\ \A t \in alive :
          /\ t \in todo \/ (t = current /\ thread = "picked") => tor[t].verify = "queued"
          /\ tor[t].verify = "queued" =>
                t \in todo \/ (t = current /\ thread = "picked") \/ waiting = CloseSession
          /\ tor[t].verify = "active" <=> t = current /\ thread \in {"checking", "reporting"}

\* Whatever the worker, a queued closure or the event in progress will touch
\* is still there.
NoFreedTorrentUsed ==
    /\ todo \cup ({current} \ {None}) \subseteq alive
    /\ \A i \in DOMAIN work : work[i].op \in {"start", "stop"} => work[i].tor \in alive
    /\ starts \subseteq alive

\* A torrent is not started before its verification is over (torrent.cc:597).
\* By RPC this holds while VerifyComplete is off.  If it is on, a start that
\* finds the torrent complete verifies it and then starts it all the same.
StartWaitsForVerify == \A t \in alive : tor[t].joined => tor[t].verify = "none"

\* A piece that was verified is had if and only if its bytes are good, whether
\* they are on disk or still cached (torrent.cc:684, :1636).  By RPC: a
\* torrent that another thread starts while it is verified may lose pieces.
CheckedTrue ==
    \A t \in alive : \A p \in tor[t].checked :
        p \in tor[t].has <=> p \in tor[t].disk \cup tor[t].cached

\* A running torrent knows whether it is complete, or is about to look
\* (torrent.cc:640, :1773).  By RPC, with VerifyComplete off.
RunningKnowsCompleteness ==
    \A t \in alive : tor[t].joined => tor[t].needsCheck \/ tor[t].done = (tor[t].has = Pieces)

\* The verify_state_ of the torrents goes through what VerifyQueue promises.
Queue == INSTANCE VerifyQueue WITH
    state <- [t \in Torrents |-> IF t \in alive THEN tor[t].verify ELSE "none"]

VerifyPromise == Queue!Spec

-----------------------------------------------------------------------------
(* Progress: both threads keep running.                                    *)

Fairness ==
    /\ WF_vars(TakenBack)
    /\ WF_vars(RunWork)
    /\ WF_vars(Closed)
    /\ WF_vars(StartNext)
    /\ \A d \in Directions : WF_vars(OnQueueTimer(d))
    /\ WF_vars(Worker)
    /\ \A t \in Torrents : WF_vars(t \in alive /\ IdleWork(t))

FairSpec == Spec /\ Fairness

\* The session thread never waits for the worker for ever.
RemoveReturns == ~Free ~> Free

\* Every verification comes to an end, and so does every request for one.
VerifyEnds ==
    \A t \in Torrents :
        (t \in alive /\ tor[t].verify # "none") ~> (t \notin alive \/ tor[t].verify = "none")
=============================================================================
