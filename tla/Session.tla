------------------------------ MODULE Session ------------------------------
(***************************************************************************)
(* Closing a session: the session thread with its queue of closures        *)
(* (session-thread.cc), the web client's thread (module Web), the cache of *)
(* public addresses that asks over the web (ip-cache.cc), and the thread   *)
(* that called tr_sessionClose(), which waits for the first and then tears *)
(* down everything, thread after thread (session.cc).                      *)
(***************************************************************************)
EXTENDS Web, Naturals, FiniteSets

CONSTANTS Protocols,    \* 0 for IPv4, 1 for IPv6; each is the task of its update_addr()
          CloseSession  \* the closure of tr_sessionClose()

ASSUME SessionAssumption ==
    /\ Protocols \in SUBSET (Tasks \cap Nat)
    /\ CloseSession \notin Tasks

VARIABLES
    batch,      \* the closures that on_work_available() still has to run
    updating,   \* is_updating_ of the address cache
    closing,    \* how far the close has come in the session thread
    outOfTime,  \* did the close end because of its deadline?
    caller,     \* where the thread that closes the session is
    loop,       \* the event loop that session_thread_func() is in
    hurried,    \* were the five seconds of ~tr_session_thread_impl() too short?
    asked       \* the tasks fetched whose callback has not run (history variable)

sessionVars == <<batch, updating, closing, outOfTime, caller, loop, hurried>>
vars == <<webVars, work, sessionVars, asked>>

Closures == Tasks \cup {CloseSession}

\* open: the session is in use; waiting: for closed_future; joiningWeb: in
\* ~tr_web(); stopping: in ~tr_session_thread_impl()
CallerStates == {"open", "waiting", "joiningWeb", "stopping", "gone"}

TypeOK ==
    /\ WebTypeOK
    /\ work \in Seq(Closures)
    /\ batch \in Seq(Closures)
    /\ updating \in [Protocols -> {"no", "yes", "abort"}]
    /\ closing \in {"no", "part1", "closed"}
    /\ outOfTime \in BOOLEAN
    /\ caller \in CallerStates
    /\ loop \in {"first", "second", "ended"}
    /\ hurried \in BOOLEAN
    /\ asked \in SUBSET Tasks

Init ==
    /\ WebInit
    /\ work = << >>
    /\ batch = << >>
    /\ updating = [p \in Protocols |-> "no"]
    /\ closing = "no"
    /\ outOfTime = FALSE
    /\ caller = "open"
    /\ loop = "first"
    /\ hurried = FALSE
    /\ asked = {}

-----------------------------------------------------------------------------
(* The session thread: one closure, timer or request at a time.            *)

\* In the event loop, between two closures.
InLoop == loop # "ended" /\ batch = << >>

\* The session still handles events of its own (the timers and sockets are gone
\* when the close is through).
Serving == InLoop /\ closing # "closed"

\* A handler fetches tasks that are not already under way.
FetchNew(ts) == Fetch(ts) /\ asked' = IF DeadlineExists THEN asked ELSE asked \cup ts

\* An announce, a scrape, a webseed's request, a blocklist...
FetchTask(t) ==
    /\ Serving
    /\ t \in Tasks \ (Protocols \cup asked)
    /\ FetchNew({t})
    /\ UNCHANGED <<running, deadline, curl, work, sessionVars>>

\* update_addr(), by its timer, with a source address found.  The timers stop
\* when the close begins.
UpdateAddr(p) ==
    /\ Serving /\ closing = "no"
    /\ p \in Protocols
    /\ updating[p] = "no"
    /\ FetchNew({p})
    /\ updating' = [updating EXCEPT ![p] = "yes"]
    /\ UNCHANGED <<running, deadline, curl, work, batch, closing, outOfTime, caller, loop, hurried>>

\* on_work_available(): steals the queue.
StealWork ==
    /\ InLoop
    /\ work # << >>
    /\ batch' = work
    /\ work' = << >>
    /\ UNCHANGED <<webVars, updating, closing, outOfTime, caller, loop, hurried, asked>>

\* Fault: any answer ends an update.
AnsweredFault1(t, ok) ==
    updating' = [p \in Protocols \cup {t} |-> IF p = t THEN "no" ELSE updating[p]]

\* Fault: an answer that is no address leaves the update under way.
AnsweredFault2(t, ok) ==
    updating' = IF t \in Protocols /\ ok THEN [updating EXCEPT ![t] = "no"] ELSE updating

\* The callback of a task: on_response_ip_query(), with the one service there
\* is for each protocol, or a response to somebody else.
Answered(t, ok) ==
    updating' = IF t \in Protocols THEN [updating EXCEPT ![t] = "no"] ELSE updating

RunCallback(t) ==
    /\ loop # "ended"
    /\ batch # << >> /\ Head(batch) = t
    /\ t \in Tasks
    /\ \E ok \in BOOLEAN : Answered(t, ok)
    /\ batch' = Tail(batch)
    /\ asked' = asked \ {t}
    /\ UNCHANGED <<webVars, work, closing, outOfTime, caller, loop, hurried>>

\* try_shutdown(): aborts the updates of the protocols before the first that is
\* being updated.
TryShutdown ==
    updating' = [p \in Protocols |->
        IF \A q \in Protocols : q <= p => updating[q] # "yes" THEN "abort" ELSE updating[p]]

\* The result of try_shutdown().
NoneUpdating == \A p \in Protocols : updating[p] # "yes"

\* closeImplPart1(): the torrents' last announces go out before the web client
\* stops to take tasks, with the time left for them, if any.
CloseImplPart1 ==
    /\ loop # "ended"
    /\ batch # << >> /\ Head(batch) = CloseSession
    /\ batch' = Tail(batch)
    /\ closing' = "part1"
    /\ \E ts \in SUBSET (Tasks \ (Protocols \cup asked)) : FetchNew(ts)
    /\ TryShutdown
    /\ \E d \in {"ahead", "reached"} : StartShutdown(d)
    /\ UNCHANGED <<running, curl, work, outOfTime, caller, loop, hurried>>

\* closeImplPart2() finds the web client or the UDP announcer busy, or else
\* addresses being updated: only then try_shutdown() is called.
FoundBusy == UNCHANGED updating \/ (MaySeemIdle /\ ~NoneUpdating /\ TryShutdown)

\* It finds one of them busy, and waits for the next tick of its timer.
StillBusy ==
    /\ Serving /\ closing = "part1"
    /\ deadline # "reached"
    /\ FoundBusy
    /\ UNCHANGED <<webVars, work, batch, closing, outOfTime, caller, loop, hurried, asked>>

Closes(late) ==
    /\ Serving /\ closing = "part1"
    /\ closing' = "closed"
    /\ outOfTime' = late
    /\ UNCHANGED <<webVars, work, batch, caller, loop, hurried, asked>>

\* Fault: only the web client is waited for.
FoundIdleFault == MaySeemIdle /\ UNCHANGED updating

\* closeImplPart2() finds all of them idle.
FoundIdle == MaySeemIdle /\ NoneUpdating /\ TryShutdown

\* Fault: the deadline is not looked at.
OutOfTimeFault == FALSE

\* Or closeImplPart2() finds that there is no time left.
OutOfTime == deadline = "reached" /\ FoundBusy

\* Either way it keeps its promise.
CloseImplPart2 == Closes(FALSE) /\ FoundIdle
CloseImplPart2Late == Closes(TRUE) /\ OutOfTime

\* event_base_loopexit() ends the first loop; the second ends when no event is
\* left, or by force after five seconds.
EndLoop ==
    /\ InLoop
    /\ caller = "stopping"
    /\ \/ loop = "first" /\ loop' = "second" /\ UNCHANGED hurried
       \/ loop = "second" /\ work = << >> /\ loop' = "ended" /\ UNCHANGED hurried
       \/ loop = "second" /\ loop' = "ended" /\ hurried' = TRUE
    /\ UNCHANGED <<webVars, work, batch, updating, closing, outOfTime, caller, asked>>

\* What it does however busy the UDP announcer is.
SessionThread ==
    \/ StealWork
    \/ CloseImplPart1
    \/ CloseImplPart2Late
    \/ EndLoop
    \/ \E t \in Tasks : RunCallback(t)

-----------------------------------------------------------------------------
(* The thread that closes the session.                                     *)

CallerGoes(from, to) ==
    /\ caller = from
    /\ caller' = to
    /\ UNCHANGED <<queued, running, curl, batch, updating, closing, outOfTime, loop, hurried, asked>>

\* tr_sessionClose()
CallClose ==
    /\ CallerGoes("open", "waiting")
    /\ work' = Append(work, CloseSession)
    /\ UNCHANGED deadline

\* The promise is kept, and the session deleted: ~tr_web() sets a deadline that
\* is reached.
DeleteSession ==
    /\ closing = "closed"
    /\ CallerGoes("waiting", "joiningWeb")
    /\ StartShutdown("reached")
    /\ UNCHANGED work

\* Fault: the curl thread is not waited for.
WebJoinedFault == CallerGoes("joiningWeb", "stopping") /\ UNCHANGED <<deadline, work>>

\* curl_thread->join() returns.
WebJoined ==
    /\ curl = "ended"
    /\ CallerGoes("joiningWeb", "stopping")
    /\ UNCHANGED <<deadline, work>>

\* thread_.join() of the session thread returns.
SessionThreadJoined ==
    /\ loop = "ended"
    /\ CallerGoes("stopping", "gone")
    /\ UNCHANGED <<deadline, work>>

Caller == DeleteSession \/ WebJoined \/ SessionThreadJoined

Next ==
    \/ \E t \in Tasks : FetchTask(t)
    \/ \E p \in Protocols : UpdateAddr(p)
    \/ StillBusy
    \/ CloseImplPart2
    \/ SessionThread
    \/ DeadlinePasses /\ UNCHANGED <<sessionVars, asked>>
    \/ CurlThread /\ UNCHANGED <<sessionVars, asked>>
    \/ CallClose
    \/ Caller

Spec == Init /\ [][Next]_vars

\* The threads keep running, time passes, and curl ends every transfer (each
\* has a timeout).
Fairness ==
    /\ WF_vars(SessionThread)
    /\ WF_vars(DeadlinePasses /\ UNCHANGED <<sessionVars, asked>>)
    /\ WF_vars(CurlThread /\ UNCHANGED <<sessionVars, asked>>)
    /\ \A t \in Tasks : SF_vars(Finish(t) /\ UNCHANGED <<sessionVars, asked>>)
    /\ WF_vars(Caller)

FairSpec == Spec /\ Fairness

-----------------------------------------------------------------------------
(* Properties.                                                             *)

\* Every fetched task is in one place: with the web client, or as a callback on
\* its way to the session thread; and no other task is anywhere.
Waits(t, s) == Cardinality({i \in DOMAIN s : s[i] = t})
Places(t) == Cardinality({q \in {1} : t \in queued}) + Cardinality({r \in {1} : t \in running})
             + Waits(t, work) + Waits(t, batch)
OnePlace == \A t \in Tasks : Places(t) = IF t \in asked THEN 1 ELSE 0

\* What a close leaves behind.  If it did not run out of time, no query of the address
\* cache goes on to use the web client (session.cc:1437), though that may seem idle
\* when it is not; and when tr_sessionClose() has returned, no fetched task was left
\* without its callback, unless the session thread had to be hurried.
NothingLeftBehind ==
    /\ closing = "closed" /\ ~outOfTime => asked \cap Protocols = {}
    /\ caller = "gone" /\ ~hurried => asked = {}

\* An address is being updated exactly while a query for it is under way: no
\* update is blocked for ever, and no answer comes that nobody expects.
UpdatingIsUnderWay == \A p \in Protocols : updating[p] = "yes" <=> p \in asked

\* Every callback runs in the end, unless the session thread had to be hurried.
FetchAnswered == \A t \in Tasks : t \in asked ~> t \notin asked \/ hurried

\* The promise that tr_sessionClose() waits for is kept.
PromiseKept == caller = "waiting" ~> closing = "closed"

\* tr_sessionClose() returns.  It does not always: see the run of this property.
CloseReturns == caller = "waiting" ~> caller = "gone"
=============================================================================
