--------------------------- MODULE Lifecycle_proof ---------------------------
(***************************************************************************)
(* What module Lifecycle promises for any number of torrents, pieces and   *)
(* commands, for both kinds of front end and any queue sizes: the session  *)
(* thread, the verify worker and the queued closures agree (IInv), which   *)
(* implies type correctness, StateMatchesWorker and NoFreedTorrentUsed,    *)
(* and makes every step a step of VerifyQueue or none.  For commands that  *)
(* come by RPC also what a torrent may do while it is verified (RpcInv).   *)
(***************************************************************************)
EXTENDS Lifecycle, TLAPS

-----------------------------------------------------------------------------
(* The inductive invariant.                                                *)

TakingBack == {"stop", "verify", "restart", "remove"}
Adding == {"verify", "restart"}
Raw == {"start", "stop", "remove"}
CommandKinds == {"start", "startNow", "stop", "verify", "remove"}

CoreType ==
    /\ WorkerTypeOK
    /\ alive \in SUBSET Torrents
    /\ tor \in [Torrents -> TorrentRecords]
    /\ waiting \in Waits

ThreadInv ==
    /\ current = None => thread \in {"absent", "next"}
    /\ thread = "absent" => current = None
    /\ todo \cup ({current} \ {None}) \subseteq alive

WaitInv ==
    /\ waiting.op \in TakingBack =>
          /\ waiting.tor \in alive \ todo
          /\ stopCurrent <=> current = waiting.tor
    /\ waiting = CloseSession => todo = {}

Core == CoreType /\ StateMatchesWorker /\ ThreadInv /\ WaitInv

ClosureInv(c) ==
    /\ c.op \in Raw => c.tor \in alive
    /\ c.op = "remove" => tor[c.tor].deleting
    /\ c.op = "close" => closing
    /\ c.op # "verified" => waiting # CloseSession
    /\ c.op \in Raw /\ waiting.op = "remove" => c.tor # waiting.tor
    /\ Front = "rpc" => c.op \in {"verified", "close"}

Follows(c, d) ==
    /\ c.op = "close" => d.op = "verified"
    /\ c.op = "remove" /\ d.op \in Raw => c.tor # d.tor

WorkInv ==
    /\ work \in Seq(Closures)
    /\ \A i \in DOMAIN work : ClosureInv(work[i])
    /\ \A i, j \in DOMAIN work : i < j => Follows(work[i], work[j])
    /\ waiting = CloseSession => closing
    /\ waiting.op = "remove" => tor[waiting.tor].deleting

UserInv ==
    /\ closing \in BOOLEAN
    /\ commands \in 0 .. MaxCommands

StartsInv ==
    /\ starts \subseteq alive
    /\ starts # {} => waiting = Idle \/ waiting.op \in Adding

IInv == Core /\ WorkInv /\ UserInv /\ StartsInv

-----------------------------------------------------------------------------
(* Handlers keep a torrent's verify_state_ and never take back deleting.   *)

Like(s, r) ==
    /\ s \in TorrentRecords
    /\ s.verify = r.verify
    /\ r.deleting => s.deleting

TorLike(f, g) == f \in [Torrents -> TorrentRecords] /\ \A t \in Torrents : Like(f[t], g[t])

LEMMA LikeTransitive ==
    ASSUME NEW q, NEW r, NEW s, Like(r, q), Like(s, r)
    PROVE  Like(s, q)
  BY DEF Like

LEMMA CloseFilesLike ==
    ASSUME NEW r \in TorrentRecords
    PROVE  Like(CloseFiles(r), r)
  BY DEF Like, CloseFiles, TorrentRecords

LEMMA RecheckLike ==
    ASSUME NEW r \in TorrentRecords
    PROVE  Like(Recheck(r), r)
<1> DEFINE s == [r EXCEPT !.needsCheck = FALSE, !.done = r.has = Pieces /\ ~Unproven(r)]
<1>1. (r.has = Pieces /\ ~Unproven(r)) \in BOOLEAN
  OBVIOUS
<1>2. Like(s, r)
  BY <1>1 DEF Like, TorrentRecords
<1>3. s \in TorrentRecords
  BY <1>2 DEF Like
<1>4. Recheck(r) \in {CloseFiles(s), s}
  BY DEF Recheck
<1> HIDE DEF s
<1>5. Like(CloseFiles(s), s)
  BY <1>3, CloseFilesLike
<1> QED
  BY <1>2, <1>4, <1>5 DEF Like

LEMMA BegunLike ==
    ASSUME NEW r \in TorrentRecords
    PROVE  Like(Begun(r), r)
  BY DEF Like, Begun, TorrentRecords

LEMMA StopHeadLike ==
    ASSUME NEW r \in TorrentRecords
    PROVE  Like(StopHead(r), r)
  BY DEF Like, StopHead, TorrentRecords

LEMMA StopTailLike ==
    ASSUME NEW r \in TorrentRecords
    PROVE  Like(StopTail(r), r)
<1>1. Like(CloseFiles(r), r)
  BY CloseFilesLike
<1>2. \A s \in TorrentRecords : Like([s EXCEPT !.joined = FALSE, !.queued = FALSE], s)
  BY DEF Like, TorrentRecords
<1>3. Like(StopTail(r), CloseFiles(r))
  BY <1>1, <1>2 DEF Like, StopTail
<1> QED
  BY <1>1, <1>3, LikeTransitive

\* What stop_now(), verify and remove do around remove(): the state that the
\* torrent ends in is "queued" for a verification, and as it was otherwise.
LEMMA BeforeLike ==
    ASSUME NEW op \in TakingBack, NEW r \in TorrentRecords
    PROVE  Like(Before(op, r), r)
<1>1. Like(r, r) /\ Like(StopHead(r), r)
  BY StopHeadLike DEF Like
<1> QED
  BY <1>1 DEF Before

LEMMA AfterRecord ==
    ASSUME NEW op \in TakingBack, NEW r \in TorrentRecords
    PROVE  /\ After(op, r) \in TorrentRecords
           /\ After(op, r).verify = IF op \in Adding THEN "queued" ELSE r.verify
           /\ r.deleting => After(op, r).deleting
<1>1. Like(StopHead(r), r) /\ Like(StopTail(r), r) /\ Like(r, r)
  BY StopHeadLike, StopTailLike DEF Like
<1>2. Like(StopTail(StopHead(r)), StopHead(r))
  BY <1>1, StopTailLike DEF Like
<1>3. Like(StopTail(StopHead(r)), r)
  BY <1>1, <1>2, LikeTransitive
<1>4. \A s \in TorrentRecords :
          /\ ToVerify(s) \in TorrentRecords
          /\ ToVerify(s).verify = "queued"
          /\ ToVerify(s).deleting = s.deleting
  BY DEF ToVerify, TorrentRecords, VerifyStates
<1>5. /\ Requeued(r) \in TorrentRecords /\ Requeued(r).verify = "queued"
      /\ r.deleting => Requeued(r).deleting
  <2>1. PICK s \in {StopTail(StopHead(r)), r} : Requeued(r) = ToVerify(s)
    BY DEF Requeued
  <2>2. s \in TorrentRecords /\ (r.deleting => s.deleting)
    BY <1>1, <1>3 DEF Like
  <2> QED
    BY <2>1, <2>2, <1>4
<1>6. Like(Begun(Requeued(r)), Requeued(r))
  BY <1>5, BegunLike
<1>7. CASE op \in Adding
  <2>1. After(op, r) \in {Requeued(r), Begun(Requeued(r))}
    BY <1>7 DEF After, Adding
  <2> QED
    BY <2>1, <1>5, <1>6, <1>7 DEF Like
<1>8. CASE op \in {"stop", "remove"}
  BY <1>1, <1>8 DEF After, Like, Adding
<1> QED
  BY <1>7, <1>8 DEF TakingBack, Adding

-----------------------------------------------------------------------------
(* What the kinds of steps do to the worker's and the torrents' part of    *)
(* the invariant.                                                          *)

VState == [t \in Torrents |-> IF t \in alive THEN tor[t].verify ELSE "none"]

DeletingStays == \A t \in Torrents : tor[t].deleting => tor'[t].deleting

LEMMA WaitsFacts ==
    /\ Idle \in Waits /\ CloseSession \in Waits
    /\ \A op \in TakingBack, t \in Torrents :
          /\ [op |-> op, tor |-> t] \in Waits
          /\ [op |-> op, tor |-> t] # CloseSession
    /\ Idle.op \notin TakingBack /\ CloseSession.op \notin TakingBack /\ Idle # CloseSession
    /\ \A w \in Waits : w.op \in TakingBack => w.tor \in Torrents
  BY DEF Waits, TakingBack, Idle, CloseSession

LEMMA QuietStep ==
    ASSUME Core, UNCHANGED <<workerVars, alive, waiting>>, TorLike(tor', tor)
    PROVE  Core' /\ VState' = VState /\ DeletingStays
<1> USE DEF workerVars
<1>1. CoreType' /\ DeletingStays
  BY DEF Core, CoreType, WorkerTypeOK, TorLike, Like, DeletingStays
<1>2. \A t \in Torrents : tor'[t].verify = tor[t].verify
  BY DEF TorLike, Like
<1>3. \A t \in alive : t \in Torrents
  BY DEF Core, CoreType
<1>4. StateMatchesWorker'
  BY <1>2, <1>3 DEF Core, StateMatchesWorker
<1>5. ThreadInv' /\ WaitInv'
  BY DEF Core, ThreadInv, WaitInv
<1>6. VState' = VState
  BY <1>2 DEF VState
<1> QED
  BY <1>1, <1>4, <1>5, <1>6 DEF Core

LEMMA SameTor ==
    ASSUME Core, tor' = tor
    PROVE  TorLike(tor', tor)
  BY DEF Core, CoreType, TorLike, Like

LEMMA OneTor ==
    ASSUME Core, NEW t \in Torrents, NEW r, Like(r, tor[t]), tor' = [tor EXCEPT ![t] = r]
    PROVE  TorLike(tor', tor)
  BY DEF Core, CoreType, TorLike, Like

\* The torrent's entry of the abstract queue changes, and no other.
LEMMA OneState ==
    ASSUME NEW t \in Torrents, t \in alive,
           \A u \in Torrents \ {t} : (u \in alive' <=> u \in alive) /\ tor'[u].verify = tor[u].verify
    PROVE  VState' = [VState EXCEPT ![t] = IF t \in alive' THEN tor'[t].verify ELSE "none"]
  BY DEF VState

LEMMA QueueStep ==
    ASSUME NEW t \in Torrents, t \in alive, tor[t].verify = "none",
           VState' = [VState EXCEPT ![t] = "queued"]
    PROVE  Queue!Next
<1>1. VState[t] = "none"
  BY DEF VState
<1>2. Queue!Queue(t)
  BY <1>1 DEF Queue!Queue, VState
<1> QED
  BY <1>2 DEF Queue!Next

LEMMA EndStep ==
    ASSUME NEW t \in Torrents, t \in alive, tor[t].verify # "none",
           VState' = [VState EXCEPT ![t] = "none"]
    PROVE  Queue!Next
<1>1. VState[t] # "none"
  BY DEF VState
<1>2. Queue!End(t)
  BY <1>1 DEF Queue!End, VState
<1> QED
  BY <1>2 DEF Queue!Next

\* A torrent that the worker does not have ends up "queued" or "none".
LEMMA TakenBackState ==
    ASSUME NEW t \in Torrents, t \in alive, tor[t].verify \in {"none", "queued"},
           NEW op \in TakingBack,
           alive' = IF op = "remove" THEN alive \ {t} ELSE alive,
           tor'[t].verify = IF op \in Adding THEN "queued" ELSE "none",
           \A u \in Torrents \ {t} : tor'[u].verify = tor[u].verify
    PROVE  [Queue!Next]_VState
<1>1. VState' = [VState EXCEPT ![t] = IF t \in alive' THEN tor'[t].verify ELSE "none"]
  BY OneState
<1>2. VState' = [VState EXCEPT ![t] = IF op \in Adding THEN "queued" ELSE "none"]
  BY <1>1 DEF Adding
<1>3. VState \in [Torrents -> {VState[u] : u \in Torrents}] /\ VState[t] = tor[t].verify
  BY DEF VState
<1>4. CASE op \in Adding /\ tor[t].verify = "none"
  BY <1>2, <1>4, QueueStep
<1>5. CASE op \notin Adding /\ tor[t].verify = "queued"
  BY <1>2, <1>5, EndStep
<1>6. CASE tor[t].verify = IF op \in Adding THEN "queued" ELSE "none"
  <2>1. VState' = VState
    BY <1>2, <1>3, <1>6
  <2> QED
    BY <2>1
<1> QED
  BY <1>4, <1>5, <1>6

LEMMA TakeBackStep ==
    ASSUME Core, waiting = Idle, NEW op \in TakingBack, NEW t \in alive,
           NEW r \in TorrentRecords, Like(r, tor[t]), TakeBack(op, t, r)
    PROVE  /\ Core' /\ DeletingStays /\ [Queue!Next]_VState
           /\ \/ waiting' = [op |-> op, tor |-> t] /\ alive' = alive
              \/ waiting' = Idle /\ alive' = IF op = "remove" THEN alive \ {t} ELSE alive
           /\ r.deleting => tor'[t].deleting
<1> USE DEF Core
<1>0. t \in Torrents /\ tor[t] \in TorrentRecords /\ tor[t].verify \in VerifyStates
  BY DEF CoreType, TorrentRecords
<1>a. Like(Before(op, r), r) /\ Like(Before(op, r), tor[t]) /\ Before(op, r) \in TorrentRecords
  BY BeforeLike, LikeTransitive DEF Like
<1>1. CASE /\ NeedsWait(t)
           /\ StopCurrent
           /\ waiting' = [op |-> op, tor |-> t]
           /\ tor' = [tor EXCEPT ![t] = Before(op, r)]
           /\ UNCHANGED alive
  <2> USE <1>1 DEF NeedsWait, StopCurrent
  <2>1. TorLike(tor', tor)
    BY <1>0, <1>a, OneTor
  <2>2. CoreType' /\ DeletingStays
    BY <2>1, <1>0, WaitsFacts DEF CoreType, WorkerTypeOK, TorLike, Like, DeletingStays
  <2>3. \A u \in Torrents : tor'[u].verify = tor[u].verify
    BY <2>1 DEF TorLike, Like
  <2>4. StateMatchesWorker'
    BY <2>3, <1>0, WaitsFacts DEF StateMatchesWorker, CoreType
  <2>5. ThreadInv'
    BY DEF ThreadInv
  <2>6. waiting'.tor = t /\ waiting' # CloseSession /\ t \notin todo
    BY <1>0, WaitsFacts DEF StateMatchesWorker
  <2>7. WaitInv'
    BY <2>6 DEF WaitInv
  <2>8. VState' = VState
    BY <2>3 DEF VState
  <2>9. r.deleting => tor'[t].deleting
    BY <1>a, <1>0 DEF Like, CoreType
  <2> QED
    BY <2>2, <2>4, <2>5, <2>7, <2>8, <2>9
<1>2. CASE /\ ~NeedsWait(t)
           /\ Requeue(t, Added(op, t))
           /\ tor' = [tor EXCEPT ![t] = After(op, OffQueue(t, Before(op, r)))]
           /\ alive' = IF op = "remove" THEN alive \ {t} ELSE alive
           /\ UNCHANGED waiting
  <2> DEFINE q == OffQueue(t, Before(op, r))
  <2> USE <1>2 DEF NeedsWait, Requeue, Added
  <2>1. /\ q \in TorrentRecords
        /\ q.verify = IF t \in todo THEN "none" ELSE tor[t].verify
        /\ r.deleting => q.deleting
    BY <1>a DEF OffQueue, TorrentRecords, Like, VerifyStates
  <2>2. tor[t].verify \in {"none", "queued"} /\ (t \notin todo => tor[t].verify = "none")
    BY <1>0, WaitsFacts DEF StateMatchesWorker, VerifyStates
  <2>3. /\ tor'[t] \in TorrentRecords
        /\ tor'[t].verify = IF op \in Adding THEN "queued" ELSE "none"
        /\ r.deleting => tor'[t].deleting
    <3> HIDE DEF q
    <3>1. /\ After(op, q) \in TorrentRecords
          /\ After(op, q).verify = IF op \in Adding THEN "queued" ELSE q.verify
          /\ q.deleting => After(op, q).deleting
      BY <2>1, AfterRecord
    <3>2. tor'[t] = After(op, q)
      BY <1>0 DEF CoreType, q
    <3> QED
      BY <3>1, <3>2, <2>1, <2>2
  <2>4. \A u \in Torrents \ {t} : tor'[u] = tor[u]
    BY DEF CoreType
  <2>5. CoreType' /\ DeletingStays
    <3>1. tor' \in [Torrents -> TorrentRecords] /\ DeletingStays
      BY <2>3, <2>4, <1>0 DEF CoreType, DeletingStays, Like
    <3>2. WorkerTypeOK'
      BY <1>0 DEF CoreType, WorkerTypeOK, ThreadStates
    <3> QED
      BY <3>1, <3>2 DEF CoreType
  <2>6. current' = current /\ current # t
    OBVIOUS
  <2>7. ThreadInv'
    BY <2>6 DEF ThreadInv
  <2>8. StateMatchesWorker'
    <3>1. current' \notin todo'
      BY <2>6 DEF StateMatchesWorker
    <3>2. thread' = thread \/ (thread = "absent" /\ thread' = "next")
      OBVIOUS
    <3>3. ASSUME NEW u \in alive', u # t
          PROVE  /\ u \in todo' \/ (u = current' /\ thread' = "picked") => tor'[u].verify = "queued"
                 /\ tor'[u].verify = "queued" =>
                       u \in todo' \/ (u = current' /\ thread' = "picked") \/ waiting' = CloseSession
                 /\ tor'[u].verify = "active" <=> u = current' /\ thread' \in {"checking", "reporting"}
      <4>1. u \in alive /\ u \in Torrents /\ tor'[u] = tor[u] /\ (u \in todo' <=> u \in todo)
        BY <3>3, <2>4 DEF CoreType
      <4> QED
        BY <4>1, <3>2, <2>6 DEF StateMatchesWorker
    <3>4. t \in alive' => (t \in todo' <=> op \in Adding)
      BY DEF Adding
    <3> QED
      BY <3>1, <3>3, <3>4, <2>3, <2>6 DEF StateMatchesWorker
  <2>9. WaitInv'
    BY WaitsFacts DEF WaitInv
  <2>10. [Queue!Next]_VState
    BY <1>0, <2>2, <2>3, <2>4, TakenBackState
  <2> QED
    BY <2>3, <2>5, <2>7, <2>8, <2>9, <2>10
<1> QED
  BY <1>1, <1>2 DEF TakeBack

LEMMA TakenBackStep ==
    ASSUME Core, TakenBack
    PROVE  /\ Core' /\ DeletingStays /\ [Queue!Next]_VState
           /\ alive' = IF waiting.op = "remove" THEN alive \ {waiting.tor} ELSE alive
<1> USE DEF Core
<1> DEFINE op == waiting.op
           t == waiting.tor
<1>0. op \in TakingBack /\ t \in Torrents /\ t \in alive /\ t \notin todo /\ current # t
  BY WaitsFacts DEF TakenBack, TakingBack, WaitInv, CoreType
<1>1. waiting # CloseSession /\ waiting' = Idle
  BY <1>0, WaitsFacts DEF TakenBack
<1>2. tor[t] \in TorrentRecords /\ tor[t].verify = "none"
  <2>1. tor[t] \in TorrentRecords /\ tor[t].verify \in VerifyStates
    BY <1>0 DEF CoreType, TorrentRecords
  <2> QED
    BY <2>1, <1>0, <1>1 DEF StateMatchesWorker, VerifyStates
<1>3. /\ tor'[t] \in TorrentRecords
      /\ tor'[t].verify = IF op \in Adding THEN "queued" ELSE "none"
      /\ tor[t].deleting => tor'[t].deleting
  <2>1. tor'[t] = After(op, tor[t])
    BY <1>0 DEF TakenBack, CoreType
  <2> QED
    BY <2>1, <1>0, <1>2, AfterRecord
<1>4. \A u \in Torrents \ {t} : tor'[u] = tor[u]
  BY DEF TakenBack, CoreType
<1>5. /\ todo' = (todo \ {t}) \cup (IF op \in Adding THEN {t} ELSE {})
      /\ thread' = thread \/ (thread = "absent" /\ thread' = "next")
      /\ current' = current /\ stopCurrent' = stopCurrent /\ piece' = piece
      /\ alive' = IF op = "remove" THEN alive \ {t} ELSE alive
  BY DEF TakenBack, Requeue, Added, Adding
<1>6. CoreType' /\ DeletingStays
  <2>1. tor' \in [Torrents -> TorrentRecords] /\ DeletingStays
    BY <1>3, <1>4, <1>0 DEF TakenBack, CoreType, DeletingStays
  <2>2. WorkerTypeOK'
    BY <1>0, <1>5 DEF CoreType, WorkerTypeOK, ThreadStates
  <2> QED
    BY <2>1, <2>2, <1>1, <1>5, WaitsFacts DEF CoreType
<1>7. ThreadInv'
  BY <1>0, <1>5 DEF ThreadInv, Adding
<1>8. StateMatchesWorker'
  <2>1. current' \notin todo'
    BY <1>0, <1>5 DEF StateMatchesWorker
  <2>2. ASSUME NEW u \in alive', u # t
        PROVE  /\ u \in todo' \/ (u = current' /\ thread' = "picked") => tor'[u].verify = "queued"
               /\ tor'[u].verify = "queued" =>
                     u \in todo' \/ (u = current' /\ thread' = "picked") \/ waiting' = CloseSession
               /\ tor'[u].verify = "active" <=> u = current' /\ thread' \in {"checking", "reporting"}
    <3>1. u \in alive /\ u \in Torrents /\ tor'[u] = tor[u] /\ (u \in todo' <=> u \in todo)
      BY <2>2, <1>4, <1>5 DEF CoreType
    <3> QED
      BY <3>1, <1>1, <1>5 DEF StateMatchesWorker
  <2>3. t \in alive' => (t \in todo' <=> op \in Adding)
    BY <1>0, <1>5 DEF Adding
  <2> QED
    BY <2>1, <2>2, <2>3, <1>0, <1>3, <1>5 DEF StateMatchesWorker
<1>9. WaitInv'
  BY <1>1, WaitsFacts DEF WaitInv
<1>10. [Queue!Next]_VState
  <2>1. \A u \in Torrents \ {t} : tor'[u].verify = tor[u].verify
    BY <1>4
  <2> QED
    BY <2>1, <1>0, <1>2, <1>3, <1>5, TakenBackState
<1> QED
  BY <1>5, <1>6, <1>7, <1>8, <1>9, <1>10

LEMMA CloseStep ==
    ASSUME Core, waiting = Idle, Close
    PROVE  Core' /\ DeletingStays /\ VState' = VState
<1> USE DEF Core, Close, Abandon
<1>1. CoreType' /\ DeletingStays
  BY WaitsFacts DEF CoreType, WorkerTypeOK, DeletingStays
<1>2. StateMatchesWorker'
  BY WaitsFacts DEF StateMatchesWorker
<1>3. ThreadInv' /\ WaitInv'
  BY WaitsFacts DEF ThreadInv, WaitInv
<1> QED
  BY <1>1, <1>2, <1>3 DEF VState

LEMMA ClosedStep ==
    ASSUME Core, Closed
    PROVE  Core' /\ DeletingStays /\ [Queue!Next]_VState
<1> USE DEF Core, Closed, workerVars
<1>1. \A t \in Torrents : Like(StopTail(StopHead(tor[t])), tor[t])
  <2> SUFFICES ASSUME NEW t \in Torrents PROVE Like(StopTail(StopHead(tor[t])), tor[t])
    OBVIOUS
  <2>1. tor[t] \in TorrentRecords
    BY DEF CoreType
  <2>2. Like(StopHead(tor[t]), tor[t]) /\ StopHead(tor[t]) \in TorrentRecords
    BY <2>1, StopHeadLike DEF Like
  <2>3. Like(StopTail(StopHead(tor[t])), StopHead(tor[t]))
    BY <2>2, StopTailLike
  <2> QED
    BY <2>2, <2>3, LikeTransitive
<1>2. CoreType' /\ DeletingStays
  <2>1. \A t \in Torrents : Like(tor'[t], tor[t])
    BY <1>1 DEF CoreType, Like
  <2>2. tor' \in [Torrents -> TorrentRecords] /\ DeletingStays
    BY <2>1 DEF DeletingStays, Like
  <2> QED
    BY <2>2, WaitsFacts DEF CoreType, WorkerTypeOK
<1>3. todo' = {} /\ current' = None
  BY DEF WaitInv, ThreadInv
<1>4. StateMatchesWorker'
  BY <1>3 DEF StateMatchesWorker
<1>5. ThreadInv' /\ WaitInv'
  BY <1>3, WaitsFacts DEF ThreadInv, WaitInv
<1>6. [Queue!Next]_VState
  <2>1. VState' = [t \in Torrents |-> "none"]
    BY DEF VState
  <2>2. \A t \in Torrents : VState[t] # "active"
    BY DEF VState, StateMatchesWorker
  <2>3. Queue!Forget
    BY <2>1, <2>2 DEF Queue!Forget, VState
  <2> QED
    BY <2>3 DEF Queue!Next
<1> QED
  BY <1>2, <1>4, <1>5, <1>6

-----------------------------------------------------------------------------
(* Steps of the worker thread.                                             *)

LEMMA WorkerNextStep ==
    ASSUME Core, WorkerNext
    PROVE  Core' /\ DeletingStays /\ VState' = VState
<1> USE DEF Core, WorkerNext, NextNode, sessionVars
<1>1. tor' = tor /\ alive' = alive /\ waiting' = waiting /\ piece' = piece /\ stopCurrent' = FALSE
  OBVIOUS
<1>2. VState' = VState /\ DeletingStays
  BY <1>1 DEF VState, DeletingStays
<1>3. waiting.op \in TakingBack => waiting.tor \in Torrents /\ waiting.tor # None
  BY WaitsFacts, WorkerAssumption DEF CoreType
<1>4. CASE todo = {} /\ current' = None /\ thread' = "absent" /\ UNCHANGED todo
  <2> USE <1>4
  <2>1. CoreType'
    BY <1>1 DEF CoreType, WorkerTypeOK, ThreadStates
  <2>2. StateMatchesWorker'
    BY <1>1 DEF StateMatchesWorker
  <2>3. ThreadInv'
    BY <1>1 DEF ThreadInv
  <2>4. WaitInv'
    BY <1>1, <1>3 DEF WaitInv
  <2> QED
    BY <1>2, <2>1, <2>2, <2>3, <2>4
<1>5. ASSUME NEW t \in todo, todo' = todo \ {t}, current' = t, thread' = "picked"
      PROVE  Core' /\ DeletingStays /\ VState' = VState
  <2> USE <1>5
  <2>1. t \in Torrents /\ t # None
    BY WorkerAssumption DEF CoreType, WorkerTypeOK
  <2>2. CoreType'
    BY <1>1, <2>1 DEF CoreType, WorkerTypeOK, ThreadStates
  <2>3. StateMatchesWorker'
    BY <1>1 DEF StateMatchesWorker
  <2>4. ThreadInv'
    BY <1>1, <2>1 DEF ThreadInv
  <2>5. WaitInv'
    BY <1>1, <1>3 DEF WaitInv
  <2> QED
    BY <1>2, <2>2, <2>3, <2>4, <2>5
<1> QED
  BY <1>4, <1>5

\* In the rest of the loop the thread has a torrent.
LEMMA HasCurrent ==
    ASSUME Core, thread \in {"picked", "checking", "reporting"}
    PROVE  current \in Torrents /\ current \in alive /\ tor[current] \in TorrentRecords
  BY DEF Core, CoreType, WorkerTypeOK, ThreadInv

LEMMA OnVerifyStartedStep ==
    ASSUME Core, OnVerifyStarted
    PROVE  Core' /\ DeletingStays /\ [Queue!Next]_VState
<1> USE DEF Core, OnVerifyStarted, StartNode
<1>1. current \in Torrents /\ current \in alive /\ tor[current] \in TorrentRecords
  BY HasCurrent
<1>2. /\ tor'[current] \in TorrentRecords /\ tor'[current].verify = "active"
      /\ tor'[current].deleting = tor[current].deleting
      /\ \A u \in Torrents \ {current} : tor'[u] = tor[u]
  BY <1>1 DEF CoreType, TorrentRecords, VerifyStates
<1>3. CoreType' /\ DeletingStays
  <2>1. tor' \in [Torrents -> TorrentRecords]
    BY <1>2 DEF CoreType
  <2>2. DeletingStays
    BY <1>2 DEF DeletingStays
  <2>3. WorkerTypeOK'
    BY WorkerAssumption DEF CoreType, WorkerTypeOK, ThreadStates
  <2> QED
    BY <2>1, <2>2, <2>3 DEF CoreType
<1>4. StateMatchesWorker'
  BY <1>2 DEF StateMatchesWorker, CoreType
<1>5. ThreadInv' /\ WaitInv'
  BY DEF ThreadInv, WaitInv
<1>6. Queue!Next
  <2>0. PICK t \in Torrents : t = current
    BY <1>1
  <2>1. VState' = [VState EXCEPT ![t] = "active"]
    BY <2>0, <1>1, <1>2, OneState
  <2>2. VState[t] = "queued"
    BY <2>0, <1>1 DEF VState, StateMatchesWorker
  <2>3. \A u \in Torrents : VState[u] # "active"
    BY DEF VState, StateMatchesWorker
  <2>4. Queue!Begin(t)
    BY <2>1, <2>2, <2>3 DEF Queue!Begin, VState
  <2> QED
    BY <2>4 DEF Queue!Next
<1> QED
  BY <1>3, <1>4, <1>5, <1>6

LEMMA OnPieceCheckedStep ==
    ASSUME Core, OnPieceChecked
    PROVE  Core' /\ DeletingStays /\ VState' = VState
<1> USE DEF Core, OnPieceChecked, NextPiece
<1>1. current \in Torrents /\ current \in alive /\ tor[current] \in TorrentRecords
  BY HasCurrent
<1>2. piece \in Pieces
  BY WorkerAssumption DEF Pieces, CoreType, WorkerTypeOK
<1>3. Like(PieceChecked(tor[current], piece), tor[current])
  BY <1>1, <1>2 DEF PieceChecked, Like, TorrentRecords
<1>4. TorLike(tor', tor)
  BY <1>1, <1>3, OneTor
<1>5. CoreType' /\ DeletingStays
  <2>1. WorkerTypeOK'
    BY WorkerAssumption DEF CoreType, WorkerTypeOK
  <2> QED
    BY <2>1, <1>4 DEF CoreType, TorLike, Like, DeletingStays
<1>6. \A u \in Torrents : tor'[u].verify = tor[u].verify
  BY <1>4 DEF TorLike, Like
<1>7. StateMatchesWorker'
  BY <1>6 DEF StateMatchesWorker, CoreType
<1>8. ThreadInv' /\ WaitInv'
  BY DEF ThreadInv, WaitInv
<1> QED
  BY <1>5, <1>6, <1>7, <1>8 DEF VState

LEMMA WorkerLeaveLoopStep ==
    ASSUME Core, WorkerLeaveLoop
    PROVE  Core' /\ DeletingStays /\ VState' = VState
<1> USE DEF Core, WorkerLeaveLoop, LeaveLoop, sessionVars
<1>1. CoreType' /\ DeletingStays
  BY DEF CoreType, WorkerTypeOK, ThreadStates, DeletingStays
<1>2. StateMatchesWorker'
  BY DEF StateMatchesWorker
<1>3. ThreadInv' /\ WaitInv'
  BY DEF ThreadInv, WaitInv
<1> QED
  BY <1>1, <1>2, <1>3 DEF VState

LEMMA OnVerifyDoneStep ==
    ASSUME Core, OnVerifyDone
    PROVE  Core' /\ DeletingStays /\ [Queue!Next]_VState
<1> USE DEF Core, OnVerifyDone, ReportNode
<1>1. current \in Torrents /\ current \in alive /\ tor[current] \in TorrentRecords
  BY HasCurrent
<1>2. /\ tor'[current] \in TorrentRecords /\ tor'[current].verify = "none"
      /\ tor'[current].deleting = tor[current].deleting
      /\ \A u \in Torrents \ {current} : tor'[u] = tor[u]
  BY <1>1 DEF CoreType, TorrentRecords, VerifyStates
<1>3. CoreType' /\ DeletingStays
  <2>1. tor' \in [Torrents -> TorrentRecords]
    BY <1>2 DEF CoreType
  <2>2. DeletingStays
    BY <1>2 DEF DeletingStays
  <2>3. WorkerTypeOK'
    BY DEF CoreType, WorkerTypeOK, ThreadStates
  <2> QED
    BY <2>1, <2>2, <2>3 DEF CoreType
<1>4. StateMatchesWorker'
  BY <1>2 DEF StateMatchesWorker, CoreType
<1>5. ThreadInv' /\ WaitInv'
  BY DEF ThreadInv, WaitInv
<1>6. Queue!Next
  <2>0. PICK t \in Torrents : t = current
    BY <1>1
  <2>1. VState' = [VState EXCEPT ![t] = "none"]
    BY <2>0, <1>1, <1>2, OneState
  <2>2. tor[t].verify # "none"
    BY <2>0, <1>1 DEF StateMatchesWorker
  <2> QED
    BY <2>0, <2>1, <2>2, <1>1, EndStep
<1> QED
  BY <1>3, <1>4, <1>5, <1>6

-----------------------------------------------------------------------------
(* The queued closures.                                                    *)

LEMMA ClosureFacts ==
    /\ \A c \in Closures : c.op # "close" => c.tor \in Torrents
    /\ \A c \in Closures : c.op = "close" => c = CloseSession
    /\ \A c \in Closures : c.op \in {"start", "stop", "verify", "remove", "verified", "close"}
    /\ CloseSession \in Closures /\ CloseSession.op = "close"
    /\ \A op \in {"start", "stop", "verify", "remove", "verified"}, t \in Torrents :
          [op |-> op, tor |-> t] \in Closures
  BY DEF Closures, CloseSession

LEMMA ClosureStays ==
    ASSUME NEW c \in Closures, ClosureInv(c), DeletingStays, closing => closing',
           c.op \in Raw => c.tor \in alive',
           c.op # "verified" => waiting' # CloseSession,
           c.op \in Raw /\ waiting'.op = "remove" => c.tor # waiting'.tor
    PROVE  ClosureInv(c)'
<1>1. c.op = "remove" => c.tor \in Torrents
  BY ClosureFacts
<1> QED
  BY <1>1 DEF ClosureInv, DeletingStays

LEMMA WorkKept ==
    ASSUME DeletingStays, closing' = closing,
           work' \in Seq(Closures),
           \A i \in DOMAIN work' : ClosureInv(work'[i]),
           \A i, j \in DOMAIN work' : i < j => Follows(work'[i], work'[j]),
           \A i \in DOMAIN work' : work'[i].op \in Raw =>
               work'[i].tor \in alive' /\ (waiting'.op = "remove" => work'[i].tor # waiting'.tor),
           waiting' = CloseSession =>
               closing /\ \A i \in DOMAIN work' : work'[i].op = "verified",
           waiting'.op = "remove" => tor'[waiting'.tor].deleting
    PROVE  WorkInv'
<1>1. \A i \in DOMAIN work' : work'[i] \in Closures
  OBVIOUS
<1>2. ASSUME NEW i \in DOMAIN work'
      PROVE  ClosureInv(work[i])'
  <2>0. PICK c \in Closures : c = work'[i]
    BY <1>1, <1>2
  <2>1. ClosureInv(c)'
    BY <2>0, <1>2, ClosureStays
  <2> QED
    BY <2>0, <2>1 DEF ClosureInv
<1>3. \A i \in DOMAIN work' : ClosureInv(work[i])'
  BY <1>2
<1>4. \A i, j \in DOMAIN work' : i < j => Follows(work[i], work[j])'
  BY DEF Follows
<1> QED
  BY <1>3, <1>4 DEF WorkInv

LEMMA SameWork ==
    ASSUME CoreType, WorkInv, DeletingStays, UNCHANGED <<work, closing, alive>>,
           waiting' \in {waiting, Idle}
    PROVE  WorkInv'
<1>1. work' \in Seq(Closures) /\ DOMAIN work' = DOMAIN work /\ \A i \in DOMAIN work : work'[i] = work[i]
  BY DEF WorkInv
<1>2. Idle # CloseSession /\ Idle.op # "remove"
  BY DEF Idle, CloseSession
<1>3. waiting'.op = "remove" => tor'[waiting'.tor].deleting
  BY <1>2, WaitsFacts DEF WorkInv, CoreType, DeletingStays, TakingBack
<1>4. waiting' = CloseSession => closing /\ \A i \in DOMAIN work' : work'[i].op = "verified"
  BY <1>1, <1>2 DEF WorkInv, ClosureInv
<1>5. \A i \in DOMAIN work' : work'[i].op \in Raw =>
          work'[i].tor \in alive' /\ (waiting'.op = "remove" => work'[i].tor # waiting'.tor)
  BY <1>1, <1>2 DEF WorkInv, ClosureInv
<1>6. \A i \in DOMAIN work' : ClosureInv(work'[i])
  BY <1>1 DEF WorkInv
<1>7. \A i, j \in DOMAIN work' : i < j => Follows(work'[i], work'[j])
  BY <1>1 DEF WorkInv
<1> QED
  BY <1>1, <1>3, <1>4, <1>5, <1>6, <1>7, WorkKept

LEMMA TailWork ==
    ASSUME WorkInv, work # << >>, work' = Tail(work)
    PROVE  /\ Head(work) \in Closures /\ ClosureInv(Head(work))
           /\ work' \in Seq(Closures)
           /\ \A i \in DOMAIN work' : ClosureInv(work'[i]) /\ Follows(Head(work), work'[i])
           /\ \A i, j \in DOMAIN work' : i < j => Follows(work'[i], work'[j])
<1>1. work \in Seq(Closures) /\ Head(work) = work[1] /\ 1 \in DOMAIN work
  BY DEF WorkInv
<1>2. /\ work' \in Seq(Closures)
      /\ \A i \in DOMAIN work' : i + 1 \in DOMAIN work /\ work'[i] = work[i + 1] /\ i \in Nat \ {0}
  BY <1>1
<1>3. \A i \in DOMAIN work' : ClosureInv(work'[i]) /\ Follows(Head(work), work'[i])
  <2> SUFFICES ASSUME NEW i \in DOMAIN work'
               PROVE  ClosureInv(work'[i]) /\ Follows(Head(work), work'[i])
    OBVIOUS
  <2>1. 1 < i + 1 /\ i + 1 \in DOMAIN work /\ work'[i] = work[i + 1]
    BY <1>2
  <2> QED
    BY <1>1, <2>1 DEF WorkInv
<1>4. ASSUME NEW i \in DOMAIN work', NEW j \in DOMAIN work', i < j
      PROVE  Follows(work'[i], work'[j])
  <2>1. i + 1 < j + 1 /\ i + 1 \in DOMAIN work /\ j + 1 \in DOMAIN work
    BY <1>2, <1>4
  <2> QED
    BY <1>2, <2>1 DEF WorkInv
<1>5. Head(work) \in Closures /\ ClosureInv(Head(work))
  BY <1>1 DEF WorkInv
<1> QED
  BY <1>2, <1>3, <1>4, <1>5

LEMMA AppendWork ==
    ASSUME CoreType, WorkInv, DeletingStays, closing => closing', UNCHANGED <<alive, waiting>>,
           NEW c \in Closures, work' = Append(work, c), ClosureInv(c)',
           \A i \in DOMAIN work : Follows(work[i], c)
    PROVE  WorkInv'
<1>1. /\ work' \in Seq(Closures) /\ DOMAIN work' = DOMAIN work \cup {Len(work) + 1}
      /\ work'[Len(work) + 1] = c
      /\ \A i \in DOMAIN work : work'[i] = work[i] /\ work[i] \in Closures /\ i \in Nat /\ i <= Len(work)
      /\ Len(work) \in Nat
  BY DEF WorkInv
<1>2. ASSUME NEW i \in DOMAIN work
      PROVE  ClosureInv(work[i])'
  <2>0. PICK d \in Closures : d = work[i] /\ d = work'[i]
    BY <1>1, <1>2
  <2>1. ClosureInv(d)
    BY <2>0, <1>2 DEF WorkInv
  <2>2. ClosureInv(d)'
    BY <2>1, ClosureStays DEF ClosureInv
  <2> QED
    BY <2>0, <2>2 DEF ClosureInv
<1>3. \A i \in DOMAIN work' : ClosureInv(work[i])'
  BY <1>1, <1>2 DEF ClosureInv
<1>4. ASSUME NEW i \in DOMAIN work', NEW j \in DOMAIN work', i < j
      PROVE  Follows(work[i], work[j])'
  <2>1. i \in DOMAIN work
    BY <1>1, <1>4
  <2>2. CASE j \in DOMAIN work
    BY <1>1, <2>1, <2>2, <1>4 DEF WorkInv, Follows
  <2>3. CASE j = Len(work) + 1
    BY <1>1, <2>1, <2>3 DEF Follows
  <2> QED
    BY <1>1, <2>2, <2>3
<1>5. waiting' = CloseSession => closing'
  BY DEF WorkInv
<1>6. waiting'.op = "remove" => tor'[waiting'.tor].deleting
  BY WaitsFacts DEF WorkInv, CoreType, DeletingStays, TakingBack
<1> QED
  BY <1>1, <1>3, <1>4, <1>5, <1>6 DEF WorkInv

LEMMA SameUser ==
    ASSUME UserInv, UNCHANGED <<closing, commands>>
    PROVE  UserInv'
  BY DEF UserInv

LEMMA CommandUser ==
    ASSUME UserInv, NEW kind \in CommandKinds, NEW t \in Torrents, Command(kind, t)
    PROVE  UserInv'
  BY LifecycleAssumption DEF UserInv, Command

\* An event of the session thread that leaves the closures alone and does not
\* free a torrent.
LEMMA EventWork ==
    ASSUME CoreType, WorkInv, DeletingStays, UNCHANGED <<work, closing, alive>>,
           waiting' # CloseSession, waiting'.op # "remove"
    PROVE  WorkInv'
<1>1. work' \in Seq(Closures) /\ DOMAIN work' = DOMAIN work /\ \A i \in DOMAIN work : work'[i] = work[i]
  BY DEF WorkInv
<1>2. \A i \in DOMAIN work' : ClosureInv(work'[i])
  BY <1>1 DEF WorkInv
<1>3. \A i, j \in DOMAIN work' : i < j => Follows(work'[i], work'[j])
  BY <1>1 DEF WorkInv
<1>4. \A i \in DOMAIN work' : work'[i].op \in Raw =>
          work'[i].tor \in alive' /\ (waiting'.op = "remove" => work'[i].tor # waiting'.tor)
  BY <1>2 DEF ClosureInv
<1> QED
  BY <1>1, <1>2, <1>3, <1>4, WorkKept

\* The torrents that on_queue_timer() has still to start are not freed before.
LEMMA FewerStarts ==
    ASSUME StartsInv, starts' \subseteq starts, alive' = alive,
           waiting' = waiting \/ waiting' = Idle \/ waiting'.op \in Adding
    PROVE  StartsInv'
  BY DEF StartsInv

LEMMA NoStarts ==
    ASSUME starts' = starts, starts = {}
    PROVE  StartsInv'
  BY DEF StartsInv

LEMMA SameStarts ==
    ASSUME StartsInv, UNCHANGED <<starts, alive, waiting>>
    PROVE  StartsInv'
  BY DEF StartsInv

-----------------------------------------------------------------------------
(* Every action keeps the invariant and is a step of VerifyQueue or none.  *)

LEMMA InitInv == Init => IInv /\ Queue!Init
<1> SUFFICES ASSUME Init PROVE IInv /\ Queue!Init
  OBVIOUS
<1>0. /\ todo = {} /\ current = None /\ stopCurrent = FALSE /\ piece = 0 /\ thread = "absent"
      /\ alive = Torrents /\ work = << >> /\ waiting = Idle /\ closing = FALSE /\ commands = 0
  BY DEF Init, WorkerInit
<1>1. LoadedRecords \subseteq TorrentRecords /\ \A r \in LoadedRecords : r.verify = "none"
  <2> SUFFICES ASSUME NEW h \in SUBSET Pieces, NEW d \in SUBSET Pieces
               PROVE  [running |-> FALSE, joined |-> FALSE, stopping |-> FALSE, queued |-> FALSE,
                       stable |-> FALSE, deleting |-> FALSE, done |-> h = Pieces,
                       needsCheck |-> FALSE, verify |-> "none", has |-> h, checked |-> {},
                       disk |-> d, cached |-> {}] \in TorrentRecords
    BY DEF LoadedRecords
  <2> QED
    BY DEF TorrentRecords, VerifyStates
<1>2. tor \in [Torrents -> TorrentRecords] /\ \A t \in Torrents : tor[t].verify = "none"
  BY <1>1 DEF Init
<1>3. CoreType
  <2>1. 0 \in 0 .. NumPieces
    BY WorkerAssumption
  <2>2. WorkerTypeOK
    BY <1>0, <2>1 DEF WorkerTypeOK, ThreadStates
  <2> QED
    BY <1>0, <1>2, <2>2, WaitsFacts DEF CoreType
<1>4. StateMatchesWorker
  BY <1>0, <1>2 DEF StateMatchesWorker
<1>5. ThreadInv /\ WaitInv
  BY <1>0, WaitsFacts DEF ThreadInv, WaitInv
<1>6. WorkInv
  <2>1. work \in Seq(Closures) /\ DOMAIN work = {}
    BY <1>0
  <2>2. waiting # CloseSession /\ waiting.op # "remove"
    BY <1>0 DEF Idle, CloseSession
  <2> QED
    BY <2>1, <2>2 DEF WorkInv
<1>7. UserInv
  <2>1. 0 \in 0 .. MaxCommands
    BY LifecycleAssumption
  <2> QED
    BY <1>0, <2>1 DEF UserInv, CommandKinds
<1>8. Queue!Init
  BY <1>0, <1>2 DEF Queue!Init
<1>9. StartsInv
  BY DEF Init, StartsInv
<1> QED
  BY <1>3, <1>4, <1>5, <1>6, <1>7, <1>8, <1>9 DEF IInv, Core

\* SetTorrent with a record like the old one.
LEMMA SetTorrentStep ==
    ASSUME Core, NEW t \in Torrents, NEW r, Like(r, tor[t]), SetTorrent(t, r)
    PROVE  Core' /\ VState' = VState /\ DeletingStays /\ UNCHANGED <<alive, waiting>>
<1>1. TorLike(tor', tor)
  BY OneTor DEF SetTorrent
<1> QED
  BY <1>1, QuietStep DEF SetTorrent

LEMMA TakenBackInv ==
    ASSUME IInv, TakenBack
    PROVE  IInv' /\ [Queue!Next]_VState
<1> USE DEF IInv
<1>1. /\ Core' /\ DeletingStays /\ [Queue!Next]_VState
      /\ alive' = IF waiting.op = "remove" THEN alive \ {waiting.tor} ELSE alive
  BY TakenBackStep
<1>2. waiting' = Idle /\ work' = work /\ closing' = closing /\ UNCHANGED <<closing, commands>>
  BY DEF TakenBack
<1>3. Idle # CloseSession /\ Idle.op # "remove"
  BY DEF Idle, CloseSession
<1>4. WorkInv'
  <2>1. work' \in Seq(Closures) /\ DOMAIN work' = DOMAIN work /\ \A i \in DOMAIN work : work'[i] = work[i]
    BY <1>2 DEF WorkInv
  <2>2. \A i \in DOMAIN work' : ClosureInv(work'[i])
    BY <2>1 DEF WorkInv
  <2>3. \A i, j \in DOMAIN work' : i < j => Follows(work'[i], work'[j])
    BY <2>1 DEF WorkInv
  <2>4. \A i \in DOMAIN work' : work'[i].op \in Raw =>
            work'[i].tor \in alive' /\ (waiting'.op = "remove" => work'[i].tor # waiting'.tor)
    BY <2>2, <1>1, <1>2, <1>3 DEF ClosureInv
  <2> QED
    BY <1>1, <1>2, <1>3, <2>1, <2>2, <2>3, <2>4, WorkKept
<1>5. UserInv'
  BY <1>2, SameUser
<1>6. StartsInv'
  <2>1. CASE starts = {}
    BY <2>1, NoStarts DEF TakenBack
  <2>2. CASE starts # {}
    BY <2>2, <1>1, <1>2, FewerStarts DEF TakenBack, StartsInv, Adding, Idle
  <2> QED
    BY <2>1, <2>2
<1> QED
  BY <1>1, <1>4, <1>5, <1>6

\* What start(), its closure and that of on_verify_done() do to the worker's and
\* the torrents' part of the invariant.
StepOf(op, t) ==
    /\ Core' /\ DeletingStays /\ [Queue!Next]_VState
    /\ alive' = alive
    /\ waiting' \in {[op |-> op, tor |-> t], Idle}

LEMMA SetTorrentOf ==
    ASSUME Core, waiting = Idle, NEW op, NEW t \in Torrents, NEW r, Like(r, tor[t]), SetTorrent(t, r)
    PROVE  StepOf(op, t)
  BY SetTorrentStep DEF StepOf

LEMMA TakeBackOf ==
    ASSUME Core, waiting = Idle, NEW op \in TakingBack \ {"remove"}, NEW t \in alive,
           NEW r \in TorrentRecords, Like(r, tor[t]), TakeBack(op, t, r)
    PROVE  StepOf(op, t)
  BY TakeBackStep DEF StepOf

LEMMA StartInSessionThreadStep ==
    ASSUME Core, waiting = Idle, NEW t \in alive, NEW r \in TorrentRecords,
           Like(r, tor[t]), StartInSessionThread(t, r)
    PROVE  StepOf("restart", t)
<1>1. Like(Recheck(r), r) /\ Recheck(r) \in TorrentRecords
  BY RecheckLike DEF Like
<1>2. Like(Begun(Recheck(r)), Recheck(r))
  BY <1>1, BegunLike
<1>3. Like(Recheck(r), tor[t]) /\ Like(Begun(Recheck(r)), tor[t])
  BY <1>1, <1>2, LikeTransitive
<1>4. t \in Torrents /\ "restart" \in TakingBack \ {"remove"}
  BY DEF Core, CoreType, TakingBack
<1>5. CASE TakeBack("restart", t, Recheck(r))
  BY <1>1, <1>3, <1>4, <1>5, TakeBackOf
<1>6. CASE SetTorrent(t, Begun(Recheck(r)))
  BY <1>3, <1>4, <1>6, SetTorrentOf
<1> QED
  BY <1>5, <1>6 DEF StartInSessionThread

LEMMA StartStep ==
    ASSUME Core, waiting = Idle, NEW t \in alive, NEW r \in TorrentRecords, NEW bypass \in BOOLEAN,
           Like(r, tor[t]), Start(t, r, bypass)
    PROVE  StepOf("restart", t)
<1> DEFINE q == [r EXCEPT !.running = TRUE]
           s == [r EXCEPT !.queued = @ \/ Queues(r, bypass)]
<1>1. q \in TorrentRecords /\ Like(q, r) /\ Like(s, r)
  <2>1. (r.queued \/ Queues(r, bypass)) \in BOOLEAN
    OBVIOUS
  <2> QED
    BY <2>1 DEF Like, TorrentRecords
<1>2. t \in Torrents
  BY DEF Core, CoreType
<1>3. StartInSessionThread(t, q) \/ SetTorrent(t, s)
  BY DEF Start
<1> HIDE DEF q, s
<1>4. Like(q, tor[t]) /\ Like(s, tor[t])
  BY <1>1, LikeTransitive
<1> QED
  BY <1>1, <1>2, <1>3, <1>4, StartInSessionThreadStep, SetTorrentOf

LEMMA VerifiedStep ==
    ASSUME Core, waiting = Idle, NEW t \in Torrents, Verified(t)
    PROVE  StepOf("verify", t) \/ StepOf("restart", t)
<1> DEFINE r == Recheck(tor[t])
<1>1. tor[t] \in TorrentRecords /\ Like(tor[t], tor[t]) /\ Like(r, tor[t]) /\ r \in TorrentRecords
  BY RecheckLike DEF Core, CoreType, Like
<1>2. "verify" \in TakingBack \ {"remove"}
  BY DEF TakingBack
<1>3. \/ SetTorrent(t, tor[t])
      \/ t \in alive /\ TakeBack("verify", t, r)
      \/ t \in alive /\ Start(t, r, FALSE)
      \/ SetTorrent(t, r)
  BY DEF Verified
<1> HIDE DEF r
<1> QED
  BY <1>1, <1>2, <1>3, SetTorrentOf, TakeBackOf, StartStep

LEMMA RunWorkInv ==
    ASSUME IInv, RunWork
    PROVE  IInv' /\ [Queue!Next]_VState
<1> USE DEF IInv
<1> DEFINE c == Head(work)
           t == Head(work).tor
<1>0. /\ waiting = Idle /\ work # << >> /\ work' = Tail(work)
      /\ UNCHANGED <<closing, commands>> /\ closing' = closing
  BY DEF RunWork, Free
<1>1. /\ c \in Closures /\ ClosureInv(c)
      /\ work' \in Seq(Closures)
      /\ \A i \in DOMAIN work' : ClosureInv(work'[i]) /\ Follows(c, work'[i])
      /\ \A i, j \in DOMAIN work' : i < j => Follows(work'[i], work'[j])
  BY <1>0, TailWork
<1>2. UserInv'
  BY <1>0, SameUser
<1>3. Idle # CloseSession /\ Idle.op # "remove" /\ CloseSession.op = "close"
  BY DEF Idle, CloseSession
<1>s. StartsInv'
  BY <1>0, NoStarts DEF RunWork, Free
<1>4. ASSUME NEW op \in Adding, NEW u, StepOf(op, u)
      PROVE  WorkInv'
  <2>0. DeletingStays /\ alive' = alive /\ waiting' # CloseSession /\ waiting'.op # "remove"
    BY <1>4 DEF StepOf, Adding, Idle, CloseSession
  <2>1. \A i \in DOMAIN work' : work'[i].op \in Raw =>
            work'[i].tor \in alive' /\ (waiting'.op = "remove" => work'[i].tor # waiting'.tor)
    BY <1>1, <2>0 DEF ClosureInv
  <2> QED
    BY <1>0, <1>1, <2>0, <2>1, WorkKept
<1>5. c.op # "close" => t \in Torrents /\ tor[t] \in TorrentRecords /\ Like(tor[t], tor[t])
  BY <1>1, ClosureFacts DEF Core, CoreType, Like
<1>6. CASE c.op = "start" /\ StartInSessionThread(t, tor[t])
  <2>1. PICK u \in alive : u = t
    BY <1>1, <1>6 DEF ClosureInv, Raw
  <2>2. StepOf("restart", u) /\ "restart" \in Adding
    BY <2>1, <1>0, <1>5, <1>6, StartInSessionThreadStep DEF Adding
  <2> QED
    BY <2>2, <1>2, <1>s, <1>4 DEF StepOf
<1>7. CASE c.op = "verified" /\ Verified(t)
  <2>1. PICK op \in Adding : StepOf(op, t)
    BY <1>0, <1>5, <1>7, VerifiedStep DEF Adding
  <2> QED
    BY <2>1, <1>2, <1>s, <1>4 DEF StepOf
<1>8. CASE c.op = "verify" /\ SetTorrent(t, tor[t])
  <2>1. StepOf("verify", t) /\ "verify" \in Adding
    BY <1>0, <1>5, <1>8, SetTorrentOf DEF Adding
  <2> QED
    BY <2>1, <1>2, <1>s, <1>4 DEF StepOf
<1>9. CASE c.op \in TakingBack /\ t \in alive /\ TakeBack(c.op, t, tor[t])
  <2>0. PICK op \in TakingBack, u \in alive : op = c.op /\ u = t
    BY <1>9
  <2>1. u \in Torrents /\ tor[u] \in TorrentRecords /\ Like(tor[u], tor[u])
    BY DEF Core, CoreType, Like
  <2>2. TakeBack(op, u, tor[u])
    BY <2>0, <1>9
  <2>3. /\ Core' /\ DeletingStays /\ [Queue!Next]_VState
        /\ \/ waiting' = [op |-> op, tor |-> u] /\ alive' = alive
           \/ waiting' = Idle /\ alive' = IF op = "remove" THEN alive \ {u} ELSE alive
        /\ tor[u].deleting => tor'[u].deleting
    BY <2>1, <2>2, <1>0, TakeBackStep
  <2>4. waiting' # CloseSession
    BY <2>1, <2>3, WaitsFacts
  <2>5. waiting'.op = "remove" => op = "remove" /\ waiting'.tor = u /\ tor'[u].deleting
    BY <2>0, <2>3, <1>1, <1>3 DEF ClosureInv
  <2>6. \A i \in DOMAIN work' : work'[i].op \in Raw =>
            work'[i].tor \in alive' /\ (waiting'.op = "remove" => work'[i].tor # waiting'.tor)
    <3> SUFFICES ASSUME NEW i \in DOMAIN work', work'[i].op \in Raw
                 PROVE  work'[i].tor \in alive' /\ (waiting'.op = "remove" => work'[i].tor # waiting'.tor)
      OBVIOUS
    <3>1. work'[i].tor \in alive /\ (op = "remove" => work'[i].tor # u)
      BY <1>1, <2>0 DEF ClosureInv, Follows
    <3> QED
      BY <3>1, <2>3, <2>5
  <2>7. WorkInv'
    BY <1>0, <1>1, <2>3, <2>4, <2>5, <2>6, WorkKept
  <2> QED
    BY <2>3, <2>7, <1>2, <1>s
<1>10. CASE c.op = "close" /\ Close
  <2>1. Core' /\ DeletingStays /\ VState' = VState
    BY <1>0, <1>10, CloseStep
  <2>2. waiting' = CloseSession /\ alive' = alive
    BY <1>10 DEF Close
  <2>3. \A i \in DOMAIN work' : work'[i].op = "verified"
    BY <1>1, <1>10 DEF Follows
  <2>4. closing
    BY <1>1, <1>10 DEF ClosureInv
  <2>5. WorkInv'
    BY <1>0, <1>1, <1>3, <2>1, <2>2, <2>3, <2>4, WorkKept DEF Raw
  <2> QED
    BY <2>1, <2>5, <1>2, <1>s
<1>11. c.op \in Raw => t \in alive
  BY <1>1 DEF ClosureInv
<1> QED
  BY <1>5, <1>6, <1>7, <1>8, <1>9, <1>10, <1>11 DEF RunWork, TakingBack, Raw

LEMMA IdleWorkInv ==
    ASSUME IInv, NEW t \in alive, IdleWork(t)
    PROVE  IInv' /\ [Queue!Next]_VState
<1> USE DEF IInv
<1> DEFINE r == IF tor[t].needsCheck THEN Recheck(tor[t]) ELSE tor[t]
<1>0. /\ waiting = Idle /\ t \in Torrents /\ tor[t] \in TorrentRecords
      /\ UNCHANGED <<work, closing, commands>>
  BY DEF IdleWork, Free, Core, CoreType
<1>1. Like(r, tor[t]) /\ r \in TorrentRecords
  BY <1>0, RecheckLike DEF Like
<1>2. UserInv'
  BY <1>0, SameUser
<1>s. StartsInv'
  BY NoStarts DEF IdleWork, Free
<1>w. ASSUME NEW op \in {"verify", "stop"}, StepOf(op, t)
      PROVE  IInv' /\ [Queue!Next]_VState
  <2>1. DeletingStays /\ alive' = alive /\ waiting' # CloseSession /\ waiting'.op # "remove"
    BY <1>w DEF StepOf, Idle, CloseSession
  <2>2. WorkInv'
    BY <1>0, <2>1, EventWork DEF Core
  <2> QED
    BY <2>2, <1>2, <1>s, <1>w DEF StepOf
<1>3. CASE SetTorrent(t, r)
  BY <1>0, <1>1, <1>3, <1>w, SetTorrentOf
<1>4. CASE TakeBack("stop", t, [r EXCEPT !.stable = FALSE])
  <2> DEFINE q == [r EXCEPT !.stable = FALSE]
  <2>1. q \in TorrentRecords /\ Like(q, r)
    <3> HIDE DEF r
    <3> QED
      BY <1>1 DEF Like, TorrentRecords
  <2> HIDE DEF q
  <2>2. Like(q, tor[t]) /\ "stop" \in TakingBack \ {"remove"}
    BY <2>1, <1>1, LikeTransitive DEF TakingBack
  <2>3. TakeBack("stop", t, q)
    BY <1>4 DEF q
  <2> QED
    BY <2>1, <2>2, <2>3, <1>0, <1>w, TakeBackOf
<1>5. CASE TakeBack("verify", t, r)
  <2>1. "verify" \in TakingBack \ {"remove"}
    BY DEF TakingBack
  <2> QED
    BY <2>1, <1>0, <1>1, <1>5, <1>w, TakeBackOf
<1> QED
  BY <1>3, <1>4, <1>5 DEF IdleWork

LEMMA OnQueueTimerInv ==
    ASSUME IInv, NEW d, OnQueueTimer(d)
    PROVE  IInv' /\ [Queue!Next]_VState
<1> USE DEF IInv
<1>1. UNCHANGED <<workerVars, alive, tor, work, waiting, closing, commands>>
  BY DEF OnQueueTimer
<1>2. Core' /\ VState' = VState /\ DeletingStays
  BY <1>1, SameTor, QuietStep
<1>3. WorkInv' /\ UserInv'
  BY <1>1, <1>2, SameWork, SameUser DEF Core
<1>4. StartsInv'
  BY <1>1 DEF OnQueueTimer, Free, StartsInv
<1> QED
  BY <1>2, <1>3, <1>4

LEMMA StartNextInv ==
    ASSUME IInv, StartNext
    PROVE  IInv' /\ [Queue!Next]_VState
<1> USE DEF IInv
<1>1. PICK t \in starts : /\ starts' = starts \ {t}
                          /\ Start(t, [tor[t] EXCEPT !.stable = TRUE], TRUE)
  BY DEF StartNext
<1>2. t \in alive /\ t \in Torrents /\ tor[t] \in TorrentRecords
  BY <1>1 DEF StartsInv, Core, CoreType
<1> DEFINE r == [tor[t] EXCEPT !.stable = TRUE]
<1>3. r \in TorrentRecords /\ Like(r, tor[t])
  BY <1>2 DEF Like, TorrentRecords
<1>4. Start(t, r, TRUE) /\ waiting = Idle /\ UNCHANGED <<work, closing, commands>>
  BY <1>1 DEF StartNext
<1> HIDE DEF r
<1>5. StepOf("restart", t)
  BY <1>2, <1>3, <1>4, StartStep
<1>6. /\ Core' /\ DeletingStays /\ [Queue!Next]_VState /\ alive' = alive
      /\ waiting' # CloseSession /\ waiting'.op # "remove"
      /\ waiting' = Idle \/ waiting'.op \in Adding
  BY <1>5 DEF StepOf, Idle, CloseSession, Adding
<1>7. WorkInv' /\ UserInv'
  BY <1>4, <1>6, EventWork, SameUser DEF Core
<1>8. StartsInv'
  BY <1>1, <1>6, FewerStarts
<1> QED
  BY <1>6, <1>7, <1>8

LEMMA GotPieceInv ==
    ASSUME IInv, NEW t \in alive, NEW p \in Pieces, GotPiece(t, p)
    PROVE  IInv' /\ [Queue!Next]_VState
<1> USE DEF IInv
<1> DEFINE r == [tor[t] EXCEPT !.has = @ \cup {p}, !.cached = @ \cup {p}, !.needsCheck = TRUE]
<1>1. t \in Torrents /\ tor[t] \in TorrentRecords
  BY DEF Core, CoreType
<1>2. Like(r, tor[t])
  BY <1>1 DEF Like, TorrentRecords
<1>3. SetTorrent(t, r) /\ UNCHANGED <<work, starts, closing, commands>>
  BY DEF GotPiece
<1> HIDE DEF r
<1>4. Core' /\ VState' = VState /\ DeletingStays /\ UNCHANGED <<alive, waiting>>
  BY <1>1, <1>2, <1>3, SetTorrentStep
<1>5. WorkInv' /\ UserInv' /\ StartsInv'
  BY <1>3, <1>4, SameWork, SameUser, SameStarts DEF Core
<1> QED
  BY <1>4, <1>5

LEMMA ClosedInv ==
    ASSUME IInv, Closed
    PROVE  IInv' /\ [Queue!Next]_VState
<1> USE DEF IInv
<1>1. Core' /\ DeletingStays /\ [Queue!Next]_VState
  BY ClosedStep
<1>2. waiting = CloseSession /\ waiting' = Idle /\ UNCHANGED <<work, closing, commands>>
  BY DEF Closed
<1>3. work' \in Seq(Closures) /\ DOMAIN work' = DOMAIN work /\ \A i \in DOMAIN work : work'[i] = work[i]
  BY <1>2 DEF WorkInv
<1>4. \A i \in DOMAIN work' : ClosureInv(work'[i]) /\ work'[i].op = "verified"
  BY <1>2, <1>3 DEF WorkInv, ClosureInv
<1>5. \A i, j \in DOMAIN work' : i < j => Follows(work'[i], work'[j])
  BY <1>3 DEF WorkInv
<1>6. Idle # CloseSession /\ Idle.op # "remove" /\ "verified" \notin Raw
  BY DEF Idle, CloseSession, Raw
<1>7. WorkInv'
  BY <1>1, <1>2, <1>3, <1>4, <1>5, <1>6, WorkKept
<1>8. UserInv'
  BY <1>2, SameUser
<1>9. StartsInv'
  BY <1>2, <1>6, NoStarts DEF Closed, StartsInv, Adding, CloseSession
<1> QED
  BY <1>1, <1>7, <1>8, <1>9

\* The worker thread leaves the closures alone, but for the one it queues.
LEMMA OnVerifyDoneInv ==
    ASSUME IInv, OnVerifyDone
    PROVE  IInv' /\ [Queue!Next]_VState
<1> USE DEF IInv
<1>1. Core' /\ DeletingStays /\ [Queue!Next]_VState
  BY OnVerifyDoneStep
<1>2. UNCHANGED <<alive, waiting, starts, closing, commands>> /\ thread = "reporting"
  BY DEF OnVerifyDone, ReportNode
<1>3. PICK t \in Torrents : t = current
  BY <1>2, HasCurrent
<1>4. UserInv' /\ StartsInv'
  BY <1>2, SameUser, SameStarts
<1>5. CASE work' = work
  <2>1. WorkInv'
    BY <1>1, <1>2, <1>5, SameWork DEF Core
  <2> QED
    BY <1>1, <1>4, <2>1
<1>6. CASE work' = Append(work, [op |-> "verified", tor |-> t])
  <2> DEFINE c == [op |-> "verified", tor |-> t]
  <2>1. c \in Closures /\ c.op = "verified" /\ "verified" \notin Raw
    BY ClosureFacts DEF Raw
  <2> HIDE DEF c
  <2>2. ClosureInv(c)'
    BY <2>1 DEF ClosureInv
  <2>3. \A i \in DOMAIN work : Follows(work[i], c)
    BY <2>1 DEF Follows
  <2>4. work' = Append(work, c)
    BY <1>6 DEF c
  <2>5. WorkInv'
    BY <1>1, <1>2, <2>1, <2>2, <2>3, <2>4, AppendWork DEF Core
  <2> QED
    BY <1>1, <1>4, <2>5
<1>7. work' = work \/ work' = Append(work, [op |-> "verified", tor |-> t])
  BY <1>3 DEF OnVerifyDone
<1> QED
  BY <1>5, <1>6, <1>7

LEMMA WorkerInvariant ==
    ASSUME IInv, Worker
    PROVE  IInv' /\ [Queue!Next]_VState
<1> USE DEF IInv
<1>1. ASSUME Core', DeletingStays, UNCHANGED <<alive, work, waiting, starts, closing, commands>>
      PROVE  WorkInv' /\ UserInv' /\ StartsInv'
  BY <1>1, SameWork, SameUser, SameStarts DEF Core
<1>2. CASE WorkerNext
  BY <1>1, <1>2, WorkerNextStep DEF WorkerNext, sessionVars
<1>3. CASE OnVerifyStarted
  BY <1>1, <1>3, OnVerifyStartedStep DEF OnVerifyStarted
<1>4. CASE OnPieceChecked
  BY <1>1, <1>4, OnPieceCheckedStep DEF OnPieceChecked
<1>5. CASE WorkerLeaveLoop
  BY <1>1, <1>5, WorkerLeaveLoopStep DEF WorkerLeaveLoop, sessionVars
<1>6. CASE OnVerifyDone
  BY <1>6, OnVerifyDoneInv
<1> QED
  BY <1>2, <1>3, <1>4, <1>5, <1>6 DEF Worker

-----------------------------------------------------------------------------
(* Commands of the user.                                                   *)

LEMMA CommandFacts ==
    ASSUME IInv, NEW kind \in CommandKinds, NEW t \in alive, Command(kind, t)
    PROVE  /\ UserInv' /\ ~closing /\ closing' = closing
           /\ t \in Torrents /\ tor[t] \in TorrentRecords /\ ~tor[t].deleting
           /\ Front = "rpc" => waiting = Idle /\ starts = {}
           /\ \A i \in DOMAIN work : work[i].op # "close"
           /\ \A i \in DOMAIN work : work[i].op = "remove" => work[i].tor # t
           /\ waiting # CloseSession /\ (waiting.op = "remove" => waiting.tor # t)
<1> USE DEF IInv
<1>1. t \in Torrents /\ tor[t] \in TorrentRecords
  BY DEF Core, CoreType
<1>2. UserInv'
  BY <1>1, CommandUser
<1>3. /\ ~closing /\ closing' = closing /\ ~tor[t].deleting
      /\ Front = "rpc" => waiting = Idle /\ starts = {}
  BY DEF Command, Free
<1>4. \A i \in DOMAIN work : work[i].op # "close" /\ (work[i].op = "remove" => work[i].tor # t)
  BY <1>3 DEF WorkInv, ClosureInv
<1>5. waiting # CloseSession /\ (waiting.op = "remove" => waiting.tor # t)
  BY <1>3 DEF WorkInv
<1> QED
  BY <1>1, <1>2, <1>3, <1>4, <1>5

\* A command that only changes its torrent's record.
LEMMA QuietCommand ==
    ASSUME IInv, NEW kind \in CommandKinds, NEW t \in alive, NEW r, Command(kind, t),
           Like(r, tor[t]), SetTorrent(t, r), UNCHANGED <<work, starts>>
    PROVE  IInv' /\ [Queue!Next]_VState
<1> USE DEF IInv
<1>1. UserInv' /\ closing' = closing /\ t \in Torrents
  BY CommandFacts
<1>2. Core' /\ VState' = VState /\ DeletingStays /\ UNCHANGED <<alive, waiting>>
  BY <1>1, SetTorrentStep
<1>3. WorkInv' /\ StartsInv'
  BY <1>1, <1>2, SameWork, SameStarts DEF Core
<1> QED
  BY <1>1, <1>2, <1>3

\* A command that leaves a closure.
LEMMA LeavingCommand ==
    ASSUME IInv, NEW kind \in CommandKinds, NEW t \in alive, NEW r, Command(kind, t),
           Like(r, tor[t]), SetTorrent(t, r),
           NEW op \in {"start", "stop", "verify", "remove"}, Leaves(op, t),
           UNCHANGED starts, Front = "direct", op = "remove" => r.deleting
    PROVE  IInv' /\ [Queue!Next]_VState
<1> USE DEF IInv
<1> DEFINE c == [op |-> op, tor |-> t]
<1>1. /\ UserInv' /\ closing' = closing /\ t \in Torrents
      /\ \A i \in DOMAIN work : work[i].op # "close"
      /\ \A i \in DOMAIN work : work[i].op = "remove" => work[i].tor # t
      /\ waiting # CloseSession /\ (waiting.op = "remove" => waiting.tor # t)
  BY CommandFacts
<1>2. Core' /\ VState' = VState /\ DeletingStays /\ UNCHANGED <<alive, waiting>>
  BY <1>1, SetTorrentStep
<1>3. tor'[t] = r
  BY <1>1 DEF SetTorrent, Core, CoreType
<1>4. c \in Closures /\ c.op = op /\ c.tor = t
  BY <1>1, ClosureFacts
<1>5. work' = Append(work, c)
  BY DEF Leaves
<1> HIDE DEF c
<1>6. ClosureInv(c)'
  BY <1>1, <1>2, <1>3, <1>4 DEF ClosureInv
<1>7. \A i \in DOMAIN work : Follows(work[i], c)
  BY <1>1, <1>4 DEF Follows
<1>8. WorkInv' /\ StartsInv'
  BY <1>1, <1>2, <1>4, <1>5, <1>6, <1>7, AppendWork, SameStarts DEF Core
<1> QED
  BY <1>1, <1>2, <1>8

\* RPC commands that take a verification back.
LEMMA TakingCommand ==
    ASSUME IInv, NEW op \in {"verify", "remove"}, NEW t \in alive, NEW r \in TorrentRecords,
           Command(op, t), Like(r, tor[t]), TakeBack(op, t, r), UNCHANGED <<work, starts>>,
           Front = "rpc", op = "remove" => r.deleting
    PROVE  IInv' /\ [Queue!Next]_VState
<1> USE DEF IInv
<1>0. op \in TakingBack /\ op \in CommandKinds
  BY DEF TakingBack, CommandKinds
<1>1. UserInv' /\ closing' = closing /\ t \in Torrents /\ waiting = Idle /\ starts = {}
  BY <1>0, CommandFacts
<1>2. /\ Core' /\ DeletingStays /\ [Queue!Next]_VState
      /\ \/ waiting' = [op |-> op, tor |-> t] /\ alive' = alive
         \/ waiting' = Idle /\ alive' = IF op = "remove" THEN alive \ {t} ELSE alive
      /\ r.deleting => tor'[t].deleting
  BY <1>0, <1>1, TakeBackStep
<1>3. waiting' # CloseSession /\ (waiting'.op = "remove" => tor'[waiting'.tor].deleting)
  BY <1>0, <1>1, <1>2, WaitsFacts DEF Idle
<1>4. work' \in Seq(Closures) /\ DOMAIN work' = DOMAIN work /\ \A i \in DOMAIN work : work'[i] = work[i]
  BY DEF WorkInv
<1>5. \A i \in DOMAIN work' : ClosureInv(work'[i]) /\ work'[i].op \notin Raw
  BY <1>4 DEF WorkInv, ClosureInv, Raw
<1>6. \A i, j \in DOMAIN work' : i < j => Follows(work'[i], work'[j])
  BY <1>4 DEF WorkInv
<1>7. WorkInv'
  BY <1>1, <1>2, <1>3, <1>4, <1>5, <1>6, WorkKept
<1>8. StartsInv'
  BY <1>1, NoStarts
<1> QED
  BY <1>1, <1>2, <1>7, <1>8

\* An RPC command that starts a torrent.
LEMMA StartingCommand ==
    ASSUME IInv, NEW kind \in CommandKinds, NEW t \in alive, NEW r \in TorrentRecords,
           NEW bypass \in BOOLEAN, Command(kind, t), Like(r, tor[t]), Start(t, r, bypass),
           UNCHANGED <<work, starts>>, Front = "rpc"
    PROVE  IInv' /\ [Queue!Next]_VState
<1> USE DEF IInv
<1>1. UserInv' /\ closing' = closing /\ waiting = Idle /\ starts = {}
  BY CommandFacts
<1>2. StepOf("restart", t)
  BY <1>1, StartStep
<1>3. DeletingStays /\ alive' = alive /\ waiting' # CloseSession /\ waiting'.op # "remove"
  BY <1>2 DEF StepOf, Idle, CloseSession
<1>4. WorkInv' /\ StartsInv'
  BY <1>1, <1>3, EventWork, NoStarts DEF Core
<1> QED
  BY <1>1, <1>2, <1>4 DEF StepOf

LEMMA StableLike ==
    ASSUME NEW tt \in [Torrents -> TorrentRecords], NEW t \in Torrents, NEW b \in BOOLEAN
    PROVE  /\ [tt EXCEPT ![t].stable = b] \in [Torrents -> TorrentRecords]
           /\ Like([tt EXCEPT ![t].stable = b][t], tt[t])
           /\ Like([tt[t] EXCEPT !.stable = b], tt[t])
  BY DEF Like, TorrentRecords

LEMMA UserInvariant ==
    ASSUME IInv, NEW t \in alive, User(t)
    PROVE  IInv' /\ [Queue!Next]_VState
<1> USE DEF IInv
<1>0. t \in Torrents /\ tor[t] \in TorrentRecords /\ tor \in [Torrents -> TorrentRecords]
  BY DEF Core, CoreType
<1>k. /\ \A bypass \in BOOLEAN : StartKind(bypass) \in CommandKinds
      /\ {"stop", "verify", "remove"} \subseteq CommandKinds
  BY DEF StartKind, CommandKinds
<1>l. Like(tor[t], tor[t])
  BY <1>0 DEF Like
<1>d. /\ [tor[t] EXCEPT !.deleting = TRUE] \in TorrentRecords
      /\ Like([tor[t] EXCEPT !.deleting = TRUE], tor[t])
      /\ [tor[t] EXCEPT !.deleting = TRUE].deleting
  BY <1>0 DEF Like, TorrentRecords
<1>1. ASSUME NEW bypass \in BOOLEAN, RpcStart(t, bypass), Front = "rpc"
      PROVE  IInv' /\ [Queue!Next]_VState
  <2> DEFINE r == [tor[t] EXCEPT !.stable = TRUE]
  <2>1. r \in TorrentRecords /\ Like(r, tor[t])
    BY <1>0, StableLike DEF Like
  <2>2. SetTorrent(t, tor[t]) \/ Start(t, r, bypass)
    BY <1>1 DEF RpcStart
  <2>3. Command(StartKind(bypass), t) /\ UNCHANGED <<work, starts>>
    BY <1>1 DEF RpcStart
  <2> HIDE DEF r
  <2> QED
    BY <2>1, <2>2, <2>3, <1>1, <1>k, <1>l, QuietCommand, StartingCommand
<1>2. CASE RpcStop(t)
  <2> DEFINE r == [tor[t] EXCEPT !.stopping = @ \/ Activity(tor[t]) # "stopped"]
  <2>1. Like(r, tor[t])
    <3>1. (tor[t].stopping \/ Activity(tor[t]) # "stopped") \in BOOLEAN
      OBVIOUS
    <3> QED
      BY <3>1, <1>0 DEF Like, TorrentRecords
  <2>2. Command("stop", t) /\ SetTorrent(t, r) /\ UNCHANGED <<work, starts>>
    BY <1>2 DEF RpcStop
  <2> HIDE DEF r
  <2> QED
    BY <2>1, <2>2, <1>k, QuietCommand
<1>3. CASE RpcVerify(t) /\ Front = "rpc"
  BY <1>3, <1>0, <1>l, TakingCommand DEF RpcVerify
<1>4. CASE RpcRemove(t) /\ Front = "rpc"
  BY <1>4, <1>0, <1>d, TakingCommand DEF RpcRemove
<1>5. ASSUME NEW bypass \in BOOLEAN, CallStart(t, bypass), Front = "direct"
      PROVE  IInv' /\ [Queue!Next]_VState
  <2> DEFINE q == [tor[t] EXCEPT !.stable = TRUE]
             r == [q EXCEPT !.running = TRUE]
             s == [q EXCEPT !.queued = @ \/ Queues(q, bypass)]
  <2>1. Like(q, tor[t]) /\ q \in TorrentRecords
    BY <1>0, StableLike DEF Like
  <2>2. Command(StartKind(bypass), t)
    BY <1>5 DEF CallStart
  <2>3. \/ SetTorrent(t, r) /\ Leaves("start", t) /\ UNCHANGED starts
        \/ SetTorrent(t, s) /\ UNCHANGED <<work, starts>>
    BY <1>5 DEF CallStart
  <2> HIDE DEF q
  <2>4. Like(r, q) /\ Like(s, q)
    <3>1. (q.queued \/ Queues(q, bypass)) \in BOOLEAN
      OBVIOUS
    <3> QED
      BY <3>1, <2>1 DEF Like, TorrentRecords
  <2> HIDE DEF r, s
  <2>5. Like(r, tor[t]) /\ Like(s, tor[t])
    BY <2>1, <2>4, LikeTransitive
  <2> QED
    BY <2>2, <2>3, <2>5, <1>5, <1>k, QuietCommand, LeavingCommand
<1>6. CASE CallStop(t) /\ Front = "direct"
  <2>1. Like([tor[t] EXCEPT !.stable = FALSE], tor[t])
    BY <1>0, StableLike
  <2> QED
    BY <2>1, <1>6, <1>k, LeavingCommand DEF CallStop
<1>7. CASE CallVerify(t) /\ Front = "direct"
  BY <1>7, <1>k, <1>l, LeavingCommand DEF CallVerify
<1>8. CASE CallRemove(t) /\ Front = "direct"
  BY <1>8, <1>d, <1>k, LeavingCommand DEF CallRemove
<1> QED
  BY <1>1, <1>2, <1>3, <1>4, <1>5, <1>6, <1>7, <1>8 DEF User

LEMMA CallCloseInv ==
    ASSUME IInv, CallClose
    PROVE  IInv' /\ [Queue!Next]_VState
<1> USE DEF IInv
<1>1. /\ ~closing /\ closing' = TRUE /\ work' = Append(work, CloseSession)
      /\ UNCHANGED <<workerVars, alive, tor, waiting, starts, commands>>
  BY DEF CallClose
<1>2. Core' /\ VState' = VState /\ DeletingStays
  BY <1>1, SameTor, QuietStep
<1>3. CloseSession \in Closures /\ CloseSession.op = "close" /\ "close" \notin Raw
  BY ClosureFacts DEF Raw
<1>4. waiting' # CloseSession
  BY <1>1 DEF WorkInv
<1>5. ClosureInv(CloseSession)'
  BY <1>1, <1>3, <1>4 DEF ClosureInv
<1>6. \A i \in DOMAIN work : Follows(work[i], CloseSession)
  BY <1>1, <1>3 DEF Follows, WorkInv, ClosureInv
<1>7. WorkInv'
  BY <1>1, <1>2, <1>3, <1>5, <1>6, AppendWork DEF Core
<1>8. UserInv' /\ StartsInv'
  BY <1>1, SameStarts DEF UserInv
<1> QED
  BY <1>2, <1>7, <1>8

LEMMA StutterInv ==
    ASSUME IInv, UNCHANGED vars
    PROVE  IInv' /\ [Queue!Next]_VState
<1> USE DEF IInv, vars, sessionVars
<1>1. Core' /\ VState' = VState /\ DeletingStays
  BY SameTor, QuietStep
<1>2. WorkInv' /\ UserInv' /\ StartsInv'
  BY <1>1, SameWork, SameUser, SameStarts DEF Core
<1> QED
  BY <1>1, <1>2

LEMMA StepInv ==
    ASSUME IInv, [Next]_vars
    PROVE  IInv' /\ [Queue!Next]_VState
<1>1. CASE SessionThread
  <2>1. CASE TakenBack
    BY <2>1, TakenBackInv
  <2>2. CASE RunWork
    BY <2>2, RunWorkInv
  <2>3. ASSUME NEW t \in alive, IdleWork(t) PROVE IInv' /\ [Queue!Next]_VState
    BY <2>3, IdleWorkInv
  <2>4. ASSUME NEW d \in Directions, OnQueueTimer(d) PROVE IInv' /\ [Queue!Next]_VState
    BY <2>4, OnQueueTimerInv
  <2>5. CASE StartNext
    BY <2>5, StartNextInv
  <2>6. CASE Closed
    BY <2>6, ClosedInv
  <2> QED
    BY <1>1, <2>1, <2>2, <2>3, <2>4, <2>5, <2>6 DEF SessionThread
<1>2. CASE Worker
  BY <1>2, WorkerInvariant
<1>3. CASE CallClose
  BY <1>3, CallCloseInv
<1>4. ASSUME NEW t \in alive, User(t) PROVE IInv' /\ [Queue!Next]_VState
  BY <1>4, UserInvariant
<1>5. ASSUME NEW t \in alive, NEW p \in Pieces, GotPiece(t, p) PROVE IInv' /\ [Queue!Next]_VState
  BY <1>5, GotPieceInv
<1>6. CASE UNCHANGED vars
  BY <1>6, StutterInv
<1> QED
  BY <1>1, <1>2, <1>3, <1>4, <1>5, <1>6 DEF Next

-----------------------------------------------------------------------------
(* With RPC commands only, and without the preference to verify what is    *)
(* newly complete, a torrent does not run while it is verified, so nobody  *)
(* else changes its blocks then.                                           *)

\* A torrent that takes part in its swarm is not verified and knows whether it is
\* complete, only such a torrent has cached blocks, and what was checked is true.
Settled(r) ==
    /\ r.joined => r.verify = "none"
    /\ r.joined => r.needsCheck \/ r.done = (r.has = Pieces)
    /\ r.cached # {} => r.joined
    /\ \A p \in r.checked : p \in r.has <=> p \in r.disk \cup r.cached

\* Moreover it is not about to stop.
Steady(r) == Settled(r) /\ (r.joined => r.running)

\* stop_now() may sleep between its two halves.
Stopping(t) == waiting.op \in {"stop", "remove"} /\ waiting.tor = t

\* The session that RpcInv is about.
ByRpc == Front = "rpc" /\ ~VerifyComplete

RpcInv ==
    /\ waiting.op # "restart"
    /\ \A t \in alive : Settled(tor[t]) /\ (~Stopping(t) => Steady(tor[t]))

\* What is written to disk is as true as before.
LEMMA CloseFilesSettled ==
    ASSUME NEW r \in TorrentRecords
    PROVE  /\ Settled(r) => Settled(CloseFiles(r))
           /\ CloseFiles(r).joined = r.joined /\ CloseFiles(r).running = r.running
           /\ CloseFiles(r).verify = r.verify /\ CloseFiles(r).cached = {}
           /\ CloseFiles(r).has = r.has /\ CloseFiles(r).done = r.done
           /\ CloseFiles(r).needsCheck = r.needsCheck
  BY DEF Settled, CloseFiles, TorrentRecords

\* recheck_completeness() leaves a torrent that knows whether it is complete.
LEMMA RecheckSettled ==
    ASSUME ~VerifyComplete, NEW r \in TorrentRecords
    PROVE  /\ Settled(r) => Settled(Recheck(r))
           /\ Recheck(r).joined = r.joined /\ Recheck(r).running = r.running
           /\ Recheck(r).verify = r.verify
           /\ Recheck(r).done = (Recheck(r).has = Pieces)
<1> DEFINE s == [r EXCEPT !.needsCheck = FALSE, !.done = r.has = Pieces /\ ~Unproven(r)]
<1>0. ~Unproven(r)
  BY DEF Unproven
<1>1. (r.has = Pieces /\ ~Unproven(r)) = (r.has = Pieces)
  BY <1>0
<1>2. /\ s \in TorrentRecords /\ s.joined = r.joined /\ s.running = r.running /\ s.verify = r.verify
      /\ s.has = r.has /\ s.done = (r.has = Pieces) /\ s.cached = r.cached /\ s.checked = r.checked
      /\ s.disk = r.disk
  BY <1>1 DEF TorrentRecords
<1>3. Recheck(r) \in {CloseFiles(s), s}
  BY DEF Recheck
<1> HIDE DEF s
<1>4. Settled(r) => Settled(s)
  BY <1>2 DEF Settled
<1> QED
  BY <1>2, <1>3, <1>4, CloseFilesSettled

\* Nothing is sent back to be verified: start_in_session_thread() only sets the torrent.
LEMMA NeverReverifies ==
    ASSUME ~VerifyComplete
    PROVE  /\ \A r : ~Reverifies(r)
           /\ \A t, r : StartInSessionThread(t, r) => SetTorrent(t, Begun(Recheck(r)))
  BY DEF Reverifies, Unproven, StartInSessionThread

\* start_in_session_thread() of a torrent that is not to be verified.
LEMMA BegunSteady ==
    ASSUME ~VerifyComplete, NEW r \in TorrentRecords, Settled(r), r.verify = "none"
    PROVE  Steady(Begun(Recheck(r)))
<1>1. Recheck(r) \in TorrentRecords
  BY RecheckLike DEF Like
<1>2. Settled(Recheck(r)) /\ Recheck(r).verify = "none" /\ Recheck(r).done = (Recheck(r).has = Pieces)
  BY RecheckSettled
<1> DEFINE s == Recheck(r)
           q == Begun(s)
<1> HIDE DEF s
<1>3. /\ q.verify = s.verify /\ q.done = s.done /\ q.has = s.has /\ q.cached = s.cached
      /\ q.checked = s.checked /\ q.disk = s.disk /\ q.running /\ q.joined
  BY <1>1 DEF Begun, TorrentRecords, s
<1> HIDE DEF q
<1>4. Steady(q)
  BY <1>2, <1>3 DEF Steady, Settled, s
<1> QED
  BY <1>4 DEF q, s

\* stop_now(): its first half, and its second.
LEMMA StopSettled ==
    ASSUME NEW r \in TorrentRecords, Settled(r)
    PROVE  /\ Settled(StopHead(r))
           /\ Steady(StopTail(r)) /\ ~StopTail(r).joined /\ StopTail(r).cached = {}
<1>1. Settled(StopHead(r))
  BY DEF Settled, StopHead, TorrentRecords
<1>2. CloseFiles(r) \in TorrentRecords /\ Settled(CloseFiles(r)) /\ CloseFiles(r).cached = {}
  BY CloseFilesLike, CloseFilesSettled DEF Like
<1> DEFINE s == CloseFiles(r)
           q == [s EXCEPT !.joined = FALSE, !.queued = FALSE]
<1>3. q = StopTail(r)
  BY DEF StopTail
<1>4. s \in TorrentRecords /\ Settled(s) /\ s.cached = {}
  BY <1>2
<1> HIDE DEF s
<1>5. Steady(q) /\ ~q.joined /\ q.cached = {}
  BY <1>4 DEF Steady, Settled, TorrentRecords
<1> HIDE DEF q
<1> QED
  BY <1>1, <1>3, <1>5

\* The second half of what takes back a verification.
LEMMA AfterSteady ==
    ASSUME NEW op \in TakingBack \ {"restart"}, NEW r \in TorrentRecords, Settled(r),
           op = "verify" => Steady(r)
    PROVE  Steady(After(op, r))
<1>1. CASE op # "verify"
  <2>1. After(op, r) = StopTail(r)
    BY <1>1 DEF After, TakingBack
  <2> QED
    BY <2>1, StopSettled
<1>2. CASE op = "verify"
  <2> DEFINE s == IF r.running THEN StopTail(StopHead(r)) ELSE r
  <2>1. s \in TorrentRecords /\ Steady(s) /\ ~s.joined
    <3>1. StopHead(r) \in TorrentRecords /\ Settled(StopHead(r))
      BY StopHeadLike, StopSettled DEF Like
    <3>2. StopTail(StopHead(r)) \in TorrentRecords
      BY <3>1, StopTailLike DEF Like
    <3>3. ~r.running => ~r.joined
      BY <1>2 DEF Steady
    <3> QED
      BY <1>2, <3>1, <3>2, <3>3, StopSettled
  <2> HIDE DEF s
  <2>2. Steady([s EXCEPT !.verify = "queued"])
    BY <2>1 DEF Steady, Settled, TorrentRecords
  <2>3. After(op, r) = [s EXCEPT !.verify = "queued"]
    BY <1>2 DEF After, Requeued, ToVerify, s
  <2> QED
    BY <2>2, <2>3
<1> QED
  BY <1>1, <1>2

\* A step that changes torrent t, and perhaps what the session thread waits for.
LEMMA OneSteady ==
    ASSUME Core, RpcInv, alive' \subseteq alive, NEW t, NEW r, tor' = [tor EXCEPT ![t] = r],
           \A u \in alive \ {t} : waiting' = waiting \/ ~Stopping(u),
           waiting'.op # "restart",
           t \in alive => Settled(r) /\ (~Stopping(t)' => Steady(r))
    PROVE  RpcInv'
<1> SUFFICES ASSUME NEW u \in alive' PROVE Settled(tor'[u]) /\ (~Stopping(u)' => Steady(tor'[u]))
  BY DEF RpcInv
<1>1. u \in alive /\ u \in DOMAIN tor
  BY DEF Core, CoreType
<1>2. CASE u = t
  BY <1>1, <1>2
<1>3. CASE u # t
  <2>1. tor'[u] = tor[u]
    BY <1>1, <1>3
  <2>2. ~Stopping(u)' => ~Stopping(u)
    BY <1>1, <1>3 DEF Stopping
  <2> QED
    BY <1>1, <2>1, <2>2 DEF RpcInv
<1> QED
  BY <1>2, <1>3

\* While the session thread does not sleep, nothing is half stopped.
LEMMA FreeSteady ==
    ASSUME RpcInv, waiting = Idle
    PROVE  \A t \in alive : ~Stopping(t) /\ Steady(tor[t])
  BY DEF RpcInv, Stopping, Idle

\* stop_now(), verify and remove in the session thread.
LEMMA TakeBackSteady ==
    ASSUME Core, RpcInv, waiting = Idle, NEW op \in TakingBack \ {"restart"}, NEW t \in alive,
           NEW r \in TorrentRecords, Steady(r), TakeBack(op, t, r)
    PROVE  RpcInv'
<1>1. /\ \A u \in alive \ {t} : ~Stopping(u)
      /\ Settled(r)
  BY FreeSteady DEF Steady
<1>2. CASE waiting' = [op |-> op, tor |-> t] /\ tor' = [tor EXCEPT ![t] = Before(op, r)] /\ UNCHANGED alive
  <2>1. Settled(Before(op, r)) /\ (op = "verify" => Steady(Before(op, r)))
    BY <1>1, StopSettled DEF Before
  <2>2. (op # "verify" => Stopping(t)') /\ waiting'.op # "restart"
    BY <1>2 DEF Stopping, TakingBack
  <2> QED
    BY <1>1, <1>2, <2>1, <2>2, OneSteady
<1>3. CASE /\ tor' = [tor EXCEPT ![t] = After(op, OffQueue(t, Before(op, r)))]
           /\ alive' = IF op = "remove" THEN alive \ {t} ELSE alive
           /\ UNCHANGED waiting
  <2> DEFINE b == Before(op, r)
             q == OffQueue(t, b)
  <2>1. b \in TorrentRecords /\ Settled(b) /\ (op = "verify" => Steady(b))
    BY <1>1, StopSettled, StopHeadLike DEF Before, Like
  <2> HIDE DEF b
  <2>2. q \in TorrentRecords /\ Settled(q) /\ (op = "verify" => Steady(q))
    BY <2>1 DEF OffQueue, Settled, Steady, TorrentRecords, VerifyStates
  <2> HIDE DEF q
  <2>3. Steady(After(op, q))
    BY <2>2, AfterSteady
  <2>4. tor' = [tor EXCEPT ![t] = After(op, q)] /\ alive' \subseteq alive /\ waiting'.op # "restart"
    BY <1>3 DEF b, q, RpcInv
  <2> QED
    BY <1>1, <2>3, <2>4, OneSteady DEF Steady
<1> QED
  BY <1>2, <1>3 DEF TakeBack

\* What an event of the session thread does to one torrent.
LEMMA SetSteady ==
    ASSUME Core, RpcInv, waiting = Idle, NEW t, NEW r, SetTorrent(t, r), t \in alive => Steady(r)
    PROVE  RpcInv'
<1>1. /\ tor' = [tor EXCEPT ![t] = r] /\ alive' = alive /\ \A u \in alive : ~Stopping(u)
      /\ waiting'.op # "restart"
  BY FreeSteady DEF SetTorrent, RpcInv
<1> QED
  BY <1>1, OneSteady DEF Steady

\* start() does not start a torrent that is to be verified.
LEMMA StartSteady ==
    ASSUME ~VerifyComplete, Core, RpcInv, waiting = Idle, NEW t \in alive,
           NEW r \in TorrentRecords, NEW bypass \in BOOLEAN, Steady(r), Start(t, r, bypass)
    PROVE  RpcInv'
<1> DEFINE q == [r EXCEPT !.running = TRUE]
           s == [r EXCEPT !.queued = @ \/ Queues(r, bypass)]
<1>1. Steady(s)
  BY DEF Steady, Settled, TorrentRecords
<1>2. q \in TorrentRecords /\ Settled(q) /\ q.verify = r.verify
  BY DEF Steady, Settled, TorrentRecords
<1>3. ASSUME Starts(r, bypass)
      PROVE  r.verify = "none"
  <2>1. Activity(r) \in {"stopped", "seed_wait", "download_wait"}
    BY <1>3 DEF Starts
  <2>2. r.verify \in {"none", "queued", "active"}
    BY DEF TorrentRecords, VerifyStates
  <2>3. r.verify = "active" => Activity(r) = "check"
    BY DEF Activity
  <2>4. r.verify = "queued" => Activity(r) = "check_wait"
    BY DEF Activity
  <2> QED
    BY <2>1, <2>2, <2>3, <2>4
<1>4. \/ Starts(r, bypass) /\ SetTorrent(t, Begun(Recheck(q)))
      \/ SetTorrent(t, s)
  BY NeverReverifies DEF Start
<1> HIDE DEF q, s
<1>5. Starts(r, bypass) => Steady(Begun(Recheck(q)))
  BY <1>2, <1>3, BegunSteady
<1> QED
  BY <1>1, <1>4, <1>5, SetSteady

\* The session thread keeps torrents steady.
LEMMA SessionThreadSteady ==
    ASSUME Front = "rpc", ~VerifyComplete, IInv, RpcInv, SessionThread
    PROVE  RpcInv'
<1>0. Core /\ tor \in [Torrents -> TorrentRecords] /\ alive \subseteq Torrents
  BY DEF IInv, Core, CoreType
<1>1. CASE TakenBack
  <2>1. PICK op \in TakingBack \ {"restart"}, t \in alive :
            /\ op = waiting.op /\ t = waiting.tor
            /\ tor' = [tor EXCEPT ![t] = After(op, tor[t])]
            /\ alive' \subseteq alive
            /\ waiting' = Idle
    BY <1>0, <1>1 DEF TakenBack, Core, WaitInv, TakingBack, RpcInv
  <2>2. \A u \in alive \ {t} : ~Stopping(u)
    BY <2>1 DEF Stopping
  <2>3. Settled(tor[t]) /\ (op = "verify" => Steady(tor[t])) /\ tor[t] \in TorrentRecords
    BY <1>0, <2>1 DEF RpcInv, Stopping
  <2>4. Steady(After(op, tor[t]))
    BY <2>3, AfterSteady
  <2> QED
    BY <1>0, <2>1, <2>2, <2>4, OneSteady DEF Steady, Idle
<1>2. CASE RunWork
  <2> DEFINE t == Head(work).tor
  <2>1. waiting = Idle /\ ClosureInv(Head(work)) /\ Head(work) \in Closures
    BY <1>2, TailWork DEF RunWork, Free, IInv
  <2>2. Head(work).op \in {"verified", "close"}
    BY <2>1 DEF ClosureInv
  <2>3. CASE Verified(t)
    <3>1. CASE t \in alive
      <4> DEFINE r == Recheck(tor[t])
      <4>1. Steady(tor[t]) /\ tor[t] \in TorrentRecords
        BY <1>0, <2>1, <3>1, FreeSteady
      <4>2. Steady(r) /\ r \in TorrentRecords
        BY <4>1, RecheckSettled, RecheckLike DEF Steady, Like
      <4>3. SetTorrent(t, tor[t]) \/ Start(t, r, FALSE) \/ SetTorrent(t, r)
        BY <2>3, NeverReverifies DEF Verified
      <4> HIDE DEF r
      <4> QED
        BY <1>0, <2>1, <3>1, <4>1, <4>2, <4>3, SetSteady, StartSteady
    <3>2. CASE t \notin alive
      BY <1>0, <2>1, <2>3, <3>2, SetSteady DEF Verified
    <3> QED
      BY <3>1, <3>2
  <2>4. CASE Close
    BY <2>1, <2>4, FreeSteady DEF Close, RpcInv, Steady, CloseSession
  <2> QED
    BY <1>2, <2>2, <2>3, <2>4 DEF RunWork
<1>3. ASSUME NEW t \in alive, IdleWork(t)
      PROVE  RpcInv'
  <2> DEFINE r == IF tor[t].needsCheck THEN Recheck(tor[t]) ELSE tor[t]
             q == [r EXCEPT !.stable = FALSE]
  <2>1. waiting = Idle /\ Steady(tor[t]) /\ tor[t] \in TorrentRecords
    BY <1>0, <1>3, FreeSteady DEF IdleWork, Free
  <2>2. r \in TorrentRecords /\ Steady(r)
    BY <2>1, RecheckSettled, RecheckLike DEF Steady, Like
  <2>3. TakeBack("stop", t, q) \/ SetTorrent(t, r)
    BY <1>3, NeverReverifies DEF IdleWork
  <2> HIDE DEF r
  <2>4. q \in TorrentRecords /\ Steady(q) /\ "stop" \in TakingBack \ {"restart"}
    BY <2>2 DEF Steady, Settled, TorrentRecords, TakingBack
  <2> HIDE DEF q
  <2> QED
    BY <1>0, <2>1, <2>2, <2>3, <2>4, TakeBackSteady, SetSteady
<1>4. ASSUME NEW d \in Directions, OnQueueTimer(d)
      PROVE  RpcInv'
  BY <1>4 DEF OnQueueTimer, RpcInv, Stopping
<1>6. CASE StartNext
  <2>1. PICK t \in alive : Start(t, [tor[t] EXCEPT !.stable = TRUE], TRUE)
    BY <1>6 DEF StartNext, IInv, StartsInv
  <2> DEFINE r == [tor[t] EXCEPT !.stable = TRUE]
  <2>2. waiting = Idle /\ tor[t] \in TorrentRecords /\ Steady(tor[t])
    BY <1>0, <1>6, FreeSteady DEF StartNext
  <2>3. r \in TorrentRecords /\ Steady(r)
    BY <2>2 DEF Steady, Settled, TorrentRecords
  <2>4. Start(t, r, TRUE)
    BY <2>1
  <2> HIDE DEF r
  <2> QED
    BY <1>0, <2>2, <2>3, <2>4, StartSteady
<1>5. CASE Closed
  BY <1>5 DEF Closed, RpcInv, Idle
<1> QED
  BY <1>1, <1>2, <1>3, <1>4, <1>5, <1>6 DEF SessionThread

\* The worker's thread changes the blocks of a torrent whose cached blocks are written.
LEMMA WorkerSteady ==
    ASSUME Core, RpcInv, Worker
    PROVE  RpcInv'
<1>1. CASE WorkerNext \/ WorkerLeaveLoop
  BY <1>1 DEF WorkerNext, WorkerLeaveLoop, sessionVars, RpcInv, Stopping
<1>2. ASSUME NEW r, tor' = [tor EXCEPT ![current] = r], alive' = alive, waiting' = waiting,
             current \in alive => Settled(r) /\ (r.joined = tor[current].joined) /\ (r.running = tor[current].running)
      PROVE  RpcInv'
  <2>1. PICK t : t = current
    OBVIOUS
  <2>2. t \in alive => Settled(r) /\ (~Stopping(t)' => Steady(r))
    BY <1>2, <2>1 DEF RpcInv, Steady, Stopping
  <2> QED
    BY <1>2, <2>1, <2>2, OneSteady DEF RpcInv
<1>3. current \in alive => tor[current] \in TorrentRecords /\ Settled(tor[current])
  BY DEF Core, CoreType, RpcInv
<1>4. CASE OnVerifyStarted
  <2> DEFINE r == [tor[current] EXCEPT !.verify = "active"]
  <2>1. tor' = [tor EXCEPT ![current] = r] /\ alive' = alive /\ waiting' = waiting
    BY <1>4 DEF OnVerifyStarted
  <2>2. current \in alive => tor[current].verify = "queued"
    BY <1>4 DEF OnVerifyStarted, StartNode, Core, StateMatchesWorker
  <2>3. current \in alive => Settled(r) /\ (r.joined = tor[current].joined) /\ (r.running = tor[current].running)
    BY <1>3, <2>2 DEF Settled, TorrentRecords
  <2> HIDE DEF r
  <2> QED
    BY <1>2, <2>1, <2>3
<1>5. CASE OnPieceChecked
  <2> DEFINE r == PieceChecked(tor[current], piece)
  <2>1. tor' = [tor EXCEPT ![current] = r] /\ alive' = alive /\ waiting' = waiting
    BY <1>5 DEF OnPieceChecked
  <2>2. current \in alive => ~tor[current].joined /\ tor[current].cached = {}
    <3>1. current \in alive => tor[current].verify = "active"
      BY <1>5 DEF OnPieceChecked, NextPiece, Core, StateMatchesWorker
    <3> QED
      BY <1>3, <3>1 DEF Settled
  <2>3. current \in alive => Settled(r) /\ (r.joined = tor[current].joined) /\ (r.running = tor[current].running)
    BY <1>3, <2>2 DEF PieceChecked, Settled, TorrentRecords
  <2> HIDE DEF r
  <2> QED
    BY <1>2, <2>1, <2>3
<1>6. CASE OnVerifyDone
  <2> DEFINE r == [tor[current] EXCEPT !.verify = "none"]
  <2>1. tor' = [tor EXCEPT ![current] = r] /\ alive' = alive /\ waiting' = waiting
    BY <1>6 DEF OnVerifyDone
  <2>2. current \in alive => Settled(r) /\ (r.joined = tor[current].joined) /\ (r.running = tor[current].running)
    BY <1>3 DEF Settled, TorrentRecords
  <2> HIDE DEF r
  <2> QED
    BY <1>2, <2>1, <2>2
<1> QED
  BY <1>1, <1>4, <1>5, <1>6 DEF Worker

\* So does every RPC command, which waits for nothing but the session thread.
LEMMA UserSteady ==
    ASSUME Front = "rpc", ~VerifyComplete, Core, RpcInv, NEW t \in alive, User(t)
    PROVE  RpcInv'
<1>1. tor \in [Torrents -> TorrentRecords] /\ t \in Torrents
  BY DEF Core, CoreType
<1>2. tor[t] \in TorrentRecords /\ (waiting = Idle => Steady(tor[t]))
  BY <1>1, FreeSteady
<1>3. ASSUME NEW bypass \in BOOLEAN, RpcStart(t, bypass)
      PROVE  RpcInv'
  <2> DEFINE r == [tor[t] EXCEPT !.stable = TRUE]
  <2>1. waiting = Idle /\ (SetTorrent(t, tor[t]) \/ Start(t, r, bypass))
    BY <1>3 DEF RpcStart, Command, Free
  <2>2. r \in TorrentRecords /\ Steady(r)
    BY <1>2, <2>1 DEF Steady, Settled, TorrentRecords
  <2> HIDE DEF r
  <2> QED
    BY <1>2, <1>3, <2>1, <2>2, SetSteady, StartSteady
<1>4. CASE RpcStop(t)
  <2> DEFINE r == [tor[t] EXCEPT !.stopping = @ \/ Activity(tor[t]) # "stopped"]
  <2>1. waiting = Idle /\ SetTorrent(t, r)
    BY <1>4 DEF RpcStop, Command, Free
  <2>2. Steady(r)
    BY <1>2, <2>1 DEF Steady, Settled, TorrentRecords
  <2> HIDE DEF r
  <2> QED
    BY <2>1, <2>2, SetSteady
<1>5. CASE RpcVerify(t)
  BY <1>2, <1>5, TakeBackSteady DEF RpcVerify, Command, Free, TakingBack
<1>6. CASE RpcRemove(t)
  <2> DEFINE r == [tor[t] EXCEPT !.deleting = TRUE]
  <2>1. waiting = Idle /\ TakeBack("remove", t, r) /\ "remove" \in TakingBack \ {"restart"}
    BY <1>6 DEF RpcRemove, Command, Free, TakingBack
  <2>2. Steady(r) /\ r \in TorrentRecords
    BY <1>2, <2>1 DEF Steady, Settled, TorrentRecords
  <2> HIDE DEF r
  <2> QED
    BY <2>1, <2>2, TakeBackSteady
<1> QED
  BY <1>3, <1>4, <1>5, <1>6 DEF User

\* Every step of such a session keeps torrents steady.
LEMMA StepSteady == ByRpc /\ IInv /\ RpcInv /\ [Next]_vars => RpcInv'
<1> SUFFICES ASSUME Front = "rpc", ~VerifyComplete, IInv, RpcInv, [Next]_vars PROVE RpcInv'
  BY DEF ByRpc
<1>1. Core
  BY DEF IInv
<1>2. CASE UNCHANGED vars
  BY <1>2 DEF vars, sessionVars, RpcInv, Stopping
<1>3. CASE CallClose
  BY <1>3 DEF CallClose, RpcInv, Stopping
<1>4. ASSUME NEW t \in alive, NEW p \in Pieces, GotPiece(t, p)
      PROVE  RpcInv'
  <2> DEFINE r == [tor[t] EXCEPT !.has = @ \cup {p}, !.cached = @ \cup {p}, !.needsCheck = TRUE]
  <2>1. waiting = Idle /\ tor[t].joined /\ SetTorrent(t, r)
    BY <1>4 DEF GotPiece, Free
  <2>2. tor[t] \in TorrentRecords /\ Steady(tor[t])
    BY <1>1, <2>1, FreeSteady DEF Core, CoreType
  <2>3. Steady(r)
    BY <2>1, <2>2 DEF Steady, Settled, TorrentRecords
  <2> HIDE DEF r
  <2> QED
    BY <1>1, <2>1, <2>3, SetSteady
<1> QED
  BY <1>1, <1>2, <1>3, <1>4, SessionThreadSteady, WorkerSteady, UserSteady DEF Next

LEMMA InitSteady == Init => RpcInv
  BY DEF Init, LoadedRecords, RpcInv, Settled, Steady, Idle

-----------------------------------------------------------------------------
(* The theorems.                                                           *)

\* The session thread, the worker thread, the torrents and the queued closures
\* agree in every reachable state, for any number of torrents and commands.
THEOREM Invariance == Spec => []IInv
<1>1. Init => IInv
  BY InitInv
<1>2. IInv /\ [Next]_vars => IInv'
  BY StepInv
<1> QED
  BY <1>1, <1>2, PTL DEF Spec

\* Every variable keeps its type, whatever the two threads do.
THEOREM TypeCorrect == Spec => []TypeOK
<1>1. IInv => TypeOK
  BY DEF IInv, Core, CoreType, WorkInv, UserInv, StartsInv, TypeOK
<1> QED
  BY <1>1, Invariance, PTL

\* verify_state_ tells where the worker has a torrent: in todo_, picked up, or
\* being verified (torrent.cc:1625, verify.cc:160-190).
THEOREM StatesMatch == Spec => []StateMatchesWorker
<1>1. IInv => StateMatchesWorker
  BY DEF IInv, Core
<1> QED
  BY <1>1, Invariance, PTL

\* Neither the worker nor a queued start or stop touches a freed torrent: the
\* raw pointers in verify.h:97 and torrent.cc:626 are good when they are used.
THEOREM NothingFreedUsed == Spec => []NoFreedTorrentUsed
<1>1. IInv => NoFreedTorrentUsed
  BY DEF IInv, Core, ThreadInv, WorkInv, ClosureInv, Raw, StartsInv, NoFreedTorrentUsed
<1> QED
  BY <1>1, Invariance, PTL

\* With RPC commands only, and with the preference to verify complete torrents
\* off, each torrent is settled.
THEOREM RpcInvariance == Front = "rpc" /\ ~VerifyComplete => (Spec => []RpcInv)
<1> SUFFICES ASSUME Front = "rpc" /\ ~VerifyComplete PROVE Spec => []RpcInv
  OBVIOUS
<1>1. IInv /\ RpcInv /\ [Next]_vars => RpcInv'
  BY StepSteady DEF ByRpc
<1> QED
  BY <1>1, InitSteady, Invariance, PTL DEF Spec

\* No torrent runs while it waits to be verified or is verified (torrent.cc:597,
\* :1545), if commands come by RPC and no start is met by a verification of what
\* is newly complete (torrent.cc:1786).
THEOREM StartsAfterVerify == Front = "rpc" /\ ~VerifyComplete => (Spec => []StartWaitsForVerify)
<1> SUFFICES ASSUME Front = "rpc" /\ ~VerifyComplete PROVE Spec => []StartWaitsForVerify
  OBVIOUS
<1>1. RpcInv => StartWaitsForVerify
  BY DEF RpcInv, Settled, StartWaitsForVerify
<1> QED
  BY <1>1, RpcInvariance, PTL

\* A checked piece is had exactly if its bytes are good, on disk or in the
\* cache, under the same conditions.
THEOREM CheckedIsTrue == Front = "rpc" /\ ~VerifyComplete => (Spec => []CheckedTrue)
<1> SUFFICES ASSUME Front = "rpc" /\ ~VerifyComplete PROVE Spec => []CheckedTrue
  OBVIOUS
<1>1. RpcInv => CheckedTrue
  BY DEF RpcInv, Settled, CheckedTrue
<1> QED
  BY <1>1, RpcInvariance, PTL

\* A torrent in its swarm knows whether it is complete, or is about to look,
\* under the same conditions.
THEOREM CompletenessKnown == Front = "rpc" /\ ~VerifyComplete => (Spec => []RunningKnowsCompleteness)
<1> SUFFICES ASSUME Front = "rpc" /\ ~VerifyComplete PROVE Spec => []RunningKnowsCompleteness
  OBVIOUS
<1>1. RpcInv => RunningKnowsCompleteness
  BY DEF RpcInv, Settled, RunningKnowsCompleteness
<1> QED
  BY <1>1, RpcInvariance, PTL

\* The verification of local data implements its abstract queue: one torrent
\* at a time, each queued before it is verified.
THEOREM VerifyRefines == Spec => VerifyPromise
<1>1. Init => Queue!Init
  BY InitInv
<1>2. IInv /\ [Next]_vars => [Queue!Next]_VState
  BY StepInv
<1> QED
  BY <1>1, <1>2, Invariance, PTL DEF Spec, VerifyPromise, Queue!Spec, VState
=============================================================================
