---------------------------- MODULE Session_proof ----------------------------
(***************************************************************************)
(* What module Session promises for any tasks and any address queries:     *)
(* types, that every fetched task is in one place, that addresses are      *)
(* updated exactly while their query is under way, and that a close leaves *)
(* nothing behind, as the two threads end in the order it relies on.       *)
(***************************************************************************)
EXTENDS Session, TLAPS, FiniteSetTheorems

-----------------------------------------------------------------------------
(* Counting.                                                               *)

\* A task counts once in a set that has it.
LEMMA CountInSet ==
    ASSUME NEW t, NEW S
    PROVE  Cardinality({q \in {1} : t \in S}) = IF t \in S THEN 1 ELSE 0
<1>1. CASE t \in S
  <2>1. {q \in {1} : t \in S} = {1}
    BY <1>1
  <2> QED
    BY <1>1, <2>1, FS_Singleton
<1>2. CASE t \notin S
  <2>1. {q \in {1} : t \in S} = {}
    BY <1>2
  <2> QED
    BY <1>2, <2>1, FS_EmptySet
<1> QED
  BY <1>1, <1>2

\* The places of a task in a queue are a finite set.
LEMMA WaitsType ==
    ASSUME NEW t, NEW C, NEW s \in Seq(C)
    PROVE  IsFiniteSet({i \in DOMAIN s : s[i] = t}) /\ Waits(t, s) \in Nat
<1>1. {i \in DOMAIN s : s[i] = t} \in SUBSET (1 .. Len(s)) /\ Len(s) \in Nat
  OBVIOUS
<1>2. IsFiniteSet({i \in DOMAIN s : s[i] = t})
  BY <1>1, FS_Interval, FS_Subset, SMT
<1> QED
  BY <1>2, FS_CardinalityType DEF Waits

\* No task waits in an empty queue.
LEMMA WaitsEmpty ==
    ASSUME NEW t
    PROVE  Waits(t, << >>) = 0
<1>1. {i \in DOMAIN << >> : << >>[i] = t} = {}
  OBVIOUS
<1> QED
  BY <1>1, FS_EmptySet DEF Waits

\* A closure that is queued counts once more.
LEMMA WaitsAppend ==
    ASSUME NEW t, NEW C, NEW s \in Seq(C), NEW x \in C
    PROVE  Waits(t, Append(s, x)) = Waits(t, s) + (IF x = t THEN 1 ELSE 0)
<1> DEFINE at == {i \in DOMAIN s : s[i] = t}
           new == {i \in DOMAIN Append(s, x) : Append(s, x)[i] = t}
<1>1. IsFiniteSet(at) /\ Cardinality(at) \in Nat
  BY WaitsType DEF Waits
<1>2. CASE x = t
  <2>1. new = at \cup {Len(s) + 1} /\ Len(s) + 1 \notin at
    BY <1>2
  <2> HIDE DEF at, new
  <2>2. Cardinality(new) = Cardinality(at) + 1
    BY <1>1, <2>1, FS_AddElement
  <2> QED
    BY <1>2, <2>2 DEF Waits, at, new
<1>3. CASE x # t
  <2>1. new = at
    BY <1>3
  <2>2. Waits(t, Append(s, x)) = Waits(t, s)
    BY <2>1 DEF Waits
  <2>3. Waits(t, s) \in Nat
    BY WaitsType
  <2> HIDE DEF at, new
  <2> QED
    BY <1>3, <2>2, <2>3
<1> QED
  BY <1>2, <1>3

\* A closure that is taken counts once less.
LEMMA WaitsTail ==
    ASSUME NEW t, NEW C, NEW s \in Seq(C), s # << >>
    PROVE  Waits(t, s) = Waits(t, Tail(s)) + (IF Head(s) = t THEN 1 ELSE 0)
<1> DEFINE at == {i \in DOMAIN s : s[i] = t}
           rest == {i \in DOMAIN Tail(s) : Tail(s)[i] = t}
           shift == [i \in rest |-> i + 1]
<1>1. IsFiniteSet(at) /\ Cardinality(at) \in Nat
  BY WaitsType DEF Waits
<1>2. Tail(s) \in Seq(C) /\ Len(s) \in Nat \ {0}
  OBVIOUS
<1>3. IsFiniteSet(rest) /\ Cardinality(rest) \in Nat
  BY <1>2, WaitsType DEF Waits
<1>4. shift \in Bijection(rest, at \ {1})
  <2>1. shift \in [rest -> at \ {1}]
    OBVIOUS
  <2>2. \A i, j \in rest : shift[i] = shift[j] => i = j
    OBVIOUS
  <2>3. \A j \in at \ {1} : \E i \in rest : shift[i] = j
    <3> SUFFICES ASSUME NEW j \in at \ {1} PROVE j - 1 \in rest /\ shift[j - 1] = j
      OBVIOUS
    <3> QED
      BY <1>2
  <2> HIDE DEF at, rest, shift
  <2> QED
    BY <2>1, <2>2, <2>3 DEF Bijection, Injection, Surjection, IsInjective
<1>5. Cardinality(at \ {1}) = Cardinality(rest)
  <2> HIDE DEF at, rest, shift
  <2>1. ExistsBijection(rest, at \ {1})
    BY <1>4 DEF ExistsBijection
  <2> QED
    BY <1>3, <2>1, FS_Bijection
<1>6. 1 \in at <=> Head(s) = t
  BY <1>2
<1>7. Cardinality(at) = Cardinality(rest) + (IF Head(s) = t THEN 1 ELSE 0)
  <2> HIDE DEF at, rest
  <2>1. Cardinality(at \ {1}) = IF 1 \in at THEN Cardinality(at) - 1 ELSE Cardinality(at)
    BY <1>1, FS_RemoveElement
  <2> QED
    BY <1>1, <1>3, <1>5, <1>6, <2>1
<1> QED
  BY <1>7 DEF Waits

-----------------------------------------------------------------------------
(* The inductive invariant.                                                *)

\* Whether x is in S, as a number.
Once(t, S) == IF t \in S THEN 1 ELSE 0

\* The deadline comes with the close, and the address cache is told of it last.
CloseInv ==
    /\ closing = "no" => ~DeadlineExists
    /\ closing = "closed" /\ ~outOfTime => \A p \in Protocols : updating[p] # "yes"

\* The threads end one after the other: the curl thread has nothing left when it
\* ends, then the session thread's second loop begins, which has nothing left when
\* it ends in time, and only then the session is gone.
EndInv ==
    /\ curl = "ended" => queued = {} /\ running = {} /\ DeadlineExists
    /\ caller \in {"stopping", "gone"} => curl = "ended"
    /\ loop # "first" => caller \in {"stopping", "gone"}
    /\ loop = "ended" => batch = << >> /\ (~hurried => work = << >>)
    /\ caller = "gone" => loop = "ended"

IInv == TypeOK /\ OnePlace /\ UpdatingIsUnderWay /\ CloseInv /\ EndInv

\* The places of a task, as numbers...
LEMMA PlacesOf ==
    ASSUME NEW t
    PROVE  Places(t) = Once(t, queued) + Once(t, running) + Waits(t, work) + Waits(t, batch)
  BY CountInSet DEF Places, Once

\* The invariant holds at first: nothing is anywhere.
LEMMA InitOK == Init => IInv
<1> SUFFICES ASSUME Init PROVE IInv
  OBVIOUS
<1> USE DEF Init, WebInit
<1>1. TypeOK
  <2>1. WebTypeOK
    BY DEF WebTypeOK, CurlStates, Deadlines
  <2>2. work \in Seq(Closures) /\ batch \in Seq(Closures)
    OBVIOUS
  <2>3. updating \in [Protocols -> {"no", "yes", "abort"}]
    OBVIOUS
  <2> QED
    BY <2>1, <2>2, <2>3 DEF TypeOK, CallerStates
<1>2. OnePlace
  <2> SUFFICES ASSUME NEW t \in Tasks PROVE Places(t) = 0
    BY DEF OnePlace
  <2> QED
    BY PlacesOf, WaitsEmpty DEF Once
<1>3. UpdatingIsUnderWay /\ CloseInv /\ EndInv
  BY DEF UpdatingIsUnderWay, CloseInv, EndInv, DeadlineExists
<1> QED
  BY <1>1, <1>2, <1>3 DEF IInv

-----------------------------------------------------------------------------
(* What a step does to the places of the tasks.                            *)

\* ...and after a step.
LEMMA PlacesAfter ==
    ASSUME NEW t
    PROVE  Places(t)' = Once(t, queued') + Once(t, running') + Waits(t, work') + Waits(t, batch')
  BY CountInSet DEF Places, Once

\* One place, by its parts.
LEMMA PlaceKept ==
    ASSUME TypeOK, OnePlace,
           \A t \in Tasks :
               /\ Once(t, queued') + Once(t, running') + Waits(t, work') + Waits(t, batch')
                  = IF t \in asked' THEN 1 ELSE 0
    PROVE  OnePlace'
  BY PlacesAfter DEF OnePlace

\* Where the tasks are before a step.
LEMMA Before ==
    ASSUME TypeOK, OnePlace, NEW t \in Tasks
    PROVE  /\ Waits(t, work) \in Nat
           /\ Waits(t, batch) \in Nat
           /\ Once(t, queued) + Once(t, running) + Waits(t, work) + Waits(t, batch)
              = Once(t, asked)
<1>1. work \in Seq(Closures) /\ batch \in Seq(Closures)
  BY DEF TypeOK
<1> QED
  BY <1>1, WaitsType, PlacesOf DEF OnePlace, Once

\* No step of theirs moves a task.
LEMMA NothingMoves ==
    ASSUME TypeOK, OnePlace, UNCHANGED <<queued, running, work, batch, asked>>
    PROVE  OnePlace'
  BY Before, PlaceKept DEF Once

\* A fetched task is queued, if there is no deadline, and was nowhere before.
LEMMA FetchMoves ==
    ASSUME TypeOK, OnePlace, NEW ts \in SUBSET (Tasks \ asked), FetchNew(ts),
           UNCHANGED <<running, work>>, \A t \in Tasks : Waits(t, batch') = Waits(t, batch)
    PROVE  OnePlace'
<1> SUFFICES ASSUME NEW t \in Tasks
             PROVE  Once(t, queued') + Once(t, running') + Waits(t, work') + Waits(t, batch')
                    = IF t \in asked' THEN 1 ELSE 0
  BY PlaceKept
<1>1. /\ Waits(t, work) \in Nat
      /\ Waits(t, batch) \in Nat
      /\ Once(t, queued) + Once(t, running) + Waits(t, work) + Waits(t, batch) = Once(t, asked)
  BY Before
<1>2. running' = running /\ Waits(t, work') = Waits(t, work) /\ Waits(t, batch') = Waits(t, batch)
  OBVIOUS
<1>3. CASE DeadlineExists
  BY <1>1, <1>2, <1>3 DEF FetchNew, Fetch, Once
<1>4. CASE ~DeadlineExists
  BY <1>1, <1>2, <1>4 DEF FetchNew, Fetch, Once
<1> QED
  BY <1>3, <1>4

\* A task that ends leaves the running ones, and its callback is queued.
LEMMA RemoveTaskMoves ==
    ASSUME TypeOK, OnePlace, NEW u \in Tasks, RemoveTask(u), UNCHANGED <<queued, batch, asked>>
    PROVE  OnePlace'
<1> SUFFICES ASSUME NEW t \in Tasks
             PROVE  Once(t, queued') + Once(t, running') + Waits(t, work') + Waits(t, batch')
                    = IF t \in asked' THEN 1 ELSE 0
  BY PlaceKept
<1>1. /\ Waits(t, work) \in Nat
      /\ Waits(t, batch) \in Nat
      /\ Once(t, queued) + Once(t, running) + Waits(t, work) + Waits(t, batch) = Once(t, asked)
  BY Before
<1>2. Waits(t, work') = Waits(t, work) + (IF u = t THEN 1 ELSE 0)
  BY WaitsAppend DEF TypeOK, RemoveTask, Closures
<1>3. Waits(t, batch') = Waits(t, batch)
  OBVIOUS
<1>4. queued' = queued /\ asked' = asked
  OBVIOUS
<1>5. Once(t, running') = Once(t, running) - (IF u = t THEN 1 ELSE 0)
  BY DEF RemoveTask, Once
<1>6. Once(t, running) \in Nat /\ Once(t, queued) \in Nat
  BY DEF Once
<1> QED
  <2>1. CASE u = t
    BY <1>1, <1>2, <1>3, <1>4, <1>5, <1>6, <2>1 DEF Once
  <2>2. CASE u # t
    BY <1>1, <1>2, <1>3, <1>4, <1>5, <1>6, <2>2 DEF Once
  <2> QED
    BY <2>1, <2>2

\* The queued tasks become running ones.
LEMMA SpliceMoves ==
    ASSUME TypeOK, OnePlace, Splice, UNCHANGED <<batch, asked>>
    PROVE  OnePlace'
<1> SUFFICES ASSUME NEW t \in Tasks
             PROVE  Once(t, queued') + Once(t, running') + Waits(t, work') + Waits(t, batch')
                    = IF t \in asked' THEN 1 ELSE 0
  BY PlaceKept
<1>1. /\ Waits(t, work) \in Nat
      /\ Waits(t, batch) \in Nat
      /\ Once(t, queued) + Once(t, running) + Waits(t, work) + Waits(t, batch) = Once(t, asked)
  BY Before
<1>2. Waits(t, work') = Waits(t, work) /\ Waits(t, batch') = Waits(t, batch)
  BY DEF Splice
<1> QED
  BY <1>1, <1>2 DEF Splice, Once

-----------------------------------------------------------------------------
(* Every step keeps the invariant.                                         *)

\* on_work_available() takes the queue as it is.
LEMMA StealWorkOK == IInv /\ StealWork => IInv'
<1> SUFFICES ASSUME IInv, StealWork PROVE IInv'
  OBVIOUS
<1> USE DEF IInv
<1>1. TypeOK'
  BY DEF TypeOK, WebTypeOK, StealWork, webVars
<1>2. OnePlace'
  <2> SUFFICES ASSUME NEW t \in Tasks
               PROVE  Once(t, queued') + Once(t, running') + Waits(t, work') + Waits(t, batch')
                      = IF t \in asked' THEN 1 ELSE 0
    BY PlaceKept
  <2>1. /\ Waits(t, work) \in Nat
        /\ Waits(t, batch) \in Nat
        /\ Once(t, queued) + Once(t, running) + Waits(t, work) + Waits(t, batch) = Once(t, asked)
    BY Before
  <2>2. Waits(t, batch') = Waits(t, work) /\ Waits(t, work') = 0 /\ Waits(t, batch) = 0
    BY WaitsEmpty DEF StealWork, InLoop
  <2>3. queued' = queued /\ running' = running /\ asked' = asked
    BY DEF StealWork, webVars
  <2> QED
    BY <2>1, <2>2, <2>3 DEF Once
<1>3. UpdatingIsUnderWay' /\ CloseInv'
  BY DEF StealWork, webVars, UpdatingIsUnderWay, CloseInv, DeadlineExists
<1>4. EndInv'
  BY DEF StealWork, InLoop, webVars, EndInv, DeadlineExists
<1> QED
  BY <1>1, <1>2, <1>3, <1>4

\* A task is fetched.
LEMMA FetchTaskOK == ASSUME NEW u \in Tasks PROVE IInv /\ FetchTask(u) => IInv'
<1> SUFFICES ASSUME IInv, FetchTask(u) PROVE IInv'
  OBVIOUS
<1> USE DEF IInv
<1>1. TypeOK'
  BY DEF TypeOK, WebTypeOK, FetchTask, FetchNew, Fetch, sessionVars
<1>2. OnePlace'
  <2>1. {u} \in SUBSET (Tasks \ asked) /\ FetchNew({u})
    BY DEF FetchTask
  <2> QED
    BY <2>1, FetchMoves DEF FetchTask, sessionVars
<1>3. UpdatingIsUnderWay'
  BY DEF FetchTask, FetchNew, sessionVars, UpdatingIsUnderWay
<1>4. CloseInv' /\ EndInv'
  BY DEF FetchTask, FetchNew, Fetch, sessionVars, CloseInv, EndInv, DeadlineExists
<1> QED
  BY <1>1, <1>2, <1>3, <1>4

\* An address is updated: there is no deadline yet, so that its query is queued.
LEMMA UpdateAddrOK == ASSUME NEW p \in Protocols PROVE IInv /\ UpdateAddr(p) => IInv'
<1> SUFFICES ASSUME IInv, UpdateAddr(p) PROVE IInv'
  OBVIOUS
<1> USE DEF IInv
<1>1. p \in Tasks \ asked /\ ~DeadlineExists
  BY SessionAssumption DEF UpdateAddr, UpdatingIsUnderWay, CloseInv
<1>2. TypeOK'
  BY <1>1 DEF TypeOK, WebTypeOK, UpdateAddr, FetchNew, Fetch
<1>3. OnePlace'
  <2>1. {p} \in SUBSET (Tasks \ asked) /\ FetchNew({p})
    BY <1>1 DEF UpdateAddr
  <2> QED
    BY <2>1, FetchMoves DEF UpdateAddr
<1>4. UpdatingIsUnderWay'
  BY <1>1 DEF UpdateAddr, FetchNew, UpdatingIsUnderWay, TypeOK
<1>5. CloseInv' /\ EndInv'
  BY <1>1 DEF UpdateAddr, FetchNew, Fetch, CloseInv, EndInv, DeadlineExists
<1> QED
  BY <1>2, <1>3, <1>4, <1>5

\* The callback of a task is run.
LEMMA RunCallbackOK == ASSUME NEW u \in Tasks PROVE IInv /\ RunCallback(u) => IInv'
<1> SUFFICES ASSUME IInv, RunCallback(u) PROVE IInv'
  OBVIOUS
<1> USE DEF IInv
<1>1. batch \in Seq(Closures) /\ batch # << >> /\ Head(batch) = u /\ batch' = Tail(batch)
  BY DEF TypeOK, RunCallback
<1>2. updating' = IF u \in Protocols THEN [updating EXCEPT ![u] = "no"] ELSE updating
  BY DEF RunCallback, Answered
<1>3. TypeOK'
  <2>1. batch' \in Seq(Closures)
    BY <1>1
  <2>2. updating' \in [Protocols -> {"no", "yes", "abort"}]
    BY <1>2 DEF TypeOK
  <2> QED
    BY <2>1, <2>2 DEF TypeOK, WebTypeOK, RunCallback, webVars
<1>4. OnePlace'
  <2> SUFFICES ASSUME NEW t \in Tasks
               PROVE  Once(t, queued') + Once(t, running') + Waits(t, work') + Waits(t, batch')
                      = IF t \in asked' THEN 1 ELSE 0
    BY PlaceKept
  <2>1. /\ Waits(t, work) \in Nat
        /\ Waits(t, batch) \in Nat
        /\ Once(t, queued) + Once(t, running) + Waits(t, work) + Waits(t, batch) = Once(t, asked)
    BY Before
  <2>2. Waits(t, batch) = Waits(t, batch') + (IF u = t THEN 1 ELSE 0)
    BY <1>1, WaitsTail
  <2>3. Waits(t, batch') \in Nat
    BY <1>1, <1>3, WaitsType DEF TypeOK
  <2>4. queued' = queued /\ running' = running /\ work' = work /\ asked' = asked \ {u}
    BY DEF RunCallback, webVars
  <2>5. CASE u = t
    BY <2>1, <2>2, <2>3, <2>4, <2>5 DEF Once
  <2>6. CASE u # t
    BY <2>1, <2>2, <2>3, <2>4, <2>6 DEF Once
  <2> QED
    BY <2>5, <2>6
<1>5. UpdatingIsUnderWay'
  BY <1>2 DEF RunCallback, UpdatingIsUnderWay, TypeOK
<1>6. CloseInv'
  BY <1>2 DEF RunCallback, webVars, CloseInv, DeadlineExists, TypeOK
<1>7. EndInv'
  BY DEF RunCallback, webVars, EndInv, DeadlineExists
<1> QED
  BY <1>3, <1>4, <1>5, <1>6, <1>7

\* try_shutdown() does not touch the updates under way.
LEMMA TryShutdownKeeps ==
    ASSUME TypeOK, TryShutdown \/ UNCHANGED updating
    PROVE  /\ updating' \in [Protocols -> {"no", "yes", "abort"}]
           /\ \A p \in Protocols : updating'[p] = "yes" <=> updating[p] = "yes"
<1>1. CASE TryShutdown
  <2>1. \A p \in Protocols : p <= p
    BY SessionAssumption
  <2> QED
    BY <1>1, <2>1 DEF TryShutdown, TypeOK
<1>2. CASE UNCHANGED updating
  BY <1>2 DEF TypeOK
<1> QED
  BY <1>1, <1>2

\* The close begins, and the last announces are fetched.
LEMMA CloseImplPart1OK == IInv /\ CloseImplPart1 => IInv'
<1> SUFFICES ASSUME IInv, CloseImplPart1 PROVE IInv'
  OBVIOUS
<1> USE DEF IInv
<1>1. batch \in Seq(Closures) /\ batch # << >> /\ Head(batch) = CloseSession /\ batch' = Tail(batch)
  BY DEF TypeOK, CloseImplPart1
<1>2. PICK ts \in SUBSET (Tasks \ (Protocols \cup asked)) : FetchNew(ts)
  BY DEF CloseImplPart1
<1>3. /\ updating' \in [Protocols -> {"no", "yes", "abort"}]
      /\ \A p \in Protocols : updating'[p] = "yes" <=> updating[p] = "yes"
  BY TryShutdownKeeps DEF CloseImplPart1
<1>4. deadline' \in {"ahead", "reached"}
  BY DEF CloseImplPart1, StartShutdown
<1>5. TypeOK'
  <2>1. batch' \in Seq(Closures)
    BY <1>1
  <2>2. WebTypeOK'
    BY <1>2, <1>4 DEF TypeOK, WebTypeOK, CloseImplPart1, FetchNew, Fetch, Deadlines
  <2> QED
    BY <1>2, <1>3, <2>1, <2>2 DEF TypeOK, CloseImplPart1, FetchNew
<1>6. OnePlace'
  <2>1. \A t \in Tasks : Waits(t, batch') = Waits(t, batch)
    <3> SUFFICES ASSUME NEW t \in Tasks PROVE Waits(t, batch') = Waits(t, batch)
      OBVIOUS
    <3>1. Waits(t, batch) = Waits(t, batch') + (IF CloseSession = t THEN 1 ELSE 0)
      BY <1>1, WaitsTail
    <3>2. Waits(t, batch') \in Nat
      BY <1>5, WaitsType DEF TypeOK
    <3> QED
      BY <3>1, <3>2, SessionAssumption
  <2> QED
    BY <1>2, <2>1, FetchMoves DEF CloseImplPart1
<1>7. UpdatingIsUnderWay'
  BY <1>2, <1>3 DEF FetchNew, UpdatingIsUnderWay
<1>8. CloseInv'
  BY <1>4 DEF CloseImplPart1, CloseInv
<1>9. EndInv'
  BY <1>2, <1>4 DEF CloseImplPart1, EndInv, FetchNew, Fetch, DeadlineExists
<1> QED
  BY <1>5, <1>6, <1>7, <1>8, <1>9

\* A tick of closeImplPart2().
LEMMA CloseImplPart2OK == IInv /\ (StillBusy \/ CloseImplPart2 \/ CloseImplPart2Late) => IInv'
<1> SUFFICES ASSUME IInv, StillBusy \/ CloseImplPart2 \/ CloseImplPart2Late PROVE IInv'
  OBVIOUS
<1> USE DEF IInv
<1>1. UNCHANGED <<webVars, work, batch, caller, loop, hurried, asked>>
  BY DEF StillBusy, CloseImplPart2, CloseImplPart2Late, Closes
<1>2. TryShutdown \/ UNCHANGED updating
  BY DEF StillBusy, CloseImplPart2, CloseImplPart2Late, FoundBusy, FoundIdle, OutOfTime
<1>3. /\ updating' \in [Protocols -> {"no", "yes", "abort"}]
      /\ \A p \in Protocols : updating'[p] = "yes" <=> updating[p] = "yes"
  BY <1>2, TryShutdownKeeps
<1>4. closing' \in {"part1", "closed"} /\ outOfTime' \in BOOLEAN
  BY DEF StillBusy, CloseImplPart2, CloseImplPart2Late, Closes, TypeOK
<1>5. TypeOK'
  BY <1>1, <1>3, <1>4 DEF TypeOK, WebTypeOK, webVars
<1>6. OnePlace'
  BY <1>1, NothingMoves DEF webVars
<1>7. UpdatingIsUnderWay'
  BY <1>1, <1>3 DEF UpdatingIsUnderWay
<1>8. CloseInv'
  <2>1. closing' = "closed" /\ ~outOfTime' => \A p \in Protocols : updating[p] # "yes"
    BY DEF StillBusy, CloseImplPart2, CloseImplPart2Late, Closes, FoundIdle, NoneUpdating
  <2> QED
    BY <1>3, <1>4, <2>1 DEF CloseInv
<1>9. EndInv'
  BY <1>1 DEF EndInv, webVars, DeadlineExists
<1> QED
  BY <1>5, <1>6, <1>7, <1>8, <1>9

\* An event loop ends.
LEMMA EndLoopOK == IInv /\ EndLoop => IInv'
<1> SUFFICES ASSUME IInv, EndLoop PROVE IInv'
  OBVIOUS
<1> USE DEF IInv
<1>1. TypeOK'
  BY DEF TypeOK, WebTypeOK, EndLoop, webVars
<1>2. OnePlace'
  BY NothingMoves DEF EndLoop, webVars
<1>3. UpdatingIsUnderWay' /\ CloseInv'
  BY DEF EndLoop, webVars, UpdatingIsUnderWay, CloseInv, DeadlineExists
<1>4. EndInv'
  BY DEF EndLoop, InLoop, webVars, EndInv, DeadlineExists
<1> QED
  BY <1>1, <1>2, <1>3, <1>4

\* tr_sessionClose() is called.
LEMMA CallCloseOK == IInv /\ CallClose => IInv'
<1> SUFFICES ASSUME IInv, CallClose PROVE IInv'
  OBVIOUS
<1> USE DEF IInv, CallClose, CallerGoes
<1>1. CloseSession \in Closures /\ work \in Seq(Closures)
  BY DEF Closures, TypeOK
<1>2. TypeOK'
  BY <1>1 DEF TypeOK, WebTypeOK, CallerStates
<1>3. OnePlace'
  <2> SUFFICES ASSUME NEW t \in Tasks
               PROVE  Once(t, queued') + Once(t, running') + Waits(t, work') + Waits(t, batch')
                      = IF t \in asked' THEN 1 ELSE 0
    BY PlaceKept
  <2>1. /\ Waits(t, work) \in Nat
        /\ Once(t, queued) + Once(t, running) + Waits(t, work) + Waits(t, batch) = Once(t, asked)
    BY Before
  <2>2. Waits(t, work') = Waits(t, work) + (IF CloseSession = t THEN 1 ELSE 0)
    BY <1>1, WaitsAppend
  <2>3. CloseSession # t
    BY SessionAssumption
  <2> QED
    BY <2>1, <2>2, <2>3 DEF Once
<1>4. UpdatingIsUnderWay' /\ CloseInv' /\ EndInv'
  BY DEF UpdatingIsUnderWay, CloseInv, EndInv, DeadlineExists
<1> QED
  BY <1>2, <1>3, <1>4

\* The thread that closes the session goes on.
LEMMA CallerOK == IInv /\ Caller => IInv'
<1> SUFFICES ASSUME IInv, Caller PROVE IInv'
  OBVIOUS
<1> USE DEF IInv, Caller, DeleteSession, WebJoined, SessionThreadJoined, CallerGoes, StartShutdown
<1>1. TypeOK'
  BY DEF TypeOK, WebTypeOK, CallerStates, Deadlines
<1>2. OnePlace'
  BY NothingMoves
<1>3. UpdatingIsUnderWay' /\ CloseInv'
  BY DEF UpdatingIsUnderWay, CloseInv, DeadlineExists
<1>4. EndInv'
  BY DEF EndInv, DeadlineExists
<1> QED
  BY <1>1, <1>2, <1>3, <1>4

\* The clock reaches the deadline.
LEMMA DeadlineOK == IInv /\ DeadlinePasses /\ UNCHANGED <<sessionVars, asked>> => IInv'
<1> SUFFICES ASSUME IInv, DeadlinePasses, UNCHANGED <<sessionVars, asked>> PROVE IInv'
  OBVIOUS
<1> USE DEF IInv, DeadlinePasses, sessionVars
<1>1. TypeOK'
  BY DEF TypeOK, WebTypeOK, Deadlines
<1>2. OnePlace'
  BY NothingMoves
<1>3. UpdatingIsUnderWay' /\ CloseInv' /\ EndInv'
  BY DEF UpdatingIsUnderWay, CloseInv, EndInv, DeadlineExists
<1> QED
  BY <1>1, <1>2, <1>3

\* The curl thread takes a step.
LEMMA CurlThreadOK == IInv /\ CurlThread /\ UNCHANGED <<sessionVars, asked>> => IInv'
<1> SUFFICES ASSUME IInv, CurlThread, UNCHANGED <<sessionVars, asked>> PROVE IInv'
  OBVIOUS
<1> USE DEF IInv, sessionVars
<1>1. CASE Top \/ KilledAll \/ EndOrGoOn \/ Sleep \/ TakeQueued \/ Again
  <2> USE <1>1 DEF Top, KilledAll, EndOrGoOn, Sleep, TakeQueued, Again, Goes
  <2>1. UNCHANGED <<queued, running, deadline, work>>
    OBVIOUS
  <2>2. curl' \in CurlStates
    BY DEF CurlStates
  <2>3. TypeOK'
    BY <2>1, <2>2 DEF TypeOK, WebTypeOK
  <2>4. OnePlace'
    BY <2>1, NothingMoves
  <2>5. UpdatingIsUnderWay' /\ CloseInv'
    BY <2>1 DEF UpdatingIsUnderWay, CloseInv, DeadlineExists
  <2>6. EndInv'
    BY DEF EndInv, DeadlineExists, IsIdle
  <2> QED
    BY <2>3, <2>4, <2>5, <2>6
<1>2. CASE Splice
  <2>1. TypeOK'
    BY <1>2 DEF TypeOK, WebTypeOK, Splice, Goes, CurlStates
  <2>2. OnePlace'
    BY <1>2, SpliceMoves
  <2>3. UpdatingIsUnderWay' /\ CloseInv' /\ EndInv'
    BY <1>2 DEF Splice, Goes, UpdatingIsUnderWay, CloseInv, EndInv, DeadlineExists
  <2> QED
    BY <2>1, <2>2, <2>3
<1>3. ASSUME NEW t \in Tasks, Kill(t) \/ Finish(t)
      PROVE  IInv'
  <2>1. curl \in {"killing", "performing"} /\ RemoveTask(t) /\ UNCHANGED <<queued, deadline, curl>>
    BY <1>3 DEF Kill, Finish
  <2>2. work' \in Seq(Closures)
    BY <2>1 DEF RemoveTask, TypeOK, Closures
  <2>3. TypeOK'
    BY <2>1, <2>2 DEF TypeOK, WebTypeOK, RemoveTask
  <2>4. OnePlace'
    BY <2>1, RemoveTaskMoves
  <2>5. UpdatingIsUnderWay' /\ CloseInv'
    BY <2>1 DEF UpdatingIsUnderWay, CloseInv, DeadlineExists
  <2>6. EndInv'
    BY <2>1 DEF EndInv
  <2> QED
    BY <2>3, <2>4, <2>5, <2>6
<1> QED
  BY <1>1, <1>2, <1>3 DEF CurlThread

\* Every step keeps the invariant.
LEMMA StepOK == IInv /\ [Next]_vars => IInv'
<1> SUFFICES ASSUME IInv, [Next]_vars PROVE IInv'
  OBVIOUS
<1>1. CASE SessionThread
  BY <1>1, StealWorkOK, CloseImplPart1OK, CloseImplPart2OK, EndLoopOK, RunCallbackOK DEF SessionThread
<1>2. CASE UNCHANGED vars
  <2> USE <1>2 DEF vars, webVars, sessionVars, IInv
  <2>1. TypeOK'
    BY DEF TypeOK, WebTypeOK
  <2>2. OnePlace'
    BY NothingMoves
  <2>3. UpdatingIsUnderWay' /\ CloseInv' /\ EndInv'
    BY DEF UpdatingIsUnderWay, CloseInv, EndInv, DeadlineExists
  <2> QED
    BY <2>1, <2>2, <2>3
<1> QED
  BY <1>1, <1>2, FetchTaskOK, UpdateAddrOK, CloseImplPart2OK, CallCloseOK, CallerOK,
     DeadlineOK, CurlThreadOK DEF Next

\* The invariant holds in every reachable state.
THEOREM Invariance == Spec => []IInv
<1> QED
  BY InitOK, StepOK, PTL DEF Spec

-----------------------------------------------------------------------------
(* What follows.                                                           *)

\* Threads, queues and the address cache keep their types.
THEOREM TypeCorrect == Spec => []TypeOK
<1>1. IInv => TypeOK
  BY DEF IInv
<1> QED
  BY <1>1, Invariance, PTL

\* No task that was fetched is lost or answered twice: it is with the web client
\* or its callback is on its way (web.cc, session-thread.cc).
THEOREM EachTaskOnePlace == Spec => []OnePlace
<1>1. IInv => OnePlace
  BY DEF IInv
<1> QED
  BY <1>1, Invariance, PTL

\* An address of ip-cache.cc is being updated exactly while its query is under way.
THEOREM UpdatesUnderWay == Spec => []UpdatingIsUnderWay
<1>1. IInv => UpdatingIsUnderWay
  BY DEF IInv
<1> QED
  BY <1>1, Invariance, PTL

\* A close that was not out of time leaves no address query, and one that returned
\* no fetched task, unless the session thread was hurried.
THEOREM CloseLeavesNothing == Spec => []NothingLeftBehind
<1>1. IInv => NothingLeftBehind
  <2> SUFFICES ASSUME IInv PROVE NothingLeftBehind
    OBVIOUS
  <2> USE DEF IInv
  <2>1. closing = "closed" /\ ~outOfTime => asked \cap Protocols = {}
    BY DEF CloseInv, UpdatingIsUnderWay
  <2>2. ASSUME caller = "gone", ~hurried
        PROVE  asked = {}
    <3>1. queued = {} /\ running = {} /\ work = << >> /\ batch = << >>
      BY <2>2 DEF EndInv
    <3>2. ASSUME NEW t \in Tasks
          PROVE  Once(t, asked) = 0
      <4>1. Once(t, queued) + Once(t, running) + Waits(t, work) + Waits(t, batch) = Once(t, asked)
        BY Before
      <4>2. Waits(t, work) = 0 /\ Waits(t, batch) = 0
        BY <3>1, WaitsEmpty
      <4>3. Once(t, queued) = 0 /\ Once(t, running) = 0
        BY <3>1 DEF Once
      <4> QED
        BY <4>1, <4>2, <4>3
    <3> QED
      BY <3>2 DEF Once, TypeOK
  <2> QED
    BY <2>1, <2>2 DEF NothingLeftBehind
<1> QED
  BY <1>1, Invariance, PTL
=============================================================================
