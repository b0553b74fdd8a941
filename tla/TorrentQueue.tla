---------------------------- MODULE TorrentQueue ----------------------------
(***************************************************************************)
(* The order of the torrents (libtransmission/torrent-queue.cc): the ids   *)
(* in their order, a cache of positions that nobody keeps up to date, the  *)
(* moves of one torrent or of a batch (torrent.cc), and the queue.json     *)
(* that the order is saved to and loaded from (session.cc).                *)
(*                                                                         *)
(* Torrents are numbered as their file names sort.  Positions count from   *)
(* 0, as in the code.                                                      *)
(*                                                                         *)
(* Definitions called ...Fault are wrong on purpose.                       *)
(***************************************************************************)
EXTENDS Integers, SequencesExt

CONSTANTS
    Torrents,
    MayBeMagnets,   \* bound: the torrents that may come without their metainfo
    MaxId           \* bound: the ids of a session end here

ASSUME QueueAssumption ==
    /\ Torrents \subseteq Nat /\ IsFiniteSet(Torrents) /\ Torrents # {}
    /\ MayBeMagnets \subseteq Torrents
    /\ MaxId \in Nat

VARIABLES
    torrents,    \* the torrent of each id in use (tr_torrents)
    used,        \* the last id that was given
    magnets,     \* the torrents whose metainfo is not there yet
    queue,       \* queue_
    pos_cache,   \* pos_cache_; 0 beyond its end, and for an id that left, as it is not
                 \* given again
    is_dirty,    \* is_dirty_
    file,        \* queue.json: the file names of torrents
    missed       \* the last save failed (history variable)

vars == <<torrents, used, magnets, queue, pos_cache, is_dirty, file, missed>>

Ids == 1..MaxId
Names == [tor : Torrents, magnet : BOOLEAN]
Positions == 0..(Cardinality(Torrents) - 1)

\* store_filename()
Name(t) == [tor |-> t, magnet |-> t \in magnets]

\* The torrents of a queue of ids.
TorrentsOf(q) == [i \in DOMAIN q |-> torrents[q[i]]]

\* The members of a set as a sequence in an order.
Arranged(S, Before(_, _)) ==
    CHOOSE r \in [1..Cardinality(S) -> S] :
        \A i, j \in DOMAIN r : i < j => Before(r[i], r[j])

\* What of a sequence is in a set.
Only(q, S) ==
    LET at == Arranged({i \in DOMAIN q : q[i] \in S}, <)
    IN  [n \in DOMAIN at |-> q[at[n]]]

TypeOK ==
    /\ DOMAIN torrents \subseteq Ids
    /\ torrents \in [DOMAIN torrents -> Torrents]
    /\ used \in 0..MaxId
    /\ magnets \subseteq Torrents
    /\ queue \in Seq(Ids)
    /\ pos_cache \in [Ids -> Positions]
    /\ is_dirty \in BOOLEAN
    /\ file \in Seq(Names)
    /\ missed \in BOOLEAN

Init ==
    /\ torrents = [id \in {} |-> 0]
    /\ used = 0
    /\ magnets = {}
    /\ queue = <<>>
    /\ pos_cache = [id \in Ids |-> 0]
    /\ is_dirty = FALSE
    /\ file = <<>>
    /\ missed = FALSE

-----------------------------------------------------------------------------
(* Positions, in a state s of the queue: [queue, cache, dirty].            *)

Now == [queue |-> queue, cache |-> pos_cache, dirty |-> is_dirty]

\* The cached position of an id is one at which it is.
Holds(s, id) == s.cache[id] < Len(s.queue) /\ s.queue[s.cache[id] + 1] = id

PositionIn(q, id) == (CHOOSE i \in DOMAIN q : q[i] = id) - 1

\* get_pos() of an id in the queue leaves its position in the cache.
Asked(s, id) ==
    IF Holds(s, id) THEN s
    ELSE [s EXCEPT !.cache[id] = PositionIn(s.queue, id)]

GetPos(s, id) == Asked(s, id).cache[id]

\* Fault: the move is not saved.
SetPosFault(s, id, pos) ==
    LET old == GetPos(s, id)
        new == IF pos < Len(s.queue) THEN pos ELSE Len(s.queue) - 1
    IN  [Asked(s, id) EXCEPT !.queue = InsertAt(RemoveAt(@, old + 1), new + 1, id)]

\* Fault: the position is the one that was cached when the batch was sorted.
SetPosUnaskedFault(s, id, pos) ==
    LET old == s.cache[id]
        new == IF pos < Len(s.queue) THEN pos ELSE Len(s.queue) - 1
    IN  IF old = new THEN s
        ELSE [s EXCEPT !.queue = InsertAt(RemoveAt(@, old + 1), new + 1, id),
                       !.dirty = TRUE]

\* set_pos(): the id is taken out and put in again.
SetPos(s, id, pos) ==
    LET asked == Asked(s, id)
        old == asked.cache[id]
        new == IF pos < Len(s.queue) THEN pos ELSE Len(s.queue) - 1
    IN  IF old = new THEN asked
        ELSE [asked EXCEPT !.queue = InsertAt(RemoveAt(@, old + 1), new + 1, id),
                           !.dirty = TRUE]

\* A batch of ids from the front of the queue to the back.  Sorting it asks for
\* every position.
AllAsked(s, batch) ==
    [s EXCEPT !.cache = [id \in Ids |-> IF id \in batch THEN GetPos(s, id) ELSE @[id]]]

Sorted(s, batch) ==
    LET cache == AllAsked(s, batch).cache
    IN  Arranged(batch, LAMBDA a, b : cache[a] < cache[b])

\* Bound: batches of two.  One torrent alone moves as SetQueuePosition() has it.
Batches == kSubset(2, DOMAIN torrents)

\* Each of a batch makes its move, in this order.
Moved(Move(_, _), s, ids) == Move(Move(s, ids[1]), ids[2])

Becomes(s) ==
    /\ queue' = s.queue
    /\ pos_cache' = s.cache
    /\ is_dirty' = s.dirty
    /\ UNCHANGED <<torrents, used, magnets, file, missed>>

-----------------------------------------------------------------------------
(* Torrents come, change and go.                                           *)

\* Fault: a position is cached, counted from 1.
AddFault(t, magnet) ==
    /\ used < MaxId
    /\ \A id \in DOMAIN torrents : torrents[id] # t
    /\ used' = used + 1
    /\ torrents' = [id \in DOMAIN torrents \cup {used'} |-> IF id = used' THEN t ELSE torrents[id]]
    /\ magnets' = IF magnet THEN magnets \cup {t} ELSE magnets \ {t}
    /\ queue' = Append(queue, used')
    /\ pos_cache' = [pos_cache EXCEPT ![used'] = Len(queue')]
    /\ is_dirty' = TRUE
    /\ UNCHANGED <<file, missed>>

\* addTorrent(): with a new id, at the back.
Add(t, magnet) ==
    /\ used < MaxId
    /\ \A id \in DOMAIN torrents : torrents[id] # t
    /\ used' = used + 1
    /\ torrents' = [id \in DOMAIN torrents \cup {used'} |-> IF id = used' THEN t ELSE torrents[id]]
    /\ magnets' = IF magnet THEN magnets \cup {t} ELSE magnets \ {t}
    /\ queue' = Append(queue, used')
    /\ is_dirty' = TRUE
    /\ UNCHANGED <<pos_cache, file, missed>>

\* use_new_metainfo(): another file is the torrent's from now on.
GetMetainfo(t) ==
    /\ t \in magnets
    /\ magnets' = magnets \ {t}
    /\ UNCHANGED <<torrents, used, queue, pos_cache, is_dirty, file, missed>>

\* Fault: whatever is at the cached position goes.
FreeTorrentFault(id) ==
    /\ id \in DOMAIN torrents
    /\ torrents' = [i \in DOMAIN torrents \ {id} |-> torrents[i]]
    /\ queue' = IF pos_cache[id] < Len(queue) THEN RemoveAt(queue, pos_cache[id] + 1)
                ELSE Only(queue, Ids \ {id})
    /\ is_dirty' = TRUE
    /\ magnets' = magnets \ {torrents[id]}
    /\ pos_cache' = [pos_cache EXCEPT ![id] = 0]
    /\ UNCHANGED <<used, file, missed>>

\* freeTorrent(), remove(): by the cached position if the id is there.
FreeTorrent(id) ==
    /\ id \in DOMAIN torrents
    /\ torrents' = [i \in DOMAIN torrents \ {id} |-> torrents[i]]
    /\ queue' = IF Holds(Now, id) THEN RemoveAt(queue, pos_cache[id] + 1)
                ELSE Only(queue, Ids \ {id})
    /\ is_dirty' = TRUE
    /\ magnets' = magnets \ {torrents[id]}
    /\ pos_cache' = [pos_cache EXCEPT ![id] = 0]
    /\ UNCHANGED <<used, file, missed>>

-----------------------------------------------------------------------------
(* Moves.                                                                  *)

MinPos == 0
MaxPos == Cardinality(Torrents)     \* MaxQueuePosition: past every end

\* tr_torrentSetQueuePosition(); to where it is, it is but asked for its position, as
\* torrent_get does.
SetQueuePosition(id, pos) == Becomes(SetPos(Now, id, pos))

\* tr_torrentsQueueMoveTop() and the other moves of a batch
ToTop(s, batch) ==
    Moved(LAMBDA r, id : SetPos(r, id, MinPos), AllAsked(s, batch), Reverse(Sorted(s, batch)))

Up(s, batch) ==
    Moved(LAMBDA r, id : IF GetPos(r, id) > MinPos THEN SetPos(r, id, GetPos(r, id) - 1)
                         ELSE Asked(r, id),
          AllAsked(s, batch), Sorted(s, batch))

Down(s, batch) ==
    Moved(LAMBDA r, id : SetPos(r, id, GetPos(r, id) + 1),
          AllAsked(s, batch), Reverse(Sorted(s, batch)))

ToBottom(s, batch) ==
    Moved(LAMBDA r, id : SetPos(r, id, MaxPos), AllAsked(s, batch), Sorted(s, batch))

MoveTop(batch) == Becomes(ToTop(Now, batch))
MoveUp(batch) == Becomes(Up(Now, batch))
MoveDown(batch) == Becomes(Down(Now, batch))
MoveBottom(batch) == Becomes(ToBottom(Now, batch))

-----------------------------------------------------------------------------
(* The file.                                                               *)

NamesOf(q) == [i \in DOMAIN q |-> Name(torrents[q[i]])]

\* to_file(): the flag is cleared before it is known how the save went.
ToFile ==
    IF ~is_dirty THEN UNCHANGED <<file, missed>>
    ELSE \/ file' = NamesOf(queue) /\ missed' = FALSE
         \/ UNCHANGED file /\ missed' = TRUE

\* on_save_timer()
SaveTimer ==
    /\ ToFile
    /\ is_dirty' = FALSE
    /\ UNCHANGED <<torrents, used, magnets, queue, pos_cache>>

\* The files of the torrents there are.
Stored == {Name(torrents[id]) : id \in DOMAIN torrents}

\* get_remaining_files(): those that queue.json does not name, with a metainfo first.
IsBefore(m, n) == \/ ~m.magnet /\ n.magnet
                  \/ m.magnet = n.magnet /\ m.tor < n.tor
Remaining(f) == Arranged(Stored \ Range(f), IsBefore)

\* from_file(), session_load_torrents(): the named ones first
LoadOrder(f) == Only(f, Stored) \o Remaining(f)

\* A new session loads the torrents in the order that file' tells.
LoadTorrents ==
    LET names == LoadOrder(file')
    IN  /\ torrents' = [i \in DOMAIN names |-> names[i].tor]
        /\ used' = Len(names)
        /\ queue' = [i \in DOMAIN names |-> i]
        /\ pos_cache' = [id \in Ids |-> 0]
        /\ is_dirty' = (names # <<>>)
        /\ UNCHANGED magnets

\* closeImplPart1() saves once more.
CloseAndLoad == ToFile /\ LoadTorrents

CrashAndLoad == UNCHANGED <<file, missed>> /\ LoadTorrents

Next ==
    \/ \E t \in Torrents : Add(t, FALSE)
    \/ \E t \in MayBeMagnets : Add(t, TRUE)
    \/ \E t \in Torrents : GetMetainfo(t)
    \/ \E id \in DOMAIN torrents :
        \/ FreeTorrent(id)
        \/ \E pos \in Positions : SetQueuePosition(id, pos)
    \/ \E batch \in Batches :
        MoveTop(batch) \/ MoveUp(batch) \/ MoveDown(batch) \/ MoveBottom(batch)
    \/ SaveTimer
    \/ CloseAndLoad
    \/ CrashAndLoad

Spec == Init /\ [][Next]_vars

-----------------------------------------------------------------------------
(* Properties.                                                             *)

order == TorrentsOf(queue)

\* Every torrent of the session has one place in the queue, and nothing else has
\* one, however stale the cached positions are (remove(), set_pos()).
EachOnce == IsInjective(queue) /\ Range(queue) = DOMAIN torrents

\* The ids of a queue that are not in a set.
Others(q, S) == Only(q, Ids \ S)

\* In whatever state the cached positions are, a batch goes to the front or the back
\* as it stands, and no move of a batch changes the order of the other torrents: the
\* positions that are asked for in the midst of the moves are true
\* (tr_torrentsQueueMove...(), get_pos()).
BatchesStayInOrder ==
    \A batch \in Batches :
        LET those == Only(queue, batch)
            others == Others(queue, batch)
        IN  /\ ToTop(Now, batch).queue = those \o others
            /\ ToBottom(Now, batch).queue = others \o those
            /\ Others(Up(Now, batch).queue, batch) = others
            /\ Others(Down(Now, batch).queue, batch) = others

\* Unless the last save failed, which to_file() does not repeat, or the order is
\* marked to be saved: of the torrents whose files have the names that queue.json
\* says, the one that comes first now comes first again when they are loaded after a
\* crash (set_pos(), remove(), to_file(), session_load_torrents()).
OrderSurvives ==
    is_dirty \/ missed \/
        LET Named(q) == Only(q, Range(file) \cap Stored)
        IN  Named(LoadOrder(file)) = Named(NamesOf(queue))

\* The order of the torrents is kept between sessions if it could be saved.  It is not
\* when a magnet link has become a torrent file: use_new_metainfo() does not mark the
\* queue to be saved with the new name (README, section 6).
OrderKept == [][CloseAndLoad /\ ~missed' => order' = order]_vars
=============================================================================
