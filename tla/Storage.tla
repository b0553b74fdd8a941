------------------------------ MODULE Storage ------------------------------
(***************************************************************************)
(* What a torrent holds, and what is left of it after a crash: blocks that *)
(* arrive go through the cache to the files (module Cache), the pieces     *)
(* they complete are checked (torrent.cc), the torrent's resume file says  *)
(* what was had and checked when it was last saved (resume.cc), and after  *)
(* a restart the times of the files tell what to believe of it.            *)
(***************************************************************************)
EXTENDS Cache

CONSTANTS
    PieceOf,      \* the piece of each block
    Suspect,      \* bound: the blocks that may come from webseeds, or bad
    Late,         \* bound: what those from webseeds may hold
    MaxClock      \* bound on the seconds that pass

ASSUME StorageAssumption ==
    /\ Suspect \subseteq Blocks
    /\ Late \subseteq Data
    /\ MaxClock \in Nat \ {0}
    /\ \A j, k \in Blocks : (PieceOf[j] = PieceOf[k] \/ FileOf[j] = FileOf[k]) => Owner[j] = Owner[k]

VARIABLES
    running,     \* the torrents that run
    has,         \* the blocks of completion_
    checked,     \* checked_pieces_
    mtimes,      \* file_mtimes_
    dirty,       \* the torrents whose resume file is out of date
    resume,      \* what the resume files say
    clock,
    fetched,     \* blocks that webseeds have sent to the session thread
    tainted      \* the pieces that something has happened to (history variable)

cacheVars == <<cached, disk, limit, alive, failed>>
vars == <<cacheVars, running, has, checked, mtimes, dirty, resume, found, clock, fetched, tainted>>

Pieces == {PieceOf[k] : k \in Blocks}
BlocksIn(p) == {k \in Blocks : PieceOf[k] = p}
PiecesOf(t) == {PieceOf[k] : k \in BlocksOf(t)}
FilesOf(t) == {FileOf[k] : k \in BlocksOf(t)}
TorrentOf(p) == Owner[CHOOSE k \in BlocksIn(p) : TRUE]

Times == 0..MaxClock
Records == [has : SUBSET Blocks, checked : SUBSET Pieces, mtimes : [Files -> Times]]

\* A resume file that says nothing, or that is not there.
NoRecord == [has |-> {}, checked |-> {}, mtimes |-> [f \in Files |-> 0]]

TypeOK ==
    /\ cached \in Caches
    /\ disk \in [Blocks -> Data]
    /\ limit \in Limits
    /\ alive \in SUBSET Torrents
    /\ failed \in SUBSET Torrents
    /\ running \in SUBSET alive
    /\ has \in SUBSET Blocks
    /\ checked \in SUBSET Pieces
    /\ mtimes \in [Files -> Times]
    /\ dirty \in SUBSET alive
    /\ resume \in [Torrents -> Records]
    /\ found \in [Files -> Times]
    /\ clock \in Times
    /\ fetched \in SUBSET (Suspect \X Late)
    /\ tainted \in SUBSET Pieces

\* New torrents, saved once, with no file yet.
Init ==
    /\ cached = [k \in {} |-> "bad"]
    /\ disk = [k \in Blocks |-> "bad"]
    /\ limit \in Limits
    /\ alive = Torrents
    /\ failed = {}
    /\ running = Torrents
    /\ has = {}
    /\ checked = {}
    /\ mtimes = [f \in Files |-> 0]
    /\ dirty = {}
    /\ resume = [t \in Torrents |-> NoRecord]
    /\ found = [f \in Files |-> 0]
    /\ clock = 1
    /\ fetched = {}
    /\ tainted = {}

-----------------------------------------------------------------------------
\* Fault: the block that just came is not in it.
RecordFault(t, h, m) ==
    [has |-> has \cap BlocksOf(t), checked |-> checked \cap PiecesOf(t),
     mtimes |-> [f \in Files |-> IF f \in FilesOf(t) THEN m[f] ELSE 0]]

\* tr_resume::save() of torrent t when it has the blocks h, and m are the times of
\* the files.
Record(t, h, m) ==
    [has |-> h \cap BlocksOf(t), checked |-> checked \cap PiecesOf(t),
     mtimes |-> [f \in Files |-> IF f \in FilesOf(t) THEN m[f] ELSE 0]]

\* save_resume_file() of the torrents in ts.
SavedBy(r, ts, h, m) == [t \in Torrents |-> IF t \in ts THEN Record(t, h, m) ELSE r[t]]

Taint(K) == tainted' = tainted \cup {PieceOf[k] : k \in K}

\* The cache and the files after an operation that ends as o, and taints the
\* pieces of the blocks K.
Becomes(o, K) ==
    /\ cached' = o.cached
    /\ disk' = o.disk
    /\ failed' = o.failed
    /\ found' = [f \in Files |-> IF \E k \in o.wrote : FileOf[k] = f THEN clock ELSE found[f]]
    /\ Taint(K)

\* The torrents that it stops save their resume files.
Stops(o) ==
    /\ resume' = SavedBy(resume, o.stopped, has, mtimes)
    /\ dirty' = dirty \ o.stopped
    /\ running' = running \ o.stopped

-----------------------------------------------------------------------------
(* Blocks arrive.                                                          *)

\* The content of piece p matches its hash.
Good(o, p) == \A k \in BlocksIn(p) : ReadOf(o, k) = "good"

\* has_file()
FileDone(f, h) == \A k \in Blocks : FileOf[k] = f => k \in h

\* The files that piece p touches and that are complete.
FilesDone(p, h) == {f \in {FileOf[k] : k \in BlocksIn(p)} : FileDone(f, h)}

\* The outcomes of on_piece_completed() for a piece of torrent t that completes files
\* D: the torrent is flushed in a sequential download, which the user may choose at
\* any time, and then each file.  If an error of these stops the torrent, the times
\* of the files E are set by then.
OnPieceCompleted(o, t, D, E) ==
    UNION {FlushFiles(w, t, D, E) : w \in {o} \cup {v \in FlushTorrent(o, t) : v.stopped = o.stopped \/ E = {}}}

\* on_block_received() once the write ended as o: a block that is had already...
GotAgain(k, o) ==
    /\ k \in has
    /\ Becomes(o, {k})
    /\ Stops(o)
    /\ UNCHANGED <<has, mtimes>>

\* ...one after which the piece is not complete, or not good...
GotBlock(k, o) ==
    LET h == has \cup {k}
        complete == BlocksIn(PieceOf[k]) \subseteq h
    IN  /\ k \notin has
        /\ complete => ~Good(o, PieceOf[k])
        /\ has' = IF complete THEN h \ BlocksIn(PieceOf[k]) ELSE h
        /\ Becomes(o, {})
        /\ resume' = SavedBy(resume, o.stopped, has, mtimes)
        /\ dirty' = (dirty \ o.stopped) \cup {Owner[k]}
        /\ running' = running \ o.stopped
        /\ UNCHANGED mtimes

\* ...and one that completes a good piece.
GotPiece(k, o) ==
    LET h == has \cup {k}
        D == FilesDone(PieceOf[k], h)
        Timed(F) == [f \in Files |-> IF f \in F THEN clock ELSE mtimes[f]]
    IN  /\ k \notin has
        /\ BlocksIn(PieceOf[k]) \subseteq h
        /\ Good(o, PieceOf[k])
        /\ has' = h
        /\ mtimes' = Timed(D)
        /\ \E E \in {{}} \cup {Sooner(f, D) : f \in D} : \E w \in OnPieceCompleted(o, Owner[k], D, E) :
            /\ Becomes(w, {})
            /\ resume' = SavedBy(SavedBy(resume, o.stopped, has, mtimes), w.stopped \ o.stopped, h, Timed(E))
            /\ dirty' = ((dirty \ o.stopped) \cup {Owner[k]}) \ (w.stopped \ o.stopped)
            /\ running' = running \ w.stopped

OnBlockReceived(k, o) == GotAgain(k, o) \/ GotBlock(k, o) \/ GotPiece(k, o)

\* client_got_block(): a peer sends a block, which only counts if it could be
\* written.
Receive(k, d) ==
    /\ Owner[k] \in running
    /\ k \notin has
    /\ \E o \in WriteBlock(Now, k, d) :
        \/ o.ok /\ OnBlockReceived(k, o)
        \/ ~o.ok /\ Becomes(o, {}) /\ Stops(o) /\ UNCHANGED <<has, mtimes>>
    /\ UNCHANGED <<limit, alive, checked, clock, fetched>>

\* use_fetched_blocks(), in the thread of the web client: only the blocks not had.
Fetch(k, d) ==
    /\ Owner[k] \in running
    /\ k \notin has
    /\ fetched = {}
    /\ fetched' = {<<k, d>>}
    /\ UNCHANGED <<cacheVars, running, has, checked, mtimes, dirty, resume, found, clock, tainted>>

\* Fault: nor at whether the torrent is still there.
UseFetchedFault(k, d) ==
    /\ <<k, d>> \in fetched
    /\ fetched' = fetched \ {<<k, d>>}
    /\ \E o \in WriteBlock(Now, k, d) : OnBlockReceived(k, o)
    /\ UNCHANGED <<limit, alive, checked, clock>>

\* Its closure in the session thread looks neither at what is had nor at the
\* result of the write.
UseFetched(k, d) ==
    /\ <<k, d>> \in fetched
    /\ fetched' = fetched \ {<<k, d>>}
    /\ IF Owner[k] \in alive
       THEN /\ \E o \in WriteBlock(Now, k, d) : OnBlockReceived(k, o)
            /\ UNCHANGED <<limit, alive, checked, clock>>
       ELSE UNCHANGED <<cacheVars, running, has, checked, mtimes, dirty, resume, found, clock, tainted>>

-----------------------------------------------------------------------------
(* Pieces are checked.                                                     *)

\* add_next_block() for a peer: ensure_piece_is_checked().
Upload(p) ==
    /\ TorrentOf(p) \in running
    /\ BlocksIn(p) \subseteq has
    /\ p \notin checked
    /\ dirty' = dirty \cup {TorrentOf(p)}
    /\ checked' = IF Good(Now, p) THEN checked \cup {p} ELSE checked
    /\ failed' = IF Good(Now, p) THEN failed ELSE failed \cup {TorrentOf(p)}
    /\ UNCHANGED <<cached, disk, limit, alive, running, has, mtimes, resume, found, clock, fetched, tainted>>

\* on_piece_checked(): the verify worker reads the files of a torrent that was
\* stopped, beneath the cache.
VerifyPiece(p) ==
    LET good == \A k \in BlocksIn(p) : disk[k] = "good"
        had == BlocksIn(p) \subseteq has
    IN  /\ TorrentOf(p) \in alive \ running
        /\ has' = IF good THEN has \cup BlocksIn(p) ELSE has \ BlocksIn(p)
        /\ dirty' = IF good /\ had THEN dirty ELSE dirty \cup {TorrentOf(p)}
        /\ checked' = checked \cup {p}
        \* what was read will be written over
        /\ Taint({k \in DOMAIN cached : PieceOf[k] = p})
        /\ UNCHANGED <<cacheVars, running, mtimes, resume, found, clock, fetched>>

-----------------------------------------------------------------------------
(* Torrents stop, start and leave; the session saves.                      *)

\* tr_torrentStop(), also of a torrent that does not run, or when the session is
\* closed: stop_now().  An error there stops the torrent once more, within.
Stop(t) ==
    /\ t \in alive
    /\ running' = running \ {t}
    /\ \E o \in FlushTorrent(Now, t) : Becomes(o, {})
    /\ resume' = SavedBy(resume, {t}, has, mtimes)
    /\ dirty' = dirty \ {t}
    /\ UNCHANGED <<limit, alive, has, checked, mtimes, clock, fetched>>

\* start_in_session_thread()
Start(t) ==
    /\ t \in alive \ running
    /\ running' = running \cup {t}
    /\ failed' = failed \ {t}
    /\ dirty' = dirty \cup {t}
    /\ UNCHANGED <<cached, disk, limit, alive, has, checked, mtimes, resume, found, clock, fetched, tainted>>

\* tr_torrentRemove(): the resume file goes, and what could not be flushed stays
\* in the cache.
Remove(t) ==
    /\ t \in alive
    /\ \E o \in FlushTorrent(Now, t) : Becomes(o, {})
    /\ alive' = alive \ {t}
    /\ running' = running \ {t}
    /\ has' = has \ BlocksOf(t)
    /\ checked' = checked \ PiecesOf(t)
    /\ dirty' = dirty \ {t}
    /\ mtimes' = [f \in Files |-> IF f \in FilesOf(t) THEN 0 ELSE mtimes[f]]
    /\ resume' = [resume EXCEPT ![t] = NoRecord]
    /\ UNCHANGED <<limit, clock, fetched>>

\* on_save_timer()
SaveTimer ==
    /\ dirty # {}
    /\ resume' = SavedBy(resume, dirty, has, mtimes)
    /\ dirty' = {}
    /\ UNCHANGED <<cacheVars, running, has, checked, mtimes, found, clock, fetched, tainted>>

\* set_limit(), whose result nobody looks at
SetLimit(n) ==
    /\ n # limit
    /\ limit' = n
    /\ \E o \in CacheTrim(Now, n) :
        /\ Becomes(o, {})
        /\ Stops(o)
    /\ UNCHANGED <<alive, has, checked, mtimes, clock, fetched>>

Tick ==
    /\ clock < MaxClock
    /\ clock' = clock + 1
    /\ UNCHANGED <<cacheVars, running, has, checked, mtimes, dirty, resume, found, fetched, tainted>>

\* Fault: the times of the files are not compared.
LoadCheckedPiecesFault(r, times) == r.checked

\* load_checked_pieces(): not those of files that are gone or have changed.
LoadCheckedPieces(r, times) ==
    {p \in r.checked : \A k \in BlocksIn(p) : times[FileOf[k]] # 0 /\ times[FileOf[k]] = r.mtimes[FileOf[k]]}

\* The program is killed, other programs change the files C in a later second, and
\* the torrents are loaded again.
Restart ==
    /\ cached' = [k \in {} |-> "bad"]
    /\ fetched' = {}
    /\ running' = {}
    /\ failed' = {}
    /\ dirty' = {}
    /\ \E C \in SUBSET {f \in Files : found[f] # 0 /\ clock < MaxClock} :
        /\ disk' = [k \in Blocks |-> IF FileOf[k] \in C THEN "bad" ELSE disk[k]]
        /\ clock' = IF C = {} THEN clock ELSE clock + 1
        /\ found' = [f \in Files |-> IF f \in C THEN clock' ELSE found[f]]
    /\ has' = UNION {resume[t].has : t \in alive}
    /\ checked' = UNION {LoadCheckedPieces(resume[t], found') : t \in alive}
    /\ mtimes' = found'
    /\ Taint(DOMAIN cached)   \* they were never written
    /\ UNCHANGED <<limit, alive, resume>>

Next ==
    \/ \E k \in Blocks : Receive(k, "good")
    \/ \E k \in Suspect : Receive(k, "bad")
    \/ \E k \in Suspect, d \in Late : Fetch(k, d) \/ UseFetched(k, d)
    \/ \E p \in Pieces : Upload(p) \/ VerifyPiece(p)
    \/ \E t \in Torrents : Stop(t) \/ Start(t) \/ Remove(t)
    \/ \E n \in Limits : SetLimit(n)
    \/ SaveTimer
    \/ Tick
    \/ Restart

Spec == Init /\ [][Next]_vars

-----------------------------------------------------------------------------
(* Properties.                                                             *)

Reads(k) == ReadOf(Now, k)

ArrivesLate(k) == \E d \in Late : <<k, d>> \in fetched \ fetched'
LeavesCache(k) == k \in DOMAIN cached /\ k \notin DOMAIN cached'

\* What is read of a block that is had stays what it is, whatever fails on the way
\* to the disk and whichever torrent is stopped by that (Cache::flush_span(),
\* cache_trim(), tr_ioWrite()), unless a webseed's closure writes the block once
\* more, the program dies before it was written, its file is changed meanwhile, or
\* its torrent leaves.
HadStable ==
    [][\A k \in has : Reads(k)' # Reads(k) =>
        \/ ArrivesLate(k)
        \/ Restart /\ (LeavesCache(k) \/ found'[FileOf[k]] # found[FileOf[k]])
        \/ Owner[k] \notin alive']_vars

\* The step writes new content of block k, through the cache or past it.
Rewritten(k) == \E d \in Data : (Receive(k, d) \/ UseFetched(k, d)) /\ disk'[k] = d

\* A block leaves the cache for the disk, unless newer content takes its place
\* there, the program dies or its torrent leaves (a 0 of tr_ioWrite() means that
\* the block was written, inout.h).
LeavesForDisk ==
    [][\A k \in DOMAIN cached : LeavesCache(k) =>
        disk'[k] = cached[k] \/ Rewritten(k) \/ Restart \/ Owner[k] \notin alive']_vars

\* Only good pieces are uploaded: once they are had and checked they are not looked
\* at again (ensure_piece_is_checked(), tr_resume::load()), except for those that
\* a block arrived for late, that the verify worker read beneath the cache, or that
\* were cached when the program died.
Served(p) == BlocksIn(p) \subseteq has /\ p \in checked
ServedGood == \A p \in Pieces \ tainted : Served(p) => \A k \in BlocksIn(p) : Reads(k) = "good"

\* What a torrent has is what its resume file says, or the torrent is marked to be
\* saved: by an error on the way too, that saves it between two changes
\* (on_block_received(), set_local_error_if_files_disappeared(), stop_now()).
SavedOrDirty == \A t \in alive : t \in dirty \/ resume[t].has = has \cap BlocksOf(t)
=============================================================================
