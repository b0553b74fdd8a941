------------------------------- MODULE Cache -------------------------------
(***************************************************************************)
(* The cache of blocks on their way to the disk (libtransmission/cache.cc) *)
(* and the writing of blocks to files (inout.cc, open-files.cc).  Blocks   *)
(* are numbered through all torrents, as the cache orders them.            *)
(*                                                                         *)
(* An operation may end in several ways, as the disk has it.  An operator  *)
(* here is the set of its outcomes: what is cached and on the disk then,   *)
(* which blocks were written on the way, which torrents have an error and  *)
(* were stopped by it, and whether the caller is told that all went well.  *)
(*                                                                         *)
(* Definitions called ...Fault are wrong on purpose.                       *)
(***************************************************************************)
EXTENDS Integers, FiniteSets

CONSTANTS
    Torrents,
    Blocks,      \* an interval of numbers
    Owner,       \* the torrent of each block: those of a torrent are neighbours
    FileOf,      \* the file of each block
    Limits,      \* what max_blocks_ may be set to
    MayBeShut    \* the files that, once they exist, may refuse to be opened

Files == {FileOf[k] : k \in Blocks}

\* Is the content of a block what the metainfo says?
Data == {"good", "bad"}

ASSUME CacheAssumption ==
    /\ Blocks \subseteq Nat
    /\ Owner \in [Blocks -> Torrents]
    /\ Limits \subseteq Nat

VARIABLES
    cached,      \* blocks_ of the cache: the content of some blocks
    disk,        \* the content of every block in its file
    limit,       \* max_blocks_
    alive,       \* the torrents of the session
    failed,      \* those with a local error
    found        \* when each file was last written (0: it does not exist)

Caches == UNION {[C -> Data] : C \in SUBSET Blocks}

BlocksOf(t) == {k \in Blocks : Owner[k] = t}

With(c, k, d) == [j \in DOMAIN c \cup {k} |-> IF j = k THEN d ELSE c[j]]

Now == [cached |-> cached, disk |-> disk, failed |-> failed,
        wrote |-> {}, stopped |-> {}, ok |-> TRUE]

\* What read_block() finds after o: the cache before the disk.
ReadOf(o, k) == IF k \in DOMAIN o.cached THEN o.cached[k] ELSE o.disk[k]

-----------------------------------------------------------------------------
(* tr_ioWrite()                                                            *)

\* Writes the blocks W of the cache.  Files S exist but cannot be opened: get_fd()
\* sets no error then, and what goes there counts as written.
WrittenBut(o, W, S) ==
    LET real == {k \in W : FileOf[k] \notin S}
    IN  [o EXCEPT !.disk = [k \in Blocks |-> IF k \in real THEN o.cached[k] ELSE @[k]],
                  !.wrote = @ \cup real]

Written(o, W) ==
    {WrittenBut(o, W, S) : S \in SUBSET {f \in MayBeShut : found[f] # 0 /\ \E k \in W : FileOf[k] = f}}

Erased(o, E) == [o EXCEPT !.cached = [k \in DOMAIN @ \ E |-> @[k]]]

\* A part of the blocks S, from the first on, was written before an error.
PartlyWritten(o, S) ==
    UNION {Written([o EXCEPT !.ok = FALSE], {j \in S : j < k}) : k \in S}

\* flush_span() of blocks S of one torrent that is not to be stopped.
FlushSpanQuietly(o, S) ==
    {Erased(w, S) : w \in Written(o, S)} \cup PartlyWritten(o, S)

\* The first error of a torrent stops it, which flushes its blocks again.
AfterError(o, t) ==
    IF t \in o.failed THEN {o}
    ELSE {[w EXCEPT !.ok = FALSE]
            : w \in FlushSpanQuietly([o EXCEPT !.failed = @ \cup {t}, !.stopped = @ \cup {t}],
                                     DOMAIN o.cached \cap BlocksOf(t))}

\* Some of the blocks S of torrent t could not be written.
Failure(o, t, S) == UNION {AfterError(w, t) : w \in PartlyWritten(o, S)}

-----------------------------------------------------------------------------
(* Flushing.                                                               *)

\* flush_torrent(): the blocks of a set S that are cached.
FlushSpan(o, t, S) ==
    LET C == DOMAIN o.cached \cap S
    IN  {Erased(w, C) : w \in Written(o, C)} \cup Failure(o, t, C)

FlushTorrent(o, t) == FlushSpan(o, t, BlocksOf(t))

\* flush_file() of files D of a torrent that has failed before, one after another: of the
\* blocks of each some were written, or all of them and they are erased.
FlushEach(o, t, D) ==
    LET C == {k \in DOMAIN o.cached \cap BlocksOf(t) : FileOf[k] \in D}
        Mates(k) == {j \in C : FileOf[j] = FileOf[k]}
        Heads == {W \in SUBSET C : \A k \in W : {j \in Mates(k) : j < k} \subseteq W}
        Whole(W) == {k \in W : Mates(k) \subseteq W}
    IN  UNION {{Erased([w EXCEPT !.ok = @ /\ W = C], Whole(W)) : w \in Written(o, W)} : W \in Heads}

\* The files of D that come before file f.
Sooner(f, D) == {g \in D : \E i \in Blocks : FileOf[i] = g /\ \A j \in Blocks : FileOf[j] = f => i < j}

\* flush_file() of files D, one after another.  The first error that stops the torrent
\* comes after files E, or there is none.
FlushFiles(o, t, D, E) ==
    LET Of(F) == {k \in DOMAIN o.cached \cap BlocksOf(t) : FileOf[k] \in F}
        Flush(F) == {Erased(w, Of(F)) : w \in Written(o, Of(F))}
        FailsAt(f) == UNION {Failure(w, t, Of({f})) : w \in Flush(E)}
    IN  IF t \in o.failed THEN FlushEach(o, t, D)
        ELSE Flush(D) \cup UNION {UNION {FlushEach(w, t, D \ (E \cup {f})) : w \in FailsAt(f)}
                                    : f \in {g \in D : Sooner(g, D) = E}}

\* find_span_end(): the runs of neighbours of one torrent among the blocks C.
Runs(C) ==
    {R \in {{k \in C : i <= k /\ k <= j} : i, j \in C} :
        /\ R # {}
        /\ \A i, j \in R : Owner[i] = Owner[j] /\ (i..j) \subseteq C
        /\ \A k \in C \ R : \A i \in R : (k = i + 1 \/ k = i - 1) => Owner[k] # Owner[i]}

\* find_biggest_span() prefers run Q to R.
Before(Q, R) ==
    \/ Cardinality(Q) > Cardinality(R)
    \/ Cardinality(Q) = Cardinality(R) /\ \E i \in Q : \A j \in R : i < j

\* The blocks that cache_trim() has flushed when it comes to run R.
FlushedBefore(C, R) == UNION {Q \in Runs(C) : Before(Q, R)}

\* The runs that it has to flush: until then the cache holds more than n blocks.
ToFlush(C, n) == {R \in Runs(C) : Cardinality(C \ FlushedBefore(C, R)) > n}

\* Fault: the flushed blocks are all forgotten when one could not be written.
CacheTrimFault(o, n) ==
    LET C == DOMAIN o.cached
        F == UNION ToFlush(C, n)
    IN  {Erased(w, F) : w \in Written(o, F) \cup PartlyWritten(o, F)}

\* cache_trim(): gives up at the first error.  The torrent of a run may be gone
\* since it was cached.
CacheTrim(o, n) ==
    LET C == DOMAIN o.cached
        todo == ToFlush(C, n)
        Gone(R) == \E k \in R : Owner[k] \notin alive
        Flush(F) == {Erased(w, F) : w \in Written(o, F)}
        FailsAt(R) ==
            LET first == Flush(FlushedBefore(C, R))
            IN  IF Gone(R) THEN {[w EXCEPT !.ok = FALSE] : w \in first}
                ELSE UNION {Failure(w, Owner[CHOOSE k \in R : TRUE], R) : w \in first}
    IN  IF todo = {} THEN {o}
        ELSE (IF \E R \in todo : Gone(R) THEN {} ELSE Flush(UNION todo))
             \cup UNION {FailsAt(R) : R \in {Q \in todo : \A P \in todo : Before(P, Q) => ~Gone(P)}}

-----------------------------------------------------------------------------
(* Writing.                                                                *)

\* The cache is bypassed: as if a cache of this block alone was written.
Bypass(o, k, d) ==
    LET alone == [o EXCEPT !.cached = [j \in {k} |-> d]]
    IN  {[w EXCEPT !.cached = o.cached] : w \in Written(alone, {k})}
        \cup UNION {AfterError([w EXCEPT !.cached = o.cached], Owner[k]) : w \in PartlyWritten(alone, {k})}

\* write_block() for a torrent of the session
WriteBlock(o, k, d) ==
    IF limit = 0 THEN Bypass(o, k, d)
    ELSE CacheTrim([o EXCEPT !.cached = With(@, k, d)], limit)
=============================================================================
