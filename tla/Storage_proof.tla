--------------------------- MODULE Storage_proof ---------------------------
(***************************************************************************)
(* What module Storage promises for any torrents, files, pieces and blocks *)
(* and any limits of the cache.  Whatever happens to the files: types, and *)
(* that progress is saved or marked to be saved (together Base).  Where    *)
(* files that exist can be opened: flushes change nothing that is read,    *)
(* blocks leave the cache for the disk, and only good pieces are served    *)
(* (by the inductive invariant Trust).                                     *)
(***************************************************************************)
EXTENDS Storage, TLAPS, FiniteSetTheorems

-----------------------------------------------------------------------------
(* Outcomes.                                                               *)

\* What an operation of the cache may end as.
Outcomes == [cached : Caches, disk : [Blocks -> Data], failed : SUBSET Torrents,
             wrote : SUBSET Blocks, stopped : SUBSET Torrents, ok : BOOLEAN]

\* The same is read of every block.
Same(o, q) == \A k \in Blocks : ReadOf(o, k) = ReadOf(q, k)

\* o is what may become of q when blocks are flushed: some leave the cache, and, if
\* files that exist can be opened, nothing that is read changes.
Flushed(o, q) ==
    /\ o \in Outcomes
    /\ DOMAIN o.cached \subseteq DOMAIN q.cached
    /\ MayBeShut = {} => Same(o, q)

\* Some blocks with their contents are a cache...
LEMMA CachesIntro ==
    ASSUME NEW C \in SUBSET Blocks, NEW c \in [C -> Data]
    PROVE  c \in Caches
  BY DEF Caches

\* ...and nothing else is.
LEMMA CachesElim ==
    ASSUME NEW c \in Caches
    PROVE  /\ DOMAIN c \subseteq Blocks
           /\ c \in [DOMAIN c -> Data]
  BY DEF Caches

\* The types of the parts of an outcome.
LEMMA OutcomeFields ==
    ASSUME NEW o \in Outcomes
    PROVE  /\ DOMAIN o.cached \subseteq Blocks
           /\ o.cached \in [DOMAIN o.cached -> Data]
           /\ o.cached \in Caches
           /\ o.disk \in [Blocks -> Data]
           /\ o.failed \in SUBSET Torrents
           /\ o.wrote \in SUBSET Blocks
           /\ o.stopped \in SUBSET Torrents
           /\ o.ok \in BOOLEAN
  BY CachesElim DEF Outcomes

\* Flushing twice is flushing.
LEMMA FlushedTwice ==
    ASSUME NEW q, NEW o, NEW w, Flushed(o, q), Flushed(w, o)
    PROVE  Flushed(w, q)
  BY DEF Flushed, Same

\* So is doing nothing.
LEMMA FlushedNot ==
    ASSUME NEW o \in Outcomes
    PROVE  Flushed(o, o)
  BY DEF Flushed, Same

\* Writing blocks of the cache puts them on the disk as they are cached, or, if the
\* file is shut, does nothing for them (WrittenBut).
LEMMA WrittenOutcome ==
    ASSUME NEW o \in Outcomes, NEW W \in SUBSET DOMAIN o.cached, NEW w \in Written(o, W)
    PROVE  /\ w \in Outcomes
           /\ w.cached = o.cached
           /\ \A k \in Blocks : w.disk[k] = o.disk[k] \/ (k \in W /\ w.disk[k] = o.cached[k])
           /\ MayBeShut = {} => \A k \in W : w.disk[k] = o.cached[k]
<1>1. PICK S \in SUBSET MayBeShut : w = WrittenBut(o, W, S)
  BY DEF Written
<1> DEFINE real == {k \in W : FileOf[k] \notin S}
           d == [k \in Blocks |-> IF k \in real THEN o.cached[k] ELSE o.disk[k]]
<1>2. w = [o EXCEPT !.disk = d, !.wrote = @ \cup real]
  BY <1>1 DEF WrittenBut
<1>3. d \in [Blocks -> Data] /\ real \subseteq Blocks
  BY OutcomeFields
<1>4. \A k \in Blocks : d[k] = IF k \in real THEN o.cached[k] ELSE o.disk[k]
  OBVIOUS
<1>5. real \subseteq W /\ (MayBeShut = {} => real = W)
  OBVIOUS
<1> HIDE DEF d, real
<1>6. w \in Outcomes /\ w.cached = o.cached /\ w.disk = d
  BY <1>2, <1>3 DEF Outcomes
<1>7. \A k \in W : k \in Blocks
  BY OutcomeFields
<1> QED
  BY <1>4, <1>5, <1>6, <1>7

\* Nothing that is read changes when cached blocks are written (write_contiguous()).
LEMMA WrittenFlushed ==
    ASSUME NEW o \in Outcomes, NEW W \in SUBSET DOMAIN o.cached, NEW w \in Written(o, W)
    PROVE  Flushed(w, o)
  BY WrittenOutcome DEF Flushed, Same, ReadOf

\* Erasing blocks takes them out of the cache and does nothing else.
LEMMA ErasedOutcome ==
    ASSUME NEW o \in Outcomes, NEW E
    PROVE  /\ Erased(o, E) \in Outcomes
           /\ DOMAIN Erased(o, E).cached = DOMAIN o.cached \ E
           /\ \A k \in DOMAIN o.cached \ E : Erased(o, E).cached[k] = o.cached[k]
           /\ Erased(o, E).disk = o.disk
<1> DEFINE c == [k \in DOMAIN o.cached \ E |-> o.cached[k]]
<1>1. Erased(o, E) = [o EXCEPT !.cached = c]
  BY DEF Erased
<1>2. c \in [DOMAIN o.cached \ E -> Data] /\ DOMAIN o.cached \ E \in SUBSET Blocks
  BY OutcomeFields
<1>3. c \in Caches /\ DOMAIN c = DOMAIN o.cached \ E
  <2> HIDE DEF c
  <2> QED BY <1>2, CachesIntro
<1>4. \A k \in DOMAIN o.cached \ E : c[k] = o.cached[k]
  OBVIOUS
<1> HIDE DEF c
<1> QED
  BY <1>1, <1>3, <1>4 DEF Outcomes

\* What was written may be erased (flush_span()).
LEMMA ErasedFlushed ==
    ASSUME NEW o \in Outcomes, NEW W \in SUBSET DOMAIN o.cached, NEW w \in Written(o, W)
    PROVE  Flushed(Erased(w, W), o)
<1>1. w \in Outcomes /\ w.cached = o.cached
  BY WrittenOutcome
<1>2. /\ Erased(w, W) \in Outcomes
      /\ DOMAIN Erased(w, W).cached = DOMAIN o.cached \ W
      /\ \A k \in DOMAIN o.cached \ W : Erased(w, W).cached[k] = o.cached[k]
      /\ Erased(w, W).disk = w.disk
  BY <1>1, ErasedOutcome
<1>3. /\ \A k \in Blocks : w.disk[k] = o.disk[k] \/ (k \in W /\ w.disk[k] = o.cached[k])
      /\ MayBeShut = {} => \A k \in W : w.disk[k] = o.cached[k]
  BY WrittenOutcome
<1> DEFINE e == Erased(w, W)
<1> HIDE DEF e
<1> QED
  BY <1>2, <1>3 DEF Flushed, Same, ReadOf, e

\* An error between two blocks leaves what was written, and the cache as it was.
LEMMA PartlyFlushed ==
    ASSUME NEW o \in Outcomes, NEW S \in SUBSET DOMAIN o.cached, NEW w \in PartlyWritten(o, S)
    PROVE  Flushed(w, o)
<1> DEFINE f == [o EXCEPT !.ok = FALSE]
<1>1. PICK k \in S : w \in Written(f, {j \in S : j < k})
  BY DEF PartlyWritten
<1>2. f \in Outcomes /\ f.cached = o.cached /\ f.disk = o.disk
  BY DEF Outcomes
<1>3. Flushed(f, o)
  BY <1>2 DEF Flushed, Same, ReadOf
<1>4. {j \in S : j < k} \in SUBSET DOMAIN f.cached
  BY <1>2
<1> HIDE DEF f
<1>5. Flushed(w, f)
  BY <1>1, <1>2, <1>4, WrittenFlushed
<1> QED
  BY <1>3, <1>5, FlushedTwice

\* flush_span() flushes, whatever fails.
LEMMA QuietlyFlushed ==
    ASSUME NEW o \in Outcomes, NEW S \in SUBSET DOMAIN o.cached, NEW w \in FlushSpanQuietly(o, S)
    PROVE  Flushed(w, o)
<1>1. CASE w \in PartlyWritten(o, S)
  BY <1>1, PartlyFlushed
<1>2. CASE \E v \in Written(o, S) : w = Erased(v, S)
  BY <1>2, ErasedFlushed
<1> QED
  BY <1>1, <1>2 DEF FlushSpanQuietly

\* The stop of a torrent by its first error flushes (tr_ioWrite()).
LEMMA AfterErrorFlushed ==
    ASSUME NEW o \in Outcomes, NEW t \in Torrents, NEW w \in AfterError(o, t)
    PROVE  Flushed(w, o)
<1>1. CASE t \in o.failed
  BY <1>1, FlushedNot DEF AfterError
<1>2. CASE t \notin o.failed
  <2> DEFINE f == [o EXCEPT !.failed = @ \cup {t}, !.stopped = @ \cup {t}]
             S == DOMAIN o.cached \cap BlocksOf(t)
  <2>1. PICK v \in FlushSpanQuietly(f, S) : w = [v EXCEPT !.ok = FALSE]
    BY <1>2 DEF AfterError
  <2>2. f \in Outcomes /\ f.cached = o.cached /\ f.disk = o.disk
    BY DEF Outcomes
  <2>3. Flushed(f, o)
    BY <2>2 DEF Flushed, Same, ReadOf
  <2>4. S \in SUBSET DOMAIN f.cached
    BY <2>2
  <2> HIDE DEF f, S
  <2>5. Flushed(v, f)
    BY <2>1, <2>2, <2>4, QuietlyFlushed
  <2>6. v \in Outcomes
    BY <2>5 DEF Flushed
  <2>7. w \in Outcomes /\ w.cached = v.cached /\ w.disk = v.disk
    BY <2>1, <2>6 DEF Outcomes
  <2>8. Flushed(w, v)
    BY <2>7 DEF Flushed, Same, ReadOf
  <2> QED
    BY <2>3, <2>5, <2>8, FlushedTwice
<1> QED
  BY <1>1, <1>2

\* So does a write that fails, up to the end of that stop.
LEMMA FailureFlushed ==
    ASSUME NEW o \in Outcomes, NEW t \in Torrents, NEW S \in SUBSET DOMAIN o.cached, NEW w \in Failure(o, t, S)
    PROVE  Flushed(w, o)
<1>1. PICK v \in PartlyWritten(o, S) : w \in AfterError(v, t)
  BY DEF Failure
<1>2. Flushed(v, o)
  BY <1>1, PartlyFlushed
<1>3. Flushed(w, v)
  BY <1>1, <1>2, AfterErrorFlushed DEF Flushed
<1> QED
  BY <1>2, <1>3, FlushedTwice

\* flush_span() of cached blocks flushes, with the errors on its way.
LEMMA SpanFlushed ==
    ASSUME NEW o \in Outcomes, NEW t \in Torrents, NEW S, NEW w \in FlushSpan(o, t, S)
    PROVE  Flushed(w, o)
<1> DEFINE C == DOMAIN o.cached \cap S
<1>1. C \in SUBSET DOMAIN o.cached
  OBVIOUS
<1>2. w \in Failure(o, t, C) \/ \E v \in Written(o, C) : w = Erased(v, C)
  BY DEF FlushSpan
<1> HIDE DEF C
<1>3. CASE w \in Failure(o, t, C)
  BY <1>1, <1>3, FailureFlushed
<1>4. CASE \E v \in Written(o, C) : w = Erased(v, C)
  BY <1>1, <1>4, ErasedFlushed
<1> QED
  BY <1>2, <1>3, <1>4

\* flush_torrent() flushes.
LEMMA TorrentFlushed ==
    ASSUME NEW o \in Outcomes, NEW t \in Torrents, NEW w \in FlushTorrent(o, t)
    PROVE  Flushed(w, o)
  BY SpanFlushed DEF FlushTorrent

\* What was written may be erased in part (flush_file() of several files).
LEMMA EachFlushed ==
    ASSUME NEW o \in Outcomes, NEW t \in Torrents, NEW D, NEW w \in FlushEach(o, t, D)
    PROVE  Flushed(w, o)
<1> DEFINE C == {k \in DOMAIN o.cached \cap BlocksOf(t) : FileOf[k] \in D}
           Mates(k) == {j \in C : FileOf[j] = FileOf[k]}
           Whole(W) == {k \in W : Mates(k) \subseteq W}
<1>1. PICK W \in SUBSET C : \E v \in Written(o, W) : w = Erased([v EXCEPT !.ok = @ /\ W = C], Whole(W))
  BY DEF FlushEach
<1>2. PICK v \in Written(o, W) : w = Erased([v EXCEPT !.ok = @ /\ W = C], Whole(W))
  BY <1>1
<1> DEFINE q == [v EXCEPT !.ok = @ /\ W = C]
           E == Whole(W)
<1>3. W \in SUBSET DOMAIN o.cached /\ E \subseteq W
  OBVIOUS
<1>4. w = Erased(q, E)
  BY <1>2
<1>5. v \in Outcomes /\ v.cached = o.cached
  BY <1>3, WrittenOutcome
<1>6. q \in Outcomes /\ q.cached = o.cached /\ q.disk = v.disk
  <2>1. (v.ok /\ W = C) \in BOOLEAN
    OBVIOUS
  <2> HIDE DEF C
  <2> QED BY <1>5, <2>1 DEF Outcomes
<1> HIDE DEF q, E, C
<1>7. /\ w \in Outcomes
      /\ DOMAIN w.cached = DOMAIN o.cached \ E
      /\ \A k \in DOMAIN o.cached \ E : w.cached[k] = o.cached[k]
      /\ w.disk = v.disk
  BY <1>4, <1>6, ErasedOutcome
<1>8. /\ \A k \in Blocks : v.disk[k] = o.disk[k] \/ (k \in W /\ v.disk[k] = o.cached[k])
      /\ MayBeShut = {} => \A k \in W : v.disk[k] = o.cached[k]
  BY <1>3, WrittenOutcome
<1> QED
  BY <1>3, <1>7, <1>8 DEF Flushed, Same, ReadOf

\* Files that are completed are flushed, whatever fails on the way.
LEMMA FilesFlushed ==
    ASSUME NEW o \in Outcomes, NEW t \in Torrents, NEW D, NEW E, NEW w \in FlushFiles(o, t, D, E)
    PROVE  Flushed(w, o)
<1> DEFINE Of(F) == {k \in DOMAIN o.cached \cap BlocksOf(t) : FileOf[k] \in F}
           Flush(F) == {Erased(v, Of(F)) : v \in Written(o, Of(F))}
           FailsAt(f) == UNION {Failure(v, t, Of({f})) : v \in Flush(E)}
<1>1. \A F : Of(F) \in SUBSET DOMAIN o.cached
  OBVIOUS
<1>2. t \notin o.failed => w \in Flush(D) \cup UNION {UNION {FlushEach(v, t, D \ (E \cup {f})) : v \in FailsAt(f)}
                                                 : f \in {g \in D : Sooner(g, D) = E}}
  BY DEF FlushFiles
<1>3. \A f : Sooner(f, D) = E => Of({f}) \cap Of(E) = {}
  BY CacheAssumption DEF Sooner
<1> HIDE DEF Of
<1>4. ASSUME NEW F, NEW v \in Flush(F)
      PROVE  Flushed(v, o) /\ DOMAIN v.cached = DOMAIN o.cached \ Of(F)
  <2>1. PICK u \in Written(o, Of(F)) : v = Erased(u, Of(F))
    BY <1>4
  <2>2. u \in Outcomes /\ u.cached = o.cached
    BY <1>1, WrittenOutcome
  <2> QED
    BY <1>1, <2>1, <2>2, ErasedFlushed, ErasedOutcome
<1> HIDE DEF Flush
<1>5. CASE t \in o.failed
  <2>1. w \in FlushEach(o, t, D)
    BY <1>5 DEF FlushFiles
  <2> QED BY <2>1, EachFlushed
<1>6. CASE w \in Flush(D)
  BY <1>4, <1>6
<1>7. ASSUME NEW f \in D, Sooner(f, D) = E, NEW v \in FailsAt(f), w \in FlushEach(v, t, D \ (E \cup {f}))
      PROVE  Flushed(w, o)
  <2>1. PICK u \in Flush(E) : v \in Failure(u, t, Of({f}))
    BY <1>7
  <2>2. Flushed(u, o) /\ DOMAIN u.cached = DOMAIN o.cached \ Of(E)
    BY <1>4, <2>1
  <2>3. Of({f}) \in SUBSET DOMAIN u.cached /\ u \in Outcomes
    BY <1>1, <1>3, <1>7, <2>2 DEF Flushed
  <2>4. Flushed(v, u) /\ v \in Outcomes
    BY <2>1, <2>3, FailureFlushed DEF Flushed
  <2>5. Flushed(w, v)
    BY <1>7, <2>4, EachFlushed
  <2> QED
    BY <2>2, <2>4, <2>5, FlushedTwice
<1> HIDE DEF FailsAt
<1>8. CASE t \notin o.failed
  <2>1. w \in Flush(D) \/ \E f \in D : Sooner(f, D) = E /\ \E v \in FailsAt(f) : w \in FlushEach(v, t, D \ (E \cup {f}))
    BY <1>2, <1>8
  <2> QED
    BY <1>6, <1>7, <2>1
<1> QED
  BY <1>5, <1>8

-----------------------------------------------------------------------------
(* Trimming.                                                               *)

\* find_span_end(): two runs with a block in common are the same run.
LEMMA RunsDisjoint ==
    ASSUME NEW C \in SUBSET Blocks, NEW Q \in Runs(C), NEW R \in Runs(C), NEW x \in Q, x \in R
    PROVE  Q = R
<1>1. PICK i \in C, j \in C : Q = {k \in C : i <= k /\ k <= j}
  BY DEF Runs
<1>2. PICK m \in C, n \in C : R = {k \in C : m <= k /\ k <= n}
  BY DEF Runs
<1>3. \A k \in C : k \in Int
  BY CacheAssumption
<1>4. /\ i \in Q /\ j \in Q /\ m \in R /\ n \in R
      /\ i <= x /\ x <= j /\ m <= x /\ x <= n
      /\ i \in Int /\ j \in Int /\ m \in Int /\ n \in Int /\ x \in Int
  BY <1>1, <1>2, <1>3
<1>5. /\ \A a, b \in Q : Owner[a] = Owner[b] /\ (a..b) \subseteq C
      /\ \A k \in C \ Q : \A a \in Q : (k = a + 1 \/ k = a - 1) => Owner[k] # Owner[a]
  BY DEF Runs
<1>6. /\ \A a, b \in R : Owner[a] = Owner[b] /\ (a..b) \subseteq C
      /\ \A k \in C \ R : \A a \in R : (k = a + 1 \/ k = a - 1) => Owner[k] # Owner[a]
  BY DEF Runs
<1>7. ~(j < n)
  <2> SUFFICES ASSUME j < n PROVE FALSE
    OBVIOUS
  <2>1. j + 1 \in m..n
    BY <1>3, <1>4
  <2>2. j + 1 \in C /\ j + 1 \in R
    BY <2>1, <1>2, <1>3, <1>4, <1>6
  <2>3. j + 1 \notin Q
    BY <1>1, <1>3
  <2>4. Owner[j + 1] # Owner[j]
    BY <2>2, <2>3, <1>4, <1>5
  <2>5. Owner[j + 1] = Owner[x] /\ Owner[x] = Owner[j]
    BY <2>2, <1>4, <1>5, <1>6
  <2> QED BY <2>4, <2>5
<1>8. ~(n < j)
  <2> SUFFICES ASSUME n < j PROVE FALSE
    OBVIOUS
  <2>1. n + 1 \in i..j
    BY <1>3, <1>4
  <2>2. n + 1 \in C /\ n + 1 \in Q
    BY <2>1, <1>1, <1>3, <1>4, <1>5
  <2>3. n + 1 \notin R
    BY <1>2, <1>3
  <2>4. Owner[n + 1] # Owner[n]
    BY <2>2, <2>3, <1>4, <1>6
  <2>5. Owner[n + 1] = Owner[x] /\ Owner[x] = Owner[n]
    BY <2>2, <1>4, <1>5, <1>6
  <2> QED BY <2>4, <2>5
<1>9. ~(i < m)
  <2> SUFFICES ASSUME i < m PROVE FALSE
    OBVIOUS
  <2>1. m - 1 \in i..j
    BY <1>3, <1>4
  <2>2. m - 1 \in C /\ m - 1 \in Q
    BY <2>1, <1>1, <1>3, <1>4, <1>5
  <2>3. m - 1 \notin R
    BY <1>2, <1>3
  <2>4. Owner[m - 1] # Owner[m]
    BY <2>2, <2>3, <1>4, <1>6
  <2>5. Owner[m - 1] = Owner[x] /\ Owner[x] = Owner[m]
    BY <2>2, <1>4, <1>5, <1>6
  <2> QED BY <2>4, <2>5
<1>10. ~(m < i)
  <2> SUFFICES ASSUME m < i PROVE FALSE
    OBVIOUS
  <2>1. i - 1 \in m..n
    BY <1>3, <1>4
  <2>2. i - 1 \in C /\ i - 1 \in R
    BY <2>1, <1>2, <1>3, <1>4, <1>6
  <2>3. i - 1 \notin Q
    BY <1>1, <1>3
  <2>4. Owner[i - 1] # Owner[i]
    BY <2>2, <2>3, <1>4, <1>5
  <2>5. Owner[i - 1] = Owner[x] /\ Owner[x] = Owner[i]
    BY <2>2, <1>4, <1>5, <1>6
  <2> QED BY <2>4, <2>5
<1>11. i = m /\ j = n
  BY <1>3, <1>7, <1>8, <1>9, <1>10
<1> QED
  BY <1>1, <1>2, <1>11

\* A run is some of the cached blocks, and finitely many.
LEMMA RunFinite ==
    ASSUME NEW C \in SUBSET Blocks, NEW R \in Runs(C)
    PROVE  /\ R \subseteq C
           /\ R # {}
           /\ Cardinality(R) \in Nat
<1>1. PICK i \in C, j \in C : R = {k \in C : i <= k /\ k <= j}
  BY DEF Runs
<1>2. \A k \in C : k \in Int
  BY CacheAssumption
<1>3. R \in SUBSET (i..j)
  BY <1>1, <1>2
<1>4. IsFiniteSet(i..j)
  BY <1>2, FS_Interval
<1>5. IsFiniteSet(R)
  BY <1>3, <1>4, FS_Subset
<1> QED
  BY <1>1, <1>5, FS_CardinalityType DEF Runs

\* What cache_trim() has flushed when it comes to a run is none of that run: the
\* blocks that it writes then are still in the cache.
LEMMA BeforeDisjoint ==
    ASSUME NEW C \in SUBSET Blocks, NEW R \in Runs(C)
    PROVE  /\ FlushedBefore(C, R) \subseteq C
           /\ FlushedBefore(C, R) \cap R = {}
<1>1. FlushedBefore(C, R) \subseteq C
  BY RunFinite DEF FlushedBefore
<1>2. ASSUME NEW x \in R, x \in FlushedBefore(C, R)
      PROVE  FALSE
  <2>1. PICK Q \in Runs(C) : Before(Q, R) /\ x \in Q
    BY <1>2 DEF FlushedBefore
  <2>2. Q = R
    BY <2>1, RunsDisjoint
  <2>3. R \subseteq C /\ Cardinality(R) \in Nat
    BY RunFinite
  <2>4. \A k \in R : k \in Int
    BY <2>3, CacheAssumption
  <2> QED
    BY <2>1, <2>2, <2>3, <2>4 DEF Before
<1> QED
  BY <1>1, <1>2

\* cache_trim() flushes, with the errors that end it.
LEMMA TrimFlushed ==
    ASSUME NEW o \in Outcomes, NEW n, NEW w \in CacheTrim(o, n)
    PROVE  Flushed(w, o)
<1> DEFINE C == DOMAIN o.cached
           todo == ToFlush(C, n)
           Gone(R) == \E k \in R : Owner[k] \notin alive
           Flush(F) == {Erased(v, F) : v \in Written(o, F)}
<1>1. C \in SUBSET Blocks
  BY OutcomeFields
<1>2. \A R \in todo : R \in Runs(C)
  BY DEF ToFlush
<1>3. \/ w = o
      \/ w \in Flush(UNION todo)
      \/ \E R \in todo : w \in {[v EXCEPT !.ok = FALSE] : v \in Flush(FlushedBefore(C, R))}
      \/ \E R \in todo : w \in UNION {Failure(v, Owner[CHOOSE k \in R : TRUE], R) : v \in Flush(FlushedBefore(C, R))}
  BY DEF CacheTrim
<1>4. ASSUME NEW F \in SUBSET C, NEW v \in Flush(F)
      PROVE  Flushed(v, o) /\ DOMAIN v.cached = C \ F
  BY <1>4, ErasedFlushed, ErasedOutcome, WrittenOutcome
<1>5. UNION todo \in SUBSET C
  BY <1>1, <1>2, RunFinite
<1>6. CASE w \in Flush(UNION todo)
  BY <1>4, <1>5, <1>6
<1>7. ASSUME NEW R \in todo, NEW v \in Flush(FlushedBefore(C, R)), w = [v EXCEPT !.ok = FALSE]
      PROVE  Flushed(w, o)
  <2>1. FlushedBefore(C, R) \in SUBSET C
    BY <1>1, <1>2, BeforeDisjoint
  <2>2. Flushed(v, o)
    BY <2>1, <1>4
  <2>3. w \in Outcomes /\ w.cached = v.cached /\ w.disk = v.disk
    BY <2>2, <1>7 DEF Outcomes, Flushed
  <2> QED
    BY <2>2, <2>3 DEF Flushed, Same, ReadOf
<1>8. ASSUME NEW R \in todo, NEW v \in Flush(FlushedBefore(C, R)),
             w \in Failure(v, Owner[CHOOSE k \in R : TRUE], R)
      PROVE  Flushed(w, o)
  <2>1. FlushedBefore(C, R) \in SUBSET C /\ FlushedBefore(C, R) \cap R = {} /\ R \subseteq C /\ R # {}
    BY <1>1, <1>2, BeforeDisjoint, RunFinite
  <2>2. Flushed(v, o) /\ DOMAIN v.cached = C \ FlushedBefore(C, R)
    BY <2>1, <1>4
  <2>3. R \in SUBSET DOMAIN v.cached
    BY <2>1, <2>2
  <2> DEFINE t == Owner[CHOOSE k \in R : TRUE]
  <2>4. t \in Torrents
    BY <1>1, <2>1, CacheAssumption
  <2>5. v \in Outcomes
    BY <2>2 DEF Flushed
  <2> HIDE DEF t
  <2>6. w \in Failure(v, t, R)
    BY <1>8 DEF t
  <2>7. Flushed(w, v)
    BY <2>3, <2>4, <2>5, <2>6, FailureFlushed
  <2> QED
    BY <2>2, <2>7, FlushedTwice
<1>9. CASE w = o
  BY <1>9, FlushedNot
<1> HIDE DEF C, todo, Flush
<1> QED
  BY <1>3, <1>6, <1>7, <1>8, <1>9

-----------------------------------------------------------------------------
(* Writing.                                                                *)

\* o is what may become of q when the content d is written to block k.
Wrote(o, q, k, d) ==
    /\ o \in Outcomes
    /\ DOMAIN o.cached \subseteq DOMAIN q.cached \cup {k}
    /\ MayBeShut = {} =>
        /\ \A j \in Blocks \ {k} : ReadOf(o, j) = ReadOf(q, j)
        /\ ReadOf(o, k) \in {ReadOf(q, k), d}

\* Flushing after a write leaves it a write.
LEMMA WroteThenFlushed ==
    ASSUME NEW q \in Outcomes, NEW k \in Blocks, NEW d \in Data, NEW o, NEW w, Wrote(o, q, k, d), Flushed(w, o)
    PROVE  Wrote(w, q, k, d)
  BY DEF Wrote, Flushed, Same

\* write_block() past the cache writes the block, or fails.
LEMMA BypassWrote ==
    ASSUME NEW q \in Outcomes, NEW k \in Blocks, NEW d \in Data, NEW w \in Bypass(q, k, d)
    PROVE  Wrote(w, q, k, d)
<1> DEFINE c == [j \in {k} |-> d]
           alone == [q EXCEPT !.cached = c]
<1>1. c \in Caches /\ DOMAIN c = {k} /\ c[k] = d
  <2>1. c \in [{k} -> Data] /\ DOMAIN c = {k} /\ c[k] = d
    OBVIOUS
  <2> HIDE DEF c
  <2> QED BY <2>1, CachesIntro
<1>2. \/ \E v \in Written(alone, {k}) : w = [v EXCEPT !.cached = q.cached]
      \/ \E v \in PartlyWritten(alone, {k}) : w \in AfterError([v EXCEPT !.cached = q.cached], Owner[k])
  BY DEF Bypass
<1> HIDE DEF c
<1>3. alone \in Outcomes /\ alone.cached = c /\ alone.disk = q.disk
  BY <1>1 DEF Outcomes
<1> HIDE DEF alone
<1>4. \A v \in Outcomes : /\ [v EXCEPT !.cached = q.cached] \in Outcomes
                          /\ [v EXCEPT !.cached = q.cached].cached = q.cached
                          /\ [v EXCEPT !.cached = q.cached].disk = v.disk
  BY OutcomeFields DEF Outcomes
<1>5. {k} \in SUBSET DOMAIN alone.cached
  BY <1>1, <1>3
<1>6. ASSUME NEW v \in Written(alone, {k}), w = [v EXCEPT !.cached = q.cached]
      PROVE  Wrote(w, q, k, d)
  <2>1. /\ v \in Outcomes
        /\ \A j \in Blocks : v.disk[j] = alone.disk[j] \/ (j \in {k} /\ v.disk[j] = alone.cached[j])
    BY <1>3, <1>5, WrittenOutcome
  <2>2. w \in Outcomes /\ w.cached = q.cached /\ w.disk = v.disk
    BY <1>4, <1>6, <2>1
  <2>3. \A j \in Blocks : w.disk[j] = q.disk[j] \/ (j = k /\ w.disk[j] = d)
    BY <1>1, <1>3, <2>1, <2>2
  <2> QED
    BY <2>2, <2>3 DEF Wrote, ReadOf
<1>7. ASSUME NEW v \in PartlyWritten(alone, {k}), w \in AfterError([v EXCEPT !.cached = q.cached], Owner[k])
      PROVE  Wrote(w, q, k, d)
  <2> DEFINE f == [alone EXCEPT !.ok = FALSE]
             u == [v EXCEPT !.cached = q.cached]
  <2>1. v \in Written(f, {})
    <3>1. PICK j \in {k} : v \in Written(f, {i \in {k} : i < j})
      BY <1>7 DEF PartlyWritten
    <3>2. {i \in {k} : i < j} = {}
      BY CacheAssumption
    <3> QED
      BY <3>1, <3>2
  <2>2. f \in Outcomes /\ f.disk = q.disk
    BY <1>3 DEF Outcomes
  <2> HIDE DEF f
  <2>3. v \in Outcomes /\ \A j \in Blocks : v.disk[j] = q.disk[j]
    BY <2>1, <2>2, WrittenOutcome
  <2>4. u \in Outcomes /\ u.cached = q.cached /\ u.disk = v.disk
    BY <1>4, <2>3
  <2>5. Wrote(u, q, k, d)
    BY <2>3, <2>4 DEF Wrote, ReadOf
  <2>6. Owner[k] \in Torrents
    BY CacheAssumption
  <2>7. w \in AfterError(u, Owner[k])
    BY <1>7
  <2> HIDE DEF u
  <2>8. Flushed(w, u)
    BY <2>4, <2>6, <2>7, AfterErrorFlushed
  <2> QED
    BY <2>4, <2>5, <2>8, WroteThenFlushed
<1> QED
  BY <1>2, <1>6, <1>7

\* write_block() changes what is read of no other block.
LEMMA WriteBlockWrote ==
    ASSUME NEW q \in Outcomes, NEW k \in Blocks, NEW d \in Data, NEW w \in WriteBlock(q, k, d)
    PROVE  Wrote(w, q, k, d)
<1>1. CASE limit = 0
  BY <1>1, BypassWrote DEF WriteBlock
<1>2. CASE limit # 0
  <2> DEFINE c == With(q.cached, k, d)
             u == [q EXCEPT !.cached = c]
  <2>1. w \in CacheTrim(u, limit)
    BY <1>2 DEF WriteBlock
  <2>2. /\ c \in Caches
        /\ DOMAIN c = DOMAIN q.cached \cup {k}
        /\ \A j \in DOMAIN c : c[j] = IF j = k THEN d ELSE q.cached[j]
    <3>1. c \in [DOMAIN q.cached \cup {k} -> Data]
      BY OutcomeFields DEF With
    <3>2. DOMAIN q.cached \cup {k} \in SUBSET Blocks
      BY OutcomeFields
    <3>3. DOMAIN c = DOMAIN q.cached \cup {k} /\ \A j \in DOMAIN c : c[j] = IF j = k THEN d ELSE q.cached[j]
      BY DEF With
    <3> HIDE DEF c
    <3> QED BY <3>1, <3>2, <3>3, CachesIntro
  <2> HIDE DEF c
  <2>3. u \in Outcomes /\ u.cached = c /\ u.disk = q.disk
    BY <2>2 DEF Outcomes
  <2> HIDE DEF u
  <2>4. Flushed(w, u)
    BY <2>1, <2>3, TrimFlushed
  <2>5. Wrote(u, q, k, d)
    BY <2>2, <2>3 DEF Wrote, ReadOf
  <2> QED
    BY <2>2, <2>3, <2>4, <2>5, WroteThenFlushed
<1> QED
  BY <1>1, <1>2

-----------------------------------------------------------------------------
(* Types, and what is to be saved.                                         *)

\* The resume file of a torrent speaks of its own blocks and pieces.
Own == \A t \in Torrents : resume[t].has \subseteq BlocksOf(t) /\ resume[t].checked \subseteq PiecesOf(t)

\* What holds whatever is wrong with the files.
Base == TypeOK /\ SavedOrDirty /\ Own

\* The state is an outcome.
LEMMA NowOutcome ==
    ASSUME TypeOK
    PROVE  /\ Now \in Outcomes
           /\ Now.cached = cached
           /\ Now.disk = disk
  BY DEF TypeOK, Now, Outcomes

\* The blocks of a piece are of one torrent (StorageAssumption).
LEMMA PieceOwner ==
    ASSUME NEW p \in Pieces
    PROVE  /\ TorrentOf(p) \in Torrents
           /\ BlocksIn(p) \subseteq BlocksOf(TorrentOf(p))
           /\ BlocksIn(p) # {}
<1>1. PICK k \in Blocks : p = PieceOf[k]
  BY DEF Pieces
<1>2. k \in BlocksIn(p)
  BY <1>1 DEF BlocksIn
<1> DEFINE c == CHOOSE j \in BlocksIn(p) : TRUE
<1>3. c \in BlocksIn(p)
  BY <1>2
<1>4. TorrentOf(p) = Owner[c]
  BY DEF TorrentOf
<1> HIDE DEF c
<1> QED
  BY <1>2, <1>3, <1>4, CacheAssumption, StorageAssumption DEF BlocksIn, BlocksOf

\* What save_progress() writes.
LEMMA RecordWith ==
    ASSUME TypeOK, NEW t \in Torrents, NEW h \in SUBSET Blocks, NEW m \in [Files -> Times]
    PROVE  /\ Record(t, h, m) \in Records
           /\ Record(t, h, m).has = h \cap BlocksOf(t)
           /\ Record(t, h, m).checked = checked \cap PiecesOf(t)
           /\ \A f \in Files : Record(t, h, m).mtimes[f] \in {0, m[f]}
<1> DEFINE n == [f \in Files |-> IF f \in FilesOf(t) THEN m[f] ELSE 0]
<1>1. n \in [Files -> Times] /\ \A f \in Files : n[f] \in {0, m[f]}
  BY StorageAssumption DEF Times
<1>2. Record(t, h, m) = [has |-> h \cap BlocksOf(t), checked |-> checked \cap PiecesOf(t), mtimes |-> n]
  BY DEF Record
<1>3. checked \in SUBSET Pieces
  BY DEF TypeOK
<1> HIDE DEF n
<1> QED
  BY <1>1, <1>2, <1>3 DEF Records

\* With the times of the files as they are.
LEMMA RecordType ==
    ASSUME TypeOK, NEW t \in Torrents, NEW h \in SUBSET Blocks
    PROVE  /\ Record(t, h, mtimes) \in Records
           /\ Record(t, h, mtimes).has = h \cap BlocksOf(t)
           /\ Record(t, h, mtimes).checked = checked \cap PiecesOf(t)
           /\ \A f \in Files : Record(t, h, mtimes).mtimes[f] \in {0, mtimes[f]}
<1>1. mtimes \in [Files -> Times]
  BY DEF TypeOK
<1> QED
  BY <1>1, RecordWith

\* What the resume files say once some torrents were saved.
LEMMA SavedWith ==
    ASSUME TypeOK, NEW r \in [Torrents -> Records], NEW ts, NEW h \in SUBSET Blocks, NEW m \in [Files -> Times]
    PROVE  /\ SavedBy(r, ts, h, m) \in [Torrents -> Records]
           /\ \A t \in Torrents : SavedBy(r, ts, h, m)[t] = IF t \in ts THEN Record(t, h, m) ELSE r[t]
  BY RecordWith DEF SavedBy

\* With the times of the files as they are.
LEMMA SavedType ==
    ASSUME TypeOK, NEW r \in [Torrents -> Records], NEW ts, NEW h \in SUBSET Blocks
    PROVE  /\ SavedBy(r, ts, h, mtimes) \in [Torrents -> Records]
           /\ \A t \in Torrents : SavedBy(r, ts, h, mtimes)[t] = IF t \in ts THEN Record(t, h, mtimes) ELSE r[t]
<1>1. mtimes \in [Files -> Times]
  BY DEF TypeOK
<1> QED
  BY <1>1, SavedWith

\* What the variables may be after an outcome, and how times and tainted pieces move.
LEMMA BecomesType ==
    ASSUME TypeOK, NEW o \in Outcomes, NEW K \in SUBSET Blocks, Becomes(o, K)
    PROVE  /\ cached' \in Caches
           /\ disk' \in [Blocks -> Data]
           /\ failed' \in SUBSET Torrents
           /\ found' \in [Files -> Times]
           /\ \A f \in Files : found'[f] \in {found[f], clock}
           /\ tainted' \in SUBSET Pieces
           /\ tainted' = tainted \cup {PieceOf[k] : k \in K}
<1>1. cached' = o.cached /\ disk' = o.disk /\ failed' = o.failed
  BY DEF Becomes
<1>2. tainted' = tainted \cup {PieceOf[k] : k \in K}
  BY DEF Becomes, Taint
<1>3. found' = [f \in Files |-> IF \E k \in o.wrote : FileOf[k] = f THEN clock ELSE found[f]]
  BY DEF Becomes
<1>4. found \in [Files -> Times] /\ clock \in Times /\ tainted \in SUBSET Pieces
  BY DEF TypeOK
<1> QED
  BY <1>1, <1>2, <1>3, <1>4, OutcomeFields DEF Pieces

\* An empty resume file.
LEMMA EmptyRecord ==
    /\ NoRecord \in Records /\ NoRecord.has = {} /\ NoRecord.checked = {}
    /\ NoRecord.mtimes = [f \in Files |-> 0]
<1> DEFINE m == [f \in Files |-> 0]
<1>1. 0 \in Times
  BY StorageAssumption DEF Times
<1>2. m \in [Files -> Times]
  BY <1>1
<1>3. NoRecord = [has |-> {}, checked |-> {}, mtimes |-> m]
  BY DEF NoRecord
<1> HIDE DEF m
<1>4. /\ NoRecord \in Records /\ NoRecord.has = {} /\ NoRecord.checked = {}
      /\ NoRecord.mtimes = m
  BY <1>2, <1>3 DEF Records
<1> QED
  BY <1>4 DEF m

\* It all holds of new torrents.
LEMMA InitBase == Init => Base
<1> SUFFICES ASSUME Init PROVE Base
  OBVIOUS
<1> DEFINE m == [f \in Files |-> 0]
<1>1. 0 \in Times /\ 1 \in Times
  BY StorageAssumption DEF Times
<1>2. m \in [Files -> Times]
  BY <1>1
<1>3. NoRecord \in Records /\ NoRecord.has = {} /\ NoRecord.checked = {}
  BY EmptyRecord
<1>4. resume = [t \in Torrents |-> NoRecord]
  BY DEF Init
<1>5. cached \in Caches
  <2>1. [k \in {} |-> "bad"] \in [{} -> Data]
    OBVIOUS
  <2>2. [k \in {} |-> "bad"] = cached
    BY DEF Init
  <2> QED BY <2>1, <2>2 DEF Caches
<1>6. disk \in [Blocks -> Data]
  BY DEF Init, Data
<1> HIDE DEF m
<1>7. TypeOK
  BY <1>1, <1>2, <1>3, <1>4, <1>5, <1>6 DEF TypeOK, Init, m
<1>8. SavedOrDirty /\ Own
  BY <1>3, <1>4 DEF SavedOrDirty, Own, Init
<1> QED BY <1>7, <1>8 DEF Base

\* A step that saves some torrents keeps Base if all that changes otherwise is marked.
LEMMA SavedBase ==
    ASSUME Base, TypeOK', alive' \subseteq alive,
           NEW ts, NEW h, resume' = SavedBy(resume, ts, h, mtimes), h \in SUBSET Blocks,
           \A t \in alive' : t \in dirty' \/ has' \cap BlocksOf(t) = IF t \in ts THEN h \cap BlocksOf(t) ELSE has \cap BlocksOf(t),
           \A t \in alive' : t \in dirty \ ts => t \in dirty'
    PROVE  Base'
<1>1. /\ TypeOK /\ SavedOrDirty /\ Own
      /\ resume \in [Torrents -> Records] /\ alive \subseteq Torrents /\ mtimes \in [Files -> Times]
  BY DEF Base, TypeOK
<1>2. \A t \in Torrents : resume'[t] = IF t \in ts THEN Record(t, h, mtimes) ELSE resume[t]
  BY <1>1, SavedType
<1>3. \A t \in ts \cap Torrents : resume'[t].has = h \cap BlocksOf(t) /\ resume'[t].checked = checked \cap PiecesOf(t)
  BY <1>1, <1>2, RecordType
<1>4. Own'
  BY <1>1, <1>2, <1>3 DEF Own, BlocksOf, PiecesOf
<1>5. SavedOrDirty'
  BY <1>1, <1>2, <1>3 DEF SavedOrDirty, BlocksOf
<1> QED
  BY <1>4, <1>5 DEF Base

\* So does a step that saves nothing.
LEMMA KeptBase ==
    ASSUME Base, TypeOK', alive' \subseteq alive, resume' = resume,
           \A t \in alive' : t \in dirty' \/ has' \cap BlocksOf(t) = has \cap BlocksOf(t),
           \A t \in alive' : t \in dirty => t \in dirty'
    PROVE  Base'
<1>1. TypeOK /\ SavedOrDirty /\ Own /\ alive \subseteq Torrents
  BY DEF Base, TypeOK
<1>2. Own'
  BY <1>1 DEF Own, BlocksOf, PiecesOf
<1>3. SavedOrDirty'
  BY <1>1 DEF SavedOrDirty, BlocksOf
<1> QED
  BY <1>2, <1>3 DEF Base

\* A piece that is completed is flushed, or not.
LEMMA CompletedFlushed ==
    ASSUME NEW o \in Outcomes, NEW t \in Torrents, NEW D, NEW E, NEW w \in OnPieceCompleted(o, t, D, E)
    PROVE  Flushed(w, o)
<1>1. PICK v \in {o} \cup FlushTorrent(o, t) : w \in FlushFiles(v, t, D, E)
  BY DEF OnPieceCompleted
<1>2. Flushed(v, o) /\ v \in Outcomes
  BY <1>1, TorrentFlushed, FlushedNot DEF Flushed
<1>3. Flushed(w, v)
  BY <1>1, <1>2, FilesFlushed
<1> QED
  BY <1>2, <1>3, FlushedTwice

\* on_block_received() keeps Base.
LEMMA ArrivedBase ==
    ASSUME Base, NEW k \in Blocks, NEW o \in Outcomes, OnBlockReceived(k, o), Owner[k] \in alive,
           alive' = alive, checked' = checked, clock' = clock, limit' = limit, fetched' \in SUBSET (Suspect \X Late)
    PROVE  Base'
<1>1. /\ TypeOK /\ running \subseteq alive /\ alive \subseteq Torrents /\ checked \subseteq Pieces /\ has \subseteq Blocks
      /\ dirty \subseteq alive /\ mtimes \in [Files -> Times] /\ resume \in [Torrents -> Records] /\ clock \in Times
      /\ limit \in Limits
  BY DEF Base, TypeOK
<1>2. {k} \in SUBSET Blocks /\ {} \in SUBSET Blocks /\ has \in SUBSET Blocks
  BY <1>1
<1>3. CASE GotAgain(k, o)
  <2>1. Becomes(o, {k}) /\ Stops(o) /\ has' = has /\ mtimes' = mtimes
    BY <1>3 DEF GotAgain
  <2>2. resume' = SavedBy(resume, o.stopped, has, mtimes) /\ dirty' = dirty \ o.stopped /\ running' = running \ o.stopped
    BY <2>1 DEF Stops
  <2>3. TypeOK'
    BY <1>1, <1>2, <2>1, <2>2, BecomesType, SavedType DEF TypeOK
  <2> QED
    BY <1>1, <1>2, <2>1, <2>2, <2>3, SavedBase
<1>4. CASE GotBlock(k, o)
  <2> DEFINE h == has \cup {k}
             g == IF BlocksIn(PieceOf[k]) \subseteq h THEN h \ BlocksIn(PieceOf[k]) ELSE h
  <2>1. Becomes(o, {}) /\ has' = g /\ mtimes' = mtimes
    BY <1>4 DEF GotBlock
  <2>2. /\ resume' = SavedBy(resume, o.stopped, has, mtimes)
        /\ dirty' = (dirty \ o.stopped) \cup {Owner[k]}
        /\ running' = running \ o.stopped
    BY <1>4 DEF GotBlock
  <2>3. TypeOK'
    BY <1>1, <1>2, <2>1, <2>2, BecomesType, SavedType DEF TypeOK
  <2>4. \A t \in alive : t = Owner[k] \/ has' \cap BlocksOf(t) = has \cap BlocksOf(t)
    BY <1>1, <2>1, StorageAssumption DEF BlocksIn, BlocksOf
  <2> QED
    BY <1>1, <1>2, <2>2, <2>3, <2>4, SavedBase
<1>5. CASE GotPiece(k, o)
  <2> DEFINE h == has \cup {k}
             D == FilesDone(PieceOf[k], h)
             Timed(F) == [f \in Files |-> IF f \in F THEN clock ELSE mtimes[f]]
             Ends(w, E) ==
                 /\ Becomes(w, {})
                 /\ resume' = SavedBy(SavedBy(resume, o.stopped, has, mtimes), w.stopped \ o.stopped, h, Timed(E))
                 /\ dirty' = ((dirty \ o.stopped) \cup {Owner[k]}) \ (w.stopped \ o.stopped)
                 /\ running' = running \ w.stopped
  <2>1. has' = h /\ k \notin has
    BY <1>5 DEF GotPiece
  <2>1a. PICK E \in {{}} \cup {Sooner(f, D) : f \in D} : \E w \in OnPieceCompleted(o, Owner[k], D, E) : Ends(w, E)
    BY <1>5 DEF GotPiece
  <2>2. PICK w \in OnPieceCompleted(o, Owner[k], D, E) :
            /\ Becomes(w, {})
            /\ resume' = SavedBy(SavedBy(resume, o.stopped, has, mtimes), w.stopped \ o.stopped, h, Timed(E))
            /\ dirty' = ((dirty \ o.stopped) \cup {Owner[k]}) \ (w.stopped \ o.stopped)
            /\ running' = running \ w.stopped
    BY <2>1a
  <2>3. w \in Outcomes
    <3>1. Owner[k] \in Torrents
      BY CacheAssumption
    <3> QED
      BY <3>1, CompletedFlushed DEF Flushed
  <2>4. mtimes' \in [Files -> Times] /\ Timed(E) \in [Files -> Times]
    BY <1>1, <1>5 DEF GotPiece
  <2>5. h \in SUBSET Blocks
    BY <1>1
  <2> DEFINE r == SavedBy(resume, o.stopped, has, mtimes)
             m == Timed(E)
  <2>6. r \in [Torrents -> Records] /\ \A t \in Torrents : r[t] = IF t \in o.stopped THEN Record(t, has, mtimes) ELSE resume[t]
    BY <1>1, <1>2, SavedType
  <2>7. resume' = SavedBy(r, w.stopped \ o.stopped, h, m)
    BY <2>2
  <2>7a. m \in [Files -> Times]
    BY <2>4
  <2> HIDE DEF r, m, Timed, D, Ends
  <2>8. /\ resume' \in [Torrents -> Records]
        /\ \A t \in Torrents : resume'[t] = IF t \in w.stopped \ o.stopped THEN Record(t, h, m) ELSE r[t]
    <3>1. TypeOK /\ r \in [Torrents -> Records]
      BY <1>1, <2>6
    <3> HIDE DEF h
    <3>2. resume' = [t \in Torrents |-> IF t \in w.stopped \ o.stopped THEN Record(t, h, m) ELSE r[t]]
      BY <2>7 DEF SavedBy
    <3>3. \A t \in Torrents : Record(t, h, m) \in Records
      BY <2>5, <2>7a, <3>1, RecordWith
    <3> QED
      BY <3>1, <3>2, <3>3
  <2>9. TypeOK'
    <3>1. /\ cached' \in Caches /\ disk' \in [Blocks -> Data] /\ failed' \in SUBSET Torrents
          /\ found' \in [Files -> Times] /\ tainted' \in SUBSET Pieces
      BY <1>1, <1>2, <2>2, <2>3, BecomesType
    <3>2. running' \in SUBSET alive' /\ dirty' \in SUBSET alive'
      BY <1>1, <2>2
    <3> QED
      BY <1>1, <2>1, <2>4, <2>5, <2>8, <3>1, <3>2 DEF TypeOK
  <2>10. \A t \in Torrents : /\ Record(t, has, mtimes).has = has \cap BlocksOf(t)
                             /\ Record(t, h, m).has = h \cap BlocksOf(t)
                             /\ Record(t, has, mtimes).checked \subseteq PiecesOf(t)
                             /\ Record(t, h, m).checked \subseteq PiecesOf(t)
    <3>1. ASSUME NEW t \in Torrents
          PROVE  Record(t, h, m).has = h \cap BlocksOf(t) /\ Record(t, h, m).checked \subseteq PiecesOf(t)
      <4>1. TypeOK
        BY <1>1
      <4> HIDE DEF h
      <4>2. Record(t, h, m).has = h \cap BlocksOf(t) /\ Record(t, h, m).checked = checked \cap PiecesOf(t)
        BY <2>5, <2>7a, <4>1, RecordWith
      <4> QED
        BY <4>2
    <3>2. ASSUME NEW t \in Torrents
          PROVE  Record(t, has, mtimes).has = has \cap BlocksOf(t) /\ Record(t, has, mtimes).checked \subseteq PiecesOf(t)
      BY <1>1, <1>2, RecordType
    <3> QED
      BY <3>1, <3>2
  <2>11. Own'
    <3>1. \A t \in Torrents : resume'[t].has \subseteq BlocksOf(t) /\ resume'[t].checked \subseteq PiecesOf(t)
      BY <2>6, <2>8, <2>10 DEF Base, Own
    <3> QED
      BY <3>1 DEF Own, BlocksOf, PiecesOf
  <2>12. ASSUME NEW t \in alive, t \notin dirty'
         PROVE  resume'[t].has = h \cap BlocksOf(t)
    <3>1. CASE t \in w.stopped \ o.stopped
      BY <1>1, <2>8, <2>10, <3>1
    <3>2. CASE t \notin w.stopped \ o.stopped
      <4>1. t # Owner[k] /\ resume'[t] = r[t] /\ t \notin dirty \ o.stopped
        BY <1>1, <2>2, <2>8, <2>12, <3>2
      <4>2. h \cap BlocksOf(t) = has \cap BlocksOf(t)
        BY <4>1 DEF BlocksOf
      <4> QED
        BY <1>1, <2>6, <2>10, <4>1, <4>2 DEF Base, SavedOrDirty
    <3> QED BY <3>1, <3>2
  <2>13. SavedOrDirty'
    BY <2>1, <2>12 DEF SavedOrDirty, BlocksOf
  <2> QED
    BY <2>9, <2>11, <2>13 DEF Base
<1> QED
  BY <1>3, <1>4, <1>5 DEF OnBlockReceived

\* client_got_block() keeps Base.
LEMMA ReceiveBase ==
    ASSUME Base, NEW k \in Blocks, NEW d \in Data, Receive(k, d)
    PROVE  Base'
<1>1. /\ TypeOK /\ running \subseteq alive /\ alive \subseteq Torrents /\ checked \subseteq Pieces /\ has \subseteq Blocks
      /\ dirty \subseteq alive /\ mtimes \in [Files -> Times] /\ resume \in [Torrents -> Records] /\ clock \in Times
      /\ limit \in Limits /\ fetched \in SUBSET (Suspect \X Late)
  BY DEF Base, TypeOK
<1>2. PICK o \in WriteBlock(Now, k, d) :
        \/ o.ok /\ OnBlockReceived(k, o)
        \/ ~o.ok /\ Becomes(o, {}) /\ Stops(o) /\ UNCHANGED <<has, mtimes>>
  BY DEF Receive
<1>3. Owner[k] \in running /\ UNCHANGED <<limit, alive, checked, clock, fetched>>
  BY DEF Receive
<1>4. o \in Outcomes
  BY <1>1, NowOutcome, WriteBlockWrote DEF Wrote
<1>5. CASE OnBlockReceived(k, o)
  BY <1>1, <1>3, <1>4, <1>5, ArrivedBase
<1>6. CASE Becomes(o, {}) /\ Stops(o) /\ UNCHANGED <<has, mtimes>>
  <2>1. resume' = SavedBy(resume, o.stopped, has, mtimes) /\ dirty' = dirty \ o.stopped /\ running' = running \ o.stopped
    BY <1>6 DEF Stops
  <2>2. TypeOK'
    BY <1>1, <1>3, <1>4, <1>6, <2>1, BecomesType, SavedType DEF TypeOK
  <2> QED
    BY <1>1, <1>3, <1>6, <2>1, <2>2, SavedBase
<1> QED
  BY <1>2, <1>5, <1>6

\* use_fetched_blocks() keeps Base in the web client's thread...
LEMMA FetchBase ==
    ASSUME Base, NEW k \in Suspect, NEW d \in Late, Fetch(k, d)
    PROVE  Base'
<1>1. TypeOK'
  BY DEF Base, TypeOK, Fetch, cacheVars
<1> QED
  BY <1>1, KeptBase DEF Fetch, cacheVars

\* ...and in the session thread.
LEMMA UseFetchedBase ==
    ASSUME Base, NEW k \in Suspect, NEW d \in Late, UseFetched(k, d)
    PROVE  Base'
<1>1. TypeOK /\ fetched' \in SUBSET (Suspect \X Late) /\ k \in Blocks /\ d \in Data
  BY StorageAssumption DEF Base, TypeOK, UseFetched
<1>2. CASE Owner[k] \in alive
  <2>1. PICK o \in WriteBlock(Now, k, d) : OnBlockReceived(k, o)
    BY <1>2 DEF UseFetched
  <2>2. UNCHANGED <<limit, alive, checked, clock>>
    BY <1>2 DEF UseFetched
  <2>3. o \in Outcomes
    BY <1>1, NowOutcome, WriteBlockWrote DEF Wrote
  <2> QED
    BY <1>1, <1>2, <2>1, <2>2, <2>3, ArrivedBase
<1>3. CASE Owner[k] \notin alive
  <2>1. UNCHANGED <<cacheVars, running, has, checked, mtimes, dirty, resume, found, clock, tainted>>
    BY <1>3 DEF UseFetched
  <2>2. TypeOK'
    BY <1>1, <2>1 DEF TypeOK, cacheVars
  <2> QED
    BY <2>1, <2>2, KeptBase DEF cacheVars
<1> QED
  BY <1>2, <1>3

\* ensure_piece_is_checked() keeps Base.
LEMMA UploadBase ==
    ASSUME Base, NEW p \in Pieces, Upload(p)
    PROVE  Base'
<1>1. TypeOK'
  <2>1. TypeOK /\ TorrentOf(p) \in alive /\ TorrentOf(p) \in Torrents
    BY DEF Base, TypeOK, Upload
  <2> QED
    BY <2>1 DEF TypeOK, Upload
<1> QED
  BY <1>1, KeptBase DEF Upload

\* on_piece_checked() of the verify worker keeps Base: what it changes it marks.
LEMMA VerifyPieceBase ==
    ASSUME Base, NEW p \in Pieces, VerifyPiece(p)
    PROVE  Base'
<1> DEFINE good == \A k \in BlocksIn(p) : disk[k] = "good"
           had == BlocksIn(p) \subseteq has
<1>1. /\ TorrentOf(p) \in alive
      /\ has' = IF good THEN has \cup BlocksIn(p) ELSE has \ BlocksIn(p)
      /\ dirty' = IF good /\ had THEN dirty ELSE dirty \cup {TorrentOf(p)}
      /\ checked' = checked \cup {p}
      /\ tainted' = tainted \cup {PieceOf[k] : k \in {j \in DOMAIN cached : PieceOf[j] = p}}
      /\ UNCHANGED <<cacheVars, running, mtimes, resume, found, clock, fetched>>
  BY DEF VerifyPiece, Taint
<1> HIDE DEF good
<1>2. TypeOK /\ BlocksIn(p) \subseteq Blocks
  BY DEF Base, BlocksIn
<1>3. TypeOK'
  <2>1. tainted' \in SUBSET Pieces
    BY <1>1, <1>2 DEF TypeOK
  <2> QED
    BY <1>1, <1>2, <2>1 DEF TypeOK, cacheVars
<1>4. \A t \in alive : t = TorrentOf(p) \/ has' \cap BlocksOf(t) = has \cap BlocksOf(t)
  BY <1>1, PieceOwner DEF BlocksOf
<1>5. TorrentOf(p) \in dirty' \/ has' = has
  BY <1>1
<1> QED
  BY <1>1, <1>3, <1>4, <1>5, KeptBase DEF cacheVars

\* stop_now() keeps Base.
LEMMA StopBase ==
    ASSUME Base, NEW t \in Torrents, Stop(t)
    PROVE  Base'
<1>1. TypeOK
  BY DEF Base
<1>2. PICK o \in FlushTorrent(Now, t) : Becomes(o, {})
  BY DEF Stop
<1>3. o \in Outcomes
  BY <1>1, <1>2, NowOutcome, TorrentFlushed DEF Flushed
<1>4. TypeOK'
  BY <1>1, <1>2, <1>3, BecomesType, SavedType DEF TypeOK, Stop
<1> QED
  BY <1>1, <1>4, SavedBase DEF Stop, TypeOK

\* start_in_session_thread() keeps Base.
LEMMA StartBase ==
    ASSUME Base, NEW t \in Torrents, Start(t)
    PROVE  Base'
<1>1. TypeOK'
  BY DEF Base, TypeOK, Start
<1> QED
  BY <1>1, KeptBase DEF Start

\* A removal keeps Base: what others have is not touched.
LEMMA RemoveBase ==
    ASSUME Base, NEW t \in Torrents, Remove(t)
    PROVE  Base'
<1>1. TypeOK
  BY DEF Base
<1>2. PICK o \in FlushTorrent(Now, t) : Becomes(o, {})
  BY DEF Remove
<1>3. o \in Outcomes
  BY <1>1, <1>2, NowOutcome, TorrentFlushed DEF Flushed
<1>4. NoRecord \in Records /\ NoRecord.has = {} /\ NoRecord.checked = {}
  BY EmptyRecord
<1>5. resume' \in [Torrents -> Records] /\ \A s \in Torrents : resume'[s] = IF s = t THEN NoRecord ELSE resume[s]
  BY <1>1, <1>4 DEF TypeOK, Remove
<1>6. mtimes' \in [Files -> Times]
  BY <1>1, StorageAssumption DEF TypeOK, Remove, Times
<1>7. TypeOK'
  BY <1>1, <1>2, <1>3, <1>5, <1>6, BecomesType DEF TypeOK, Remove
<1>8. Own'
  BY <1>4, <1>5 DEF Base, Own, BlocksOf, PiecesOf
<1>9. SavedOrDirty'
  <2>1. \A s \in alive' : s # t /\ s \in alive /\ s \in Torrents /\ (s \in dirty => s \in dirty')
    BY <1>1 DEF Remove, TypeOK
  <2>2. \A s \in alive' : has' \cap BlocksOf(s) = has \cap BlocksOf(s)
    BY <2>1 DEF Remove, BlocksOf
  <2> QED
    BY <1>5, <2>1, <2>2 DEF Base, SavedOrDirty, BlocksOf
<1> QED
  BY <1>7, <1>8, <1>9 DEF Base

\* on_save_timer() keeps Base.
LEMMA SaveTimerBase ==
    ASSUME Base, SaveTimer
    PROVE  Base'
<1>1. TypeOK
  BY DEF Base
<1>2. TypeOK'
  BY <1>1, SavedType DEF TypeOK, SaveTimer, cacheVars
<1> QED
  BY <1>1, <1>2, SavedBase DEF SaveTimer, cacheVars, TypeOK

\* set_limit() keeps Base.
LEMMA SetLimitBase ==
    ASSUME Base, NEW n \in Limits, SetLimit(n)
    PROVE  Base'
<1>1. TypeOK
  BY DEF Base
<1>2. PICK o \in CacheTrim(Now, n) : Becomes(o, {}) /\ Stops(o)
  BY DEF SetLimit
<1>3. o \in Outcomes
  BY <1>1, <1>2, NowOutcome, TrimFlushed DEF Flushed
<1>4. resume' = SavedBy(resume, o.stopped, has, mtimes) /\ dirty' = dirty \ o.stopped /\ running' = running \ o.stopped
  BY <1>2 DEF Stops
<1>5. TypeOK'
  BY <1>1, <1>2, <1>3, <1>4, BecomesType, SavedType DEF TypeOK, SetLimit
<1> QED
  BY <1>1, <1>4, <1>5, SavedBase DEF SetLimit, TypeOK

\* Time keeps Base.
LEMMA TickBase ==
    ASSUME Base, Tick
    PROVE  Base'
<1>1. TypeOK'
  BY StorageAssumption DEF Base, TypeOK, Tick, cacheVars, Times
<1> QED
  BY <1>1, KeptBase DEF Tick, cacheVars

\* What a restart finds of the files.
LEMMA RestartFacts ==
    ASSUME TypeOK, Restart
    PROVE  \E C \in SUBSET {f \in Files : found[f] # 0 /\ clock < MaxClock} :
             /\ disk' = [k \in Blocks |-> IF FileOf[k] \in C THEN "bad" ELSE disk[k]]
             /\ clock' = IF C = {} THEN clock ELSE clock + 1
             /\ clock' \in Times
             /\ found' \in [Files -> Times]
             /\ \A f \in Files : found'[f] = IF f \in C THEN clock + 1 ELSE found[f]
<1>1. PICK C \in SUBSET {f \in Files : found[f] # 0 /\ clock < MaxClock} :
             /\ disk' = [k \in Blocks |-> IF FileOf[k] \in C THEN "bad" ELSE disk[k]]
             /\ clock' = IF C = {} THEN clock ELSE clock + 1
             /\ found' = [f \in Files |-> IF f \in C THEN clock' ELSE found[f]]
  BY DEF Restart
<1>2. clock' \in Times
  BY <1>1, StorageAssumption DEF TypeOK, Times
<1> QED
  BY <1>1, <1>2 DEF TypeOK

\* A restart keeps Base: each torrent has what its resume file says.
LEMMA RestartBase ==
    ASSUME Base, Restart
    PROVE  Base'
<1>1. TypeOK /\ Own /\ alive \subseteq Torrents /\ resume \in [Torrents -> Records]
  BY DEF Base, TypeOK
<1>2. /\ clock' \in Times
      /\ found' \in [Files -> Times]
      /\ disk' \in [Blocks -> Data]
  BY <1>1, RestartFacts DEF TypeOK, Data
<1>3. \A t \in Torrents : resume[t].has \subseteq Blocks /\ resume[t].checked \subseteq Pieces
  BY <1>1 DEF Records
<1>4. cached' \in Caches
  <2>1. [k \in {} |-> "bad"] \in [{} -> Data]
    OBVIOUS
  <2>2. [k \in {} |-> "bad"] = cached'
    BY DEF Restart
  <2> QED BY <2>1, <2>2 DEF Caches
<1>5. has' \subseteq Blocks
  BY <1>1, <1>3 DEF Restart
<1>6. checked' \subseteq Pieces
  BY <1>1, <1>3 DEF Restart, LoadCheckedPieces
<1>7. tainted' \subseteq Pieces
  <2>1. tainted' = tainted \cup {PieceOf[k] : k \in DOMAIN cached}
    BY DEF Restart, Taint
  <2>2. DOMAIN cached \subseteq Blocks
    BY <1>1, CachesElim DEF TypeOK
  <2> QED BY <1>1, <2>1, <2>2 DEF TypeOK, Pieces
<1>8. mtimes' = found' /\ UNCHANGED <<limit, alive, resume>> /\ fetched' = {} /\ running' = {} /\ failed' = {} /\ dirty' = {}
  BY DEF Restart
<1>9. TypeOK'
  BY <1>1, <1>2, <1>4, <1>5, <1>6, <1>7, <1>8 DEF TypeOK
<1>10. Own'
  BY <1>1, <1>8 DEF Own, BlocksOf, PiecesOf
<1>11. ASSUME NEW t \in alive
       PROVE  resume[t].has = has' \cap BlocksOf(t)
  <2>1. has' = UNION {resume[s].has : s \in alive}
    BY DEF Restart
  <2>2. resume[t].has \subseteq BlocksOf(t)
    BY <1>1 DEF Own
  <2>3. ASSUME NEW k \in has' \cap BlocksOf(t)
        PROVE  k \in resume[t].has
    <3>1. PICK s \in alive : k \in resume[s].has
      BY <2>1
    <3>2. k \in BlocksOf(s)
      BY <1>1, <3>1 DEF Own
    <3> QED
      BY <3>1, <3>2 DEF BlocksOf
  <2> QED
    BY <2>1, <2>2, <2>3
<1>12. SavedOrDirty'
  BY <1>8, <1>11 DEF SavedOrDirty, BlocksOf
<1> QED
  BY <1>9, <1>10, <1>12 DEF Base

\* Nothing happens.
LEMMA StutterBase ==
    ASSUME Base, UNCHANGED vars
    PROVE  Base'
<1>1. TypeOK'
  BY DEF Base, TypeOK, vars, cacheVars
<1> QED
  BY <1>1, KeptBase DEF vars, cacheVars

\* Every step keeps Base.
LEMMA StepBase == Base /\ [Next]_vars => Base'
<1> SUFFICES ASSUME Base, [Next]_vars PROVE Base'
  OBVIOUS
<1>1. "good" \in Data /\ "bad" \in Data /\ Suspect \subseteq Blocks
  BY StorageAssumption DEF Data
<1>2. CASE UNCHANGED vars
  BY <1>2, StutterBase
<1>3. CASE Next
  BY <1>1, <1>3, ReceiveBase, FetchBase, UseFetchedBase, UploadBase, VerifyPieceBase, StopBase, StartBase,
     RemoveBase, SetLimitBase, SaveTimerBase, TickBase, RestartBase DEF Next
<1> QED
  BY <1>2, <1>3

\* Base is an inductive invariant: the types, what is saved or marked to be saved,
\* and that a resume file speaks of its own torrent.
THEOREM BaseInvariance == Spec => []Base
  BY InitBase, StepBase, PTL DEF Spec

\* Every variable keeps its type.
THEOREM TypeCorrect == Spec => []TypeOK
  BY BaseInvariance, PTL DEF Base

\* What a torrent has is in its resume file or the torrent is marked to be saved,
\* whatever fails in on_block_received(), stop_now() and cache_trim(), for any
\* torrents, files and blocks, shut files included.
THEOREM ProgressIsSaved == Spec => []SavedOrDirty
  BY BaseInvariance, PTL DEF Base

-----------------------------------------------------------------------------
(* What is read.                                                           *)

\* No file was written in the future, and no resume file says so.
Past ==
    \A f \in Files :
        /\ mtimes[f] <= clock
        /\ found[f] <= clock
        /\ \A t \in Torrents : resume[t].mtimes[f] <= clock

\* Piece p is had, and good.
Fine(p) == \A k \in BlocksIn(p) : k \in has /\ Reads(k) = "good"

\* load_checked_pieces() will not believe the resume file of t of piece p: a file of
\* it did not exist when it was saved, or was written after.
Unloadable(t, p) ==
    \E k \in BlocksIn(p) : \/ resume[t].mtimes[FileOf[k]] = 0
                           \/ found[FileOf[k]] > resume[t].mtimes[FileOf[k]]

\* The resume file of t says that piece p is had and checked.
Recorded(t, p) == p \in resume[t].checked /\ BlocksIn(p) \subseteq resume[t].has

\* What a resume file says of a piece is so, or will not be believed.
StillGood == \A t \in alive : \A p \in Pieces \ tainted : Recorded(t, p) => Unloadable(t, p) \/ Fine(p)

\* The inductive invariant behind ServedGood: what is served now and what may be
\* served after a restart.
Trust == Base /\ Past /\ ServedGood /\ StillGood

\* What a step other than a restart does to the times and the resume files.
TimePasses ==
    /\ clock <= clock'
    /\ tainted \subseteq tainted'
    /\ alive' \subseteq alive
    /\ \A f \in Files : mtimes'[f] \in {0, mtimes[f], clock} /\ found'[f] \in {found[f], clock}
    /\ \A t \in Torrents : \/ resume'[t] = resume[t]
                           \/ t \notin alive' /\ \A f \in Files : resume'[t].mtimes[f] = 0
                           \/ resume'[t] = Record(t, has, mtimes)
                           \/ /\ checked' = checked
                              /\ \E m \in [Files -> Times] : /\ resume'[t] = Record(t, has', m)
                                                            /\ \A f \in Files : m[f] \in {mtimes[f], clock}

\* Times are numbers.
LEMMA Numbers ==
    ASSUME TypeOK
    PROVE  /\ clock \in Nat
           /\ \A f \in Files : mtimes[f] \in Nat /\ found[f] \in Nat
           /\ \A t \in Torrents : \A f \in Files : resume[t].mtimes[f] \in Nat
           /\ \A t \in Torrents : resume[t] \in Records
           /\ has \in SUBSET Blocks
           /\ alive \subseteq Torrents
<1>1. Times \subseteq Nat
  BY StorageAssumption DEF Times
<1>2. /\ resume \in [Torrents -> Records]
      /\ mtimes \in [Files -> Times]
      /\ found \in [Files -> Times]
      /\ clock \in Times
      /\ has \in SUBSET Blocks
      /\ alive \subseteq Torrents
  BY DEF TypeOK
<1>3. \A r \in Records : \A f \in Files : r.mtimes[f] \in Times
  BY DEF Records
<1> QED
  BY <1>1, <1>2, <1>3

\* The file of a block is a file.
LEMMA FilesKnown == ASSUME NEW k \in Blocks PROVE FileOf[k] \in Files
  BY DEF Files

\* A step other than a restart keeps Past.
LEMMA PastKept ==
    ASSUME Base, Base', Past, TimePasses
    PROVE  Past'
<1>1. TypeOK /\ TypeOK'
  BY DEF Base
<1>2. clock' \in Nat
  BY <1>1, StorageAssumption DEF TypeOK, Times
<1>3. clock \in Nat /\ clock <= clock'
  BY <1>1, Numbers DEF TimePasses
<1>4. /\ \A f \in Files : mtimes[f] <= clock /\ found[f] <= clock
      /\ \A t \in Torrents : \A f \in Files : resume[t].mtimes[f] <= clock
      /\ \A t \in Torrents : \A f \in Files : resume[t].mtimes[f] \in Nat
      /\ \A f \in Files : mtimes[f] \in Nat /\ found[f] \in Nat
  BY <1>1, Numbers DEF Past
<1>5. has \in SUBSET Blocks /\ has' \in SUBSET Blocks
  BY <1>1 DEF TypeOK
<1>6. ASSUME NEW f \in Files
      PROVE  mtimes'[f] <= clock' /\ found'[f] <= clock'
  BY <1>2, <1>3, <1>4 DEF TimePasses
<1>7. ASSUME NEW t \in Torrents, NEW f \in Files
      PROVE  resume'[t].mtimes[f] <= clock'
  <2>1. mtimes \in [Files -> Times]
    BY <1>1 DEF TypeOK
  <2>2. resume'[t].mtimes[f] \in {0, mtimes[f], clock, resume[t].mtimes[f]}
    <3>1. CASE resume'[t] = resume[t]
      BY <3>1
    <3>2. CASE resume'[t] = Record(t, has, mtimes)
      BY <1>1, <1>5, <3>2, RecordType
    <3>3. ASSUME NEW m \in [Files -> Times], resume'[t] = Record(t, has', m), m[f] \in {mtimes[f], clock}
          PROVE  resume'[t].mtimes[f] \in {0, mtimes[f], clock}
      <4>1. TypeOK /\ has' \in SUBSET Blocks
        BY <1>1, <1>5
      <4>2. Record(t, has', m).mtimes[f] \in {0, m[f]}
        BY <4>1, RecordWith
      <4> QED
        BY <3>3, <4>2
    <3>4. CASE \A g \in Files : resume'[t].mtimes[g] = 0
      BY <3>4
    <3> QED
      BY <3>1, <3>2, <3>3, <3>4 DEF TimePasses
  <2> QED
    BY <1>2, <1>3, <1>4, <2>2
<1> QED
  BY <1>6, <1>7 DEF Past

\* Such a step keeps Trust if no fine piece is spoilt by it, and those that it lets
\* be served are fine.
LEMMA TrustKept ==
    ASSUME Trust, Base', TimePasses,
           \A p \in Pieces \ tainted' : Fine(p) =>
               /\ \A k \in BlocksIn(p) : Reads(k)' = "good"
               /\ TorrentOf(p) \in alive' => BlocksIn(p) \subseteq has',
           \A p \in Pieces \ tainted' : BlocksIn(p) \subseteq has' /\ p \in checked' =>
               \/ Served(p)
               \/ \A k \in BlocksIn(p) : Reads(k)' = "good"
    PROVE  Trust'
<1>1. Base /\ Past /\ ServedGood /\ StillGood /\ TypeOK /\ TypeOK' /\ Own /\ Own'
  BY DEF Trust, Base
<1>2. Past'
  BY <1>1, PastKept
<1>3. \A p \in Pieces \ tainted : Served(p) => Fine(p)
  BY <1>1 DEF ServedGood, Served, Fine
<1>4. Pieces \ tainted' \subseteq Pieces \ tainted
  BY DEF TimePasses
<1>5. ASSUME NEW p \in Pieces \ tainted', BlocksIn(p) \subseteq has', p \in checked'
      PROVE  \A k \in BlocksIn(p) : Reads(k)' = "good"
  BY <1>3, <1>4, <1>5
<1>6. ServedGood'
  BY <1>5 DEF ServedGood, Served, Pieces, BlocksIn
<1>7. ASSUME NEW t \in alive', NEW p \in Pieces \ tainted',
             p \in resume'[t].checked, BlocksIn(p) \subseteq resume'[t].has
      PROVE  \/ \E k \in BlocksIn(p) : \/ resume'[t].mtimes[FileOf[k]] = 0
                                       \/ found'[FileOf[k]] > resume'[t].mtimes[FileOf[k]]
             \/ \A k \in BlocksIn(p) : k \in has' /\ Reads(k)' = "good"
  <2>1. t \in alive /\ t \in Torrents
    BY <1>1 DEF TypeOK, TimePasses
  <2>2. TorrentOf(p) = t
    <3>1. resume'[t].checked \subseteq PiecesOf(t)
      BY <1>1, <2>1 DEF Own, PiecesOf, BlocksOf
    <3>2. PICK k \in BlocksOf(t) : p = PieceOf[k]
      BY <1>7, <3>1 DEF PiecesOf
    <3>3. k \in BlocksIn(p) /\ Owner[k] = t
      BY <3>2 DEF BlocksIn, BlocksOf
    <3> QED
      BY <3>3, PieceOwner DEF BlocksOf
  <2>3. CASE Fine(p)
    BY <1>7, <2>2, <2>3 DEF BlocksIn
  <2>4. CASE resume'[t] = resume[t]
    <3>1. CASE Unloadable(t, p)
      <4>1. PICK k \in BlocksIn(p) : \/ resume[t].mtimes[FileOf[k]] = 0
                                     \/ found[FileOf[k]] > resume[t].mtimes[FileOf[k]]
        BY <3>1 DEF Unloadable
      <4>2. FileOf[k] \in Files
        BY FilesKnown DEF BlocksIn
      <4>3. found[FileOf[k]] \in Nat /\ found'[FileOf[k]] \in Nat /\ resume[t].mtimes[FileOf[k]] \in Nat
        BY <1>1, <2>1, <4>2, Numbers DEF TypeOK, Times
      <4>4. found[FileOf[k]] <= found'[FileOf[k]]
        <5>1. found[FileOf[k]] <= clock /\ clock \in Nat
          BY <1>1, <4>2, Numbers DEF Past
        <5> QED
          BY <4>2, <4>3, <5>1 DEF TimePasses
      <4> QED
        BY <2>4, <4>1, <4>3, <4>4
    <3>2. CASE ~Unloadable(t, p)
      <4>1. Recorded(t, p)
        BY <1>7, <2>4 DEF Recorded
      <4> QED
        BY <1>1, <1>4, <2>1, <2>3, <3>2, <4>1 DEF StillGood
    <3> QED BY <3>1, <3>2
  <2>5. CASE resume'[t] = Record(t, has, mtimes)
    <3>1. has \in SUBSET Blocks /\ mtimes \in [Files -> Times]
      BY <1>1 DEF TypeOK
    <3>2. p \in checked /\ BlocksIn(p) \subseteq has
      BY <1>7, <1>1, <2>1, <2>5, <3>1, RecordType
    <3> QED
      BY <1>3, <1>4, <2>3, <3>2 DEF Served
  <2>6. ASSUME NEW m \in [Files -> Times], resume'[t] = Record(t, has', m), checked' = checked
        PROVE  \A k \in BlocksIn(p) : k \in has' /\ Reads(k)' = "good"
    <3>1. has' \in SUBSET Blocks
      BY <1>1 DEF TypeOK
    <3>2. p \in checked' /\ BlocksIn(p) \subseteq has'
      BY <1>1, <1>7, <2>1, <2>6, <3>1, RecordWith
    <3> QED
      BY <1>5, <3>2
  <2> QED
    BY <2>1, <2>4, <2>5, <2>6 DEF TimePasses
<1>8. StillGood'
  BY <1>7 DEF StillGood, Recorded, Unloadable, Fine, Pieces, BlocksIn
<1> QED
  BY <1>2, <1>6, <1>8 DEF Trust

\* What is read after an outcome is what the outcome has.
LEMMA BecomesReads ==
    ASSUME NEW o, NEW K, NEW k, Becomes(o, K)
    PROVE  Reads(k)' = ReadOf(o, k)
  BY DEF Becomes, Reads, ReadOf, Now

\* What a torrent that is saved records.
LEMMA SavedTimes ==
    ASSUME TypeOK, NEW ts, resume' = SavedBy(resume, ts, has, mtimes)
    PROVE  \A t \in Torrents : resume'[t] = resume[t] \/ resume'[t] = Record(t, has, mtimes)
<1>1. resume \in [Torrents -> Records] /\ has \in SUBSET Blocks /\ mtimes \in [Files -> Times]
  BY DEF TypeOK
<1> QED
  BY <1>1, SavedType

\* The block that comes was not had: no fine piece has it.
LEMMA ArrivedTrust ==
    ASSUME MayBeShut = {}, Trust, Base', NEW k \in Blocks, NEW d \in Data, NEW o, Wrote(o, Now, k, d),
           OnBlockReceived(k, o), alive' = alive, checked' = checked, clock' = clock
    PROVE  Trust'
<1>1. Base /\ TypeOK /\ clock \in Nat /\ o \in Outcomes
  BY Numbers DEF Trust, Base, Wrote
<1>2. \A j \in Blocks \ {k} : ReadOf(o, j) = Reads(j)
  BY DEF Wrote, Reads
<1>3. {k} \in SUBSET Blocks /\ {} \in SUBSET Blocks
  OBVIOUS
<1>4. ASSUME NEW p \in Pieces \ tainted', Fine(p), k \notin BlocksIn(p)
      PROVE  \A j \in BlocksIn(p) : ReadOf(o, j) = "good"
  BY <1>2, <1>4 DEF Fine, BlocksIn
<1>5. CASE GotAgain(k, o)
  <2>1. Becomes(o, {k}) /\ Stops(o) /\ has' = has /\ mtimes' = mtimes
    BY <1>5 DEF GotAgain
  <2>2. /\ \A f \in Files : found'[f] \in {found[f], clock}
        /\ tainted' = tainted \cup {PieceOf[k]}
    BY <1>1, <1>3, <2>1, BecomesType
  <2>3. TimePasses
    BY <1>1, <2>1, <2>2, SavedTimes DEF TimePasses, Stops
  <2>4. \A p \in Pieces \ tainted' : k \notin BlocksIn(p)
    BY <2>2 DEF BlocksIn
  <2>5. \A p \in Pieces \ tainted' : Fine(p) =>
          /\ \A j \in BlocksIn(p) : Reads(j)' = "good"
          /\ TorrentOf(p) \in alive' => BlocksIn(p) \subseteq has'
    BY <1>4, <2>1, <2>4, BecomesReads DEF Fine
  <2> QED
    BY <2>1, <2>3, <2>5, TrustKept DEF Served
<1>6. CASE GotBlock(k, o)
  <2> DEFINE h == has \cup {k}
             complete == BlocksIn(PieceOf[k]) \subseteq h
  <2>1. /\ Becomes(o, {}) /\ mtimes' = mtimes /\ k \notin has
        /\ has' = IF complete THEN h \ BlocksIn(PieceOf[k]) ELSE h
        /\ resume' = SavedBy(resume, o.stopped, has, mtimes)
    BY <1>6 DEF GotBlock
  <2>2. /\ \A f \in Files : found'[f] \in {found[f], clock}
        /\ tainted' = tainted
    BY <1>1, <1>3, <2>1, BecomesType
  <2>3. TimePasses
    BY <1>1, <2>1, <2>2, SavedTimes DEF TimePasses
  <2>4. k \in BlocksIn(PieceOf[k])
    BY DEF BlocksIn
  <2>5. \A p \in Pieces : p # PieceOf[k] => k \notin BlocksIn(p) /\ BlocksIn(p) \cap has' = BlocksIn(p) \cap has
    BY <2>1 DEF BlocksIn
  <2>6. ASSUME NEW p \in Pieces \ tainted', Fine(p)
        PROVE  /\ \A j \in BlocksIn(p) : Reads(j)' = "good"
               /\ BlocksIn(p) \subseteq has'
    <3>1. k \notin BlocksIn(p) /\ p # PieceOf[k]
      BY <2>1, <2>4, <2>6 DEF Fine
    <3>2. BlocksIn(p) \subseteq has
      BY <2>6 DEF Fine
    <3> QED
      BY <1>4, <2>1, <2>5, <2>6, <3>1, <3>2, BecomesReads
  <2>7. ~(BlocksIn(PieceOf[k]) \subseteq has')
    BY <2>1, <2>4
  <2>8. ASSUME NEW p \in Pieces \ tainted', BlocksIn(p) \subseteq has', p \in checked'
        PROVE  Served(p)
    BY <2>5, <2>7, <2>8 DEF Served
  <2> QED
    BY <2>3, <2>6, <2>8, TrustKept
<1>7. CASE GotPiece(k, o)
  <2> DEFINE h == has \cup {k}
             D == FilesDone(PieceOf[k], h)
             Timed(F) == [f \in Files |-> IF f \in F THEN clock ELSE mtimes[f]]
             Ends(w, E) ==
                 /\ Becomes(w, {})
                 /\ resume' = SavedBy(SavedBy(resume, o.stopped, has, mtimes), w.stopped \ o.stopped, h, Timed(E))
                 /\ dirty' = ((dirty \ o.stopped) \cup {Owner[k]}) \ (w.stopped \ o.stopped)
                 /\ running' = running \ w.stopped
  <2>1. has' = h /\ k \notin has /\ Good(o, PieceOf[k])
    BY <1>7 DEF GotPiece
  <2>1a. PICK E \in {{}} \cup {Sooner(f, D) : f \in D} : \E w \in OnPieceCompleted(o, Owner[k], D, E) : Ends(w, E)
    BY <1>7 DEF GotPiece
  <2>2. PICK w \in OnPieceCompleted(o, Owner[k], D, E) :
            /\ Becomes(w, {})
            /\ resume' = SavedBy(SavedBy(resume, o.stopped, has, mtimes), w.stopped \ o.stopped, h, Timed(E))
    BY <2>1a
  <2>3. w \in Outcomes /\ \A j \in Blocks : ReadOf(w, j) = ReadOf(o, j)
    <3>1. Owner[k] \in Torrents
      BY CacheAssumption
    <3> QED
      BY <1>1, <3>1, CompletedFlushed DEF Flushed, Same
  <2>4. \A f \in Files : mtimes'[f] \in {mtimes[f], clock}
    <3>1. mtimes \in [Files -> Times]
      BY <1>1 DEF TypeOK
    <3> QED
      BY <1>7, <3>1 DEF GotPiece
  <2>5. /\ \A f \in Files : found'[f] \in {found[f], clock}
        /\ tainted' = tainted
    BY <1>1, <1>3, <2>2, <2>3, BecomesType
  <2> DEFINE r == SavedBy(resume, o.stopped, has, mtimes)
             m == Timed(E)
  <2>6. /\ has \in SUBSET Blocks /\ h \in SUBSET Blocks /\ resume \in [Torrents -> Records]
        /\ mtimes \in [Files -> Times] /\ clock \in Times
    BY <1>1 DEF TypeOK
  <2>7. r \in [Torrents -> Records] /\ \A t \in Torrents : r[t] = resume[t] \/ r[t] = Record(t, has, mtimes)
    BY <1>1, <2>6, SavedType
  <2>8. resume' = SavedBy(r, w.stopped \ o.stopped, h, m)
    BY <2>2
  <2>7a. m \in [Files -> Times] /\ \A f \in Files : m[f] \in {mtimes[f], clock}
    BY <2>6
  <2> HIDE DEF r, m, Timed, D, Ends
  <2>9. \A t \in Torrents : resume'[t] = r[t] \/ resume'[t] = Record(t, h, m)
    BY <1>1, <2>6, <2>7, <2>8, <2>7a, SavedWith
  <2>10. TimePasses
    <3>1. \A t \in Torrents : resume'[t] \in {resume[t], Record(t, has, mtimes), Record(t, has', m)}
      BY <2>1, <2>7, <2>9
    <3> QED
      BY <1>1, <2>4, <2>5, <2>7a, <3>1 DEF TimePasses
  <2>11. \A j \in Blocks : Reads(j)' = ReadOf(o, j)
    BY <2>2, <2>3, BecomesReads
  <2>12. ASSUME NEW p \in Pieces \ tainted', Fine(p)
         PROVE  /\ \A j \in BlocksIn(p) : Reads(j)' = "good"
                /\ BlocksIn(p) \subseteq has'
    <3>1. k \notin BlocksIn(p) /\ BlocksIn(p) \subseteq has /\ BlocksIn(p) \subseteq Blocks
      BY <2>1, <2>12 DEF Fine, BlocksIn
    <3> QED
      BY <1>4, <2>1, <2>11, <2>12, <3>1
  <2>13. ASSUME NEW p \in Pieces \ tainted', BlocksIn(p) \subseteq has', p \in checked'
         PROVE  Served(p) \/ \A j \in BlocksIn(p) : Reads(j)' = "good"
    <3>1. CASE p = PieceOf[k]
      BY <2>1, <2>11, <3>1 DEF Good, BlocksIn
    <3>2. CASE p # PieceOf[k]
      <4>1. k \notin BlocksIn(p)
        BY <3>2 DEF BlocksIn
      <4> QED
        BY <2>1, <2>13, <4>1 DEF Served
    <3> QED BY <3>1, <3>2
  <2> QED
    BY <2>10, <2>12, <2>13, TrustKept
<1> QED
  BY <1>5, <1>6, <1>7 DEF OnBlockReceived

\* write_block() in the present state.
LEMMA WriteOfNow ==
    ASSUME Base, NEW k \in Blocks, NEW d \in Data, NEW o \in WriteBlock(Now, k, d)
    PROVE  Wrote(o, Now, k, d)
  BY NowOutcome, WriteBlockWrote DEF Base

\* client_got_block() keeps Trust.
LEMMA ReceiveTrust ==
    ASSUME MayBeShut = {}, Trust, NEW k \in Blocks, NEW d \in Data, Receive(k, d)
    PROVE  Trust'
<1>1. Base /\ TypeOK /\ clock \in Nat /\ Base'
  BY Numbers, ReceiveBase DEF Trust, Base
<1>2. PICK o \in WriteBlock(Now, k, d) :
        \/ o.ok /\ OnBlockReceived(k, o)
        \/ ~o.ok /\ Becomes(o, {}) /\ Stops(o) /\ UNCHANGED <<has, mtimes>>
  BY DEF Receive
<1>3. k \notin has /\ UNCHANGED <<limit, alive, checked, clock, fetched>>
  BY DEF Receive
<1>4. Wrote(o, Now, k, d)
  BY <1>1, WriteOfNow
<1>5. CASE OnBlockReceived(k, o)
  BY <1>1, <1>3, <1>4, <1>5, ArrivedTrust
<1>6. CASE Becomes(o, {}) /\ Stops(o) /\ UNCHANGED <<has, mtimes>>
  <2>1. o \in Outcomes /\ \A j \in Blocks \ {k} : ReadOf(o, j) = Reads(j)
    BY <1>4 DEF Wrote, Reads
  <2>2. /\ \A f \in Files : found'[f] \in {found[f], clock}
        /\ tainted' = tainted
    BY <1>1, <1>6, <2>1, BecomesType
  <2>3. TimePasses
    BY <1>1, <1>3, <1>6, <2>2, SavedTimes DEF TimePasses, Stops
  <2>4. ASSUME NEW p \in Pieces \ tainted', Fine(p)
        PROVE  /\ \A j \in BlocksIn(p) : Reads(j)' = "good"
               /\ BlocksIn(p) \subseteq has'
    BY <1>3, <1>6, <2>1, <2>4, BecomesReads DEF Fine, BlocksIn
  <2> QED
    BY <1>1, <1>3, <1>6, <2>3, <2>4, TrustKept DEF Served
<1> QED
  BY <1>2, <1>5, <1>6

\* A step that changes neither what is had nor what is read.
LEMMA SameTrust ==
    ASSUME Trust, Base', TimePasses, \A k \in Blocks : Reads(k)' = Reads(k),
           checked' \subseteq checked, has' \subseteq has,
           \A p \in Pieces : TorrentOf(p) \in alive' /\ BlocksIn(p) \subseteq has => BlocksIn(p) \subseteq has'
    PROVE  Trust'
<1>1. \A p \in Pieces : BlocksIn(p) \subseteq Blocks
  BY DEF BlocksIn
<1>2. ASSUME NEW p \in Pieces \ tainted', Fine(p)
      PROVE  /\ \A k \in BlocksIn(p) : Reads(k)' = "good"
             /\ TorrentOf(p) \in alive' => BlocksIn(p) \subseteq has'
  BY <1>1, <1>2 DEF Fine
<1>3. ASSUME NEW p \in Pieces \ tainted', BlocksIn(p) \subseteq has', p \in checked'
      PROVE  Served(p)
  BY <1>3 DEF Served
<1> QED
  BY <1>2, <1>3, TrustKept

\* A step that touches neither the cache nor the disk keeps Trust.
LEMMA UnreadTrust ==
    ASSUME Trust, Base', UNCHANGED <<cached, disk, has, mtimes, found, tainted>>, alive' = alive, checked' = checked,
           clock <= clock', \A t \in Torrents : resume'[t] = resume[t] \/ resume'[t] = Record(t, has, mtimes)
    PROVE  Trust'
<1>1. TimePasses
  BY DEF TimePasses
<1>2. \A k \in Blocks : Reads(k)' = Reads(k)
  BY DEF Reads, ReadOf, Now
<1> QED
  BY <1>1, <1>2, SameTrust

\* use_fetched_blocks() keeps Trust in the web client's thread...
LEMMA FetchTrust ==
    ASSUME Trust, NEW k \in Suspect, NEW d \in Late, Fetch(k, d)
    PROVE  Trust'
<1>1. Base' /\ clock \in Nat
  BY FetchBase, Numbers DEF Trust, Base
<1> QED
  BY <1>1, UnreadTrust DEF Fetch, cacheVars

\* ...and in the session thread.
LEMMA UseFetchedTrust ==
    ASSUME MayBeShut = {}, Trust, NEW k \in Suspect, NEW d \in Late, UseFetched(k, d)
    PROVE  Trust'
<1>1. Base /\ Base' /\ clock \in Nat /\ k \in Blocks /\ d \in Data
  BY UseFetchedBase, Numbers, StorageAssumption DEF Trust, Base
<1>2. CASE Owner[k] \in alive
  <2>1. PICK o \in WriteBlock(Now, k, d) : OnBlockReceived(k, o)
    BY <1>2 DEF UseFetched
  <2>2. UNCHANGED <<limit, alive, checked, clock>>
    BY <1>2 DEF UseFetched
  <2>3. Wrote(o, Now, k, d)
    BY <1>1, WriteOfNow
  <2> QED
    BY <1>1, <2>1, <2>2, <2>3, ArrivedTrust
<1>3. CASE Owner[k] \notin alive
  <2>1. UNCHANGED <<cacheVars, running, has, checked, mtimes, dirty, resume, found, clock, tainted>>
    BY <1>3 DEF UseFetched
  <2> QED
    BY <1>1, <2>1, UnreadTrust DEF cacheVars
<1> QED
  BY <1>2, <1>3

\* ensure_piece_is_checked() keeps Trust: it checks what it lets be served.
LEMMA UploadTrust ==
    ASSUME Trust, NEW p \in Pieces, Upload(p)
    PROVE  Trust'
<1>1. Base' /\ clock \in Nat
  BY UploadBase, Numbers DEF Trust, Base
<1>2. /\ UNCHANGED <<cached, disk, has, mtimes, found, tainted, alive, resume, clock>>
      /\ checked' = IF Good(Now, p) THEN checked \cup {p} ELSE checked
  BY DEF Upload
<1>3. \A k \in Blocks : Reads(k)' = Reads(k)
  BY <1>2 DEF Reads, ReadOf, Now
<1>4. TimePasses
  BY <1>1, <1>2 DEF TimePasses
<1>5. ASSUME NEW q \in Pieces \ tainted', Fine(q)
      PROVE  /\ \A k \in BlocksIn(q) : Reads(k)' = "good"
             /\ BlocksIn(q) \subseteq has'
  BY <1>2, <1>3, <1>5 DEF Fine, BlocksIn
<1>6. ASSUME NEW q \in Pieces \ tainted', BlocksIn(q) \subseteq has', q \in checked'
      PROVE  Served(q) \/ \A k \in BlocksIn(q) : Reads(k)' = "good"
  <2>1. CASE q \in checked
    BY <1>2, <1>6, <2>1 DEF Served
  <2>2. CASE q \notin checked
    <3>1. q = p /\ Good(Now, p)
      BY <1>2, <1>6, <2>2
    <3> QED
      BY <1>3, <3>1 DEF Good, Reads, BlocksIn
  <2> QED BY <2>1, <2>2
<1> QED
  BY <1>1, <1>4, <1>5, <1>6, TrustKept

\* Beneath the cache the same is read as above it, unless the cache has a block
\* of the piece: then the piece is tainted.
LEMMA VerifyPieceTrust ==
    ASSUME Trust, NEW p \in Pieces, VerifyPiece(p)
    PROVE  Trust'
<1> DEFINE good == \A k \in BlocksIn(p) : disk[k] = "good"
<1>1. Base' /\ clock \in Nat
  BY VerifyPieceBase, Numbers DEF Trust, Base
<1>2. /\ has' = IF good THEN has \cup BlocksIn(p) ELSE has \ BlocksIn(p)
      /\ checked' = checked \cup {p}
      /\ tainted' = tainted \cup {PieceOf[k] : k \in {j \in DOMAIN cached : PieceOf[j] = p}}
      /\ UNCHANGED <<cached, disk, alive, mtimes, resume, found, clock>>
  BY DEF VerifyPiece, Taint, cacheVars
<1>3. \A k \in Blocks : Reads(k)' = Reads(k)
  BY <1>2 DEF Reads, ReadOf, Now
<1>4. TimePasses
  BY <1>1, <1>2 DEF TimePasses
<1>5. \A q \in Pieces : q # p => BlocksIn(q) \cap BlocksIn(p) = {}
  BY DEF BlocksIn
<1>6. p \notin tainted' => \A k \in BlocksIn(p) : Reads(k) = disk[k]
  BY <1>2 DEF Reads, ReadOf, Now, BlocksIn
<1>7. \A q \in Pieces : BlocksIn(q) \subseteq Blocks /\ BlocksIn(q) # {}
  BY PieceOwner DEF BlocksIn
<1>8. ASSUME NEW q \in Pieces \ tainted', Fine(q)
      PROVE  /\ \A k \in BlocksIn(q) : Reads(k)' = "good"
             /\ BlocksIn(q) \subseteq has'
  <2>1. \A k \in BlocksIn(q) : Reads(k)' = "good"
    BY <1>3, <1>7, <1>8 DEF Fine
  <2>2. BlocksIn(q) \subseteq has
    BY <1>8 DEF Fine
  <2>3. CASE q = p
    <3>1. good
      BY <1>6, <1>8, <2>3 DEF Fine
    <3> QED
      BY <1>2, <2>1, <2>2, <3>1
  <2>4. CASE q # p
    BY <1>2, <1>5, <2>1, <2>2, <2>4
  <2> QED BY <2>3, <2>4
<1>9. ASSUME NEW q \in Pieces \ tainted', BlocksIn(q) \subseteq has', q \in checked'
      PROVE  Served(q) \/ \A k \in BlocksIn(q) : Reads(k)' = "good"
  <2>1. CASE q = p
    <3>1. good
      BY <1>2, <1>7, <1>9, <2>1
    <3> QED
      BY <1>3, <1>6, <1>7, <1>9, <2>1, <3>1
  <2>2. CASE q # p
    BY <1>2, <1>5, <1>9, <2>2 DEF Served
  <2> QED BY <2>1, <2>2
<1> QED
  BY <1>1, <1>4, <1>8, <1>9, TrustKept

\* stop_now() keeps Trust.
LEMMA StopTrust ==
    ASSUME MayBeShut = {}, Trust, NEW t \in Torrents, Stop(t)
    PROVE  Trust'
<1>1. Base' /\ Base /\ TypeOK /\ clock \in Nat
  BY StopBase, Numbers DEF Trust, Base
<1>2. PICK o \in FlushTorrent(Now, t) : Becomes(o, {})
  BY DEF Stop
<1>3. Flushed(o, Now)
  BY <1>1, <1>2, NowOutcome, TorrentFlushed
<1>4. \A k \in Blocks : Reads(k)' = Reads(k)
  BY <1>2, <1>3, BecomesReads DEF Flushed, Same, Reads
<1>5. o \in Outcomes /\ {} \in SUBSET Blocks
  BY <1>3 DEF Flushed
<1>6. /\ \A f \in Files : found'[f] \in {found[f], clock}
      /\ tainted' = tainted
  BY <1>1, <1>2, <1>5, BecomesType
<1>7. TimePasses
  <2>1. \A s \in Torrents : resume'[s] = resume[s] \/ resume'[s] = Record(s, has, mtimes)
    BY <1>1, SavedTimes DEF Stop
  <2> QED
    BY <1>1, <1>6, <2>1 DEF TimePasses, Stop
<1> QED
  BY <1>1, <1>4, <1>7, SameTrust DEF Stop

\* start_in_session_thread() keeps Trust.
LEMMA StartTrust ==
    ASSUME Trust, NEW t \in Torrents, Start(t)
    PROVE  Trust'
<1>1. Base' /\ clock \in Nat
  BY StartBase, Numbers DEF Trust, Base
<1> QED
  BY <1>1, UnreadTrust DEF Start

\* A removal keeps Trust.
LEMMA RemoveTrust ==
    ASSUME MayBeShut = {}, Trust, NEW t \in Torrents, Remove(t)
    PROVE  Trust'
<1>1. Base' /\ Base /\ TypeOK /\ clock \in Nat
  BY RemoveBase, Numbers DEF Trust, Base
<1>2. PICK o \in FlushTorrent(Now, t) : Becomes(o, {})
  BY DEF Remove
<1>3. Flushed(o, Now)
  BY <1>1, <1>2, NowOutcome, TorrentFlushed
<1>4. \A k \in Blocks : Reads(k)' = Reads(k)
  BY <1>2, <1>3, BecomesReads DEF Flushed, Same, Reads
<1>5. o \in Outcomes /\ {} \in SUBSET Blocks
  BY <1>3 DEF Flushed
<1>6. /\ \A f \in Files : found'[f] \in {found[f], clock}
      /\ tainted' = tainted
  BY <1>1, <1>2, <1>5, BecomesType
<1>7. TimePasses
  <2>1. resume \in [Torrents -> Records] /\ mtimes \in [Files -> Times]
    BY <1>1 DEF TypeOK
  <2>2. \A s \in Torrents : \/ resume'[s] = resume[s]
                            \/ s \notin alive' /\ \A f \in Files : resume'[s].mtimes[f] = 0
    <3>1. NoRecord.mtimes = [f \in Files |-> 0]
      BY EmptyRecord
    <3> QED
      <4>1. resume' = [resume EXCEPT ![t] = NoRecord] /\ t \notin alive'
        BY DEF Remove
      <4>2. \A s \in Torrents : s # t => resume'[s] = resume[s]
        BY <2>1, <4>1
      <4>3. resume'[t] = NoRecord
        BY <2>1, <4>1
      <4>4. \A f \in Files : resume'[t].mtimes[f] = 0
        <5>1. resume'[t].mtimes = [f \in Files |-> 0]
          BY <3>1, <4>3
        <5> QED
          BY <5>1
      <4> QED
        BY <4>1, <4>2, <4>4
  <2>3. \A f \in Files : mtimes'[f] \in {0, mtimes[f]}
    BY DEF Remove
  <2> QED
    BY <1>1, <1>6, <2>2, <2>3 DEF TimePasses, Remove
<1>8. ASSUME NEW p \in Pieces, TorrentOf(p) \in alive', BlocksIn(p) \subseteq has
      PROVE  BlocksIn(p) \subseteq has'
  <2>1. TorrentOf(p) # t
    BY <1>8 DEF Remove
  <2>2. BlocksIn(p) \cap BlocksOf(t) = {}
    BY <2>1, PieceOwner DEF BlocksOf
  <2> QED
    BY <1>8, <2>2 DEF Remove
<1> QED
  BY <1>1, <1>4, <1>7, <1>8, SameTrust DEF Remove

\* on_save_timer() keeps Trust.
LEMMA SaveTimerTrust ==
    ASSUME Trust, SaveTimer
    PROVE  Trust'
<1>1. Base' /\ TypeOK /\ clock \in Nat
  BY SaveTimerBase, Numbers DEF Trust, Base
<1> QED
  BY <1>1, SavedTimes, UnreadTrust DEF SaveTimer, cacheVars

\* set_limit() keeps Trust.
LEMMA SetLimitTrust ==
    ASSUME MayBeShut = {}, Trust, NEW n \in Limits, SetLimit(n)
    PROVE  Trust'
<1>1. Base' /\ Base /\ TypeOK /\ clock \in Nat
  BY SetLimitBase, Numbers DEF Trust, Base
<1>2. PICK o \in CacheTrim(Now, n) : Becomes(o, {}) /\ Stops(o)
  BY DEF SetLimit
<1>3. Flushed(o, Now)
  BY <1>1, <1>2, NowOutcome, TrimFlushed
<1>4. \A k \in Blocks : Reads(k)' = Reads(k)
  BY <1>2, <1>3, BecomesReads DEF Flushed, Same, Reads
<1>5. o \in Outcomes /\ {} \in SUBSET Blocks
  BY <1>3 DEF Flushed
<1>6. /\ \A f \in Files : found'[f] \in {found[f], clock}
      /\ tainted' = tainted
  BY <1>1, <1>2, <1>5, BecomesType
<1>7. TimePasses
  BY <1>1, <1>2, <1>6, SavedTimes DEF TimePasses, Stops, SetLimit
<1> QED
  BY <1>1, <1>4, <1>7, SameTrust DEF SetLimit

\* Time keeps Trust.
LEMMA TickTrust ==
    ASSUME Trust, Tick
    PROVE  Trust'
<1>1. Base' /\ clock \in Nat
  BY TickBase, Numbers DEF Trust, Base
<1> QED
  BY <1>1, UnreadTrust DEF Tick, cacheVars

\* Nothing happens.
LEMMA StutterTrust ==
    ASSUME Trust, UNCHANGED vars
    PROVE  Trust'
<1>1. Base' /\ clock \in Nat
  BY StutterBase, Numbers DEF Trust, Base
<1> QED
  BY <1>1, UnreadTrust DEF vars, cacheVars

\* Who believes the checked pieces of a resume file compares the times of the
\* files with those in it: what is believed then was fine when the program died.
LEMMA RestartTrust ==
    ASSUME Trust, Restart
    PROVE  Trust'
<1>1. Base /\ Base' /\ TypeOK /\ Own /\ StillGood /\ Past
  BY RestartBase DEF Trust, Base
<1>2. PICK C \in SUBSET {f \in Files : found[f] # 0 /\ clock < MaxClock} :
         /\ disk' = [k \in Blocks |-> IF FileOf[k] \in C THEN "bad" ELSE disk[k]]
         /\ clock' = IF C = {} THEN clock ELSE clock + 1
         /\ \A f \in Files : found'[f] = IF f \in C THEN clock + 1 ELSE found[f]
  BY <1>1, RestartFacts
<1>3. /\ clock \in Nat
      /\ \A f \in Files : found[f] \in Nat /\ found[f] <= clock
      /\ \A t \in Torrents : \A f \in Files : resume[t].mtimes[f] \in Nat /\ resume[t].mtimes[f] <= clock
      /\ alive \subseteq Torrents
  BY <1>1, Numbers DEF Past
<1>4. /\ cached' = [k \in {} |-> "bad"]
      /\ has' = UNION {resume[t].has : t \in alive}
      /\ checked' = UNION {LoadCheckedPieces(resume[t], found') : t \in alive}
      /\ mtimes' = found'
      /\ tainted' = tainted \cup {PieceOf[k] : k \in DOMAIN cached}
      /\ UNCHANGED <<alive, resume>>
  BY DEF Restart, Taint
<1>5. \A k \in Blocks : Reads(k)' = disk'[k]
  BY <1>4 DEF Reads, ReadOf, Now
<1>6. \A p \in Pieces \ tainted' : \A k \in BlocksIn(p) : Reads(k) = disk[k]
  BY <1>4 DEF Reads, ReadOf, Now, BlocksIn
<1>7. \A p \in Pieces : BlocksIn(p) \subseteq Blocks
  BY DEF BlocksIn
<1>8. \A k \in Blocks : FileOf[k] \in Files
  BY FilesKnown
\* A recorded piece is unloadable, or as good as it was.
<1>9. ASSUME NEW t \in alive, NEW p \in Pieces \ tainted', Recorded(t, p)
      PROVE  \/ \E k \in BlocksIn(p) : \/ resume[t].mtimes[FileOf[k]] = 0
                                       \/ found'[FileOf[k]] > resume[t].mtimes[FileOf[k]]
             \/ \A k \in BlocksIn(p) : k \in has' /\ Reads(k)' = "good"
  <2>1. Unloadable(t, p) \/ Fine(p)
    BY <1>1, <1>4, <1>9 DEF StillGood
  <2>2. CASE Unloadable(t, p)
    <3>1. PICK k \in BlocksIn(p) : \/ resume[t].mtimes[FileOf[k]] = 0
                                   \/ found[FileOf[k]] > resume[t].mtimes[FileOf[k]]
      BY <2>2 DEF Unloadable
    <3>2. FileOf[k] \in Files /\ t \in Torrents
      BY <1>3, <1>7, <1>8
    <3>3. found[FileOf[k]] <= found'[FileOf[k]] /\ found'[FileOf[k]] \in Nat
      BY <1>2, <1>3, <3>2
    <3> QED
      BY <1>3, <3>1, <3>2, <3>3
  <2>3. CASE Fine(p) /\ \E k \in BlocksIn(p) : FileOf[k] \in C
    <3>1. PICK k \in BlocksIn(p) : FileOf[k] \in C
      BY <2>3
    <3>2. FileOf[k] \in Files /\ t \in Torrents
      BY <1>3, <1>7, <1>8
    <3>3. found'[FileOf[k]] > resume[t].mtimes[FileOf[k]]
      BY <1>2, <1>3, <3>1, <3>2
    <3> QED BY <3>3
  <2>4. CASE Fine(p) /\ \A k \in BlocksIn(p) : FileOf[k] \notin C
    <3>1. \A k \in BlocksIn(p) : Reads(k)' = "good"
      BY <1>2, <1>5, <1>6, <1>7, <2>4 DEF Fine
    <3>2. BlocksIn(p) \subseteq has'
      BY <1>4, <1>9 DEF Recorded
    <3> QED BY <3>1, <3>2
  <2> QED BY <2>1, <2>2, <2>3, <2>4
<1>10. ASSUME NEW p \in Pieces \ tainted', BlocksIn(p) \subseteq has', p \in checked'
       PROVE  \A k \in BlocksIn(p) : Reads(k)' = "good"
  <2>1. PICK t \in alive : p \in LoadCheckedPieces(resume[t], found')
    BY <1>4, <1>10
  <2>2. /\ p \in resume[t].checked
        /\ \A k \in BlocksIn(p) : /\ found'[FileOf[k]] # 0
                                  /\ found'[FileOf[k]] = resume[t].mtimes[FileOf[k]]
    BY <2>1 DEF LoadCheckedPieces
  <2>3. TorrentOf(p) = t
    <3>1. PICK k \in BlocksOf(t) : p = PieceOf[k]
      BY <1>1, <1>3, <2>2 DEF Own, PiecesOf
    <3>2. k \in BlocksIn(p) /\ Owner[k] = t
      BY <3>1 DEF BlocksIn, BlocksOf
    <3> QED
      BY <3>2, PieceOwner DEF BlocksOf
  <2>4. ASSUME NEW k \in BlocksIn(p)
        PROVE  k \in resume[t].has
    <3>1. PICK s \in alive : k \in resume[s].has
      BY <1>4, <1>10
    <3>2. k \in BlocksOf(s) /\ k \in BlocksOf(t)
      BY <1>1, <1>3, <2>3, <3>1, PieceOwner DEF Own
    <3> QED
      BY <3>1, <3>2 DEF BlocksOf
  <2>5. Recorded(t, p)
    BY <2>2, <2>4 DEF Recorded
  <2>6. \A k \in BlocksIn(p) : /\ resume[t].mtimes[FileOf[k]] # 0
                               /\ ~(found'[FileOf[k]] > resume[t].mtimes[FileOf[k]])
    BY <1>3, <1>7, <1>8, <2>2
  <2> QED
    BY <1>9, <2>5, <2>6
<1>11. ServedGood'
  BY <1>10 DEF ServedGood, Served, Pieces, BlocksIn
<1>12. StillGood'
  BY <1>4, <1>9 DEF StillGood, Recorded, Unloadable, Fine, Pieces, BlocksIn
<1>13. Past'
  <2>1. \A f \in Files : found'[f] <= clock'
    BY <1>2, <1>3
  <2>2. \A t \in Torrents : \A f \in Files : resume[t].mtimes[f] <= clock'
    BY <1>2, <1>3
  <2> QED
    BY <1>4, <2>1, <2>2 DEF Past
<1> QED
  BY <1>1, <1>11, <1>12, <1>13 DEF Trust

\* Trust holds of new torrents: none has anything.
LEMMA InitTrust == Init => Trust
<1> SUFFICES ASSUME Init PROVE Trust
  OBVIOUS
<1>1. Base
  BY InitBase
<1> DEFINE m == [f \in Files |-> 0]
<1>2. resume = [t \in Torrents |-> NoRecord] /\ mtimes = m /\ found = m /\ clock = 1 /\ checked = {} /\ alive = Torrents
  BY DEF Init
<1>3. NoRecord.checked = {} /\ NoRecord.mtimes = m /\ \A f \in Files : m[f] = 0
  BY EmptyRecord
<1> HIDE DEF m
<1> QED
  BY <1>1, <1>2, <1>3 DEF Trust, Past, ServedGood, Served, StillGood, Recorded

\* Every step keeps Trust, when no file is shut.
LEMMA StepTrust ==
    ASSUME MayBeShut = {}, Trust, [Next]_vars
    PROVE  Trust'
<1>1. "good" \in Data /\ "bad" \in Data /\ Suspect \subseteq Blocks
  BY StorageAssumption DEF Data
<1>2. CASE UNCHANGED vars
  BY <1>2, StutterTrust
<1>3. CASE Next
  BY <1>1, <1>3, ReceiveTrust, FetchTrust, UseFetchedTrust, UploadTrust, VerifyPieceTrust, StopTrust, StartTrust,
     RemoveTrust, SetLimitTrust, SaveTimerTrust, TickTrust, RestartTrust DEF Next
<1> QED
  BY <1>2, <1>3

\* Trust is an inductive invariant where files that exist can be opened.
THEOREM TrustInvariance == MayBeShut = {} => (Spec => []Trust)
<1> SUFFICES ASSUME MayBeShut = {} PROVE Spec => []Trust
  OBVIOUS
<1>1. Trust /\ [Next]_vars => Trust'
  BY StepTrust
<1> QED
  BY <1>1, InitTrust, PTL DEF Spec

\* Only good pieces are uploaded: what ensure_piece_is_checked() takes on trust, from
\* the resume file too (load_checked_pieces()), is as good as when it was checked.
\* Where a file may be shut this is wrong, as what is flushed to it is lost.
THEOREM OnlyGoodServed == MayBeShut = {} => (Spec => []ServedGood)
<1>1. Trust => ServedGood
  BY DEF Trust
<1> QED
  BY <1>1, TrustInvariance, PTL

\* When a block comes, the others are read as before, and it is read as it was or
\* as it came.
LEMMA ArrivedReads ==
    ASSUME MayBeShut = {}, Base, NEW k \in Blocks, NEW d \in Data, NEW o, Wrote(o, Now, k, d), OnBlockReceived(k, o)
    PROVE  /\ \A j \in Blocks \ {k} : Reads(j)' = Reads(j)
           /\ Reads(k)' \in {Reads(k), d}
<1>1. o \in Outcomes
  BY DEF Wrote
<1>2. (\A j \in Blocks \ {k} : ReadOf(o, j) = Reads(j)) /\ ReadOf(o, k) \in {Reads(k), d}
  BY DEF Wrote, Reads
<1>3. CASE \E K \in SUBSET Blocks : Becomes(o, K)
  BY <1>2, <1>3, BecomesReads
<1>4. CASE GotPiece(k, o)
  <2> DEFINE h == has \cup {k}
             D == FilesDone(PieceOf[k], h)
  <2>1. PICK E \in {{}} \cup {Sooner(f, D) : f \in D} : \E w \in OnPieceCompleted(o, Owner[k], D, E) : Becomes(w, {})
    BY <1>4 DEF GotPiece
  <2>2. PICK w \in OnPieceCompleted(o, Owner[k], D, E) : Becomes(w, {})
    BY <2>1
  <2>3. \A j \in Blocks : ReadOf(w, j) = ReadOf(o, j)
    <3>1. Owner[k] \in Torrents
      BY CacheAssumption
    <3> QED
      BY <1>1, <2>2, <3>1, CompletedFlushed DEF Flushed, Same
  <2> QED
    BY <1>2, <2>2, <2>3, BecomesReads
<1>5. Becomes(o, {k}) \/ Becomes(o, {}) \/ GotPiece(k, o)
  BY DEF OnBlockReceived, GotAgain, GotBlock
<1> QED
  BY <1>3, <1>4, <1>5

\* client_got_block() changes what is read of its block only.
LEMMA ReceiveReads ==
    ASSUME MayBeShut = {}, Base, NEW k \in Blocks, NEW d \in Data, Receive(k, d)
    PROVE  /\ \A j \in Blocks \ {k} : Reads(j)' = Reads(j)
           /\ Reads(k)' \in {Reads(k), d}
<1>1. PICK o \in WriteBlock(Now, k, d) :
        \/ o.ok /\ OnBlockReceived(k, o)
        \/ ~o.ok /\ Becomes(o, {}) /\ Stops(o) /\ UNCHANGED <<has, mtimes>>
  BY DEF Receive
<1>2. Wrote(o, Now, k, d)
  BY WriteOfNow
<1>3. (\A j \in Blocks \ {k} : ReadOf(o, j) = Reads(j)) /\ ReadOf(o, k) \in {Reads(k), d}
  BY <1>2 DEF Wrote, Reads
<1>4. CASE OnBlockReceived(k, o)
  BY <1>2, <1>4, ArrivedReads
<1>5. CASE Becomes(o, {})
  BY <1>3, <1>5, BecomesReads
<1> QED
  BY <1>1, <1>4, <1>5

\* The same cache and disk are read the same.
LEMMA UnreadSame ==
    ASSUME cached' = cached, disk' = disk
    PROVE  \A j \in Blocks : Reads(j)' = Reads(j)
  BY DEF Reads, ReadOf, Now

\* So does use_fetched_blocks().
LEMMA UseFetchedReads ==
    ASSUME MayBeShut = {}, Base, NEW k \in Suspect, NEW d \in Late, UseFetched(k, d)
    PROVE  /\ \A j \in Blocks \ {k} : Reads(j)' = Reads(j)
           /\ Reads(k)' \in {Reads(k), d}
<1>1. k \in Blocks /\ d \in Data
  BY StorageAssumption
<1>2. CASE Owner[k] \in alive
  <2>1. PICK o \in WriteBlock(Now, k, d) : OnBlockReceived(k, o)
    BY <1>2 DEF UseFetched
  <2>2. Wrote(o, Now, k, d)
    BY <1>1, <2>1, WriteOfNow
  <2> QED
    BY <1>1, <2>1, <2>2, ArrivedReads
<1>3. CASE Owner[k] \notin alive
  BY <1>1, <1>3, UnreadSame DEF UseFetched, cacheVars
<1> QED
  BY <1>2, <1>3

\* The steps that write no block of a peer or a webseed.
Quiet ==
    \/ \E p \in Pieces : Upload(p) \/ VerifyPiece(p)
    \/ \E t \in Torrents : Stop(t) \/ Start(t) \/ Remove(t)
    \/ \E n \in Limits : SetLimit(n)
    \/ \E k \in Suspect, d \in Late : Fetch(k, d)
    \/ SaveTimer
    \/ Tick
    \/ UNCHANGED vars

\* Flushes change nothing that is read, whatever fails in them and whichever torrent
\* they stop.
LEMMA QuietReads ==
    ASSUME MayBeShut = {}, Base, Quiet
    PROVE  \A j \in Blocks : Reads(j)' = Reads(j)
<1>1. Now \in Outcomes
  BY NowOutcome DEF Base
<1>2. ASSUME NEW o, Flushed(o, Now), Becomes(o, {})
      PROVE  \A j \in Blocks : Reads(j)' = Reads(j)
  BY <1>2, BecomesReads DEF Flushed, Same, Reads
<1>3. ASSUME NEW p \in Pieces, Upload(p) \/ VerifyPiece(p)
      PROVE  \A j \in Blocks : Reads(j)' = Reads(j)
  BY <1>3, UnreadSame DEF Upload, VerifyPiece, cacheVars
<1>4. ASSUME NEW t \in Torrents, Stop(t) \/ Remove(t)
      PROVE  \A j \in Blocks : Reads(j)' = Reads(j)
  <2>1. PICK o \in FlushTorrent(Now, t) : Becomes(o, {})
    BY <1>4 DEF Stop, Remove
  <2> QED
    BY <1>1, <1>2, <2>1, TorrentFlushed
<1>5. ASSUME NEW t \in Torrents, Start(t)
      PROVE  \A j \in Blocks : Reads(j)' = Reads(j)
  BY <1>5, UnreadSame DEF Start
<1>6. ASSUME NEW n \in Limits, SetLimit(n)
      PROVE  \A j \in Blocks : Reads(j)' = Reads(j)
  <2>1. PICK o \in CacheTrim(Now, n) : Becomes(o, {})
    BY <1>6 DEF SetLimit
  <2> QED
    BY <1>1, <1>2, <2>1, TrimFlushed
<1>7. ASSUME NEW k \in Suspect, NEW d \in Late, Fetch(k, d)
      PROVE  \A j \in Blocks : Reads(j)' = Reads(j)
  BY <1>7, UnreadSame DEF Fetch, cacheVars
<1>8. CASE SaveTimer \/ Tick \/ UNCHANGED vars
  BY <1>8, UnreadSame DEF SaveTimer, Tick, vars, cacheVars
<1> QED
  BY <1>3, <1>4, <1>5, <1>6, <1>7, <1>8 DEF Quiet

\* What a step can be.
LEMMA Steps ==
    ASSUME [Next]_vars
    PROVE  \/ Quiet
           \/ \E k \in Blocks, d \in Data : Receive(k, d)
           \/ \E k \in Suspect, d \in Late : UseFetched(k, d)
           \/ Restart
<1>1. "good" \in Data /\ "bad" \in Data /\ Suspect \subseteq Blocks
  BY StorageAssumption DEF Data
<1> QED
  BY <1>1 DEF Next, Quiet

\* What was read of a block in the cache is read of the disk when it leaves.
LEMMA LeavesAsRead ==
    ASSUME TypeOK, NEW k \in DOMAIN cached, LeavesCache(k)
    PROVE  k \in Blocks /\ Reads(k) = cached[k] /\ Reads(k)' = disk'[k]
<1>1. DOMAIN cached \subseteq Blocks
  BY CachesElim DEF TypeOK
<1> QED
  BY <1>1 DEF LeavesCache, Reads, ReadOf, Now

\* A block leaves the cache for the disk, through every error of flush_span() and
\* cache_trim(), if no file is shut.
THEOREM LeavesForTheDisk == MayBeShut = {} => (Spec => LeavesForDisk)
<1> SUFFICES ASSUME MayBeShut = {} PROVE Spec => LeavesForDisk
  OBVIOUS
<1> DEFINE Lands(k) ==
             LeavesCache(k) => disk'[k] = cached[k] \/ Rewritten(k) \/ Restart \/ Owner[k] \notin alive'
<1>1. ASSUME Base, [Next]_vars, NEW k \in DOMAIN cached, LeavesCache(k)
      PROVE  disk'[k] = cached[k] \/ Rewritten(k) \/ Restart
  <2>1. TypeOK
    BY <1>1 DEF Base
  <2>2. k \in Blocks /\ Reads(k) = cached[k] /\ Reads(k)' = disk'[k]
    BY <1>1, <2>1, LeavesAsRead
  <2>3. CASE Quiet
    BY <1>1, <2>2, <2>3, QuietReads
  <2>4. ASSUME NEW j \in Blocks, NEW d \in Data, Receive(j, d)
        PROVE  disk'[k] = cached[k] \/ Rewritten(k)
    <3>1. Reads(k)' = Reads(k) \/ (j = k /\ Reads(k)' = d)
      BY <1>1, <2>2, <2>4, ReceiveReads
    <3> QED
      BY <2>2, <2>4, <3>1 DEF Rewritten
  <2>5. ASSUME NEW j \in Suspect, NEW d \in Late, UseFetched(j, d)
        PROVE  disk'[k] = cached[k] \/ Rewritten(k)
    <3>1. Reads(k)' = Reads(k) \/ (j = k /\ Reads(k)' = d)
      BY <1>1, <2>2, <2>5, UseFetchedReads
    <3> QED
      BY <2>2, <2>5, <3>1, StorageAssumption DEF Rewritten
  <2> QED
    BY <1>1, <2>3, <2>4, <2>5, Steps
<1>2. Base /\ [Next]_vars => [\A k \in DOMAIN cached : Lands(k)]_vars
  BY <1>1
<1> QED
  BY <1>2, BaseInvariance, PTL DEF Spec, LeavesForDisk

\* What is read of a block that is had stays what it is, as HadStable says, if no
\* file is shut.
THEOREM HadIsStable == MayBeShut = {} => (Spec => HadStable)
<1> SUFFICES ASSUME MayBeShut = {} PROVE Spec => HadStable
  OBVIOUS
<1> DEFINE Holds(k) ==
             Reads(k)' # Reads(k) =>
                 \/ ArrivesLate(k)
                 \/ Restart /\ (LeavesCache(k) \/ found'[FileOf[k]] # found[FileOf[k]])
                 \/ Owner[k] \notin alive'
<1>1. ASSUME Trust, [Next]_vars, NEW k \in has, Reads(k)' # Reads(k)
      PROVE  \/ ArrivesLate(k)
             \/ Restart /\ (LeavesCache(k) \/ found'[FileOf[k]] # found[FileOf[k]])
  <2>1. Base /\ Past /\ TypeOK /\ k \in Blocks
    BY <1>1 DEF Trust, Base, TypeOK
  <2>2. CASE Quiet
    BY <1>1, <2>1, <2>2, QuietReads
  <2>3. ASSUME NEW j \in Blocks, NEW d \in Data, Receive(j, d)
        PROVE  FALSE
    <3>1. j # k
      BY <2>3 DEF Receive
    <3> QED
      BY <1>1, <2>1, <2>3, <3>1, ReceiveReads
  <2>4. ASSUME NEW j \in Suspect, NEW d \in Late, UseFetched(j, d)
        PROVE  ArrivesLate(k)
    <3>1. j = k
      BY <1>1, <2>1, <2>4, UseFetchedReads
    <3> QED
      BY <2>4, <3>1 DEF UseFetched, ArrivesLate
  <2>5. CASE Restart
    <3>1. PICK C \in SUBSET {f \in Files : found[f] # 0 /\ clock < MaxClock} :
             /\ disk' = [j \in Blocks |-> IF FileOf[j] \in C THEN "bad" ELSE disk[j]]
             /\ \A f \in Files : found'[f] = IF f \in C THEN clock + 1 ELSE found[f]
      BY <2>1, <2>5, RestartFacts
    <3>2. Reads(k)' = disk'[k] /\ (LeavesCache(k) \/ Reads(k) = disk[k])
      BY <2>5 DEF Restart, Reads, ReadOf, Now, LeavesCache
    <3>3. FileOf[k] \in Files /\ clock \in Nat /\ found[FileOf[k]] <= clock
      BY <2>1, FilesKnown, Numbers DEF Past
    <3>4. CASE FileOf[k] \in C
      <4>1. found'[FileOf[k]] = clock + 1
        BY <3>1, <3>3, <3>4
      <4>2. found[FileOf[k]] \in Nat
        BY <2>1, <3>3, Numbers
      <4> QED
        BY <2>5, <3>3, <4>1, <4>2
    <3>5. CASE FileOf[k] \notin C
      BY <1>1, <2>1, <2>5, <3>1, <3>2, <3>5
    <3> QED BY <3>4, <3>5
  <2> QED
    BY <1>1, <2>2, <2>3, <2>4, <2>5, Steps
<1>2. Trust /\ [Next]_vars => [\A k \in has : Holds(k)]_vars
  BY <1>1
<1> QED
  BY <1>2, TrustInvariance, PTL DEF Spec, HadStable
=============================================================================
