# libtransmission in TLA+

TLA+ models of the Transmission BitTorrent client's library
(`src/libtransmission`), with TLC configurations that check them on small
instances and TLAPS proofs of what matters most for every instance.

Contents: [the system](#1-the-system), [the modules and the
code](#2-the-modules-and-the-code), [the runs](#3-the-runs),
[fairness](#4-fairness), [proofs](#5-proofs),
[disagreements](#6-disagreements-with-the-code), [left out](#7-what-is-left-out),
[plan](#8-plan).

## 1. The system

One *session thread* runs an event loop: sockets, timers, RPC handlers and a
queue of closures that other threads give to `run_in_session_thread()`. Parts of
the library tell each other what happened through synchronous signals
(`libtransmission/observable.h`), so one event runs a whole chain of handlers
before the next event. The other threads are the front end's (daemon main, GTK,
Qt, macOS), which call the public `tr_...` functions, the *verify worker's*
thread, and the *web* thread, which runs curl. They share the recursive session
lock, a few mutexes, and in places nothing at all.

| Component | State | Operations | What is hard | What makes it correct |
|---|---|---|---|---|
| Swarm download (`peer-mgr.cc`, `peer-msgs.cc`, `peer-mgr-wishlist.cc`, `completion.cc`, parts of `torrent.cc`) | blocks and pieces had, files wanted, completeness; the wishlist's candidates; each peer's pieces, requests, choke and interest | peer messages, block arrival, piece checks, file selection, start, stop, connect, close, timers | late, lost and duplicate answers; pieces that share a block; files reselected while requests are out; bad data | no block is stuck, asked for twice or offered when had; no peer goes uncounted; only verified pieces count |
| Torrent lifecycle (`torrent.cc`, `rpcimpl.cc`, `session.cc`) | running, queued, stopping, deleting flags; verify state; completeness | start, start now, stop, verify, remove, queue timer, idle work, shutdown | two front ends with different threading; closures that run later; a session thread that sleeps with the lock held | nothing freed is used; a torrent is not started while verified; what was checked is true; completeness is known |
| Verify worker (`verify.cc`) | queue, current node, stop flag, thread | add, remove, the thread's loop, shutdown | thread against thread; a waiter that a thread must answer | one torrent at a time; every request ends; no waiter is left |
| Block cache and disk I/O (`cache.cc`, `inout.cc`, `open-files.cc`) | cached blocks, limit | write, read, flush, trim | errors between writes, which stop torrents from within; errors that nobody is told of | what is had can be read as it was; a block leaves the cache for the disk only |
| Resume files (`resume.cc`) | blocks, checked pieces and file times as they were saved | save, load | a crash between a change and its save or its flush; files changed by others | what is uploaded matches its hash; what is not saved is marked |
| Torrent queue (`torrent-queue.cc`) | order, cached positions, dirty flag | add, remove, move, save, load | a cached position that is stale; a save that fails; file names that change | each torrent has one place; batches move as they stand; the order comes back |
| Session thread (`session-thread.cc`, `session.cc`) | work queue, the two event loops, how far a close has come | queue, run, close, join | a close that tears down thread after thread; the five seconds at the end | closures run once; a close ends and leaves nothing behind |
| Announcer (`announcer*.cc`) | tiers, their trackers, queued events, announce and scrape flags | announce, scrape, reply, edit the list, add and remove a torrent | late and lost replies, failover, event order, edited lists, shutdown | events in an order that makes sense; completions told; running torrents go on announcing; no tier waits for nothing |
| Handshake (`handshake.cc`, `peer-mse.cc`) | protocol state, buffers, crypto | message parsing states, timeout | encrypted with fallback to plain | each handshake reports exactly once |
| Webseeds (`webseed.cc`) | tasks, idle connections, consecutive failures | request, response, stop | answers after the seed is gone; blocks written late | requests are given back |
| Magnet metadata (`torrent-magnet.cc`) | pieces needed, requests | request, piece, give up | retries, wrong size, bad hash | ends with metadata or starts again |
| Web client (`web.cc`) | tasks queued, running, paused; deadline | fetch, tick, shut down | shutdown against a thread that goes to sleep; looks without a lock | each callback runs once; the thread ends |
| Bandwidth and peer I/O (`bandwidth.cc`, `peer-io.cc`) | budgets per direction and period | allocate, consume, clamp | priority phases | nobody exceeds the limit |
| Public address cache (`ip-cache.cc`) | addresses, whether each is being updated | timer, reply, shutdown | a query under way at shutdown | an update is under way exactly while a query is |
| Port forwarding (`port-forwarding*.cc`) | state machines with timers | pulse, enable | late answers | states agree with the network |
| RPC, blocklists, DHT, LPD, metainfo, utilities | mostly that of the above | parsing, conversion | little state of their own | conversions |

The front ends (daemon, cli, gtk, qt, macosx, web) are clients of the library.

`PROJECT.json` lists each component with its status, and, under "hazards", the
places in the code where something could go wrong that a test would hardly
reach, with the properties that watch them.

## 2. The modules and the code

| Module | Code | Kind |
|---|---|---|
| `Wishlist` | `peer-mgr-wishlist.cc` | operators: each signal handler is a function from wishlist to wishlist |
| `Swarm` | `torrent.cc`, `peer-mgr.cc`, `peer-msgs.cc`, `completion.cc` | state machine that composes the wishlist with peers and the torrent |
| `VerifyQueue` | -- | abstract specification of what verification promises |
| `VerifyWorker` | `verify.cc` | the worker's state, and its critical sections as relations |
| `Lifecycle` | `torrent.cc`, `rpcimpl.cc`, `session.cc`, `session-thread.cc` | state machine that composes the worker with the session thread and the user |
| `Announcer` | `announcer.cc`, parts of `torrent.cc` | state machine of one torrent, its tiers and their requests |
| `Web` | `web.cc` | the curl thread step by step, and what the session does to it |
| `Session` | `session.cc`, `session-thread.cc`, `ip-cache.cc` | state machine that composes `Web` with the session thread, the address cache and the thread that closes the session |
| `Cache` | `cache.cc`, `inout.cc` | operators: each operation is the set of its outcomes, as the disk has it |
| `Storage` | `torrent.cc`, `resume.cc`, `webseed.cc`, `peer-msgs.cc` | state machine of what torrents hold, over the cache, the files and the resume files |
| `TorrentQueue` | `torrent-queue.cc`, `torrent.cc`, `session.cc` | state machine of the order of the torrents through sessions |
| `MCSwarm`, `MCLifecycle`, `MCAnnouncer`, `MCSession`, `MCStorage`, `MCTorrentQueue` | -- | constants for TLC |
| `Wishlist_proof`, `Swarm_proof`, `SwarmBlocks_proof`, `Lifecycle_proof`, `Announcer_proof`, `Session_proof`, `Storage_proof`, `TorrentQueue_proof` | -- | theorems |

### Wishlist

`Wishlist::Impl` keeps a vector of candidates, one for each wanted, incomplete
piece. Here a wishlist is a function from tracked pieces to records with the
candidate's `block_span` (`begin`, `end`), `unrequested` blocks and
`replication`. Pieces are given by the first and last block of each
(`RawBegin`, `RawEnd`), so that neighbouring pieces may share a block; the
`GeometryAssumption` states what `tr_block_info` computes. `Upkeep` is
`candidate_list_upkeep()` in closed form: which candidate gets which end of its
span depends only on its two neighbours. `IsNext` says which sets of blocks
`next()` may return: candidates are sorted by unrequested count, then priority,
then replication and a random salt, so among candidates with equally few
unrequested blocks any order is allowed.

### Swarm

A signal is a synchronous call, so an action is a handler with everything its
signals reach, in their order. `GotBlockData`, for example, is
`tr_peerMsgsImpl::client_got_block()`, the `ClientGotBlock` slots of the swarm
(cancel the others' requests, tell the wishlist, `on_block_received()`), the
piece check and the signals of a piece that passed or failed. Variables carry
the names of the code's members in their comments.

Peers are free: they announce pieces, choke, reject, answer late or never, and
send bad bytes (`bad` records which stored block has bad bytes for which of its
pieces) when `MayCorrupt`. They send a bitfield, have-all or have-none
(`GotBitfield`, `GotHaveAll`, `GotHaveNone`) at any time and again; the wishlist
counts the first two on top of what it has counted, and does not hear of the third.
A request may expire at any pulse, and a failed piece may strike any peer.

### VerifyWorker and Lifecycle

`VerifyWorker` has one operator per critical section of `verify_mutex_`
(`NeedsWait`, `StopCurrent`, `Requeue` for `add()` and `remove()`, `NextNode`
for the top of the thread's loop) and one per step of `verify_torrent()`.
`Lifecycle` turns them into actions. The thread changes the torrent's blocks and
`verify_state_` without a lock, one piece at a time, between any two steps of
the session thread.

A session-thread handler is one action unless it has to wait for the worker.
`remove()` of the torrent that is being verified sleeps on a condition variable
with the session lock held: the action ends there (`waiting` remembers what comes
after), no other session-thread action is enabled, and `TakenBack` is the rest.
`TakeBack` is the shared shape of `stop_now()`, `tr_torrentVerify()`'s closure
and `tr_torrentRemove()`'s closure.

`recheck_completeness()` is `Recheck` and, if `VerifyComplete`
(`torrent_complete_verify_enabled`), for a running torrent that is newly complete
(`Reverifies`) a verification in its place. Each of its callers then goes on: idle
work looks at the stop flag, the closure of a verification calls `start()`, which
finds the torrent queued, and `start_in_session_thread()` starts it (`Begun`). It may
have to wait for the worker before that, so `TakeBack` has an operation "restart",
and `on_queue_timer()` starts its torrents one by one (`starts`, `StartNext`); no
other event comes in between.

There are two fronts. With `Front = "rpc"`, commands come as RPC requests, whose
handlers already run in the session thread: `run_in_session_thread()` calls its
argument at once, and `torrentStop` only sets `is_stopping_`, which
`do_idle_work()` obeys later. With `Front = "direct"`, a front end calls
`tr_torrentStart()` and the others from its own thread, and most of the work is
a closure in `work`; `start()` and `tr_torrentStop()` first take the session
lock, so they cannot run while `waiting`, the others can. `Verified` is the
closure of `on_verify_done()`. `OnQueueTimer`, `IdleWork`, `GotPiece` and
shutdown (`CallClose`, `Close`, `Closed`) complete the session thread.

`disk`, `cached` and `checked` are what a torrent's blocks rest on: which pieces
have good bytes on disk, which have blocks in the cache only, and which were
checked. A torrent starts from a resume file that may be wrong about its pieces.

Every verification, seen from the torrents' `verify_state_`, refines
`VerifyQueue`: queued once, begun one at a time, ended, or forgotten at
shutdown (`VerifyPromise`).

### Announcer

A tier is a record of the members of `tr_tier` that decide what it does: its
trackers and the current one (an index, 0 for `nullopt`), the queue of events,
whether it has a time for the next announce and scrape, and the flags
`isAnnouncing` and `isScraping`. `Queued` is `tier_announce_event_push()`'s
effect on the queue, with its three special cases. `announces` are the requests
sent and not answered, each with the event and the state of the torrent it was
made of; they are answered in any order, or fail (`AnnounceFailed` is
`on_announce_error()`: next tracker, same event again). Scrapes are answered by
URL, as `onScrapeDone()` looks for the tier that asks that URL now.

`Start`, `Stop`, `Recheck`, `ManualAnnounce` and `ChangeMyPort` are the events
of `torrent.cc` that push onto the queue, `Upkeep` is one tick of the upkeep
timer that finds some tiers due, and `Reset` is the edit of an announce list,
which makes new tiers, gives them what old tiers had queued, and orphans the
answers under way. The HTTP and UDP clients are external: they answer each
request once.

### Web and Session

The curl thread (`curl` says where it is in `curlThreadFunc()`) looks at the
deadline, at the two lists and at the deadline again without a lock; between any
two looks the session may fetch or shut down. What it does under `tasks_mutex_`
is one step, except that the move of the new tasks to the running ones is two:
`is_idle()` is called by the session thread without the mutex, and while a list
is spliced both may look empty (`MaySeemIdle`, a data race taken as a choice). A
task that ends goes to the session thread as a closure (`work`), which
`StealWork` takes over as a whole (`batch`) and `RunCallback` runs one by one.

`caller` is the thread in `tr_sessionClose()`: `CallClose` queues a closure and
waits for its promise, `DeleteSession` begins the destruction, which joins the
curl thread (`WebJoined`) and then the session thread (`SessionThreadJoined`),
whose second loop (`EndLoop`) ends when nothing is left or after five seconds
(`hurried`). `CloseImplPart1` is the closure; `StillBusy`, `CloseImplPart2` and
`CloseImplPart2Late` are the ways a tick of `closeImplPart2()` goes. Each address
family is the task of its own query, as each has one service in
`IPQueryServices`. Whether the UDP announcer is idle is a free choice.

### Cache and Storage

An operation of the cache may end in many ways: each write of a run of blocks may
fail after some of them, and the first failure of a torrent stops it, from within
the write, which flushes its blocks once more. `Cache` therefore maps a state (a
record: what is cached, what is on disk, which torrents have an error, what was
written, who was stopped, whether the caller is told of success) to the set of
states it may leave (`CacheTrim`, `FlushSpan`, `WriteBlock`...). `MayBeShut` are
files that may refuse to be opened, silently.

`Storage` takes such an outcome and adds what its caller does: a block from a
peer counts if the write succeeded (`Receive`), one from a webseed whatever
happened (`UseFetched`); `on_block_received()` checks the piece, flushes each file
that the piece completes and dates it (`GotPiece`), or takes the piece back
(`GotBlock`). A block is a datum, good or bad. `Record` is what a resume file
keeps, `Restart` a crash (or the kill of the program) and the load of what was
saved, with `LoadCheckedPieces` comparing the times of the files, which other
programs may have changed. `tainted` remembers the pieces that something
happened to which the code does not stop (section 6).

### TorrentQueue

`queue` holds ids, `pos_cache` what `get_pos()` left behind: it is written by
looking, so `torrent_get` alone changes it, and no addition, removal or move
corrects it. (What is cached of an id that left is forgotten: ids are not given
again.) The sorts of a batch look at every position before the first move;
batches are of two, as one torrent alone moves like `SetQueuePosition` has it.
What is sorted is written as the sequence of a set that an order chooses
(`Arranged`), and what is filtered as the values at the places that are left
(`Only`), which says what `std::sort` and `std::remove` return and lets one reason
about it.
`file` is `queue.json`; `CloseAndLoad` and `CrashAndLoad` are the end of a session
and the load of the next, with new ids.

Definitions whose names end in `Fault` are wrong on purpose: each is a plausible
bug, and putting it in the place of the definition after it makes the run of
the property it is paired with in `PROJECT.json` fail.

## 3. The runs

The bounds are the smallest at which the cases named happen; what does not depend on
the bounds is proved (section 5).

| Run | Instance | Question |
|---|---|---|
| `swarm_two_peers` | 2 peers, 2 pieces that share a block, a file for each, 1 request per peer, a piece announced anew while it counts less than 2 | Do wishlist, requests, blocks, counts and completeness agree in every state, whatever peers and the user do? |
| `swarm_corrupt` | 2 peers (one with the fast extension), 2 aligned pieces, 1 file, bad data | Is a failed piece offered again in full, is no block asked for twice, does only verified data count? |
| `swarm_progress` | 1 peer, shared block, 2 files, 2 requests | Is a torrent with a wishlist always finished once things are calm? |
| `lifecycle_direct` | 2 torrents of a piece, 3 commands and a shutdown, front-end thread, complete torrents verified | Do session thread and worker agree, is nothing freed used, does verification implement `VerifyQueue`, does every wait and every verification end, when commands are closures that run later? |
| `lifecycle_rpc` | 2 torrents of 2 pieces, 3 commands and a shutdown, RPC, complete torrents not verified | Does no torrent start before its verification is over, are checked pieces right, does a running torrent know its completeness? |
| `announcer` | 1 tier, 2 trackers, 3 events, 1 list edit | Are events in order, completions told, flags taken down, running torrents announced? |
| `session` | 2 address queries, an announce, a scrape, one close with or without time left | Is every task in one place and answered, does a close come to its promise and leave nothing behind? |
| `storage` | 1 torrent, 2 pieces of a block in 1 file, a cache of 0 or 1 blocks, 2 seconds, one block may be bad, or come from a webseed and be bad | Can what is had be read as it was, is what is not saved marked, is only what is good uploaded, through failing writes, crashes and changed files? |
| `torrent_queue` | 3 torrents, 1 may be a magnet link, 3 ids per session, batches of 2 | Does each torrent have one place, do batches move as they stand, does the order come back? |
| `lifecycle_complete`, `session_close`, `storage_shut_file` | 1 torrent by RPC, complete torrents verified; the instance of `session`; that of `storage` with a file that may be shut | disagreements (section 6) |

Why these bounds are enough. Two pieces that share a block have all the geometry
the wishlist looks at except a piece between two neighbours, and what depends on
that (`NeighboursMeet`, `SpansDisjoint`) is proved for every geometry. Two peers
are needed for duplicate requests, cancels and replication; the code has no rule
that counts three. In `swarm_two_peers` neither has the fast extension, which lets
TLC take states as equal that differ by the names of the peers (`PeerSymmetry`);
`swarm_corrupt` has one with it, `swarm_progress` two requests. Two torrents are what one worker and one queue can confuse;
three commands let a command come before, between and after two others. Three
events make a tier's queue hold a completion, a stop and a start, or the like
with one of them under way; a fourth is never treated differently, because
`tier_announce_event_push()` looks at the last events and at "completed" only.
Two tasks besides the address queries let one be queued while one is running, and
one wait in the session thread while another ends; both queries are there
because `try_shutdown()` stops at the first that is being updated. Two
one-block pieces and a cache of at most one block are enough for a trim with one
run or two, a write that fails after the first block, a bypass and a flush within
a flush; the second second of the clock is the one in which somebody else changes
the file. Three torrents let a batch of two move past a third, and a stale
position point at another torrent or past the end.

`CHECK_DEADLOCK FALSE` is given where the system may stop: a session that was
shut down, a curl thread that sleeps for ever (section 6), a storage whose torrents
were removed, a swarm whose torrent is stopped and whose peers are gone, commands
and events used up, and a tier without a current tracker, whose upkeep would
crash.

Each property has a mutant in `PROJECT.json`, a bug in the code it is about, that
makes its run fail.

## 4. Fairness

* `Swarm`: the timers of the session thread run for ever, so idle work, the
  interest update and each peer's pulse are weakly fair. Peers owe nothing: a
  liveness property only speaks of behaviours that in the end are *calm*
  (`Calm`): nobody closes, rejects, corrupts, selects or stops any more, and a
  connected peer announces its pieces, unchokes and answers (weakly fair each).
* `Lifecycle`: the worker thread and the session thread keep running, so
  `Worker`, `TakenBack`, `RunWork`, `Closed`, the queue timer (each direction, and
  the starts of a round) and each torrent's idle work are weakly fair. Commands and downloads are not.
* `Announcer`: the clients answer every announce and every scrape (curl has a
  timeout and so have the requests of the UDP client), so answers are weakly
  fair, except that no tracker has to answer "unregistered". The upkeep of a
  tier is strongly fair: the timer runs for ever and takes every tier that is due
  in order of time, but a scrape under way makes the tier not ready now and then.
* `Session`: the session thread and the curl thread keep running, the clock goes
  on, and the thread that closes the session goes on when what it waits for has
  come (weak fairness each). Curl ends every transfer, as each has a timeout:
  strongly fair for each task, because the curl thread is between two rounds now
  and then. Nobody has to fetch anything or to close the session, and the UDP
  announcer may be busy until the deadline.

## 5. Proofs

All proofs are checked by TLAPS, without assumptions but those stated with the
constants (`ASSUME` in each module; TLC checks them on each run). Theorems hold
for any number of pieces, blocks, peers, files, torrents, tiers, trackers and
fetched tasks.

`Wishlist_proof` proves of each handler what it does to a *well-formed* wishlist:
each candidate owns its raw span except for at most one shared block on either
side, offers only blocks it owns, and meets its tracked neighbours. These three
need each other: that spans are disjoint follows from meeting neighbours, and a
handler keeps neighbours together only because a span never loses more than the
shared block. `candidate_list_upkeep()` is the hard case (new, kept and dropped
neighbours on both sides).

`Swarm_proof` has the invariant `IInv`: types, the wishlist well-formed and
offering nothing that is stored, no stored block requested, tracked pieces
wanted, no wishlist and no peers for a torrent that does not run, nobody
interesting to a done torrent, and no bad bytes in a piece that is had.
`ActiveOnlyMissing` needs `OffersOnlyMissing` (requests come from offers), which
needs the wishlist well-formed (a block given back must go to its one owner).
From it: `TypeOK`, `NeighboursMeet`, `SpansDisjoint`, `OffersOnlyMissing`,
`ActiveOnlyMissing`, the two together as `StoredLeftAlone`, `DoneNotInterested`,
`HadPiecesVerified` and the action property `UsefulRequests`.

Its last part builds on that. `CompletenessFresh` is not lost by a piece that
fails, though nobody asks for a check then: a block that arrives for a wanted piece
shows that one was missing, and if no piece passes one is missing still, so the
torrent was a leech and is one. `ReplicationCovers` is kept because each handler
leaves the counts of the candidates it does not count for; a connect, a have, a
bitfield and a have-all count the peer for every piece that it is a new holder of,
a have-none takes holders away and no count, and a close takes one of each for what
the peer has then. (That they count exactly is wrong, section 6.)

`SwarmBlocks_proof` is about where the missing blocks are, under two hypotheses that
section 6 shows to be needed. `NoBlockLost` is proved for torrents whose pieces each
begin with a block of their own (`Aligned`), whatever data is bad. Where two share a
block it is lost by bad data; that it is not by good data `swarm_two_peers` checks.
The invariant is that candidates offer what they miss, but for what peers are asked
for (`Held`), and that every incomplete piece that is wanted has a candidate while
there is a wishlist (`Tracks`). A block that comes is offered by nobody and asked of
nobody for a moment; it is stored then, or its piece failed and is offered as a whole
(`AlignedBlock`).

`EachBlockOnce` is proved for torrents of one file (`OneFile`), in every geometry.
With more files a piece that is selected again is offered while a peer is still asked
for it; with one, the wanted pieces are all or none, and a torrent that wants none is
done. The invariant `OnceInv` adds to the property that each requested block lies in
the span of a candidate while there is a wishlist, so that a new candidate, which
must meet its neighbours, cannot offer it (`UpkeepOnce`); and that a torrent that is
done, but still has its wishlist, asks for nothing. What a failed piece offers again
was stored, so it was asked of nobody (`AfterBlockWithin`).

`Lifecycle_proof` has `IInv == Core /\ WorkInv /\ UserInv /\ StartsInv`. `Core` is
`StateMatchesWorker` with where the worker thread is and what the sleeping
session thread waits for: a torrent that is being taken back is not queued, and
`stop_current_` is up exactly while the worker still has it, which is what
makes the two agree when the wait ends. `WorkInv` is about the queued closures: a
raw pointer in one is to a torrent that is alive, no such closure comes after the
removal of its torrent, and none but verification reports comes after the
session's close. `StartsInv` is about the torrents that the queue timer has still to
start. From it: `TypeOK`, `StateMatchesWorker`, `NoFreedTorrentUsed`,
and the refinement `VerifyPromise`: each step of the two threads is a step of
`VerifyQueue` or none.

`StartWaitsForVerify`, `CheckedTrue` and `RunningKnowsCompleteness` are proved for
commands that come by RPC (`Front = "rpc"`) and complete torrents that are not
verified (`~VerifyComplete`), with `RpcInv` on top of `IInv`. A
torrent that takes part in its swarm is not being verified and knows whether it is
complete, only such a torrent has blocks in the cache, and so nobody but the worker
changes what it has while pieces are checked (`Settled`). This is so in the midst of
`stop_now()` too, which sleeps until the worker has let go, between its two halves;
in every other state a torrent that takes part is also marked as running (`Steady`).
With a front end that calls from its own thread all three are wrong, and by RPC with
the preference to verify complete torrents the first and the last are (section 6);
whether `CheckedTrue` holds there is not proved. The other theorems are for both
fronts, with the preference or without.

`Announcer_proof` proves that `TypeOK /\ QueueOrdered /\ FlagsAnswered` is
inductive, by what each helper does to one tier (`TierOK`); the order of a queue
is kept by a push because of what `RemoveTrailing` leaves
(`RemoveTrailingPrefix`, from the maximum of a bounded set, `MaxIsMax`, by
well-foundedness of the numbers). From the same step lemmas come two action
properties: `CompletionKept` and `SilencedOnlyBy`.

`Session_proof` has `IInv`: `TypeOK`, `OnePlace`, `UpdatingIsUnderWay`, how far the
session has come in closing given how far the caller has (`CloseInv`), and that the
threads end one after another (`EndInv`): when the curl thread ended its lists are
empty, and when the session thread's loop ended so is its queue, unless hurried. A
task then has no place left, so by `OnePlace` it is not asked for any more, which is
`NothingLeftBehind`. What a queue of closures holds is counted (`Waits`), with a
lemma each for the end and the head of the queue.

`Storage_proof` treats an operation of the cache as the module does, as a set of
outcomes, and proves of each what may differ afterwards: after a flush some blocks
have left the cache (`Flushed`), after a write one block may have come (`Wrote`), and
if no file is shut no other block is read differently, errors on the way included. The
runs of a trim are disjoint (`RunsDisjoint`, `BeforeDisjoint`), so that what one
leaves the next does not disturb (`TrimFlushed`). `Base` needs no hypothesis: types,
`SavedOrDirty`, and that a resume file speaks of its own torrent. `Trust` has the
hypothesis that no file is shut (`MayBeShut = {}`), because with a shut file blocks
do get lost (section 6). `ServedGood` is not inductive, as a restart may believe the
resume file of a piece that nobody looks at now: `StillGood` says that what a resume
file says of a piece is so, or will not be believed, by the times of its files. That
the times can be relied on is `Past`: no file is from the future. The action
properties `HadStable` and `LeavesForDisk` follow by what each action does to the two
places a block is read from.

`TorrentQueue_proof` begins with sequences. A finite set in a strict order is one
sequence and only one, by the ranks of its members (`ArrangedExists`,
`ArrangedUnique`); so a sort, and a filter, which is the sort of the places that are
left, return what they should (`OnlyFacts`), and sequences with the same members in
the same order are filtered alike (`OnlySame`). Taking an id out and putting it in
somewhere else is a shuffle of places (`FromShuffles`, `MoveFacts`): the id is where
it was told to go, and the others stand to each other as they did. A queue in the
midst of a command is `Good` if it has each id once and its cached positions are of
the right type: whatever they are, what `get_pos()` says of an id in the queue is
true (`AskedFacts`), so every move of a batch is one of the torrent it is meant for
(`SetPosFacts`, `Reaches`), and a batch ends up where it should (`TopFacts`,
`BottomFacts`, `UpDownFacts`).

`EachOnce` is not inductive: that a new id is at the back once needs that no id
beyond `used` is in use (`IdsGiven`), and that a new session has one place for each
torrent needs that no torrent has two ids and no file is named twice (`NoneTwice`).
`OrderSurvives` needs to know what the file says (`FileIsOrder`): the
torrents of the queue in its order, unless a save failed or is due, and a torrent
that is a magnet link now was saved as one. A file that names its torrents so is
loaded in that order whatever files were renamed (`FileOrderLoads`). If no torrent
comes as a magnet link, none is ever renamed and a close keeps the whole order
(`OrderKeptWithoutMagnets`); that it does not otherwise is in section 6.

Only model-checked: everything under fairness (`CalmCompletes`, `RemoveReturns`,
`VerifyEnds`, `EventsSent`, `FetchAnswered`, `PromiseKept`), which is out of the
prover's reach; and of two theorems that have a hypothesis what lies beyond it:
`NoBlockLost` with shared blocks and good data, and `EachBlockOnce` with more than
one file as far as it holds. Every other property of the passing runs has a theorem.

## 6. Disagreements with the code

Three have a run that shows them, and a "finding" in `PROJECT.json` with the lines.

* `session_close`: the curl thread decides to go to sleep while it still looks idle
  and without a deadline (`web.cc:743` to 757), `startShutdown()` sets the deadline
  and wakes nobody up who does not sleep yet, and the thread then waits for
  ever: `tr_sessionClose()` never comes back from `~tr_web()`.
* `storage_shut_file`: `get_fd()` says that there is no file without setting an
  error (`inout.cc:95`), so `tr_ioWrite()` returns success (`inout.h:34`), and
  blocks leave the cache that were never written.
* `lifecycle_complete`: with `torrent_complete_verify_enabled`, a torrent that is
  complete when it is started, and does not know it, is queued for verification by
  `recheck_completeness()` (`torrent.cc:1786`, called at `:640`) and started by the
  lines after that, against the comment at `:597`. It becomes so if it is stopped
  between its last piece and idle work, or by an aborted verification that has found
  the last piece. The torrent then runs with a stale completeness too
  (`RunningKnowsCompleteness`, with the constants of `LifecycleComplete.cfg`).

Others were seen while modelling and are not runs of the project. Each of the
first group is found by TLC with the property and the constants named:

* Bad data in a block that two pieces share. The failed piece clears the block; if
  the other piece had passed it is no longer tracked, and blocks of it are missing,
  wanted, and offered by nobody. `NoBlockLost`, with the constants of
  `SwarmCorrupt.cfg` but `SharedBegin` and `SharedEnd` from `SwarmTwoPeers.cfg`.
* A piece that is deselected and selected again while a peer is asked for a block of
  it is offered to the others as a whole (`peer-mgr-wishlist.cc:69`).
  `EachBlockOnce`, with `SwarmTwoPeers.cfg`.
* A peer that sends a bitfield or have-all after it has announced pieces is counted
  twice for them (`peer-msgs.cc:1529` to 1535, 1627 to 1634), and one that sends
  have-none stays counted (`:1644` to 1651): the count of a piece can be too high
  for as long as the wishlist lives, and the piece is asked for later than a common
  one. Equality in place of `>=` in `ReplicationCovers`, with `SwarmTwoPeers.cfg`.
* A file selected after the torrent was done is not downloaded until the torrent
  is restarted, because the wishlist is made on start only (`peer-mgr.cc`).
  `WantedFilesDownloaded`, with `SwarmProgress.cfg`.
* From a front end with a thread of its own, verify and start in a row start the
  torrent while it is to be verified (`torrent.cc:629`, against the comment at
  `:597`). `StartWaitsForVerify`, `CheckedTrue` and `RunningKnowsCompleteness`, with
  `LifecycleRpc.cfg` but `Front = "direct"`.
* A "stopped" that fails after the torrent was started again is queued behind the
  "started", clears it, and leaves a running torrent unannounced there
  (`announcer.cc:916`). `RunningAnnounces`, with `Announcer.cfg` but `MaxResets = 0` and
  `MayUnregister = FALSE`, which would silence a tier too.
* Removing the current tracker of a stopped torrent's tier leaves the tier without
  one; the next announce asserts (`announcer.cc:1527`) or reads through null
  (`:1799`). `AnnounceHasTracker`, with `Announcer.cfg`.
* A magnet link that gets its metainfo changes the name it is saved under
  (`torrent-magnet.cc:248`), the queue is not marked as changed, and the order
  saved (`torrent-queue.cc:109`) is not the order of the next session, which
  `news/news-4.1.0-beta.1.md:32` promises. `OrderKept`, with `TorrentQueue.cfg`.

Of these no property is stated, as each follows from what one definition says:

* A batch moved up that is at the front already swaps its first two
  (`transmission.h:588` says that they move up if they can): `MoveUp`.
* A negative `queuePosition` given by RPC becomes a large `size_t` and moves the
  torrent to the back, where `transmission.h:580` says that `pos <= 0` is the front.
* `set_limit(0)` with a trim that fails leaves blocks in the cache, and the next
  write asserts that it is empty (`cache.cc:135`).
* A piece is checked with what is still in the cache and saved as checked; after a
  crash before the flush it is served unverified (`tainted` in `Storage`).
* Verification marks a bad piece as checked, and a webseed's write may be late:
  what is downloaded or written then is served without another check (`tainted`).
* Verification reads from the disk, beneath blocks that are cached.
* Blocks of a removed torrent that were never flushed fail to be written with
  EINVAL, and stop the cache from being trimmed past them.

## 7. What is left out

`Swarm`: partial blocks of a piece message, write errors, the preference for
pieces near completion when verifying, the age of requests (any request may
expire), which peers a bad piece blames (any), zero speed limits, webseeds,
magnet links, and the preference to verify complete torrents (`torrent.cc:1786`),
which is off. (`Lifecycle` has it; `Announcer` leaves it out as well.)

`Lifecycle`: both queues have one limit each and are enabled; a stalled torrent
counts as any other; files never disappear from disk; data is not deleted with
the torrent; the worker's queue is a set (its order by priority and size decides
nothing here); closures run one at a time, with other events possible in
between; a program has one kind of front end. What is a matter of lines in one
closure but would take the worker thread two turns is left out: a torrent that
the closure of a verification puts back in the worker's queue is not verified to
its end before the closure comes to its `start()`. Between the two directions of the
queue timer other events may come, which the code does not do.

`Announcer`: one torrent; time, `MaxAnnouncesPerUpkeep` and priorities; the
batches of multiscrape and their limits; byte counts; the "stopped" requests of
removed torrents and of shutdown; tracker ids, peer counts and messages for the
user. A tier without a current tracker blocks its upkeep, where the code would
crash. The runs have one tier; the theorems any number.

`Web` and `Session`: curl's handles and options, tasks paused by a speed limit (a
paused task is a running one that is not finished yet), what is fetched, and the
addresses themselves; a task is fetched again only when its callback has run;
the sockets, timers and torrents that the close tears down in between.

`Storage`: a block is written whole or not at all; a crash is one of the
program, not of the system, so what was written stays; reads do not fail by an
error they tell of; resume files are saved and preallocation succeeds; the pool
of open files. The run has one torrent; the definitions take any number.

`TorrentQueue`: the change marks of torrents that were moved, which only the
front ends look at, and entries of the file that name no torrent of the session.

Bounds: `MaxRequests` and `MaxReplication` (Swarm), `MaxCommands` (Lifecycle), `MaxQueue`, `MaxScrapes`
and `MaxResets` (Announcer), `Limits` and `MaxClock` (Storage), `MaxId` (TorrentQueue)
are in the guards and named in the modules; `Tasks` (Web), `Suspect`, `Late` and `MayBeShut`
(Storage) and `MayBeMagnets` (TorrentQueue) are the sets that inputs come from, and
batches of torrents have two. The theorems hold for every value of the
constants of their modules.

Other components are not modelled yet, or are conversions without state;
`PROJECT.json` says which and why. The repository's `*.ts` files are translations
(XML, `qt/translations`), in which there is nothing to model: the implementation is
C++.

## 8. Plan

Extend, in this order:

1. `Announcer`: byte counts, removed torrents and shutdown, so that every
   operation is an action.
2. Webseeds as peers of `Swarm`: blocks lost by a ban or by a change of the list.
3. The closures of `Lifecycle` on top of `Session`, with both kinds of front end in
   one program; `Web` as a refinement of "each fetch is answered once".
4. `Storage` with the pool of open files, and with verification as steps.
5. `Handshake`, `Magnet`, `PortForwarding`, `AnnouncerUdp`.

Prove: `LeavesForDisk` and `ServedGood` of files that are not shut where others are;
moves of batches of any number of torrents.
