-------------------------------- MODULE Swarm --------------------------------
(***************************************************************************)
(* Downloading one torrent from BitTorrent peers: the torrent's completion *)
(* state, its swarm, the peers' request bookkeeping and the wishlist that  *)
(* decides what is requested next.  The modelled code is spread over       *)
(* torrent.cc, peer-mgr.cc, peer-msgs.cc and peer-mgr-wishlist.cc, which   *)
(* talk through synchronous signals on the session thread: one action is   *)
(* one handler with every slot its signals reach.                          *)
(*                                                                         *)
(* Requests can be answered late, after a choke, a timeout or a cancel, or *)
(* never.  Files are deselected and reselected while requests are in       *)
(* flight, the torrent is stopped and started, peers come and go, and the  *)
(* data of a block may be bad in either of the two pieces it touches.      *)
(***************************************************************************)
EXTENDS Wishlist

CONSTANTS Peers,        \* addresses a peer may connect from
          FastPeers,    \* those whose connection supports the fast extension
          Files,        \* files of the torrent
          FilePieces,   \* FilePieces[f]: pieces that hold bytes of file f
          PeerLimit,    \* peer_limit() of the torrent
          MaxRequests,  \* bound on desired_request_count_
          MayCorrupt,   \* may peers send bad data?
          MaxReplication \* bound on the count of a piece that a peer announces anew

ASSUME SwarmAssumption ==
    /\ IsFiniteSet(Peers)
    /\ FastPeers \subseteq Peers
    /\ FilePieces \in [Files -> SUBSET Pieces]
    /\ PeerLimit \in Nat
    /\ MaxRequests \in Nat \ {0}
    /\ MayCorrupt \in BOOLEAN
    /\ MaxReplication \in Nat

VARIABLES
    has,          \* completion_.blocks_
    bad,          \* <<p, b>>: the stored bytes of piece p in block b do not match the hash
    wantedFiles,  \* files_wanted_
    completeness, \* completeness_
    needsCheck,   \* needs_completeness_check_
    running,      \* is_running_ and tr_swarm::is_running
    listed,       \* wishlist_controller is set
    wishlist,     \* its wishlist, NoWishlist when it is not
    peers,        \* tr_swarm::peers, a function from the connected peers
    banned        \* the peers whose tr_peer_info is banned

torVars == <<has, bad, wantedFiles, completeness, needsCheck, running>>
listVars == <<listed, wishlist>>
peerVars == <<peers, banned>>
vars == <<torVars, listVars, peerVars>>

PeerRecords == [have : SUBSET Pieces,      \* have_
                active : SUBSET Blocks,    \* active_requests
                choked : BOOLEAN,          \* client_is_choked()
                interested : BOOLEAN,      \* client_is_interested()
                leaving : BOOLEAN]         \* is_disconnecting()

Completeness == {"leech", "partial_seed", "seed"}

Connected == DOMAIN peers

WantedPieces(fs) == UNION {FilePieces[f] : f \in fs}
Wanted == WantedPieces(wantedFiles)

\* tr_completion::status(): size_now_ = size_when_done() says that no byte of
\* a wanted piece is missing.
Status(h, ws) == IF Blocks \subseteq h THEN "seed"
                 ELSE IF \A p \in ws : HasPiece(h, p) THEN "partial_seed"
                 ELSE "leech"

\* tr_torrent::is_done()
Done == completeness # "leech"

\* WishlistController::count_piece_replication()
Replications(ps) == [p \in Pieces |-> Cardinality({x \in DOMAIN ps : p \in ps[x].have})]

TypeOK ==
    /\ has \in SUBSET Blocks
    /\ bad \in SUBSET (Pieces \X Blocks)
    /\ wantedFiles \in SUBSET Files
    /\ completeness \in Completeness
    /\ needsCheck \in BOOLEAN
    /\ running \in BOOLEAN
    /\ listed \in BOOLEAN
    /\ IsWishlist(wishlist)
    /\ Connected \subseteq Peers
    /\ peers \in [Connected -> PeerRecords]
    /\ banned \in SUBSET Peers

\* A stopped torrent with the verified blocks its resume file names.
Init ==
    /\ has \in SUBSET Blocks
    /\ bad = {}
    /\ wantedFiles \in SUBSET Files
    /\ completeness = Status(has, Wanted)
    /\ needsCheck = FALSE
    /\ running = FALSE
    /\ listed = FALSE
    /\ wishlist = NoWishlist
    /\ peers = [x \in {} |-> 0]
    /\ banned = {}

-----------------------------------------------------------------------------
(* The torrent.                                                            *)

\* recheck_completeness() of blocks h and wanted pieces ws, with done_ and its
\* slot tr_swarm::on_torrent_done(): w and ps are the wishlist and the peers
\* before it.  (The preference to verify a complete torrent again is off.)
Recheck(h, ws, w, ps) ==
    LET finished == Status(h, ws) \notin {completeness, "leech"}
    IN /\ needsCheck' = FALSE
       /\ completeness' = Status(h, ws)
       /\ listed' = (listed /\ ~finished)
       /\ wishlist' = IF finished THEN NoWishlist ELSE w
       /\ peers' = IF finished
                   THEN [x \in DOMAIN ps |-> [ps[x] EXCEPT !.interested = FALSE]]
                   ELSE ps

\* set_files_wanted(): the wishlist hears of it before completeness is checked.
SetFilesWanted(fs, wanted) ==
    /\ wantedFiles' = IF wanted THEN wantedFiles \cup fs ELSE wantedFiles \ fs
    /\ LET ws == WantedPieces(wantedFiles')
           w  == IF listed THEN Upkeep(wishlist, has, ws, Replications(peers)) ELSE wishlist
       IN Recheck(has, ws, w, peers)
    /\ UNCHANGED <<has, bad, running, banned>>

\* do_idle_work(): the check that a completed piece asked for.
IdleWork ==
    /\ needsCheck
    /\ Recheck(has, Wanted, wishlist, peers)
    /\ UNCHANGED <<has, bad, wantedFiles, running, banned>>

\* start_in_session_thread(), with started_ and tr_swarm::on_torrent_started().
\* No peer is connected, so done_ would reach nobody.
Start ==
    /\ ~running
    /\ running' = TRUE
    /\ completeness' = Status(has, Wanted)
    /\ needsCheck' = FALSE
    /\ listed' = TRUE
    /\ wishlist' = Upkeep(NoWishlist, has, Wanted, Replications(peers))
    /\ UNCHANGED <<has, bad, wantedFiles, peers, banned>>

\* stop_now(), with stopped_ and tr_swarm::stop().
Stop ==
    /\ running
    /\ running' = FALSE
    /\ listed' = FALSE
    /\ wishlist' = NoWishlist
    /\ peers' = [x \in {} |-> 0]
    /\ UNCHANGED <<has, bad, wantedFiles, completeness, needsCheck, banned>>

-----------------------------------------------------------------------------
(* Connections.                                                            *)

NewPeer == [have |-> {}, active |-> {}, choked |-> TRUE, interested |-> FALSE, leaving |-> FALSE]

\* on_handshake_done() for a handshake that succeeded.
Connect(x) ==
    /\ running
    /\ x \notin banned
    /\ Cardinality(Connected) < PeerLimit
    /\ x \notin Connected
    /\ peers' = [y \in Connected \cup {x} |-> IF y = x THEN NewPeer ELSE peers[y]]
    /\ UNCHANGED <<torVars, listVars, banned>>

\* The peer's connection failed or it broke the protocol: disconnect_soon().
DisconnectSoon(x) ==
    /\ peers' = [peers EXCEPT ![x].leaving = TRUE]
    /\ UNCHANGED <<torVars, listVars, banned>>

\* close_peer() by reconnect_pulse(): the peer is leaving, idle for too long,
\* a seed like us, or over a limit.
ClosePeer(x) ==
    /\ wishlist' = PeerDisconnect(wishlist, peers[x].have, peers[x].active)
    /\ peers' = [y \in Connected \ {x} |-> peers[y]]
    /\ UNCHANGED <<torVars, listed, banned>>

-----------------------------------------------------------------------------
(* Messages from a peer.                                                   *)

GotHave(x, p) ==
    /\ p \notin peers[x].have
    /\ peers' = [peers EXCEPT ![x].have = @ \cup {p}]
    /\ wishlist' = IncReplication(wishlist, {p})
    /\ UNCHANGED <<torVars, listed, banned>>

\* A peer that says anew what it has is counted anew; what it had stays counted.
\* Nothing ends that but the bound.
MayAnnounceAnew(x) ==
    \A p \in DOMAIN wishlist \cap peers[x].have : wishlist[p].replication < MaxReplication

\* Bitfield: it takes the place of all that the peer has said before.
GotBitfield(x, ps) ==
    /\ MayAnnounceAnew(x)
    /\ peers' = [peers EXCEPT ![x].have = ps]
    /\ wishlist' = IncReplication(wishlist, ps)
    /\ UNCHANGED <<torVars, listed, banned>>

\* HaveAll and HaveNone are errors without the fast extension (DisconnectSoon).
GotHaveAll(x) ==
    /\ x \in FastPeers
    /\ MayAnnounceAnew(x)
    /\ peers' = [peers EXCEPT ![x].have = Pieces]
    /\ wishlist' = IncReplication(wishlist, Pieces)
    /\ UNCHANGED <<torVars, listed, banned>>

\* HaveNone: the wishlist does not hear of it.
GotHaveNone(x) ==
    /\ x \in FastPeers
    /\ MayAnnounceAnew(x)
    /\ peers' = [peers EXCEPT ![x].have = {}]
    /\ UNCHANGED <<torVars, listVars, banned>>

\* Fault: the requests are cleared before the wishlist hears of the choke.
GotChokeFault(x) ==
    /\ ~peers[x].choked
    /\ peers' = [peers EXCEPT ![x].choked = TRUE,
                             ![x].active = IF x \in FastPeers THEN @ ELSE {}]
    /\ UNCHANGED <<torVars, listVars, banned>>

\* A peer with the fast extension rejects our requests one by one; from
\* another a choke drops them all.
GotChoke(x) ==
    LET dropped == IF x \in FastPeers THEN {} ELSE peers[x].active
    IN /\ ~peers[x].choked
       /\ wishlist' = ResetBlocks(wishlist, dropped)
       /\ peers' = [peers EXCEPT ![x].choked = TRUE, ![x].active = @ \ dropped]
       /\ UNCHANGED <<torVars, listed, banned>>

GotUnchoke(x) ==
    /\ peers[x].choked
    /\ peers' = [peers EXCEPT ![x].choked = FALSE]
    /\ UNCHANGED <<torVars, listVars, banned>>

GotReject(x, b) ==
    /\ x \in FastPeers
    /\ b \in peers[x].active
    /\ peers' = [peers EXCEPT ![x].active = @ \ {b}]
    /\ wishlist' = ResetBlocks(wishlist, {b})
    /\ UNCHANGED <<torVars, listed, banned>>

\* Faults: no completeness check is asked for; a bad piece is kept.
CheckPieceFault1(s, p) ==
    IF ~HasPiece(s.has, p) THEN s
    ELSE IF \A b \in RawSpan(p) : <<p, b>> \notin s.bad
    THEN [s EXCEPT !.wishlist = RemovePiece(@, p)]
    ELSE [s EXCEPT !.wishlist = GotBadPiece(@, p), !.failed = TRUE, !.has = @ \ RawSpan(p)]
CheckPieceFault2(s, p) ==
    IF ~HasPiece(s.has, p) THEN s
    ELSE IF \A b \in RawSpan(p) : <<p, b>> \notin s.bad
    THEN [s EXCEPT !.wishlist = RemovePiece(@, p), !.passed = TRUE]
    ELSE [s EXCEPT !.wishlist = GotBadPiece(@, p), !.failed = TRUE]

\* One turn of the loop in on_block_received(): a piece that is now whole is
\* checked, and completed or failed.
CheckPiece(s, p) ==
    IF ~HasPiece(s.has, p) THEN s
    ELSE IF \A b \in RawSpan(p) : <<p, b>> \notin s.bad
    THEN [s EXCEPT !.wishlist = RemovePiece(@, p), !.passed = TRUE]
    ELSE [s EXCEPT !.wishlist = GotBadPiece(@, p), !.failed = TRUE, !.has = @ \ RawSpan(p)]

FirstPiece(b) == CHOOSE p \in PiecesOf(b) : \A q \in PiecesOf(b) : p <= q
LastPiece(b) == CHOOSE p \in PiecesOf(b) : \A q \in PiecesOf(b) : q <= p

\* cancel_all_requests_for_block() as the wishlist hears of it.
Cancelled(x, b) ==
    IF \E y \in Connected \ {x} : b \in peers[y].active
    THEN ResetBlocks(wishlist, {b}) ELSE wishlist

\* Fault: the other requests are cancelled after the wishlist got the block.
WithBlockFault(x, b) ==
    IF \E y \in Connected \ {x} : b \in peers[y].active
    THEN ResetBlocks(GotBlock(wishlist, b), {b}) ELSE GotBlock(wishlist, b)

\* The ClientGotBlock event: the block's other requests are cancelled before
\* the wishlist gets the block.
WithBlock(x, b) == GotBlock(Cancelled(x, b), b)

\* on_block_received(): check the pieces that the block may have completed.
\* (To check the same piece twice does what one check does.)
AfterBlock(x, b, corrupt) ==
    LET stored == [has |-> has \cup {b},
                   bad |-> (bad \ (PiecesOf(b) \X {b})) \cup (corrupt \X {b}),
                   wishlist |-> WithBlock(x, b),
                   passed |-> FALSE, failed |-> FALSE]
    IN CheckPiece(CheckPiece(stored, FirstPiece(b)), LastPiece(b))

\* read_piece_data() accepts the block: we miss it and want one of its pieces.
\* The peer has the pieces; we may have asked for the block or not.
Accepts(x, b) ==
    /\ b \notin has
    /\ PiecesOf(b) \cap Wanted # {}
    /\ PiecesOf(b) \subseteq peers[x].have

\* Fault: only the sender's request is dropped.
DropRequestsFault(x, b, struck) ==
    [y \in Connected |-> [peers[y] EXCEPT !.active = IF y = x THEN @ \ {b} ELSE @,
                                          !.leaving = @ \/ y \in struck]]

\* Nobody is asked for the block any more; the struck peers are to be closed.
DropRequests(x, b, struck) ==
    [y \in Connected |-> [peers[y] EXCEPT !.active = @ \ {b}, !.leaving = @ \/ y \in struck]]

\* client_got_block(), the ClientGotBlock event and on_block_received().  When
\* a piece fails, any peer may be one it is the last strike of.
GotBlockData(x, b, corrupt) ==
    LET s == AfterBlock(x, b, corrupt)
    IN /\ Accepts(x, b)
       /\ has' = s.has
       /\ bad' = {pb \in s.bad : pb[2] \in s.has}
       /\ wishlist' = s.wishlist
       /\ needsCheck' = (needsCheck \/ s.passed)
       /\ \E struck \in SUBSET IF s.failed THEN Connected ELSE {} :
             /\ banned' = banned \cup struck
             /\ peers' = DropRequests(x, b, struck)
       /\ UNCHANGED <<wantedFiles, completeness, running, listed>>

-----------------------------------------------------------------------------
(* Periodic work.                                                          *)

\* updateInterest(), from rechoke_pulse().
UpdateInterest ==
    /\ running
    /\ ~Done
    /\ peers' = [x \in Connected |-> [peers[x] EXCEPT !.interested =
          \/ peers[x].have = Pieces
          \/ \E p \in Wanted \cap peers[x].have : ~HasPiece(has, p)]]
    /\ UNCHANGED <<torVars, listVars, banned>>

\* Fault: an expired request is offered again and still counted as active.
ExpireFault(x, expired) ==
    [peer |-> peers[x], wishlist |-> ResetBlocks(wishlist, expired)]

\* check_request_timeout(): requests that expired are cancelled.
Expire(x, expired) ==
    [peer |-> [peers[x] EXCEPT !.active = @ \ expired],
     wishlist |-> ResetBlocks(wishlist, expired)]

\* max_available_reqs() > 0
MayRequest(x) == ~Done /\ ~peers[x].choked /\ peers[x].interested

\* tr_peerMsgsImpl::pulse(): time out old requests, then ask the wishlist for
\* as many blocks as are missing to the desired number and request them.
Pulse(x, expired, desired) ==
    LET s == Expire(x, expired)
        n == IF MayRequest(x) THEN desired - Cardinality(s.peer.active) ELSE 0
    IN /\ \E bs \in IF n > 0 THEN NextBlocks(s.wishlist, s.peer.have, n) ELSE {{}} :
             /\ peers' = [peers EXCEPT ![x] = [s.peer EXCEPT !.active = @ \cup bs]]
             /\ wishlist' = RequestedBlocks(s.wishlist, bs)
       /\ UNCHANGED <<torVars, listed, banned>>

-----------------------------------------------------------------------------
UserStep ==
    \/ \E fs \in SUBSET Files, wanted \in BOOLEAN : SetFilesWanted(fs, wanted)
    \/ Start
    \/ Stop

PeerStep(x) ==
    \/ DisconnectSoon(x)
    \/ ClosePeer(x)
    \/ \E p \in Pieces : GotHave(x, p)
    \/ \E ps \in SUBSET Pieces : GotBitfield(x, ps)
    \/ GotHaveAll(x)
    \/ GotHaveNone(x)
    \/ GotChoke(x)
    \/ GotUnchoke(x)
    \/ \E b \in Blocks : GotReject(x, b)
    \/ \E b \in Blocks : \E corrupt \in SUBSET IF MayCorrupt THEN PiecesOf(b) ELSE {} :
          GotBlockData(x, b, corrupt)
    \/ \E expired \in SUBSET peers[x].active, desired \in 1 .. MaxRequests :
          Pulse(x, expired, desired)

Next ==
    \/ UserStep
    \/ IdleWork
    \/ UpdateInterest
    \/ \E x \in Peers : Connect(x)
    \/ \E x \in Connected : PeerStep(x)

Spec == Init /\ [][Next]_vars

-----------------------------------------------------------------------------
(* Properties.                                                             *)

\* The candidates' spans never overlap: find_by_block() has one answer.
SpansDisjoint ==
    \A p, q \in DOMAIN wishlist : p # q => Span(wishlist[p]) \cap Span(wishlist[q]) = {}

\* Two tracked neighbours meet: what got_bad_piece() asserts of their spans
\* (peer-mgr-wishlist.cc:357 and :369).
NeighboursMeet ==
    \A p \in DOMAIN wishlist : p + 1 \in DOMAIN wishlist =>
        wishlist[p].end = wishlist[p + 1].begin

\* The wishlist never offers a block that is stored already.
OffersOnlyMissing == TotalUnrequested(wishlist) \cap has = {}

\* A candidate counts every connected peer that has its piece, whatever peers come,
\* announce, announce anew and go: the count never wraps, and next() never passes over
\* a piece that a peer has because it counts 0.  (It may count too many.)
ReplicationCovers ==
    \A p \in DOMAIN wishlist : wishlist[p].replication >= Replications(peers)[p]

\* No request is outstanding for a block that is stored already.
ActiveOnlyMissing == \A x \in Connected : peers[x].active \cap has = {}

\* What has come is left alone, though the write, the cancels, the wishlist and the
\* piece check hear of it one after the other (peer-mgr.cc:948).
StoredLeftAlone == OffersOnlyMissing /\ ActiveOnlyMissing

\* A torrent that is done is not interested in anybody (peer-msgs.cc:530).
DoneNotInterested == Done => \A x \in Connected : ~peers[x].interested

\* While there is a wishlist, every missing block of every wanted piece can
\* still be requested by the candidate that owns it, or is being requested.
NoBlockLost ==
    listed => \A p \in Wanted : \A b \in RawSpan(p) \ has :
        \/ b \in TotalUnrequested(wishlist)
        \/ \E x \in Connected : b \in peers[x].active

\* A block is requested from one peer at a time.
NoDuplicateRequest ==
    \A x, y \in Connected : x # y => peers[x].active \cap peers[y].active = {}

\* A block that is being requested is not offered again.
NoRequestedOffered ==
    \A x \in Connected : peers[x].active \cap TotalUnrequested(wishlist) = {}

\* A block that is not stored is in one place: on offer, or asked of one peer.
EachBlockOnce == NoDuplicateRequest /\ NoRequestedOffered

\* A piece counts as had only with the bytes that match its hash.
HadPiecesVerified ==
    \A p \in Pieces : HasPiece(has, p) => \A b \in RawSpan(p) : <<p, b>> \notin bad

\* completeness_ lags behind the blocks only while a check is due.
CompletenessFresh == completeness = Status(has, Wanted) \/ needsCheck

\* A new request is for a missing block of a wanted piece that the peer has.
UsefulRequests == [][
    \A x \in Connected \cap DOMAIN peers' : \A b \in peers'[x].active \ peers[x].active :
        b \notin has /\ \E p \in PiecesOf(b) \cap Wanted : p \in peers[x].have]_vars

-----------------------------------------------------------------------------
(* Progress.  The session thread runs its timers for ever, and connected   *)
(* peers come to have every piece, unchoke us and answer what they can.    *)

\* Requests nobody will answer: we refuse the block now.
Stale(x) == {b \in peers[x].active : b \in has \/ PiecesOf(b) \cap Wanted = {}}

Answer(x) == \E b \in peers[x].active : GotBlockData(x, b, {})
CalmPulse(x) == Pulse(x, Stale(x), MaxRequests)
CloseLeaving(x) == peers[x].leaving /\ ClosePeer(x)
Announce(x) == \E p \in Pieces : GotHave(x, p)

\* What happens once the user, the network and the peers stop interfering.
CalmStep ==
    \/ IdleWork
    \/ UpdateInterest
    \/ \E x \in Peers : Connect(x)
    \/ \E x \in Connected :
          Announce(x) \/ GotUnchoke(x) \/ Answer(x) \/ CalmPulse(x) \/ CloseLeaving(x)

Fairness ==
    /\ WF_vars(IdleWork)
    /\ WF_vars(UpdateInterest)
    /\ \A x \in Peers :
          /\ WF_vars(Connect(x))
          /\ WF_vars(x \in Connected /\ Announce(x))
          /\ WF_vars(x \in Connected /\ GotUnchoke(x))
          /\ WF_vars(x \in Connected /\ Answer(x))
          /\ WF_vars(x \in Connected /\ CalmPulse(x))
          /\ WF_vars(x \in Connected /\ CloseLeaving(x))

FairSpec == Spec /\ Fairness

Calm == <>[][CalmStep]_vars

\* Whatever happened before, a running torrent with a wishlist gets all that
\* the user wants once things calm down: no request and no block is stuck.
CalmCompletes == Calm => <>[](running /\ listed => Done)

\* A running torrent gets the files that the user wants (transmission.h:1006).  It
\* does not always: on_torrent_done() drops the wishlist (README, section 6).
WantedFilesDownloaded == Calm => <>[](running => Done)
=============================================================================
