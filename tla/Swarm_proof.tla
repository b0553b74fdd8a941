---------------------------- MODULE Swarm_proof ----------------------------
(***************************************************************************)
(* Safety of the download, for every torrent geometry, set of files and    *)
(* set of peers.  IInv is the inductive invariant: the wishlist is well    *)
(* formed and offers, like the peers' requests, only blocks that are       *)
(* missing; it tracks wanted pieces; a stopped torrent has no peers.       *)
(* The last two parts are about what is kept in step with what it is       *)
(* derived from: the replication counts with the pieces of the connected   *)
(* peers, and completeness with the blocks, unless a check of it is due.   *)
(***************************************************************************)
EXTENDS Swarm, Wishlist_proof, FiniteSetTheorems

IInv ==
    /\ TypeOK
    /\ WellFormed(wishlist)
    /\ OffersNone(wishlist, has)
    /\ ActiveOnlyMissing
    /\ DOMAIN wishlist \subseteq Wanted
    /\ listed \/ DOMAIN wishlist = {}
    /\ running \/ Connected = {}
    /\ DoneNotInterested
    /\ HadPiecesVerified

-----------------------------------------------------------------------------
(* Lemmas about the helpers.                                               *)

\* The wishlist that does not exist offers nothing.
LEMMA NoWishlistOK ==
    /\ WellFormed(NoWishlist) /\ DOMAIN NoWishlist = {}
    /\ \A hs : OffersNone(NoWishlist, hs)
  BY DEF WellFormed, IsWishlist, SpanOK, OffersOwn, Meet, OffersNone, NoWishlist

\* Files hold pieces of the torrent.
LEMMA WantedPiecesOK ==
    ASSUME NEW fs \in SUBSET Files
    PROVE  WantedPieces(fs) \subseteq Pieces
  BY SwarmAssumption DEF WantedPieces

\* status() answers one of the three completeness values.
LEMMA StatusOK ==
    \A h, ws : Status(h, ws) \in Completeness
  BY DEF Status, Completeness

\* count_piece_replication() counts finitely many peers.
LEMMA ReplicationsOK ==
    ASSUME NEW ps, DOMAIN ps \subseteq Peers
    PROVE  Replications(ps) \in [Pieces -> Int]
<1>1. ASSUME NEW p \in Pieces
      PROVE  Cardinality({x \in DOMAIN ps : p \in ps[x].have}) \in Nat
  <2>1. {x \in DOMAIN ps : p \in ps[x].have} \subseteq Peers
    OBVIOUS
  <2>2. IsFiniteSet({x \in DOMAIN ps : p \in ps[x].have})
    BY <2>1, SwarmAssumption, FS_Subset
  <2> QED
    BY <2>2, FS_CardinalityType
<1> QED
  BY <1>1 DEF Replications

\* A block is in one piece or in two neighbours, the first and the last one.
LEMMA EdgePieces ==
    ASSUME NEW b, PiecesOf(b) # {}
    PROVE  /\ FirstPiece(b) \in PiecesOf(b)
           /\ LastPiece(b) \in PiecesOf(b)
           /\ PiecesOf(b) = {FirstPiece(b), LastPiece(b)}
<1>1. \A p, q \in PiecesOf(b) : p \in Int /\ q \in Int /\ (p < q => q = p + 1)
  BY SharedBlock DEF PiecesOf, Pieces
<1>2. PICK p \in PiecesOf(b) : TRUE
  OBVIOUS
<1>3. \E q \in PiecesOf(b) : \A r \in PiecesOf(b) : q <= r
  <2>1. CASE p - 1 \in PiecesOf(b)
    BY <1>1, <2>1
  <2>2. CASE p - 1 \notin PiecesOf(b)
    BY <1>1, <1>2, <2>2
  <2> QED
    BY <2>1, <2>2
<1>4. \E q \in PiecesOf(b) : \A r \in PiecesOf(b) : r <= q
  <2>1. CASE p + 1 \in PiecesOf(b)
    BY <1>1, <2>1
  <2>2. CASE p + 1 \notin PiecesOf(b)
    BY <1>1, <1>2, <2>2
  <2> QED
    BY <2>1, <2>2
<1>5. /\ FirstPiece(b) \in PiecesOf(b) /\ \A r \in PiecesOf(b) : FirstPiece(b) <= r
      /\ LastPiece(b) \in PiecesOf(b) /\ \A r \in PiecesOf(b) : r <= LastPiece(b)
  BY <1>3, <1>4 DEF FirstPiece, LastPiece
<1>6. \A r \in PiecesOf(b) : r = FirstPiece(b) \/ r = LastPiece(b)
  BY <1>1, <1>5
<1> QED
  BY <1>5, <1>6

\* A checked piece is had only if no byte of it is bad.
LEMMA CheckPieceOK ==
    ASSUME NEW s, NEW p \in Pieces,
           s = [has |-> s.has, bad |-> s.bad, wishlist |-> s.wishlist,
                passed |-> s.passed, failed |-> s.failed],
           s.passed \in BOOLEAN, s.failed \in BOOLEAN,
           WellFormed(s.wishlist), OffersNone(s.wishlist, s.has)
    PROVE  LET r == CheckPiece(s, p)
           IN /\ r = [has |-> r.has, bad |-> r.bad, wishlist |-> r.wishlist,
                      passed |-> r.passed, failed |-> r.failed]
              /\ r.passed \in BOOLEAN /\ r.failed \in BOOLEAN
              /\ WellFormed(r.wishlist) /\ OffersNone(r.wishlist, r.has)
              /\ DOMAIN r.wishlist \subseteq DOMAIN s.wishlist
              /\ r.has \subseteq s.has /\ r.bad = s.bad
              /\ HasPiece(r.has, p) => \A b \in RawSpan(p) : <<p, b>> \notin s.bad
<1> DEFINE r == CheckPiece(s, p)
<1>1. CASE ~HasPiece(s.has, p)
  BY <1>1 DEF CheckPiece
<1>2. CASE HasPiece(s.has, p) /\ \A b \in RawSpan(p) : <<p, b>> \notin s.bad
  <2>1. r = [has |-> s.has, bad |-> s.bad, wishlist |-> RemovePiece(s.wishlist, p),
             passed |-> TRUE, failed |-> s.failed]
    BY <1>2 DEF CheckPiece
  <2>2. /\ WellFormed(RemovePiece(s.wishlist, p))
        /\ DOMAIN RemovePiece(s.wishlist, p) \subseteq DOMAIN s.wishlist
        /\ OffersNone(RemovePiece(s.wishlist, p), s.has)
    BY RemovePieceOK
  <2> HIDE DEF r
  <2>3. /\ r.has = s.has /\ r.bad = s.bad /\ r.wishlist = RemovePiece(s.wishlist, p)
        /\ r.passed \in BOOLEAN /\ r.failed \in BOOLEAN
        /\ r = [has |-> r.has, bad |-> r.bad, wishlist |-> r.wishlist,
                passed |-> r.passed, failed |-> r.failed]
    BY <2>1
  <2> QED
    BY <1>2, <2>2, <2>3 DEF r
<1>3. CASE HasPiece(s.has, p) /\ ~(\A b \in RawSpan(p) : <<p, b>> \notin s.bad)
  <2>1. r = [has |-> s.has \ RawSpan(p), bad |-> s.bad, wishlist |-> GotBadPiece(s.wishlist, p),
             passed |-> s.passed, failed |-> TRUE]
    BY <1>3 DEF CheckPiece
  <2>2. OffersNone(s.wishlist, RawSpan(p))
    BY <1>3 DEF OffersNone, HasPiece
  <2>3. RawSpan(p) # {}
    BY PieceBounds DEF RawSpan
  <2>4. ~HasPiece(s.has \ RawSpan(p), p)
    BY <2>3 DEF HasPiece
  <2> HIDE DEF r
  <2> QED
    BY <2>1, <2>2, <2>4, GotBadPieceOK DEF r
<1> QED
  BY <1>1, <1>2, <1>3

-----------------------------------------------------------------------------
(* The invariant holds at first.                                           *)

\* A stopped torrent satisfies the invariant.
LEMMA InitOK == Init => IInv
<1>1. SUFFICES ASSUME Init PROVE IInv
  OBVIOUS
<1>2. TypeOK
  BY <1>1, StatusOK, NoWishlistOK DEF Init, TypeOK, WellFormed, Connected
<1>3. ActiveOnlyMissing /\ DoneNotInterested /\ HadPiecesVerified /\ Connected = {}
  BY <1>1 DEF Init, ActiveOnlyMissing, DoneNotInterested, HadPiecesVerified, Connected
<1> QED
  BY <1>1, <1>2, <1>3, NoWishlistOK DEF IInv, Init

-----------------------------------------------------------------------------
(* The torrent's own steps.                                                *)

\* What recheck_completeness() leaves, whatever blocks it is given.
LEMMA RecheckOK ==
    ASSUME NEW h, NEW ws, NEW w, WellFormed(w), OffersNone(w, h), DOMAIN w \subseteq ws,
           listed \in BOOLEAN, listed \/ DOMAIN w = {},
           Connected \subseteq Peers, peers \in [Connected -> PeerRecords],
           DoneNotInterested, completeness \in Completeness,
           Recheck(h, ws, w, peers)
    PROVE  /\ needsCheck' \in BOOLEAN /\ completeness' \in Completeness /\ listed' \in BOOLEAN
           /\ WellFormed(wishlist') /\ OffersNone(wishlist', h) /\ DOMAIN wishlist' \subseteq ws
           /\ listed' \/ DOMAIN wishlist' = {}
           /\ Connected' = Connected /\ peers' \in [Connected' -> PeerRecords]
           /\ \A x \in Connected : peers'[x].active = peers[x].active
           /\ DoneNotInterested'
<1> DEFINE finished == Status(h, ws) \notin {completeness, "leech"}
<1>1. /\ needsCheck' = FALSE /\ completeness' = Status(h, ws)
      /\ listed' = (listed /\ ~finished)
      /\ wishlist' = IF finished THEN NoWishlist ELSE w
      /\ peers' = IF finished
                  THEN [x \in Connected |-> [peers[x] EXCEPT !.interested = FALSE]]
                  ELSE peers
  BY DEF Recheck, Connected
<1>2. completeness' \in Completeness
  BY <1>1, StatusOK
<1>3. /\ Connected' = Connected /\ peers' \in [Connected' -> PeerRecords]
      /\ \A x \in Connected : peers'[x].active = peers[x].active
      /\ finished => \A x \in Connected : ~peers'[x].interested
  <2>1. CASE finished
    <3>1. peers' = [x \in Connected |-> [peers[x] EXCEPT !.interested = FALSE]]
      BY <1>1, <2>1
    <3> HIDE DEF finished
    <3>2. Connected' = Connected
      BY <3>1 DEF Connected
    <3>3. \A x \in Connected : /\ peers'[x] \in PeerRecords
                               /\ peers'[x].active = peers[x].active
                               /\ ~peers'[x].interested
      BY <3>1 DEF PeerRecords
    <3> QED
      BY <3>1, <3>2, <3>3
  <2>2. CASE ~finished
    BY <1>1, <2>2 DEF Connected
  <2> QED
    BY <2>1, <2>2
<1>4. DoneNotInterested'
  BY <1>1, <1>3 DEF DoneNotInterested, Done
<1> QED
  BY <1>1, <1>2, <1>3, <1>4, NoWishlistOK

\* set_files_wanted() keeps the invariant: the wishlist follows the selection.
LEMMA SetFilesWantedOK ==
    ASSUME IInv, NEW fs \in SUBSET Files, NEW wanted \in BOOLEAN, SetFilesWanted(fs, wanted)
    PROVE  IInv'
<1> DEFINE ws == WantedPieces(wantedFiles')
           w == IF listed THEN Upkeep(wishlist, has, ws, Replications(peers)) ELSE wishlist
<1>1. /\ Recheck(has, ws, w, peers)
      /\ wantedFiles' \in SUBSET Files
      /\ UNCHANGED <<has, bad, running, banned>>
  BY DEF SetFilesWanted, IInv, TypeOK
<1>2. WellFormed(w) /\ OffersNone(w, has) /\ DOMAIN w \subseteq ws /\ (listed \/ DOMAIN w = {})
  <2>1. CASE ~listed
    BY <2>1 DEF IInv
  <2>2. CASE listed
    <3>1. ws \in SUBSET Pieces
      BY <1>1, WantedPiecesOK
    <3>2. Replications(peers) \in [Pieces -> Int]
      BY ReplicationsOK DEF IInv, TypeOK, Connected
    <3>3. ShouldTrack(has, ws) \subseteq ws
      BY DEF ShouldTrack
    <3> HIDE DEF ws
    <3> QED
      BY <2>2, <3>1, <3>2, <3>3, UpkeepOK DEF IInv
  <2> QED
    BY <2>1, <2>2
<1> HIDE DEF w
<1>3. /\ needsCheck' \in BOOLEAN /\ completeness' \in Completeness /\ listed' \in BOOLEAN
      /\ WellFormed(wishlist') /\ OffersNone(wishlist', has) /\ DOMAIN wishlist' \subseteq ws
      /\ listed' \/ DOMAIN wishlist' = {}
      /\ Connected' = Connected /\ peers' \in [Connected' -> PeerRecords]
      /\ \A x \in Connected : peers'[x].active = peers[x].active
      /\ DoneNotInterested'
  <2> HIDE DEF ws
  <2> QED
    BY <1>1, <1>2, RecheckOK DEF IInv, TypeOK
<1>4. TypeOK'
  BY <1>1, <1>3 DEF IInv, TypeOK, WellFormed
<1>5. ActiveOnlyMissing' /\ HadPiecesVerified'
  BY <1>1, <1>3 DEF IInv, ActiveOnlyMissing, HadPiecesVerified
<1> QED
  BY <1>1, <1>3, <1>4, <1>5 DEF IInv, Wanted

\* do_idle_work() keeps the invariant.
LEMMA IdleWorkOK ==
    ASSUME IInv, IdleWork
    PROVE  IInv'
<1>1. /\ Recheck(has, Wanted, wishlist, peers)
      /\ UNCHANGED <<has, bad, wantedFiles, running, banned>>
  BY DEF IdleWork
<1>2. /\ needsCheck' \in BOOLEAN /\ completeness' \in Completeness /\ listed' \in BOOLEAN
      /\ WellFormed(wishlist') /\ OffersNone(wishlist', has) /\ DOMAIN wishlist' \subseteq Wanted
      /\ listed' \/ DOMAIN wishlist' = {}
      /\ Connected' = Connected /\ peers' \in [Connected' -> PeerRecords]
      /\ \A x \in Connected : peers'[x].active = peers[x].active
      /\ DoneNotInterested'
  BY <1>1, RecheckOK DEF IInv, TypeOK
<1>3. TypeOK'
  BY <1>1, <1>2 DEF IInv, TypeOK, WellFormed
<1>4. ActiveOnlyMissing' /\ HadPiecesVerified' /\ Wanted' = Wanted
  BY <1>1, <1>2 DEF IInv, ActiveOnlyMissing, HadPiecesVerified, Wanted
<1> QED
  BY <1>1, <1>2, <1>3, <1>4 DEF IInv

\* start_in_session_thread() keeps the invariant: it builds the wishlist anew.
LEMMA StartOK ==
    ASSUME IInv, Start
    PROVE  IInv'
<1>1. /\ ~running /\ running' = TRUE /\ completeness' = Status(has, Wanted) /\ needsCheck' = FALSE
      /\ listed' = TRUE
      /\ wishlist' = Upkeep(NoWishlist, has, Wanted, Replications(peers))
      /\ UNCHANGED <<has, bad, wantedFiles, peers, banned>>
  BY DEF Start
<1>2. Connected = {} /\ Connected' = {}
  BY <1>1 DEF IInv, Connected
<1>3. Wanted \in SUBSET Pieces /\ Wanted' = Wanted
  BY <1>1, WantedPiecesOK DEF IInv, TypeOK, Wanted
<1>4. Replications(peers) \in [Pieces -> Int]
  BY ReplicationsOK DEF IInv, TypeOK, Connected
<1>5. ShouldTrack(has, Wanted) \subseteq Wanted
  BY DEF ShouldTrack
<1>6. WellFormed(wishlist') /\ OffersNone(wishlist', has) /\ DOMAIN wishlist' \subseteq Wanted
  BY <1>1, <1>3, <1>4, <1>5, UpkeepOK, NoWishlistOK
<1>7. TypeOK'
  BY <1>1, <1>2, <1>6, StatusOK DEF IInv, TypeOK, WellFormed
<1>8. ActiveOnlyMissing' /\ HadPiecesVerified' /\ DoneNotInterested'
  BY <1>1, <1>2 DEF IInv, ActiveOnlyMissing, HadPiecesVerified, DoneNotInterested
<1> QED
  BY <1>1, <1>3, <1>6, <1>7, <1>8 DEF IInv

\* stop_now() keeps the invariant: peers and wishlist go.
LEMMA StopOK ==
    ASSUME IInv, Stop
    PROVE  IInv'
<1>1. /\ running' = FALSE /\ listed' = FALSE /\ wishlist' = NoWishlist
      /\ peers' = [x \in {} |-> 0]
      /\ UNCHANGED <<has, bad, wantedFiles, completeness, needsCheck, banned>>
  BY DEF Stop
<1>2. Connected' = {}
  BY <1>1 DEF Connected
<1>3. TypeOK'
  BY <1>1, <1>2, NoWishlistOK DEF IInv, TypeOK, WellFormed
<1>4. ActiveOnlyMissing' /\ HadPiecesVerified' /\ DoneNotInterested'
  BY <1>1, <1>2 DEF IInv, ActiveOnlyMissing, HadPiecesVerified, DoneNotInterested
<1> QED
  BY <1>1, <1>2, <1>3, <1>4, NoWishlistOK DEF IInv

-----------------------------------------------------------------------------
(* Steps that change peers and the wishlist, and no block.                 *)

\* A step that leaves the torrent alone, and neither offers nor requests a stored block.
LEMMA PeersChanged ==
    ASSUME IInv, UNCHANGED <<torVars, listed, banned>>,
           WellFormed(wishlist'), OffersNone(wishlist', has), DOMAIN wishlist' = DOMAIN wishlist,
           Connected' \subseteq Peers, peers' \in [Connected' -> PeerRecords],
           running \/ Connected' = {},
           \A x \in Connected' : peers'[x].active \cap has = {},
           Done => \A x \in Connected' : ~peers'[x].interested
    PROVE  IInv'
<1>1. TypeOK'
  BY DEF IInv, TypeOK, WellFormed, torVars
<1>2. ActiveOnlyMissing' /\ HadPiecesVerified' /\ DoneNotInterested' /\ Wanted' = Wanted
  BY DEF IInv, torVars, ActiveOnlyMissing, HadPiecesVerified, DoneNotInterested, Done, Wanted
<1> QED
  BY <1>1, <1>2 DEF IInv, torVars

\* The same for a step that changes one peer record.
LEMMA OnePeerChanged ==
    ASSUME IInv, UNCHANGED <<torVars, listed, banned>>,
           WellFormed(wishlist'), OffersNone(wishlist', has), DOMAIN wishlist' = DOMAIN wishlist,
           NEW x \in Connected, NEW r \in PeerRecords, peers' = [peers EXCEPT ![x] = r],
           r.active \cap has = {}, r.interested = peers[x].interested
    PROVE  IInv'
<1>1. Connected' = Connected
  BY DEF Connected
<1>2. /\ Connected' \subseteq Peers /\ peers' \in [Connected' -> PeerRecords]
      /\ running \/ Connected' = {}
  BY <1>1 DEF IInv, TypeOK
<1>3. \A y \in Connected' : /\ peers'[y].active \cap has = {}
                            /\ peers'[y].interested = peers[y].interested
  BY <1>1 DEF IInv, TypeOK, ActiveOnlyMissing
<1>4. Done => \A y \in Connected' : ~peers'[y].interested
  BY <1>1, <1>3 DEF IInv, DoneNotInterested
<1> QED
  BY <1>2, <1>3, <1>4, PeersChanged

\* on_handshake_done() keeps the invariant: a new peer has no requests.
LEMMA ConnectOK ==
    ASSUME IInv, NEW x \in Peers, Connect(x)
    PROVE  IInv'
<1>1. /\ running /\ x \notin Connected
      /\ peers' = [y \in Connected \cup {x} |-> IF y = x THEN NewPeer ELSE peers[y]]
      /\ UNCHANGED <<torVars, listVars, banned>>
  BY DEF Connect
<1>2. NewPeer \in PeerRecords /\ NewPeer.active = {} /\ ~NewPeer.interested
  BY DEF NewPeer, PeerRecords
<1>3. Connected' = Connected \cup {x}
  BY <1>1 DEF Connected
<1>4. /\ Connected' \subseteq Peers /\ peers' \in [Connected' -> PeerRecords]
      /\ \A y \in Connected' : peers'[y].active \cap has = {}
      /\ Done => \A y \in Connected' : ~peers'[y].interested
  <2> HIDE DEF NewPeer
  <2> QED
    BY <1>1, <1>2, <1>3 DEF IInv, TypeOK, ActiveOnlyMissing, DoneNotInterested
<1>5. UNCHANGED <<torVars, listed, banned>> /\ wishlist' = wishlist
  BY <1>1 DEF listVars
<1> QED
  BY <1>1, <1>4, <1>5, PeersChanged DEF IInv

\* remove_peer() keeps the invariant: it gives back requests for missing blocks only.
LEMMA ClosePeerOK ==
    ASSUME IInv, NEW x \in Connected, ClosePeer(x)
    PROVE  IInv'
<1>1. /\ wishlist' = PeerDisconnect(wishlist, peers[x].have, peers[x].active)
      /\ peers' = [y \in Connected \ {x} |-> peers[y]]
      /\ UNCHANGED <<torVars, listed, banned>>
  BY DEF ClosePeer
<1>2. peers[x].active \cap has = {}
  BY DEF IInv, ActiveOnlyMissing
<1>3. WellFormed(wishlist') /\ OffersNone(wishlist', has) /\ DOMAIN wishlist' = DOMAIN wishlist
  BY <1>1, <1>2, PeerDisconnectOK DEF IInv
<1>4. Connected' = Connected \ {x}
  BY <1>1 DEF Connected
<1>5. /\ Connected' \subseteq Peers /\ peers' \in [Connected' -> PeerRecords]
      /\ running \/ Connected' = {}
      /\ \A y \in Connected' : peers'[y].active \cap has = {}
      /\ Done => \A y \in Connected' : ~peers'[y].interested
  BY <1>1, <1>4 DEF IInv, TypeOK, ActiveOnlyMissing, DoneNotInterested
<1> QED
  BY <1>1, <1>3, <1>5, PeersChanged

\* The messages that touch one peer: a Have, a bitfield, a choke, an unchoke,
\* a rejected request, and the decision to disconnect.
LEMMA MessageOK ==
    ASSUME IInv, NEW x \in Connected,
           \/ DisconnectSoon(x)
           \/ \E p \in Pieces : GotHave(x, p)
           \/ \E ps \in SUBSET Pieces : GotBitfield(x, ps)
           \/ GotHaveAll(x)
           \/ GotHaveNone(x)
           \/ GotChoke(x)
           \/ GotUnchoke(x)
           \/ \E b \in Blocks : GotReject(x, b)
    PROVE  IInv'
<1> USE DEF PeerRecords
<1>1. peers[x] \in PeerRecords /\ peers[x].active \cap has = {} /\ peers \in [Connected -> PeerRecords]
  BY DEF IInv, TypeOK, ActiveOnlyMissing
<1>2. CASE DisconnectSoon(x)
  <2> DEFINE r == [peers[x] EXCEPT !.leaving = TRUE]
  <2>1. peers' = [peers EXCEPT ![x] = r] /\ UNCHANGED <<torVars, listed, banned>> /\ wishlist' = wishlist
    BY <1>2 DEF DisconnectSoon, listVars
  <2>2. r \in PeerRecords /\ r.active = peers[x].active /\ r.interested = peers[x].interested
    BY <1>1
  <2> HIDE DEF r
  <2> QED
    BY <1>1, <2>1, <2>2, OnePeerChanged DEF IInv
<1>3. ASSUME NEW p \in Pieces, GotHave(x, p)
      PROVE  IInv'
  <2> DEFINE r == [peers[x] EXCEPT !.have = @ \cup {p}]
  <2>1. /\ peers' = [peers EXCEPT ![x] = r] /\ UNCHANGED <<torVars, listed, banned>>
        /\ wishlist' = IncReplication(wishlist, {p})
    BY <1>3 DEF GotHave
  <2>2. r \in PeerRecords /\ r.active = peers[x].active /\ r.interested = peers[x].interested
    BY <1>1
  <2>3. WellFormed(wishlist') /\ OffersNone(wishlist', has) /\ DOMAIN wishlist' = DOMAIN wishlist
    BY <2>1, IncReplicationOK DEF IInv
  <2> HIDE DEF r
  <2> QED
    BY <1>1, <2>1, <2>2, <2>3, OnePeerChanged
<1>4. ASSUME NEW ps \in SUBSET Pieces, NEW counted,
             UNCHANGED <<torVars, listed, banned>>, peers' = [peers EXCEPT ![x].have = ps],
             wishlist' = IncReplication(wishlist, counted) \/ wishlist' = wishlist
      PROVE  IInv'
  <2> DEFINE r == [peers[x] EXCEPT !.have = ps]
  <2>1. peers' = [peers EXCEPT ![x] = r]
    BY <1>4
  <2>2. r \in PeerRecords /\ r.active = peers[x].active /\ r.interested = peers[x].interested
    BY <1>1
  <2>3. WellFormed(wishlist') /\ OffersNone(wishlist', has) /\ DOMAIN wishlist' = DOMAIN wishlist
    BY <1>4, IncReplicationOK DEF IInv
  <2> HIDE DEF r
  <2> QED
    BY <1>1, <1>4, <2>1, <2>2, <2>3, OnePeerChanged
<1>5. CASE GotChoke(x)
  <2> DEFINE dropped == IF x \in FastPeers THEN {} ELSE peers[x].active
             r == [peers[x] EXCEPT !.choked = TRUE, !.active = @ \ dropped]
  <2>1. /\ peers' = [peers EXCEPT ![x] = r] /\ UNCHANGED <<torVars, listed, banned>>
        /\ wishlist' = ResetBlocks(wishlist, dropped)
    BY <1>5 DEF GotChoke
  <2>2. dropped \cap has = {}
    BY <1>1
  <2> HIDE DEF dropped
  <2>3. r \in PeerRecords /\ r.active \cap has = {} /\ r.interested = peers[x].interested
    BY <1>1
  <2>4. WellFormed(wishlist') /\ OffersNone(wishlist', has) /\ DOMAIN wishlist' = DOMAIN wishlist
    BY <2>1, <2>2, ResetBlocksOK DEF IInv
  <2> HIDE DEF r
  <2> QED
    BY <2>1, <2>3, <2>4, OnePeerChanged
<1>6. CASE GotUnchoke(x)
  <2> DEFINE r == [peers[x] EXCEPT !.choked = FALSE]
  <2>1. peers' = [peers EXCEPT ![x] = r] /\ UNCHANGED <<torVars, listed, banned>> /\ wishlist' = wishlist
    BY <1>6 DEF GotUnchoke, listVars
  <2>2. r \in PeerRecords /\ r.active = peers[x].active /\ r.interested = peers[x].interested
    BY <1>1
  <2> HIDE DEF r
  <2> QED
    BY <1>1, <2>1, <2>2, OnePeerChanged DEF IInv
<1>7. ASSUME NEW b \in Blocks, GotReject(x, b)
      PROVE  IInv'
  <2> DEFINE r == [peers[x] EXCEPT !.active = @ \ {b}]
  <2>1. /\ peers' = [peers EXCEPT ![x] = r] /\ UNCHANGED <<torVars, listed, banned>>
        /\ wishlist' = ResetBlocks(wishlist, {b}) /\ b \in peers[x].active
    BY <1>7 DEF GotReject
  <2>2. r \in PeerRecords /\ r.active \cap has = {} /\ r.interested = peers[x].interested
    BY <1>1
  <2>3. {b} \cap has = {}
    BY <1>1, <2>1
  <2>4. WellFormed(wishlist') /\ OffersNone(wishlist', has) /\ DOMAIN wishlist' = DOMAIN wishlist
    BY <2>1, <2>3, ResetBlocksOK DEF IInv
  <2> HIDE DEF r
  <2> QED
    BY <2>1, <2>2, <2>4, OnePeerChanged
<1>8. CASE (\E ps \in SUBSET Pieces : GotBitfield(x, ps)) \/ GotHaveAll(x) \/ GotHaveNone(x)
  BY <1>4, <1>8 DEF GotBitfield, GotHaveAll, GotHaveNone, listVars
<1> QED
  BY <1>2, <1>3, <1>5, <1>6, <1>7, <1>8

\* updateInterest() keeps the invariant: it spares a torrent that is done.
LEMMA UpdateInterestOK ==
    ASSUME IInv, UpdateInterest
    PROVE  IInv'
<1> DEFINE i(x) == \/ peers[x].have = Pieces
                   \/ \E p \in Wanted \cap peers[x].have : ~HasPiece(has, p)
<1>1. /\ ~Done /\ UNCHANGED <<torVars, listVars, banned>>
      /\ peers' = [x \in Connected |-> [peers[x] EXCEPT !.interested = i(x)]]
  BY DEF UpdateInterest
<1>2. \A x \in Connected : i(x) \in BOOLEAN
  OBVIOUS
<1>3. Connected' = Connected
  BY <1>1 DEF Connected
<1> HIDE DEF i
<1>4. \A x \in Connected : peers[x] \in PeerRecords /\ peers[x].active \cap has = {}
  BY DEF IInv, TypeOK, ActiveOnlyMissing
<1>5. \A x \in Connected : peers'[x] \in PeerRecords /\ peers'[x].active = peers[x].active
  BY <1>1, <1>2, <1>4 DEF PeerRecords
<1>6. Connected' \subseteq Peers /\ peers' \in [Connected' -> PeerRecords] /\ (running \/ Connected' = {})
  BY <1>1, <1>3, <1>5 DEF IInv, TypeOK
<1>7. UNCHANGED <<torVars, listed, banned>> /\ wishlist' = wishlist
  BY <1>1 DEF listVars
<1> QED
  BY <1>1, <1>3, <1>4, <1>5, <1>6, <1>7, PeersChanged DEF IInv

\* What pulse() requests: blocks that a wanted candidate of the peer offers.
LEMMA PulseFacts ==
    ASSUME IInv, NEW x \in Connected, NEW expired \in SUBSET peers[x].active,
           NEW desired \in 1 .. MaxRequests, Pulse(x, expired, desired)
    PROVE  \E bs \in SUBSET Blocks :
              /\ peers' = [peers EXCEPT ![x] = [peers[x] EXCEPT !.active = (@ \ expired) \cup bs]]
              /\ WellFormed(wishlist') /\ OffersNone(wishlist', has) /\ DOMAIN wishlist' = DOMAIN wishlist
              /\ UNCHANGED <<torVars, listed, banned>>
              /\ \A b \in bs : /\ b \notin has
                               /\ \E p \in PiecesOf(b) \cap Wanted : p \in peers[x].have
<1> DEFINE s == Expire(x, expired)
           w == ResetBlocks(wishlist, expired)
           n == IF MayRequest(x) THEN desired - Cardinality(s.peer.active) ELSE 0
<1>1. /\ s.peer = [peers[x] EXCEPT !.active = @ \ expired] /\ s.wishlist = w
      /\ s.peer.have = peers[x].have /\ s.peer.active = peers[x].active \ expired
  BY DEF Expire, IInv, TypeOK, PeerRecords
<1>2. PICK bs \in IF n > 0 THEN NextBlocks(s.wishlist, s.peer.have, n) ELSE {{}} :
          /\ peers' = [peers EXCEPT ![x] = [s.peer EXCEPT !.active = @ \cup bs]]
          /\ wishlist' = RequestedBlocks(s.wishlist, bs)
          /\ UNCHANGED <<torVars, listed, banned>>
  BY DEF Pulse
<1>3. WellFormed(w) /\ OffersNone(w, has) /\ DOMAIN w = DOMAIN wishlist
  <2>1. expired \cap has = {}
    BY DEF IInv, ActiveOnlyMissing
  <2> QED
    BY <2>1, ResetBlocksOK DEF IInv
<1>4. bs = {} \/ bs \subseteq UNION {w[p].unrequested : p \in Eligible(w, peers[x].have)}
  <2> HIDE DEF s, n, w
  <2> QED
    BY <1>1, <1>2 DEF NextBlocks, IsNext
<1> HIDE DEF w
<1>5. ASSUME NEW b \in bs
      PROVE  b \in Blocks /\ b \notin has /\ \E p \in PiecesOf(b) \cap Wanted : p \in peers[x].have
  <2>1. PICK p \in Eligible(w, peers[x].have) : b \in w[p].unrequested
    BY <1>4, <1>5
  <2>2. p \in DOMAIN w /\ p \in peers[x].have
    BY <2>1 DEF Eligible
  <2>3. b \notin has
    BY <1>3, <2>1, <2>2 DEF OffersNone
  <2>4. p \in Wanted
    BY <1>3, <2>2 DEF IInv
  <2>5. p \in Pieces /\ b \in RawSpan(p) /\ b \in Blocks
    BY <1>3, <2>1, <2>2, Spans, PieceBounds DEF Span, RawSpan
  <2> QED
    BY <2>2, <2>3, <2>4, <2>5 DEF PiecesOf
<1>6. peers' = [peers EXCEPT ![x] = [peers[x] EXCEPT !.active = (@ \ expired) \cup bs]]
  <2> HIDE DEF s
  <2> QED
    BY <1>1, <1>2 DEF IInv, TypeOK, PeerRecords
<1>7. WellFormed(wishlist') /\ OffersNone(wishlist', has) /\ DOMAIN wishlist' = DOMAIN wishlist
  BY <1>1, <1>2, <1>3, RequestedBlocksOK
<1> QED
  BY <1>2, <1>5, <1>6, <1>7

\* pulse() keeps the invariant.
LEMMA PulseOK ==
    ASSUME IInv, NEW x \in Connected, NEW expired \in SUBSET peers[x].active,
           NEW desired \in 1 .. MaxRequests, Pulse(x, expired, desired)
    PROVE  IInv'
<1>1. PICK bs \in SUBSET Blocks :
          /\ peers' = [peers EXCEPT ![x] = [peers[x] EXCEPT !.active = (@ \ expired) \cup bs]]
          /\ WellFormed(wishlist') /\ OffersNone(wishlist', has) /\ DOMAIN wishlist' = DOMAIN wishlist
          /\ UNCHANGED <<torVars, listed, banned>>
          /\ \A b \in bs : b \notin has
  BY PulseFacts
<1> DEFINE r == [peers[x] EXCEPT !.active = (@ \ expired) \cup bs]
<1>2. r \in PeerRecords /\ r.active \cap has = {} /\ r.interested = peers[x].interested
  BY <1>1 DEF IInv, TypeOK, ActiveOnlyMissing, PeerRecords
<1>3. peers' = [peers EXCEPT ![x] = r]
  BY <1>1
<1> HIDE DEF r
<1> QED
  BY <1>1, <1>2, <1>3, OnePeerChanged

-----------------------------------------------------------------------------
(* A block arrives.                                                        *)

\* The wishlist offers the block to nobody once it has been got.
LEMMA WithBlockOK ==
    ASSUME IInv, NEW x, NEW b, b \notin has
    PROVE  /\ WellFormed(WithBlock(x, b)) /\ OffersNone(WithBlock(x, b), has \cup {b})
           /\ DOMAIN WithBlock(x, b) = DOMAIN wishlist
<1>1. {b} \cap has = {}
  OBVIOUS
<1>2. WellFormed(Cancelled(x, b)) /\ OffersNone(Cancelled(x, b), has) /\ DOMAIN Cancelled(x, b) = DOMAIN wishlist
  BY <1>1, ResetBlocksOK DEF Cancelled, IInv
<1> QED
  BY <1>2, GotBlockOK DEF WithBlock

\* What the arrival leaves: no new block but b, an exact account of what is
\* bad, and of each piece of b a verdict.
LEMMA AfterBlockOK ==
    ASSUME IInv, NEW x, NEW b, PiecesOf(b) # {}, b \notin has, NEW corrupt
    PROVE  LET s == AfterBlock(x, b, corrupt)
           IN /\ s.has \subseteq has \cup {b}
              /\ s.bad = (bad \ (PiecesOf(b) \X {b})) \cup (corrupt \X {b})
              /\ WellFormed(s.wishlist) /\ OffersNone(s.wishlist, s.has)
              /\ DOMAIN s.wishlist \subseteq DOMAIN wishlist
              /\ s.passed \in BOOLEAN /\ s.failed \in BOOLEAN
              /\ \A p \in PiecesOf(b) : HasPiece(s.has, p) =>
                    \A c \in RawSpan(p) : <<p, c>> \notin s.bad
<1> DEFINE s0 == [has |-> has \cup {b},
                  bad |-> (bad \ (PiecesOf(b) \X {b})) \cup (corrupt \X {b}),
                  wishlist |-> WithBlock(x, b), passed |-> FALSE, failed |-> FALSE]
           p1 == FirstPiece(b)
           p2 == LastPiece(b)
           s1 == CheckPiece(s0, p1)
           s2 == CheckPiece(s1, p2)
<1>1. p1 \in Pieces /\ p2 \in Pieces /\ PiecesOf(b) = {p1, p2}
  BY EdgePieces DEF PiecesOf
<1>2. /\ s0 = [has |-> s0.has, bad |-> s0.bad, wishlist |-> s0.wishlist,
               passed |-> s0.passed, failed |-> s0.failed]
      /\ s0.has = has \cup {b} /\ s0.wishlist = WithBlock(x, b)
      /\ s0.bad = (bad \ (PiecesOf(b) \X {b})) \cup (corrupt \X {b})
      /\ s0.passed = FALSE /\ s0.failed = FALSE
  OBVIOUS
<1>3. s2 = AfterBlock(x, b, corrupt)
  BY DEF AfterBlock
<1> HIDE DEF s0, p1, p2
<1>4. /\ WellFormed(s0.wishlist) /\ OffersNone(s0.wishlist, s0.has)
      /\ DOMAIN s0.wishlist = DOMAIN wishlist
  BY <1>2, WithBlockOK
<1>5. /\ s1 = [has |-> s1.has, bad |-> s1.bad, wishlist |-> s1.wishlist,
               passed |-> s1.passed, failed |-> s1.failed]
      /\ s1.passed \in BOOLEAN /\ s1.failed \in BOOLEAN
      /\ WellFormed(s1.wishlist) /\ OffersNone(s1.wishlist, s1.has)
      /\ DOMAIN s1.wishlist \subseteq DOMAIN s0.wishlist
      /\ s1.has \subseteq s0.has /\ s1.bad = s0.bad
      /\ HasPiece(s1.has, p1) => \A c \in RawSpan(p1) : <<p1, c>> \notin s0.bad
  BY <1>1, <1>2, <1>4, CheckPieceOK
<1> HIDE DEF s1
<1>6. /\ s2.passed \in BOOLEAN /\ s2.failed \in BOOLEAN
      /\ WellFormed(s2.wishlist) /\ OffersNone(s2.wishlist, s2.has)
      /\ DOMAIN s2.wishlist \subseteq DOMAIN s1.wishlist
      /\ s2.has \subseteq s1.has /\ s2.bad = s1.bad
      /\ HasPiece(s2.has, p2) => \A c \in RawSpan(p2) : <<p2, c>> \notin s1.bad
  BY <1>1, <1>5, CheckPieceOK
<1> HIDE DEF s2
<1>7. HasPiece(s2.has, p1) => HasPiece(s1.has, p1)
  BY <1>6 DEF HasPiece
<1>8. \A p \in PiecesOf(b) : HasPiece(s2.has, p) => \A c \in RawSpan(p) : <<p, c>> \notin s2.bad
  BY <1>1, <1>5, <1>6, <1>7
<1>9. s2.has \subseteq has \cup {b} /\ s2.bad = (bad \ (PiecesOf(b) \X {b})) \cup (corrupt \X {b})
  BY <1>2, <1>5, <1>6
<1> QED
  BY <1>3, <1>4, <1>5, <1>6, <1>8, <1>9

\* client_got_block() and on_block_received() keep the invariant.
LEMMA GotBlockDataOK ==
    ASSUME IInv, NEW x \in Connected, NEW b \in Blocks, NEW corrupt \in SUBSET PiecesOf(b),
           GotBlockData(x, b, corrupt)
    PROVE  IInv'
<1> DEFINE s == AfterBlock(x, b, corrupt)
<1>1. PICK struck \in SUBSET IF s.failed THEN Connected ELSE {} :
          /\ banned' = banned \cup struck
          /\ peers' = DropRequests(x, b, struck)
  BY DEF GotBlockData
<1>2. /\ Accepts(x, b) /\ has' = s.has /\ bad' = {pb \in s.bad : pb[2] \in s.has}
      /\ wishlist' = s.wishlist /\ needsCheck' = (needsCheck \/ s.passed)
      /\ UNCHANGED <<wantedFiles, completeness, running, listed>>
  BY DEF GotBlockData
<1>3. b \notin has /\ PiecesOf(b) # {}
  BY <1>2 DEF Accepts
<1>4. /\ s.has \subseteq has \cup {b}
      /\ s.bad = (bad \ (PiecesOf(b) \X {b})) \cup (corrupt \X {b})
      /\ WellFormed(s.wishlist) /\ OffersNone(s.wishlist, s.has)
      /\ DOMAIN s.wishlist \subseteq DOMAIN wishlist
      /\ s.passed \in BOOLEAN /\ s.failed \in BOOLEAN
      /\ \A p \in PiecesOf(b) : HasPiece(s.has, p) =>
            \A c \in RawSpan(p) : <<p, c>> \notin s.bad
  BY <1>3, AfterBlockOK
<1> HIDE DEF s
<1>5. struck \subseteq Connected
  BY <1>1
<1>6. /\ Connected' = Connected /\ peers' \in [Connected' -> PeerRecords]
      /\ \A y \in Connected : /\ peers'[y].active = peers[y].active \ {b}
                              /\ peers'[y].interested = peers[y].interested
  <2>1. peers' = [y \in Connected |-> [peers[y] EXCEPT !.active = @ \ {b},
                                                       !.leaving = @ \/ y \in struck]]
    BY <1>1 DEF DropRequests
  <2>2. \A y \in Connected : peers[y] \in PeerRecords
    BY DEF IInv, TypeOK
  <2>3. Connected' = Connected
    BY <2>1 DEF Connected
  <2>4. \A y \in Connected : /\ peers'[y].have = peers[y].have
                             /\ peers'[y].active = peers[y].active \ {b}
                             /\ peers'[y].choked = peers[y].choked
                             /\ peers'[y].interested = peers[y].interested
                             /\ peers'[y].leaving = (peers[y].leaving \/ y \in struck)
    BY <2>1, <2>2 DEF PeerRecords
  <2>5. \A y \in Connected : peers'[y] \in PeerRecords
    <3>1. SUFFICES ASSUME NEW y \in Connected
                   PROVE  peers'[y] \in PeerRecords
      OBVIOUS
    <3>2. peers'[y] = [peers[y] EXCEPT !.active = @ \ {b}, !.leaving = @ \/ y \in struck]
      BY <2>1, <3>1
    <3>3. (peers[y].leaving \/ y \in struck) \in BOOLEAN
      OBVIOUS
    <3> QED
      BY <2>2, <3>2, <3>3 DEF PeerRecords
  <2> QED
    BY <2>1, <2>3, <2>4, <2>5
<1>7. TypeOK'
  <2>1. has' \in SUBSET Blocks
    BY <1>2, <1>4 DEF IInv, TypeOK
  <2>2. bad' \in SUBSET (Pieces \X Blocks)
    BY <1>2, <1>4 DEF IInv, TypeOK, PiecesOf
  <2>3. banned' \in SUBSET Peers
    BY <1>1, <1>5 DEF IInv, TypeOK
  <2>4. needsCheck' \in BOOLEAN
    BY <1>2
  <2> QED
    BY <1>2, <1>4, <1>6, <2>1, <2>2, <2>3, <2>4 DEF IInv, TypeOK, WellFormed
<1>8. ActiveOnlyMissing'
  BY <1>2, <1>4, <1>6 DEF IInv, ActiveOnlyMissing
<1>9. DoneNotInterested'
  BY <1>2, <1>6 DEF IInv, DoneNotInterested, Done
<1>10. HadPiecesVerified'
  <2>1. SUFFICES ASSUME NEW p \in Pieces, HasPiece(s.has, p), NEW c \in RawSpan(p)
                 PROVE  <<p, c>> \notin s.bad
    BY <1>2 DEF HadPiecesVerified, HasPiece
  <2>2. CASE p \in PiecesOf(b)
    BY <1>4, <2>1, <2>2
  <2>3. CASE p \notin PiecesOf(b)
    <3>1. b \notin RawSpan(p)
      BY <2>3 DEF PiecesOf
    <3>2. HasPiece(has, p)
      BY <1>4, <2>1, <3>1 DEF HasPiece
    <3>3. <<p, c>> \notin bad
      BY <3>2 DEF IInv, HadPiecesVerified
    <3> QED
      BY <1>4, <2>3, <3>3
  <2> QED
    BY <2>2, <2>3
<1>11. DOMAIN wishlist' \subseteq Wanted' /\ (listed' \/ DOMAIN wishlist' = {}) /\ (running' \/ Connected' = {})
  BY <1>2, <1>4, <1>6 DEF IInv, Wanted
<1> QED
  BY <1>2, <1>4, <1>7, <1>8, <1>9, <1>10, <1>11 DEF IInv

-----------------------------------------------------------------------------
(* Every step keeps the invariant.                                         *)

\* Every step keeps the invariant.
LEMMA StepOK == IInv /\ [Next]_vars => IInv'
<1>1. SUFFICES ASSUME IInv, [Next]_vars
               PROVE  IInv'
  OBVIOUS
<1>2. CASE UserStep
  BY <1>1, <1>2, SetFilesWantedOK, StartOK, StopOK DEF UserStep
<1>3. CASE IdleWork
  BY <1>1, <1>3, IdleWorkOK
<1>4. CASE UpdateInterest
  BY <1>1, <1>4, UpdateInterestOK
<1>5. CASE \E x \in Peers : Connect(x)
  BY <1>1, <1>5, ConnectOK
<1>6. ASSUME NEW x \in Connected, PeerStep(x)
      PROVE  IInv'
  <2>1. CASE ClosePeer(x)
    BY <1>1, <2>1, ClosePeerOK
  <2>2. ASSUME NEW b \in Blocks, NEW corrupt \in SUBSET IF MayCorrupt THEN PiecesOf(b) ELSE {},
               GotBlockData(x, b, corrupt)
        PROVE  IInv'
    <3>1. corrupt \in SUBSET PiecesOf(b)
      BY <2>2
    <3> QED
      BY <1>1, <2>2, <3>1, GotBlockDataOK
  <2>3. ASSUME NEW expired \in SUBSET peers[x].active, NEW desired \in 1 .. MaxRequests,
               Pulse(x, expired, desired)
        PROVE  IInv'
    BY <1>1, <2>3, PulseOK
  <2>4. CASE \/ DisconnectSoon(x)
             \/ \E p \in Pieces : GotHave(x, p)
             \/ \E ps \in SUBSET Pieces : GotBitfield(x, ps)
             \/ GotHaveAll(x)
             \/ GotHaveNone(x)
             \/ GotChoke(x)
             \/ GotUnchoke(x)
             \/ \E b \in Blocks : GotReject(x, b)
    BY <1>1, <2>4, MessageOK
  <2> QED
    BY <1>6, <2>1, <2>2, <2>3, <2>4 DEF PeerStep
<1>7. CASE UNCHANGED vars
  <2>1. UNCHANGED <<torVars, listed, banned, wishlist, peers>> /\ Connected' = Connected
    BY <1>7 DEF vars, listVars, peerVars, Connected
  <2> QED
    BY <1>1, <2>1, PeersChanged DEF IInv, TypeOK, ActiveOnlyMissing, DoneNotInterested
<1> QED
  BY <1>1, <1>2, <1>3, <1>4, <1>5, <1>6, <1>7 DEF Next

\* The invariant holds in every reachable state of every torrent.
THEOREM Invariance == Spec => []IInv
<1> QED
  BY InitOK, StepOK, PTL DEF Spec

-----------------------------------------------------------------------------
(* What follows.                                                           *)

\* Every handler keeps the state of torrent, swarm and wishlist in its types.
THEOREM TypeCorrect == Spec => []TypeOK
<1>1. IInv => TypeOK
  BY DEF IInv
<1> QED
  BY <1>1, Invariance, PTL

\* The assertions of got_bad_piece(): a tracked piece begins where its tracked
\* predecessor ends.
THEOREM NeighboursAlwaysMeet == Spec => []NeighboursMeet
<1>1. IInv => NeighboursMeet
  BY DEF IInv, WellFormed, Meet, NeighboursMeet
<1> QED
  BY <1>1, Invariance, PTL

\* find_by_block() finds one candidate at most.
THEOREM SpansNeverOverlap == Spec => []SpansDisjoint
<1>1. IInv => SpansDisjoint
  BY SpansApart DEF IInv, SpansDisjoint
<1> QED
  BY <1>1, Invariance, PTL

\* A stored block is never offered for a request.
THEOREM StoredNeverOffered == Spec => []OffersOnlyMissing
<1>1. IInv => OffersOnlyMissing
  BY DEF IInv, OffersNone, OffersOnlyMissing, TotalUnrequested
<1> QED
  BY <1>1, Invariance, PTL

\* A stored block is never waited for.
THEOREM StoredNeverActive == Spec => []ActiveOnlyMissing
<1>1. IInv => ActiveOnlyMissing
  BY DEF IInv
<1> QED
  BY <1>1, Invariance, PTL

\* A stored block is neither offered nor asked for, by all that is done to blocks.
THEOREM StoredStaysAlone == Spec => []StoredLeftAlone
<1>1. OffersOnlyMissing /\ ActiveOnlyMissing => StoredLeftAlone
  BY DEF StoredLeftAlone
<1> QED
  BY <1>1, StoredNeverOffered, StoredNeverActive, PTL

\* The assertion of is_active(): nobody downloads for a torrent that is done.
THEOREM DoneAsksNobody == Spec => []DoneNotInterested
<1>1. IInv => DoneNotInterested
  BY DEF IInv
<1> QED
  BY <1>1, Invariance, PTL

\* Whatever bad data arrives in whatever order, every piece that is had
\* matches its hash.
THEOREM OnlyVerifiedPieces == Spec => []HadPiecesVerified
<1>1. IInv => HadPiecesVerified
  BY DEF IInv
<1> QED
  BY <1>1, Invariance, PTL

\* New requests are made only for what is wanted, missing and on offer.
LEMMA StepUseful ==
    IInv /\ [Next]_vars =>
        \A x \in Connected \cap DOMAIN peers' : \A b \in peers'[x].active \ peers[x].active :
            b \notin has /\ \E p \in PiecesOf(b) \cap Wanted : p \in peers[x].have
<1>1. SUFFICES ASSUME IInv, [Next]_vars,
                      NEW x \in Connected \cap DOMAIN peers', NEW b \in peers'[x].active \ peers[x].active
               PROVE  b \notin has /\ \E p \in PiecesOf(b) \cap Wanted : p \in peers[x].have
  OBVIOUS
<1>2. CASE \E y \in Connected : \E expired \in SUBSET peers[y].active, desired \in 1 .. MaxRequests :
               Pulse(y, expired, desired)
  <2>1. PICK y \in Connected : \E expired \in SUBSET peers[y].active, desired \in 1 .. MaxRequests :
            Pulse(y, expired, desired)
    BY <1>2
  <2>2. PICK expired \in SUBSET peers[y].active : \E desired \in 1 .. MaxRequests : Pulse(y, expired, desired)
    BY <2>1
  <2>3. PICK bs \in SUBSET Blocks :
            /\ peers' = [peers EXCEPT ![y] = [peers[y] EXCEPT !.active = (@ \ expired) \cup bs]]
            /\ \A c \in bs : /\ c \notin has
                             /\ \E p \in PiecesOf(c) \cap Wanted : p \in peers[y].have
    BY <1>1, <2>2, PulseFacts
  <2>4. x = y /\ b \in bs
    BY <1>1, <2>3 DEF IInv, TypeOK, PeerRecords, Connected
  <2> QED
    BY <2>3, <2>4
<1>3. \A y \in Connected : peers[y] \in PeerRecords
  BY <1>1 DEF IInv, TypeOK
<1>4. ASSUME peers'[x].active \subseteq peers[x].active
      PROVE  FALSE
  BY <1>1, <1>4
<1>5. CASE \/ \E fs \in SUBSET Files, wanted \in BOOLEAN : SetFilesWanted(fs, wanted)
           \/ IdleWork
  <2>1. PICK h, ws, w : Recheck(h, ws, w, peers)
    BY <1>5 DEF SetFilesWanted, IdleWork
  <2>2. peers'[x].active = peers[x].active
    BY <1>1, <1>3, <2>1 DEF Recheck, PeerRecords, Connected
  <2> QED
    BY <1>4, <2>2
<1>6. CASE Start \/ Stop \/ UNCHANGED vars
  BY <1>1, <1>4, <1>6 DEF Start, Stop, vars, peerVars, Connected
<1>7. CASE UpdateInterest
  BY <1>1, <1>3, <1>4, <1>7 DEF UpdateInterest, PeerRecords
<1>8. CASE \E y \in Peers : Connect(y)
  BY <1>1, <1>4, <1>8 DEF Connect, Connected
<1>9. ASSUME NEW y \in Connected,
             \/ DisconnectSoon(y)
             \/ \E p \in Pieces : GotHave(y, p)
             \/ \E ps \in SUBSET Pieces : GotBitfield(y, ps)
             \/ GotHaveAll(y)
             \/ GotHaveNone(y)
             \/ GotChoke(y)
             \/ GotUnchoke(y)
             \/ \E c \in Blocks : GotReject(y, c)
      PROVE  FALSE
  <2>1. \E r : r.active \subseteq peers[y].active /\ peers' = [peers EXCEPT ![y] = r]
    <3>1. peers[y] \in PeerRecords
      BY <1>3
    <3>2. CASE DisconnectSoon(y)
      <4>1. [peers[y] EXCEPT !.leaving = TRUE].active = peers[y].active
        BY <3>1 DEF PeerRecords
      <4> QED
        BY <3>2, <4>1 DEF DisconnectSoon
    <3>3. CASE \E p \in Pieces : GotHave(y, p)
      <4>1. \A p : [peers[y] EXCEPT !.have = @ \cup {p}].active = peers[y].active
        BY <3>1 DEF PeerRecords
      <4> QED
        BY <3>3, <4>1 DEF GotHave
    <3>4. CASE (\E ps \in SUBSET Pieces : GotBitfield(y, ps)) \/ GotHaveAll(y) \/ GotHaveNone(y)
      <4>1. \A ps : [peers[y] EXCEPT !.have = ps].active = peers[y].active
        BY <3>1 DEF PeerRecords
      <4> QED
        BY <3>4, <4>1 DEF GotBitfield, GotHaveAll, GotHaveNone
    <3>5. CASE GotChoke(y)
      <4>1. \A ds : [peers[y] EXCEPT !.choked = TRUE, !.active = @ \ ds].active \subseteq peers[y].active
        BY <3>1 DEF PeerRecords
      <4> QED
        BY <3>5, <4>1 DEF GotChoke
    <3>6. CASE GotUnchoke(y)
      <4>1. [peers[y] EXCEPT !.choked = FALSE].active = peers[y].active
        BY <3>1 DEF PeerRecords
      <4> QED
        BY <3>6, <4>1 DEF GotUnchoke
    <3>7. CASE \E c \in Blocks : GotReject(y, c)
      <4>1. \A c : [peers[y] EXCEPT !.active = @ \ {c}].active \subseteq peers[y].active
        BY <3>1 DEF PeerRecords
      <4> QED
        BY <3>7, <4>1 DEF GotReject
    <3> QED
      BY <1>9, <3>2, <3>3, <3>4, <3>5, <3>6, <3>7
  <2> QED
    BY <1>1, <1>4, <2>1 DEF Connected
<1>10. CASE \E y \in Connected : ClosePeer(y)
  BY <1>1, <1>4, <1>10 DEF ClosePeer, Connected
<1>11. CASE \E y \in Connected, c \in Blocks : \E corrupt : GotBlockData(y, c, corrupt)
  <2>1. PICK c, y, struck : peers' = DropRequests(y, c, struck)
    BY <1>11 DEF GotBlockData
  <2>2. peers'[x].active = peers[x].active \ {c}
    BY <1>1, <1>3, <2>1 DEF DropRequests, PeerRecords
  <2> QED
    BY <1>4, <2>2
<1> QED
  BY <1>1, <1>2, <1>5, <1>6, <1>7, <1>8, <1>9, <1>10, <1>11 DEF Next, UserStep, PeerStep

\* A block is requested only when it is missing, in a wanted piece, and had by the peer.
THEOREM RequestsUseful == Spec => UsefulRequests
<1> QED
  BY StepUseful, Invariance, PTL DEF Spec, UsefulRequests

-----------------------------------------------------------------------------
(* The handlers of the wishlist that do not count.                         *)

\* The candidates of v are among those of w, with their counts.
SameCounts(v, w) ==
    /\ DOMAIN v \subseteq DOMAIN w
    /\ \A p \in DOMAIN v : v[p].replication = w[p].replication

\* Requests, cancels and blocks that come do not touch a count.
LEMMA BlocksKeepCounts ==
    ASSUME NEW w, WellFormed(w), NEW bs
    PROVE  /\ SameCounts(RequestedBlocks(w, bs), w)
           /\ SameCounts(ResetBlocks(w, bs), w)
           /\ SameCounts(GotBlock(w, bs), w)
<1>1. \A p \in DOMAIN w : w[p] \in Candidates
  BY DEF WellFormed, IsWishlist
<1> QED
  BY <1>1 DEF SameCounts, RequestedBlocks, ResetBlocks, GotBlock, Candidates

\* Nor does a piece that passes or fails.
LEMMA PiecesKeepCounts ==
    ASSUME NEW w, WellFormed(w), NEW p \in Pieces
    PROVE  SameCounts(RemovePiece(w, p), w) /\ SameCounts(GotBadPiece(w, p), w)
<1>1. \A q \in DOMAIN w : w[q] \in Candidates
  BY DEF WellFormed, IsWishlist
<1>2. SameCounts(RemovePiece(w, p), w)
  BY DEF SameCounts, RemovePiece
<1>3. CASE p \notin DOMAIN w
  BY <1>2, <1>3 DEF SameCounts, GotBadPiece
<1>4. CASE p \in DOMAIN w
  <2> DEFINE begin == BadBegin(w, p)
             end == BadEnd(w, p)
             g(q) == CASE q = p     -> [w[q] EXCEPT !.begin = begin, !.end = end,
                                                    !.unrequested = @ \cup (begin .. end - 1)]
                       [] q = p - 1 -> [w[q] EXCEPT !.unrequested = @ \cup (RawBegin[p] .. begin - 1)]
                       [] q = p + 1 -> [w[q] EXCEPT !.unrequested = @ \cup (end .. RawEnd[p] - 1)]
                       [] OTHER     -> w[q]
  <2>1. GotBadPiece(w, p) = [q \in DOMAIN w |-> g(q)]
    BY <1>4 DEF GotBadPiece
  <2>2. \A q \in DOMAIN w : g(q).replication = w[q].replication
    <3> HIDE DEF begin, end
    <3>1. SUFFICES ASSUME NEW q \in DOMAIN w PROVE g(q).replication = w[q].replication
      OBVIOUS
    <3>2. w[q] \in Candidates
      BY <1>1
    <3> QED
      BY <3>2 DEF Candidates
  <2> HIDE DEF g
  <2> QED
    BY <1>2, <2>1, <2>2 DEF SameCounts
<1> QED
  BY <1>3, <1>4

\* A new candidate gets its count from the peers, a kept one keeps it.
LEMMA UpkeepCounts ==
    ASSUME NEW w, WellFormed(w), NEW hs, NEW ws, NEW repl,
           NEW p \in DOMAIN Upkeep(w, hs, ws, repl)
    PROVE  Upkeep(w, hs, ws, repl)[p].replication
           = IF p \in DOMAIN w THEN w[p].replication ELSE repl[p]
<1> DEFINE tracked == ShouldTrack(hs, ws)
<1>1. /\ p \in tracked
      /\ Upkeep(w, hs, ws, repl)[p] = IF p \in DOMAIN w THEN KeptCandidate(w, tracked, p)
                                      ELSE NewCandidate(w, hs, tracked, repl, p)
  BY DEF Upkeep
<1> HIDE DEF tracked
<1>2. CASE p \in DOMAIN w
  <2>1. w[p] \in Candidates
    BY <1>2 DEF WellFormed, IsWishlist
  <2>2. KeptCandidate(w, tracked, p).replication = w[p].replication
    BY <2>1 DEF KeptCandidate, Candidates
  <2> QED
    BY <1>1, <1>2, <2>2
<1>3. CASE p \notin DOMAIN w
  <2>1. NewCandidate(w, hs, tracked, repl, p).replication = repl[p]
    BY DEF NewCandidate
  <2> QED
    BY <1>1, <1>3, <2>1
<1> QED
  BY <1>2, <1>3

-----------------------------------------------------------------------------
(* A block arrives.                                                        *)

\* A piece that is checked and does not pass is not had.
LEMMA CheckPieceVerdict ==
    ASSUME NEW s, NEW p \in Pieces,
           s = [has |-> s.has, bad |-> s.bad, wishlist |-> s.wishlist,
                passed |-> s.passed, failed |-> s.failed],
           WellFormed(s.wishlist)
    PROVE  LET r == CheckPiece(s, p)
           IN /\ SameCounts(r.wishlist, s.wishlist)
              /\ r.has \subseteq s.has
              /\ ~r.passed => ~s.passed /\ ~HasPiece(r.has, p)
<1> DEFINE r == CheckPiece(s, p)
<1>1. CASE ~HasPiece(s.has, p)
  BY <1>1 DEF CheckPiece, SameCounts
<1>2. CASE HasPiece(s.has, p) /\ \A b \in RawSpan(p) : <<p, b>> \notin s.bad
  <2>1. r = [has |-> s.has, bad |-> s.bad, wishlist |-> RemovePiece(s.wishlist, p),
             passed |-> TRUE, failed |-> s.failed]
    BY <1>2 DEF CheckPiece
  <2> HIDE DEF r
  <2>2. r.has = s.has /\ r.wishlist = RemovePiece(s.wishlist, p) /\ r.passed = TRUE
    BY <2>1
  <2> QED
    BY <2>2, PiecesKeepCounts DEF r
<1>3. CASE HasPiece(s.has, p) /\ ~(\A b \in RawSpan(p) : <<p, b>> \notin s.bad)
  <2>1. r = [has |-> s.has \ RawSpan(p), bad |-> s.bad, wishlist |-> GotBadPiece(s.wishlist, p),
             passed |-> s.passed, failed |-> TRUE]
    BY <1>3 DEF CheckPiece
  <2>2. RawSpan(p) # {}
    BY PieceBounds DEF RawSpan
  <2> HIDE DEF r
  <2>3. /\ r.has = s.has \ RawSpan(p) /\ r.wishlist = GotBadPiece(s.wishlist, p)
        /\ r.passed = s.passed
    BY <2>1
  <2>4. ~HasPiece(r.has, p)
    BY <2>2, <2>3 DEF HasPiece
  <2> QED
    BY <2>3, <2>4, PiecesKeepCounts DEF r
<1> QED
  BY <1>1, <1>2, <1>3

\* on_block_received() touches no count, and if no piece of the block passes
\* none is had.
LEMMA AfterBlockVerdict ==
    ASSUME IInv, NEW x, NEW b, PiecesOf(b) # {}, b \notin has, NEW corrupt
    PROVE  LET s == AfterBlock(x, b, corrupt)
           IN /\ SameCounts(s.wishlist, wishlist)
              /\ ~s.passed => \A p \in PiecesOf(b) : ~HasPiece(s.has, p)
<1> DEFINE s0 == [has |-> has \cup {b},
                  bad |-> (bad \ (PiecesOf(b) \X {b})) \cup (corrupt \X {b}),
                  wishlist |-> WithBlock(x, b), passed |-> FALSE, failed |-> FALSE]
           p1 == FirstPiece(b)
           p2 == LastPiece(b)
           s1 == CheckPiece(s0, p1)
           s2 == CheckPiece(s1, p2)
<1>1. p1 \in Pieces /\ p2 \in Pieces /\ PiecesOf(b) = {p1, p2}
  BY EdgePieces DEF PiecesOf
<1>2. /\ s0 = [has |-> s0.has, bad |-> s0.bad, wishlist |-> s0.wishlist,
               passed |-> s0.passed, failed |-> s0.failed]
      /\ s0.has = has \cup {b} /\ s0.wishlist = WithBlock(x, b)
      /\ s0.passed = FALSE /\ s0.failed = FALSE
  OBVIOUS
<1>3. s2 = AfterBlock(x, b, corrupt)
  BY DEF AfterBlock
<1> HIDE DEF s0, p1, p2
<1>4. WellFormed(s0.wishlist) /\ OffersNone(s0.wishlist, s0.has) /\ SameCounts(s0.wishlist, wishlist)
  <2>1. WellFormed(wishlist) /\ OffersNone(wishlist, has) /\ {b} \cap has = {}
    BY DEF IInv
  <2>2. WellFormed(Cancelled(x, b)) /\ SameCounts(Cancelled(x, b), wishlist)
    BY <2>1, ResetBlocksOK, BlocksKeepCounts DEF Cancelled, SameCounts
  <2>3. SameCounts(WithBlock(x, b), Cancelled(x, b))
    BY <2>2, BlocksKeepCounts DEF WithBlock
  <2>4. WellFormed(WithBlock(x, b)) /\ OffersNone(WithBlock(x, b), has \cup {b})
    BY WithBlockOK
  <2> QED
    BY <1>2, <2>2, <2>3, <2>4 DEF SameCounts
<1>5. /\ s1 = [has |-> s1.has, bad |-> s1.bad, wishlist |-> s1.wishlist,
               passed |-> s1.passed, failed |-> s1.failed]
      /\ WellFormed(s1.wishlist)
  BY <1>1, <1>2, <1>4, CheckPieceOK
<1>6. /\ SameCounts(s1.wishlist, s0.wishlist)
      /\ ~s1.passed => ~HasPiece(s1.has, p1)
  BY <1>1, <1>2, <1>4, CheckPieceVerdict
<1> HIDE DEF s1
<1>7. /\ SameCounts(s2.wishlist, s1.wishlist) /\ s2.has \subseteq s1.has
      /\ ~s2.passed => ~s1.passed /\ ~HasPiece(s2.has, p2)
  BY <1>1, <1>5, CheckPieceVerdict
<1> HIDE DEF s2
<1>8. SameCounts(s2.wishlist, wishlist)
  BY <1>4, <1>6, <1>7 DEF SameCounts
<1>9. ~s2.passed => \A p \in PiecesOf(b) : ~HasPiece(s2.has, p)
  BY <1>1, <1>6, <1>7 DEF HasPiece
<1> QED
  BY <1>3, <1>8, <1>9

-----------------------------------------------------------------------------
(* Completeness.                                                           *)

\* status() of the blocks that a block leaves when no piece of it passes: the torrent
\* lacks a wanted piece before and after.
LEMMA StillLeech ==
    ASSUME NEW h, NEW ws, NEW p \in ws, p \in Pieces, ~HasPiece(h, p)
    PROVE  Status(h, ws) = "leech"
<1>1. RawSpan(p) \subseteq Blocks
  BY PieceBounds DEF RawSpan, Blocks
<1>2. ~(Blocks \subseteq h)
  BY <1>1 DEF HasPiece
<1> QED
  BY <1>2 DEF Status

\* Every step keeps completeness fresh.
LEMMA StepFresh == IInv /\ CompletenessFresh /\ [Next]_vars => CompletenessFresh'
<1> SUFFICES ASSUME IInv, CompletenessFresh, [Next]_vars PROVE CompletenessFresh'
  OBVIOUS
<1>1. ASSUME NEW fs \in SUBSET Files, NEW wanted \in BOOLEAN, SetFilesWanted(fs, wanted)
      PROVE  CompletenessFresh'
  BY <1>1 DEF SetFilesWanted, Recheck, CompletenessFresh, Wanted
<1>2. CASE IdleWork
  BY <1>2 DEF IdleWork, Recheck, CompletenessFresh, Wanted
<1>3. CASE Start
  BY <1>3 DEF Start, CompletenessFresh, Wanted
<1>4. ASSUME NEW x \in Connected, NEW b \in Blocks, NEW corrupt, GotBlockData(x, b, corrupt)
      PROVE  CompletenessFresh'
  <2> DEFINE s == AfterBlock(x, b, corrupt)
  <2>1. /\ Accepts(x, b) /\ has' = s.has /\ needsCheck' = (needsCheck \/ s.passed)
        /\ UNCHANGED <<wantedFiles, completeness>>
    BY <1>4 DEF GotBlockData
  <2>2. PICK p \in PiecesOf(b) \cap Wanted : b \notin has
    BY <2>1 DEF Accepts
  <2>3. ~s.passed => ~HasPiece(s.has, p)
    BY <2>2, AfterBlockVerdict
  <2> HIDE DEF s
  <2>4. p \in Pieces /\ p \in Wanted /\ ~HasPiece(has, p) /\ Wanted' = Wanted
    BY <2>1, <2>2 DEF PiecesOf, HasPiece, Wanted
  <2>5. CASE s.passed \/ needsCheck
    BY <2>1, <2>5 DEF CompletenessFresh
  <2>6. CASE ~s.passed /\ ~needsCheck
    <3>1. Status(has, Wanted) = "leech" /\ Status(has', Wanted') = "leech"
      BY <2>1, <2>3, <2>4, <2>6, StillLeech
    <3> QED
      BY <2>1, <2>6, <3>1 DEF CompletenessFresh
  <2> QED
    BY <2>5, <2>6
<1>5. CASE UNCHANGED <<has, wantedFiles, completeness, needsCheck>>
  BY <1>5 DEF CompletenessFresh, Wanted
<1>6. CASE Stop \/ UpdateInterest \/ (\E x \in Peers : Connect(x)) \/ UNCHANGED vars
  BY <1>5, <1>6 DEF Stop, UpdateInterest, Connect, vars, torVars
<1>7. ASSUME NEW x \in Connected, PeerStep(x)
      PROVE  CompletenessFresh'
  BY <1>4, <1>5, <1>7
     DEF PeerStep, DisconnectSoon, ClosePeer, GotHave, GotBitfield, GotHaveAll, GotHaveNone, GotChoke,
         GotUnchoke, GotReject, Pulse, torVars
<1> QED
  BY <1>1, <1>2, <1>3, <1>6, <1>7 DEF Next, UserStep

\* completeness_ is what the blocks say, unless do_idle_work() has yet to check.
THEOREM CompletenessAlwaysFresh == Spec => []CompletenessFresh
<1>1. Init => CompletenessFresh
  BY DEF Init, CompletenessFresh
<1> QED
  BY <1>1, StepFresh, Invariance, PTL DEF Spec

-----------------------------------------------------------------------------
(* Replication.                                                            *)

\* The peers that have a piece, among ps.
Holders(ps, p) == {x \in DOMAIN ps : p \in ps[x].have}

\* They are finitely many.
LEMMA HoldersFinite ==
    ASSUME NEW ps, DOMAIN ps \subseteq Peers, NEW p
    PROVE  IsFiniteSet(Holders(ps, p)) /\ Cardinality(Holders(ps, p)) \in Nat
<1>1. Holders(ps, p) \subseteq Peers
  BY DEF Holders
<1>2. IsFiniteSet(Holders(ps, p))
  BY <1>1, SwarmAssumption, FS_Subset
<1> QED
  BY <1>2, FS_CardinalityType

\* count_piece_replication() counts them.
LEMMA CountHolders ==
    ASSUME NEW ps, NEW p \in Pieces
    PROVE  Replications(ps)[p] = Cardinality(Holders(ps, p))
  BY DEF Replications, Holders

\* A wishlist whose counts miss none of the peers.
Covers(w, ps) == \A p \in DOMAIN w : w[p].replication >= Cardinality(Holders(ps, p))

\* ReplicationCovers by its parts.
LEMMA CoversIsCovers == IInv => (ReplicationCovers <=> Covers(wishlist, peers))
<1> SUFFICES ASSUME IInv PROVE ReplicationCovers <=> Covers(wishlist, peers)
  OBVIOUS
<1>1. DOMAIN wishlist \subseteq Pieces
  BY DEF IInv, TypeOK, IsWishlist
<1> QED
  BY <1>1, CountHolders DEF ReplicationCovers, Covers

\* Nothing that counts changes.
LEMMA CoversKept ==
    ASSUME NEW w, NEW v, NEW ps, NEW qs, Covers(w, ps), SameCounts(v, w),
           DOMAIN qs = DOMAIN ps, \A x \in DOMAIN ps : qs[x].have = ps[x].have
    PROVE  Covers(v, qs)
<1>1. \A p : Holders(qs, p) = Holders(ps, p)
  BY DEF Holders
<1> QED
  BY <1>1 DEF Covers, SameCounts

\* A candidate list brought up to date misses none either.
LEMMA UpkeepCovers ==
    ASSUME NEW w, WellFormed(w), NEW hs, NEW ws \in SUBSET Pieces, NEW ps, Covers(w, ps),
           DOMAIN ps \subseteq Peers
    PROVE  Covers(Upkeep(w, hs, ws, Replications(ps)), ps)
<1> DEFINE u == Upkeep(w, hs, ws, Replications(ps))
<1>1. SUFFICES ASSUME NEW p \in DOMAIN u
               PROVE  u[p].replication >= Cardinality(Holders(ps, p))
  BY DEF Covers
<1>2. p \in Pieces
  BY <1>1 DEF Upkeep, ShouldTrack
<1>3. u[p].replication = IF p \in DOMAIN w THEN w[p].replication ELSE Replications(ps)[p]
  BY <1>1, UpkeepCounts
<1>4. Cardinality(Holders(ps, p)) \in Nat
  BY HoldersFinite
<1> HIDE DEF u
<1>5. CASE p \in DOMAIN w
  BY <1>3, <1>5 DEF Covers
<1>6. CASE p \notin DOMAIN w
  BY <1>2, <1>3, <1>4, <1>6, CountHolders
<1> QED
  BY <1>5, <1>6

\* Every step keeps the counts.
LEMMA StepCovers == IInv /\ Covers(wishlist, peers) /\ [Next]_vars => Covers(wishlist, peers)'
<1> SUFFICES ASSUME IInv, Covers(wishlist, peers), [Next]_vars PROVE Covers(wishlist', peers')
  BY DEF Covers, Holders
<1>1. /\ WellFormed(wishlist) /\ SameCounts(wishlist, wishlist)
      /\ peers \in [Connected -> PeerRecords] /\ DOMAIN peers = Connected /\ Connected \subseteq Peers
      /\ Wanted \in SUBSET Pieces
  BY WantedPiecesOK DEF IInv, TypeOK, SameCounts, Connected, Wanted
<1>2. ASSUME NEW h, NEW ws, NEW w, Covers(w, peers), Recheck(h, ws, w, peers)
      PROVE  Covers(wishlist', peers')
  <2>1. Covers(NoWishlist, peers')
    BY DEF Covers, NoWishlist
  <2>2. DOMAIN peers' = DOMAIN peers /\ \A x \in DOMAIN peers : peers'[x].have = peers[x].have
    BY <1>1, <1>2 DEF Recheck, PeerRecords
  <2>3. Covers(w, peers')
    BY <1>2, <2>2, CoversKept DEF SameCounts
  <2> QED
    BY <1>2, <2>1, <2>3 DEF Recheck
<1>3. ASSUME NEW fs \in SUBSET Files, NEW wanted \in BOOLEAN, SetFilesWanted(fs, wanted)
      PROVE  Covers(wishlist', peers')
  <2> DEFINE ws == WantedPieces(wantedFiles')
             w == IF listed THEN Upkeep(wishlist, has, ws, Replications(peers)) ELSE wishlist
  <2>1. Recheck(has, ws, w, peers) /\ wantedFiles' \in SUBSET Files
    BY <1>3 DEF SetFilesWanted, IInv, TypeOK
  <2>2. ws \in SUBSET Pieces
    BY <2>1, WantedPiecesOK
  <2> HIDE DEF ws
  <2>3. Covers(w, peers)
    BY <1>1, <2>2, UpkeepCovers
  <2> HIDE DEF w
  <2> QED
    BY <1>2, <2>1, <2>3
<1>4. CASE IdleWork
  BY <1>2, <1>4 DEF IdleWork
<1>5. CASE Start
  <2>1. wishlist' = Upkeep(NoWishlist, has, Wanted, Replications(peers)) /\ peers' = peers
    BY <1>5 DEF Start
  <2>2. WellFormed(NoWishlist) /\ Covers(NoWishlist, peers)
    BY NoWishlistOK DEF Covers, NoWishlist
  <2> QED
    BY <1>1, <2>1, <2>2, UpkeepCovers
<1>6. CASE Stop
  BY <1>6 DEF Stop, Covers, NoWishlist
<1>7. CASE UpdateInterest
  <2>1. DOMAIN peers' = DOMAIN peers /\ \A x \in DOMAIN peers : peers'[x].have = peers[x].have
    BY <1>1, <1>7 DEF UpdateInterest, PeerRecords
  <2>2. wishlist' = wishlist
    BY <1>7 DEF UpdateInterest, listVars
  <2> QED
    BY <1>1, <2>1, <2>2, CoversKept
<1>8. ASSUME NEW x \in Peers, Connect(x)
      PROVE  Covers(wishlist', peers')
  <2>1. /\ x \notin Connected /\ wishlist' = wishlist
        /\ peers' = [y \in Connected \cup {x} |-> IF y = x THEN NewPeer ELSE peers[y]]
    BY <1>8 DEF Connect, listVars
  <2>2. \A p : Holders(peers', p) = Holders(peers, p)
    BY <1>1, <2>1 DEF Holders, NewPeer
  <2> QED
    BY <2>1, <2>2 DEF Covers
<1>9. ASSUME NEW x \in Connected, PeerStep(x)
      PROVE  Covers(wishlist', peers')
  <2>1. peers[x] \in PeerRecords
    BY <1>1
  <2>2. CASE DisconnectSoon(x) \/ GotUnchoke(x)
    <3>1. wishlist' = wishlist /\ DOMAIN peers' = DOMAIN peers
      BY <2>2 DEF DisconnectSoon, GotUnchoke, listVars
    <3>2. \A y \in DOMAIN peers : peers'[y].have = peers[y].have
      BY <1>1, <2>2 DEF DisconnectSoon, GotUnchoke, PeerRecords
    <3> QED
      BY <1>1, <3>1, <3>2, CoversKept
  <2>3. CASE ClosePeer(x)
    <3>1. /\ wishlist' = PeerDisconnect(wishlist, peers[x].have, peers[x].active)
          /\ peers' = [y \in Connected \ {x} |-> peers[y]]
      BY <2>3 DEF ClosePeer
    <3> DEFINE d == DecReplication(wishlist, peers[x].have)
    <3>2. \A p \in DOMAIN d : d[p].replication >= Cardinality(Holders(peers', p))
      <4>1. SUFFICES ASSUME NEW p \in DOMAIN wishlist
                     PROVE  d[p].replication >= Cardinality(Holders(peers', p))
        BY DEF DecReplication
      <4>2. Holders(peers', p) = Holders(peers, p) \ {x}
        BY <1>1, <3>1 DEF Holders
      <4>3. IsFiniteSet(Holders(peers, p)) /\ Cardinality(Holders(peers, p)) \in Nat
        BY <1>1, HoldersFinite
      <4>4. Cardinality(Holders(peers', p)) = IF x \in Holders(peers, p)
                THEN Cardinality(Holders(peers, p)) - 1 ELSE Cardinality(Holders(peers, p))
        BY <4>2, <4>3, FS_RemoveElement
      <4>5. x \in Holders(peers, p) <=> p \in peers[x].have
        BY <1>1 DEF Holders
      <4>6. wishlist[p] \in Candidates /\ wishlist[p].replication >= Cardinality(Holders(peers, p))
        BY <1>1 DEF Covers, WellFormed, IsWishlist
      <4>7. d[p].replication = IF p \in peers[x].have THEN wishlist[p].replication - 1
                               ELSE wishlist[p].replication
        BY <4>6 DEF DecReplication, Candidates
      <4>8. wishlist[p].replication \in Int
        BY <4>6 DEF Candidates
      <4> HIDE DEF d
      <4> QED
        BY <4>3, <4>4, <4>5, <4>6, <4>7, <4>8
    <3>3. WellFormed(d)
      BY <1>1, DecReplicationOK DEF IInv
    <3> HIDE DEF d
    <3>4. SameCounts(wishlist', d)
      BY <3>1, <3>3, BlocksKeepCounts DEF PeerDisconnect, d
    <3> QED
      BY <3>2, <3>4 DEF Covers, SameCounts
  <2>4. ASSUME NEW hs \in SUBSET Pieces, NEW ps \in SUBSET Pieces, hs \subseteq peers[x].have \cup ps,
               peers' = [peers EXCEPT ![x].have = hs],
               wishlist' = IncReplication(wishlist, ps) \/ (ps = {} /\ wishlist' = wishlist)
        PROVE  Covers(wishlist', peers')
    <3>1. SUFFICES ASSUME NEW p \in DOMAIN wishlist
                   PROVE  wishlist'[p].replication >= Cardinality(Holders(peers', p))
      BY <2>4 DEF IncReplication, Covers
    <3>2. /\ DOMAIN peers' = Connected
          /\ \A y \in Connected : peers'[y].have = IF y = x THEN hs ELSE peers[y].have
      BY <1>1, <2>1, <2>4 DEF PeerRecords
    <3> DEFINE most == IF p \in ps THEN Holders(peers, p) \cup {x} ELSE Holders(peers, p)
    <3>3. Holders(peers', p) \subseteq most
      BY <1>1, <2>4, <3>2 DEF Holders
    <3>4. IsFiniteSet(Holders(peers, p)) /\ Cardinality(Holders(peers, p)) \in Nat
      BY <1>1, HoldersFinite
    <3>5. /\ IsFiniteSet(most)
          /\ Cardinality(most) <= IF p \in ps THEN Cardinality(Holders(peers, p)) + 1
                                  ELSE Cardinality(Holders(peers, p))
      <4>1. CASE p \in ps
        <5>1. /\ IsFiniteSet(Holders(peers, p) \cup {x})
              /\ Cardinality(Holders(peers, p) \cup {x}) \in
                    {Cardinality(Holders(peers, p)), Cardinality(Holders(peers, p)) + 1}
          BY <3>4, FS_AddElement
        <5> QED
          BY <3>4, <4>1, <5>1
      <4>2. CASE p \notin ps
        BY <3>4, <4>2
      <4> QED
        BY <4>1, <4>2
    <3>6. Cardinality(Holders(peers', p)) <= Cardinality(most)
      BY <3>3, <3>5, FS_Subset
    <3>7. wishlist[p] \in Candidates /\ wishlist[p].replication >= Cardinality(Holders(peers, p))
      BY <1>1 DEF Covers, WellFormed, IsWishlist
    <3>8. wishlist'[p].replication = IF p \in ps THEN wishlist[p].replication + 1
                                     ELSE wishlist[p].replication
      BY <2>4, <3>7 DEF IncReplication, Candidates
    <3>9. /\ Cardinality(Holders(peers', p)) \in Nat /\ Cardinality(most) \in Nat
          /\ wishlist[p].replication \in Int
      <4>1. IsFiniteSet(Holders(peers', p))
        BY <3>3, <3>5, FS_Subset
      <4> QED
        BY <3>5, <3>7, <4>1, FS_CardinalityType DEF Candidates
    <3> HIDE DEF most
    <3> QED
      BY <3>4, <3>5, <3>6, <3>7, <3>8, <3>9
  <2>5. ASSUME NEW p \in Pieces, GotHave(x, p)
        PROVE  Covers(wishlist', peers')
    <3>1. peers[x].have \cup {p} \in SUBSET Pieces /\ {p} \in SUBSET Pieces
      BY <2>1 DEF PeerRecords
    <3> QED
      BY <2>4, <2>5, <3>1 DEF GotHave
  <2>6. CASE (\E ps \in SUBSET Pieces : GotBitfield(x, ps)) \/ GotHaveAll(x) \/ GotHaveNone(x)
    <3>1. CASE \E ps \in SUBSET Pieces : GotBitfield(x, ps)
      BY <2>4, <3>1 DEF GotBitfield
    <3>2. CASE GotHaveAll(x)
      BY <2>4, <3>2 DEF GotHaveAll
    <3>3. CASE GotHaveNone(x)
      <4>1. wishlist' = wishlist /\ peers' = [peers EXCEPT ![x].have = {}]
        BY <3>3 DEF GotHaveNone, listVars
      <4> DEFINE none == {}
      <4>2. none \in SUBSET Pieces /\ none \subseteq peers[x].have \cup none
        OBVIOUS
      <4>3. none = {} /\ peers' = [peers EXCEPT ![x].have = none]
        BY <4>1
      <4> HIDE DEF none
      <4> QED
        BY <2>4, <4>1, <4>2, <4>3
    <3> QED
      BY <2>6, <3>1, <3>2, <3>3
  <2>7. ASSUME NEW bs, wishlist' = ResetBlocks(wishlist, bs), DOMAIN peers' = DOMAIN peers,
               \A y \in DOMAIN peers : peers'[y].have = peers[y].have
        PROVE  Covers(wishlist', peers')
    BY <1>1, <2>7, BlocksKeepCounts, CoversKept
  <2>8. CASE GotChoke(x) \/ \E b \in Blocks : GotReject(x, b)
    <3>1. \E r : peers' = [peers EXCEPT ![x] = r] /\ r.have = peers[x].have
      <4>1. CASE GotChoke(x)
        <5>1. PICK as : peers' = [peers EXCEPT ![x] = [peers[x] EXCEPT !.choked = TRUE, !.active = as]]
          BY <2>1, <4>1 DEF GotChoke
        <5> DEFINE r == [peers[x] EXCEPT !.choked = TRUE, !.active = as]
        <5>2. r.have = peers[x].have
          BY <2>1 DEF PeerRecords
        <5> HIDE DEF r
        <5>3. peers' = [peers EXCEPT ![x] = r]
          BY <5>1 DEF r
        <5> QED
          BY <5>2, <5>3
      <4>2. ASSUME NEW b \in Blocks, GotReject(x, b)
            PROVE  \E r : peers' = [peers EXCEPT ![x] = r] /\ r.have = peers[x].have
        <5>1. PICK as : peers' = [peers EXCEPT ![x] = [peers[x] EXCEPT !.active = as]]
          BY <2>1, <4>2 DEF GotReject
        <5> DEFINE r == [peers[x] EXCEPT !.active = as]
        <5>2. r.have = peers[x].have
          BY <2>1 DEF PeerRecords
        <5> HIDE DEF r
        <5>3. peers' = [peers EXCEPT ![x] = r]
          BY <5>1 DEF r
        <5> QED
          BY <5>2, <5>3
      <4> QED
        BY <2>8, <4>1, <4>2
    <3>2. DOMAIN peers' = DOMAIN peers /\ \A y \in DOMAIN peers : peers'[y].have = peers[y].have
      BY <1>1, <3>1
    <3>3. \E bs : wishlist' = ResetBlocks(wishlist, bs)
      BY <2>8 DEF GotChoke, GotReject
    <3> QED
      BY <2>7, <3>2, <3>3
  <2>9. ASSUME NEW b \in Blocks, NEW corrupt, GotBlockData(x, b, corrupt)
        PROVE  Covers(wishlist', peers')
    <3>1. PICK struck : peers' = DropRequests(x, b, struck)
      BY <2>9 DEF GotBlockData
    <3>2. wishlist' = AfterBlock(x, b, corrupt).wishlist /\ b \notin has /\ PiecesOf(b) # {}
      BY <2>9 DEF GotBlockData, Accepts
    <3>3. SameCounts(wishlist', wishlist)
      BY <3>2, AfterBlockVerdict
    <3>4. DOMAIN peers' = DOMAIN peers /\ \A y \in DOMAIN peers : peers'[y].have = peers[y].have
      BY <1>1, <3>1 DEF DropRequests, PeerRecords
    <3> QED
      BY <3>3, <3>4, CoversKept
  <2>10. ASSUME NEW expired \in SUBSET peers[x].active, NEW desired \in 1 .. MaxRequests,
                Pulse(x, expired, desired)
         PROVE  Covers(wishlist', peers')
    <3> DEFINE s == Expire(x, expired)
               w == ResetBlocks(wishlist, expired)
    <3>1. s.wishlist = w /\ s.peer = [peers[x] EXCEPT !.active = @ \ expired]
      BY DEF Expire
    <3>2. PICK bs : /\ peers' = [peers EXCEPT ![x] = [s.peer EXCEPT !.active = @ \cup bs]]
                    /\ wishlist' = RequestedBlocks(s.wishlist, bs)
      BY <2>10 DEF Pulse
    <3> HIDE DEF s
    <3>3. WellFormed(w) /\ SameCounts(w, wishlist)
      <4>1. expired \cap has = {}
        BY DEF IInv, ActiveOnlyMissing
      <4> QED
        BY <1>1, <4>1, ResetBlocksOK, BlocksKeepCounts DEF IInv
    <3> HIDE DEF w
    <3>4. SameCounts(wishlist', w)
      BY <3>1, <3>2, <3>3, BlocksKeepCounts
    <3>5. SameCounts(wishlist', wishlist)
      BY <3>3, <3>4 DEF SameCounts
    <3>6. DOMAIN peers' = DOMAIN peers /\ \A y \in DOMAIN peers : peers'[y].have = peers[y].have
      BY <1>1, <2>1, <3>1, <3>2 DEF PeerRecords
    <3> QED
      BY <3>5, <3>6, CoversKept
  <2> QED
    BY <1>9, <2>2, <2>3, <2>5, <2>6, <2>8, <2>9, <2>10 DEF PeerStep
<1>10. CASE UNCHANGED vars
  BY <1>10 DEF vars, listVars, peerVars
<1> QED
  BY <1>3, <1>4, <1>5, <1>6, <1>7, <1>8, <1>9, <1>10 DEF Next, UserStep

\* Every peer that is connected and has a tracked piece is counted for it, whatever it
\* announces and how often.
THEOREM ReplicationAlwaysCovers == Spec => []ReplicationCovers
<1>1. Init => Covers(wishlist, peers)
  BY DEF Init, Covers, NoWishlist
<1>2. Spec => []Covers(wishlist, peers)
  BY <1>1, StepCovers, Invariance, PTL DEF Spec
<1> QED
  BY <1>2, CoversIsCovers, Invariance, PTL

=============================================================================
