--------------------------- MODULE SwarmBlocks_proof ---------------------------
(***************************************************************************)
(* Where the missing blocks of a torrent are, whatever data is bad, peers  *)
(* do and the user selects.  None is lost in a torrent whose pieces share  *)
(* no block (with a shared block one can be: README, section 6), and none  *)
(* is asked of two peers, or asked for and offered, in a torrent of one    *)
(* file (with more of them one can be, after a file was selected again).   *)
(***************************************************************************)
EXTENDS Swarm_proof

\* The blocks that peers are asked for.
Asked(ps) == UNION {ps[x].active : x \in DOMAIN ps}

-----------------------------------------------------------------------------
(* No block is lost: geometry.                                             *)

\* Each piece begins with a block of its own.
Aligned == \A p \in Pieces : p + 1 \in Pieces => RawBegin[p + 1] = RawEnd[p]

\* Candidates own the whole of their pieces.
LEMMA WholeSpan ==
    ASSUME Aligned, NEW w, WellFormed(w), NEW p \in DOMAIN w
    PROVE  /\ p \in Pieces /\ w[p] \in Candidates
           /\ w[p].begin = RawBegin[p] /\ w[p].end = RawEnd[p]
           /\ Span(w[p]) = RawSpan(p)
<1>1. p \in Pieces /\ w[p] \in Candidates /\ RawBegin[p] \in Nat /\ RawEnd[p] \in Nat
  BY Spans, PieceBounds
<1>2. w[p].begin = RawBegin[p]
  <2>1. p - 1 \in Pieces => RawEnd[p - 1] = RawBegin[p]
    <3>1. p \in Int
      BY <1>1 DEF Pieces
    <3>2. (p - 1) + 1 = p
      BY <3>1
    <3> QED
      BY <1>1, <3>2 DEF Aligned
  <2> QED
    BY <1>1, <2>1 DEF WellFormed, SpanOK, Candidates
<1>3. w[p].end = RawEnd[p]
  BY <1>1 DEF WellFormed, SpanOK, Aligned, Candidates
<1> QED
  BY <1>1, <1>2, <1>3 DEF Span, RawSpan

\* A block belongs to one piece.
LEMMA OnePiece ==
    ASSUME Aligned, NEW p \in Pieces, NEW q \in Pieces, NEW b, b \in RawSpan(p), b \in RawSpan(q)
    PROVE  p = q
<1>1. ASSUME NEW r \in Pieces, NEW s \in Pieces, r < s, b \in RawSpan(r), b \in RawSpan(s)
      PROVE  FALSE
  <2>1. s = r + 1
    BY <1>1, SharedBlock
  <2>2. RawBegin[s] = RawEnd[r]
    BY <2>1 DEF Aligned
  <2> QED
    BY <1>1, <2>2, PieceBounds DEF RawSpan
<1>2. p \in Int /\ q \in Int
  BY DEF Pieces
<1> QED
  BY <1>1, <1>2

-----------------------------------------------------------------------------
(* The inductive invariant.                                                *)

\* Candidates offer their missing blocks, but those that peers are asked for.
Held(w, ps, hs) == \A p \in DOMAIN w : RawSpan(p) \subseteq hs \cup w[p].unrequested \cup Asked(ps)

\* A wishlist tracks every incomplete piece that is wanted.
Tracks(w, hs, ws) == ShouldTrack(hs, ws) \subseteq DOMAIN w

AlignedInv == Held(wishlist, peers, has) /\ (listed => Tracks(wishlist, has, Wanted))

\* What remains of candidates w, in v, offers as much as before, but for bs.
Offers(v, w, bs) ==
    \A p \in DOMAIN v : p \in DOMAIN w /\ w[p].unrequested \subseteq v[p].unrequested \cup bs

\* What is neither offered nor asked for is there.
LEMMA NotLost == Aligned /\ IInv /\ AlignedInv => NoBlockLost
<1> SUFFICES ASSUME IInv, AlignedInv, listed, NEW p \in Wanted, NEW b \in RawSpan(p) \ has
             PROVE  \/ b \in TotalUnrequested(wishlist)
                    \/ \E x \in Connected : b \in peers[x].active
  BY DEF NoBlockLost
<1>1. p \in DOMAIN wishlist
  BY DEF AlignedInv, Tracks, ShouldTrack, HasPiece
<1>2. b \in wishlist[p].unrequested \cup Asked(peers)
  BY <1>1 DEF AlignedInv, Held
<1> QED
  BY <1>1, <1>2 DEF Asked, TotalUnrequested, Connected

-----------------------------------------------------------------------------
(* The wishlist's handlers.                                                *)

\* Requests leave what they do not take; what is given back is offered again.
LEMMA BlocksOffered ==
    ASSUME Aligned, NEW w, WellFormed(w), NEW bs
    PROVE  /\ Offers(RequestedBlocks(w, bs), w, bs)
           /\ Offers(GotBlock(w, bs), w, {bs})
           /\ Offers(ResetBlocks(w, bs), w, {})
           /\ \A p \in DOMAIN w : RawSpan(p) \cap bs \subseteq ResetBlocks(w, bs)[p].unrequested
<1>1. \A p \in DOMAIN w : w[p] \in Candidates /\ Span(w[p]) = RawSpan(p)
  BY WholeSpan
<1>2. /\ Offers(RequestedBlocks(w, bs), w, bs)
      /\ Offers(GotBlock(w, bs), w, {bs})
  BY <1>1 DEF Offers, RequestedBlocks, GotBlock, Candidates
<1>3. /\ Offers(ResetBlocks(w, bs), w, {})
      /\ \A p \in DOMAIN w : RawSpan(p) \cap bs \subseteq ResetBlocks(w, bs)[p].unrequested
  BY <1>1 DEF Offers, ResetBlocks, Candidates
<1> QED
  BY <1>2, <1>3

\* Counting offers the same.
LEMMA CountsOffered ==
    ASSUME NEW w, WellFormed(w), NEW ps
    PROVE  /\ DOMAIN IncReplication(w, ps) = DOMAIN w /\ DOMAIN DecReplication(w, ps) = DOMAIN w
           /\ Offers(IncReplication(w, ps), w, {}) /\ Offers(DecReplication(w, ps), w, {})
<1>1. \A p \in DOMAIN w : w[p] \in Candidates
  BY Spans
<1> QED
  BY <1>1 DEF Offers, IncReplication, DecReplication, Candidates

\* A tracked piece that fails is offered as a whole.
LEMMA BadPieceOffered ==
    ASSUME Aligned, NEW w, WellFormed(w), NEW p \in DOMAIN w
    PROVE  /\ Offers(GotBadPiece(w, p), w, {})
           /\ RawSpan(p) \subseteq GotBadPiece(w, p)[p].unrequested
<1>1. \A q \in DOMAIN w : /\ q \in Pieces /\ q \in Int /\ w[q] \in Candidates
                          /\ w[q].begin = RawBegin[q] /\ w[q].end = RawEnd[q]
                          /\ RawBegin[q] \in Nat /\ RawEnd[q] \in Nat
  BY WholeSpan, PieceBounds DEF Pieces
<1>2. BadBegin(w, p) = RawBegin[p]
  <2>1. ASSUME p - 1 \in DOMAIN w
        PROVE  w[p - 1].end = RawBegin[p]
    <3>1. p - 1 \in Pieces /\ (p - 1) + 1 = p
      BY <1>1, <2>1
    <3> QED
      BY <1>1, <2>1, <3>1 DEF Aligned
  <2> QED
    BY <1>1, <2>1 DEF BadBegin
<1>3. BadEnd(w, p) = RawEnd[p]
  BY <1>1 DEF BadEnd, Aligned
<1> DEFINE begin == BadBegin(w, p)
           end == BadEnd(w, p)
           g(q) == CASE q = p     -> [w[q] EXCEPT !.begin = begin, !.end = end,
                                                  !.unrequested = @ \cup (begin .. end - 1)]
                     [] q = p - 1 -> [w[q] EXCEPT !.unrequested = @ \cup (RawBegin[p] .. begin - 1)]
                     [] q = p + 1 -> [w[q] EXCEPT !.unrequested = @ \cup (end .. RawEnd[p] - 1)]
                     [] OTHER     -> w[q]
<1>4. GotBadPiece(w, p) = [q \in DOMAIN w |-> g(q)]
  BY DEF GotBadPiece
<1>5. g(p).unrequested = w[p].unrequested \cup RawSpan(p)
  <2> DEFINE span == begin .. end - 1
  <2>1. span = RawSpan(p)
    BY <1>2, <1>3 DEF RawSpan
  <2>2. g(p) = [w[p] EXCEPT !.begin = begin, !.end = end, !.unrequested = @ \cup span]
    <3>1. p # p - 1 /\ p # p + 1
      BY <1>1
    <3> HIDE DEF begin, end
    <3> QED
      BY <3>1 DEF span
  <2> HIDE DEF begin, end, span, g
  <2>3. g(p).unrequested = w[p].unrequested \cup span
    BY <1>1, <2>2 DEF Candidates
  <2> QED
    BY <2>1, <2>3
<1>6. ASSUME NEW q \in DOMAIN w
      PROVE  w[q].unrequested \subseteq g(q).unrequested
  <2> HIDE DEF begin, end
  <2>1. w[q] \in Candidates
    BY <1>1
  <2> QED
    BY <2>1 DEF Candidates
<1> HIDE DEF g
<1> QED
  BY <1>4, <1>5, <1>6 DEF Offers

\* A wishlist brought up to date offers what it did, and new pieces as a whole.
LEMMA UpkeepOffers ==
    ASSUME Aligned, NEW w, WellFormed(w), NEW hs, NEW ws \in SUBSET Pieces, NEW repl, NEW ps,
           Held(w, ps, hs)
    PROVE  Held(Upkeep(w, hs, ws, repl), ps, hs) /\ Tracks(Upkeep(w, hs, ws, repl), hs, ws)
<1> DEFINE tracked == ShouldTrack(hs, ws)
           u == Upkeep(w, hs, ws, repl)
<1>1. /\ u = [p \in tracked |-> IF p \in DOMAIN w THEN KeptCandidate(w, tracked, p)
                                ELSE NewCandidate(w, hs, tracked, repl, p)]
      /\ tracked \subseteq Pieces
  BY DEF Upkeep, ShouldTrack
<1>2. Tracks(u, hs, ws)
  BY <1>1 DEF Tracks
<1> HIDE DEF tracked, u
<1>3. \A q \in DOMAIN w : /\ q \in Pieces /\ w[q] \in Candidates
                          /\ w[q].begin = RawBegin[q] /\ w[q].end = RawEnd[q]
  BY WholeSpan
<1>4. ASSUME NEW p \in tracked, p \in DOMAIN w
      PROVE  w[p].unrequested \subseteq KeptCandidate(w, tracked, p).unrequested
  BY <1>1, <1>4, KeptCandidateOK
<1>5. ASSUME NEW p \in tracked, p \notin DOMAIN w
      PROVE  NewCandidate(w, hs, tracked, repl, p).unrequested = RawSpan(p) \ hs
  <2> DEFINE begin == IF p - 1 \in tracked /\ PassedEnd(w, p - 1) > RawBegin[p]
                      THEN PassedEnd(w, p - 1) ELSE RawBegin[p]
             end == IF p + 1 \in tracked \cap DOMAIN w /\ w[p + 1].begin < RawEnd[p]
                    THEN w[p + 1].begin ELSE RawEnd[p]
  <2>1. p \in Pieces /\ p \in Int /\ RawBegin[p] \in Nat /\ RawEnd[p] \in Nat
    BY <1>1, <1>5, PieceBounds DEF Pieces
  <2>2. begin = RawBegin[p]
    <3>1. ASSUME p - 1 \in tracked
          PROVE  PassedEnd(w, p - 1) = RawBegin[p]
      <4>1. p - 1 \in Pieces /\ (p - 1) + 1 = p
        BY <1>1, <2>1, <3>1
      <4>2. RawEnd[p - 1] = RawBegin[p]
        BY <2>1, <4>1 DEF Aligned
      <4> QED
        BY <1>3, <4>2 DEF PassedEnd
    <3> QED
      BY <2>1, <3>1
  <2>3. end = RawEnd[p]
    BY <1>3, <2>1 DEF Aligned
  <2>4. NewCandidate(w, hs, tracked, repl, p).unrequested = (begin .. end - 1) \ hs
    BY DEF NewCandidate
  <2> HIDE DEF begin, end
  <2> QED
    BY <2>2, <2>3, <2>4 DEF RawSpan
<1>6. Held(u, ps, hs)
  BY <1>1, <1>4, <1>5 DEF Held
<1> QED
  BY <1>2, <1>6 DEF u

\* Tracking follows the blocks that come.
LEMMA HeldKept ==
    ASSUME NEW w, NEW ps, NEW hs, Held(w, ps, hs), NEW v, NEW bs, Offers(v, w, bs),
           NEW qs, NEW gs, NEW as, bs \subseteq gs \cup Asked(qs), hs \subseteq gs,
           Asked(ps) \subseteq Asked(qs) \cup as,
           \A p \in DOMAIN v : RawSpan(p) \cap as \subseteq gs \cup v[p].unrequested \cup Asked(qs)
    PROVE  Held(v, qs, gs)
<1> SUFFICES ASSUME NEW p \in DOMAIN v, NEW b \in RawSpan(p),
                    b \notin gs, b \notin v[p].unrequested, b \notin Asked(qs)
             PROVE  FALSE
  BY DEF Held
<1>1. p \in DOMAIN w /\ b \notin w[p].unrequested
  BY DEF Offers
<1>2. b \in Asked(ps)
  BY <1>1 DEF Held
<1> QED
  BY <1>2

-----------------------------------------------------------------------------
(* A block arrives.                                                        *)

\* What on_block_received() makes of a block of one piece: the piece is not whole yet, or it
\* passes, or it fails and is offered again.
AlignedBlock(s, w, p, b) ==
    \/ s.has = has \cup {b} /\ s.wishlist = w /\ ~HasPiece(s.has, p)
    \/ s.has = has \cup {b} /\ s.wishlist = RemovePiece(w, p) /\ HasPiece(s.has, p)
    \/ s.has = (has \cup {b}) \ RawSpan(p) /\ s.wishlist = GotBadPiece(w, p)

\* That is all it does when each piece begins with a block of its own.
LEMMA AfterBlockAligned ==
    ASSUME Aligned, IInv, NEW x, NEW p \in Pieces, NEW b \in RawSpan(p), b \notin has, NEW corrupt
    PROVE  AlignedBlock(AfterBlock(x, b, corrupt), WithBlock(x, b), p, b)
<1> DEFINE s0 == [has |-> has \cup {b},
                  bad |-> (bad \ (PiecesOf(b) \X {b})) \cup (corrupt \X {b}),
                  wishlist |-> WithBlock(x, b), passed |-> FALSE, failed |-> FALSE]
           s1 == CheckPiece(s0, p)
           s2 == CheckPiece(s1, p)
<1>1. s2 = AfterBlock(x, b, corrupt)
  <2>1. FirstPiece(b) = p /\ LastPiece(b) = p
    <3>1. p \in PiecesOf(b)
      BY DEF PiecesOf
    <3>2. \A q \in PiecesOf(b) : q = p
      BY OnePiece DEF PiecesOf
    <3> QED
      BY <3>1, <3>2, EdgePieces
  <2> QED
    BY <2>1 DEF AfterBlock
<1>2. s0.has = has \cup {b} /\ s0.wishlist = WithBlock(x, b)
  OBVIOUS
<1>3. CASE ~HasPiece(s0.has, p)
  <2>1. s2 = s0
    BY <1>3 DEF CheckPiece
  <2> HIDE DEF s0, s2
  <2> QED
    BY <1>1, <1>2, <1>3, <2>1 DEF AlignedBlock
<1>4. CASE HasPiece(s0.has, p) /\ \A c \in RawSpan(p) : <<p, c>> \notin s0.bad
  <2>1. s1 = [s0 EXCEPT !.wishlist = RemovePiece(@, p), !.passed = TRUE]
    BY <1>4 DEF CheckPiece
  <2>2. s1.has = s0.has /\ s1.bad = s0.bad /\ s1.wishlist = RemovePiece(s0.wishlist, p)
        /\ s1 = [has |-> s1.has, bad |-> s1.bad, wishlist |-> s1.wishlist, passed |-> TRUE, failed |-> FALSE]
    BY <2>1
  <2> HIDE DEF s1
  <2>3. s2 = [s1 EXCEPT !.wishlist = RemovePiece(@, p), !.passed = TRUE]
    BY <1>4, <2>2 DEF CheckPiece
  <2>4. s2.has = s1.has /\ s2.wishlist = RemovePiece(s1.wishlist, p)
    BY <2>2, <2>3
  <2>5. RemovePiece(RemovePiece(s0.wishlist, p), p) = RemovePiece(s0.wishlist, p)
    BY DEF RemovePiece
  <2> HIDE DEF s0, s2
  <2> QED
    BY <1>1, <1>2, <1>4, <2>2, <2>4, <2>5 DEF AlignedBlock
<1>5. CASE HasPiece(s0.has, p) /\ ~(\A c \in RawSpan(p) : <<p, c>> \notin s0.bad)
  <2>1. s1 = [s0 EXCEPT !.wishlist = GotBadPiece(@, p), !.failed = TRUE, !.has = @ \ RawSpan(p)]
    BY <1>5 DEF CheckPiece
  <2>2. s1.has = s0.has \ RawSpan(p) /\ s1.wishlist = GotBadPiece(s0.wishlist, p)
    BY <2>1
  <2> HIDE DEF s1
  <2>3. ~HasPiece(s1.has, p)
    BY <2>2 DEF HasPiece
  <2>4. s2 = s1
    BY <2>3 DEF CheckPiece
  <2> HIDE DEF s0, s2
  <2> QED
    BY <1>1, <1>2, <2>2, <2>4 DEF AlignedBlock
<1> QED
  BY <1>3, <1>4, <1>5

\* The wishlist offers what it did, but for the block.
LEMMA WithBlockOffers ==
    ASSUME Aligned, IInv, NEW x, NEW b, b \notin has
    PROVE  /\ WellFormed(WithBlock(x, b)) /\ DOMAIN WithBlock(x, b) = DOMAIN wishlist
           /\ Offers(WithBlock(x, b), wishlist, {b})
<1>1. WellFormed(wishlist) /\ {b} \cap has = {}
  BY DEF IInv
<1>2. WellFormed(Cancelled(x, b)) /\ Offers(Cancelled(x, b), wishlist, {})
  BY <1>1, ResetBlocksOK, BlocksOffered DEF Cancelled, Offers
<1>3. Offers(WithBlock(x, b), Cancelled(x, b), {b})
  BY <1>2, BlocksOffered DEF WithBlock
<1> QED
  BY <1>2, <1>3, WithBlockOK DEF Offers

\* A block keeps what is held and what is tracked.
LEMMA GotBlockKeeps ==
    ASSUME Aligned, IInv, AlignedInv, NEW x \in Connected, NEW b \in Blocks, NEW corrupt,
           GotBlockData(x, b, corrupt)
    PROVE  AlignedInv'
<1> DEFINE s == AfterBlock(x, b, corrupt)
           w == WithBlock(x, b)
<1>1. /\ Accepts(x, b) /\ has' = s.has /\ wishlist' = s.wishlist
      /\ UNCHANGED <<wantedFiles, listed>>
  BY DEF GotBlockData
<1>2. PICK struck : peers' = DropRequests(x, b, struck)
  BY DEF GotBlockData
<1>3. PICK p \in PiecesOf(b) : p \in Wanted /\ b \notin has
  BY <1>1 DEF Accepts
<1>4. p \in Pieces /\ b \in RawSpan(p) /\ Wanted' = Wanted /\ Wanted \subseteq Pieces
  BY <1>1, WantedPiecesOK DEF PiecesOf, Wanted, IInv, TypeOK
<1>5. Asked(peers) \subseteq Asked(peers') \cup {b}
  <2>1. peers \in [Connected -> PeerRecords]
    BY DEF IInv, TypeOK
  <2>2. DOMAIN peers' = DOMAIN peers /\ \A y \in DOMAIN peers : peers'[y].active = peers[y].active \ {b}
    BY <1>2, <2>1 DEF DropRequests, PeerRecords
  <2> QED
    BY <2>2 DEF Asked
<1>6. WellFormed(w) /\ DOMAIN w = DOMAIN wishlist /\ Offers(w, wishlist, {b})
  BY <1>3, WithBlockOffers
<1>7. Held(w, peers', has \cup {b})
  <2>1. Held(wishlist, peers, has)
    BY DEF AlignedInv
  <2> QED
    BY <1>5, <1>6, <2>1, HeldKept
<1>8. listed => Tracks(w, has, Wanted)
  BY <1>6 DEF AlignedInv, Tracks
<1> HIDE DEF s, w
<1>9. CASE s.has = has \cup {b} /\ s.wishlist = w /\ ~HasPiece(s.has, p)
  <2>1. Held(wishlist', peers', has')
    BY <1>1, <1>7, <1>9
  <2>2. listed' => Tracks(wishlist', has', Wanted')
    BY <1>1, <1>4, <1>8, <1>9 DEF Tracks, ShouldTrack, HasPiece
  <2> QED
    BY <2>1, <2>2 DEF AlignedInv
<1>10. CASE s.has = has \cup {b} /\ s.wishlist = RemovePiece(w, p) /\ HasPiece(s.has, p)
  <2>1. Held(wishlist', peers', has')
    BY <1>1, <1>7, <1>10 DEF Held, RemovePiece
  <2>2. listed' => Tracks(wishlist', has', Wanted')
    BY <1>1, <1>4, <1>8, <1>10 DEF Tracks, ShouldTrack, HasPiece, RemovePiece
  <2> QED
    BY <2>1, <2>2 DEF AlignedInv
<1>11. CASE s.has = (has \cup {b}) \ RawSpan(p) /\ s.wishlist = GotBadPiece(w, p)
  <2>1. ASSUME NEW q \in Pieces, q # p
        PROVE  RawSpan(q) \cap RawSpan(p) = {}
    BY <1>4, <2>1, OnePiece
  <2>2. DOMAIN wishlist' = DOMAIN w
    BY <1>1, <1>11 DEF GotBadPiece
  <2>3. listed => p \in DOMAIN w
    BY <1>3, <1>4, <1>8 DEF Tracks, ShouldTrack, HasPiece
  <2>4. listed' => Tracks(wishlist', has', Wanted')
    <3> SUFFICES ASSUME listed, NEW q \in Wanted, ~HasPiece(has', q) PROVE q \in DOMAIN w
      BY <1>1, <1>4, <2>2 DEF Tracks, ShouldTrack
    <3>1. CASE q = p
      BY <2>3, <3>1
    <3>2. CASE q # p
      <4>1. ~HasPiece(has, q)
        BY <1>1, <1>4, <1>11, <2>1, <3>2 DEF HasPiece
      <4> QED
        BY <1>8, <4>1 DEF Tracks, ShouldTrack
    <3> QED
      BY <3>1, <3>2
  <2>5. Held(wishlist', peers', has')
    <3>1. CASE p \notin DOMAIN w
      <4>1. wishlist' = w
        BY <1>1, <1>11, <3>1 DEF GotBadPiece
      <4>2. \A q \in DOMAIN w : q \in Pieces /\ q # p
        BY <1>6, <3>1, WholeSpan
      <4> QED
        BY <1>1, <1>7, <1>11, <2>1, <4>1, <4>2 DEF Held
    <3>2. CASE p \in DOMAIN w
      <4>1. Offers(wishlist', w, {}) /\ RawSpan(p) \subseteq wishlist'[p].unrequested
        BY <1>1, <1>6, <1>11, <3>2, BadPieceOffered
      <4>2. ASSUME NEW q \in DOMAIN w
            PROVE  RawSpan(q) \subseteq has' \cup wishlist'[q].unrequested \cup Asked(peers')
        <5>1. CASE q = p
          BY <4>1, <5>1
        <5>2. CASE q # p
          <6>1. q \in Pieces
            BY <1>6, <4>2, WholeSpan
          <6>2. RawSpan(q) \subseteq has \cup {b} \cup w[q].unrequested \cup Asked(peers')
            BY <1>7, <4>2 DEF Held
          <6>3. RawSpan(q) \cap RawSpan(p) = {} /\ w[q].unrequested \subseteq wishlist'[q].unrequested
            BY <2>1, <2>2, <4>1, <4>2, <5>2, <6>1 DEF Offers
          <6> QED
            BY <1>1, <1>11, <6>2, <6>3
        <5> QED
          BY <5>1, <5>2
      <4> QED
        BY <2>2, <4>2 DEF Held
    <3> QED
      BY <3>1, <3>2
  <2> QED
    BY <2>4, <2>5 DEF AlignedInv
<1>12. AlignedBlock(s, w, p, b)
  BY <1>3, <1>4, AfterBlockAligned DEF s, w
<1> QED
  BY <1>9, <1>10, <1>11, <1>12 DEF AlignedBlock

-----------------------------------------------------------------------------
(* Every step keeps the invariant.                                         *)

\* A step that brings no block: what a peer is no longer asked for is offered.
LEMMA OffersKept ==
    ASSUME AlignedInv, UNCHANGED <<has, wantedFiles, listed>>, NEW bs, NEW as,
           Offers(wishlist', wishlist, bs), DOMAIN wishlist' = DOMAIN wishlist,
           bs \subseteq Asked(peers'), Asked(peers) \subseteq Asked(peers') \cup as,
           \A p \in DOMAIN wishlist : RawSpan(p) \cap as \subseteq wishlist'[p].unrequested \cup Asked(peers')
    PROVE  AlignedInv'
<1>1. Held(wishlist, peers, has)
  BY DEF AlignedInv
<1>2. Held(wishlist', peers', has)
  BY <1>1, HeldKept
<1> QED
  BY <1>2 DEF AlignedInv, Tracks, Wanted

\* The same, when no block is requested.
LEMMA NoneRequested ==
    ASSUME AlignedInv, UNCHANGED <<has, wantedFiles, listed>>, NEW as,
           Offers(wishlist', wishlist, {}), DOMAIN wishlist' = DOMAIN wishlist,
           Asked(peers) \subseteq Asked(peers') \cup as,
           \A p \in DOMAIN wishlist : RawSpan(p) \cap as \subseteq wishlist'[p].unrequested \cup Asked(peers')
    PROVE  AlignedInv'
<1> DEFINE none == {}
<1>1. none \subseteq Asked(peers') /\ Offers(wishlist', wishlist, none)
  OBVIOUS
<1> HIDE DEF none
<1> QED
  BY <1>1, OffersKept

\* What a peer is asked for, after a step that changes its record.
LEMMA OneAsked ==
    ASSUME IInv, NEW x \in Connected, NEW r, peers' = [peers EXCEPT ![x] = r]
    PROVE  /\ Asked(peers) \subseteq Asked(peers') \cup (peers[x].active \ r.active)
           /\ r.active \subseteq Asked(peers')
<1>1. DOMAIN peers' = DOMAIN peers /\ peers'[x] = r /\ \A y \in DOMAIN peers : y # x => peers'[y] = peers[y]
  BY DEF IInv, TypeOK, Connected
<1> QED
  BY <1>1 DEF Asked, Connected

\* recheck_completeness() keeps the wishlist or gives it up.
LEMMA RecheckKeeps ==
    ASSUME IInv, NEW h, NEW ws, NEW w, Held(w, peers, h), listed => Tracks(w, h, ws),
           Recheck(h, ws, w, peers)
    PROVE  Held(wishlist', peers', h) /\ (listed' => Tracks(wishlist', h, ws))
<1>1. peers \in [Connected -> PeerRecords]
  BY DEF IInv, TypeOK
<1>2. Asked(peers') = Asked(peers)
  <2>1. DOMAIN peers' = DOMAIN peers /\ \A y \in DOMAIN peers : peers'[y].active = peers[y].active
    BY <1>1 DEF Recheck, PeerRecords
  <2> QED
    BY <2>1 DEF Asked
<1>3. CASE wishlist' = w /\ listed' = listed
  BY <1>2, <1>3 DEF Held
<1>4. CASE wishlist' = NoWishlist /\ listed' = FALSE
  BY <1>4 DEF Held, NoWishlist
<1>5. listed \in BOOLEAN
  BY DEF IInv, TypeOK
<1>6. (wishlist' = w /\ listed' = listed) \/ (wishlist' = NoWishlist /\ listed' = FALSE)
  <2>1. CASE Status(h, ws) \notin {completeness, "leech"}
    BY <2>1 DEF Recheck
  <2>2. CASE ~(Status(h, ws) \notin {completeness, "leech"})
    BY <1>5, <2>2 DEF Recheck
  <2> QED
    BY <2>1, <2>2
<1> QED
  BY <1>3, <1>4, <1>6

\* What a peer does, and pulse().
LEMMA PeerStepKeeps ==
    ASSUME Aligned, IInv, AlignedInv, NEW x \in Connected, PeerStep(x)
    PROVE  AlignedInv'
<1>1. /\ WellFormed(wishlist) /\ Offers(wishlist, wishlist, {})
      /\ peers[x] \in PeerRecords
  BY DEF IInv, TypeOK, Offers
<1>2. ASSUME NEW r, peers' = [peers EXCEPT ![x] = r], r.active = peers[x].active,
             Offers(wishlist', wishlist, {}), DOMAIN wishlist' = DOMAIN wishlist,
             UNCHANGED <<has, wantedFiles, listed>>
      PROVE  AlignedInv'
  <2> DEFINE none == {}
  <2>1. Asked(peers) \subseteq Asked(peers') \cup none
    BY <1>2, OneAsked
  <2>2. \A p \in DOMAIN wishlist : RawSpan(p) \cap none \subseteq wishlist'[p].unrequested \cup Asked(peers')
    OBVIOUS
  <2> HIDE DEF none
  <2> QED
    BY <1>2, <2>1, <2>2, NoneRequested
<1>3. ASSUME NEW r, NEW bs, peers' = [peers EXCEPT ![x] = r], peers[x].active \ bs \subseteq r.active,
             wishlist' = ResetBlocks(wishlist, bs), UNCHANGED <<has, wantedFiles, listed>>
      PROVE  AlignedInv'
  <2>1. Asked(peers) \subseteq Asked(peers') \cup bs
    BY <1>3, OneAsked
  <2>2. /\ Offers(wishlist', wishlist, {}) /\ DOMAIN wishlist' = DOMAIN wishlist
        /\ \A p \in DOMAIN wishlist : RawSpan(p) \cap bs \subseteq wishlist'[p].unrequested
    BY <1>1, <1>3, BlocksOffered, ResetBlocksOK
  <2>3. \A p \in DOMAIN wishlist : RawSpan(p) \cap bs \subseteq wishlist'[p].unrequested \cup Asked(peers')
    BY <2>2
  <2> QED
    BY <1>3, <2>1, <2>2, <2>3, NoneRequested
<1>4. CASE DisconnectSoon(x)
  <2> DEFINE r == [peers[x] EXCEPT !.leaving = TRUE]
  <2>1. r.active = peers[x].active
    BY <1>1 DEF PeerRecords
  <2>2. peers' = [peers EXCEPT ![x] = r] /\ UNCHANGED <<wishlist, has, wantedFiles, listed>>
    BY <1>4 DEF DisconnectSoon, torVars, listVars
  <2> HIDE DEF r
  <2> QED
    BY <1>1, <1>2, <2>1, <2>2
<1>5. CASE GotUnchoke(x)
  <2> DEFINE r == [peers[x] EXCEPT !.choked = FALSE]
  <2>1. r.active = peers[x].active
    BY <1>1 DEF PeerRecords
  <2>2. peers' = [peers EXCEPT ![x] = r] /\ UNCHANGED <<wishlist, has, wantedFiles, listed>>
    BY <1>5 DEF GotUnchoke, torVars, listVars
  <2> HIDE DEF r
  <2> QED
    BY <1>1, <1>2, <2>1, <2>2
<1>6. ASSUME NEW hs, NEW ps, peers' = [peers EXCEPT ![x].have = hs],
             wishlist' = IncReplication(wishlist, ps) \/ wishlist' = wishlist,
             UNCHANGED <<has, wantedFiles, listed>>
      PROVE  AlignedInv'
  <2> DEFINE r == [peers[x] EXCEPT !.have = hs]
  <2>1. r.active = peers[x].active /\ peers' = [peers EXCEPT ![x] = r]
    BY <1>1, <1>6 DEF PeerRecords
  <2>2. Offers(wishlist', wishlist, {}) /\ DOMAIN wishlist' = DOMAIN wishlist
    BY <1>1, <1>6, CountsOffered
  <2> HIDE DEF r
  <2> QED
    BY <1>2, <1>6, <2>1, <2>2
<1>7. CASE \/ \E p \in Pieces : GotHave(x, p)
           \/ \E ps \in SUBSET Pieces : GotBitfield(x, ps)
           \/ GotHaveAll(x)
           \/ GotHaveNone(x)
  BY <1>6, <1>7 DEF GotHave, GotBitfield, GotHaveAll, GotHaveNone, torVars, listVars
<1>8. CASE GotChoke(x)
  <2> DEFINE dropped == IF x \in FastPeers THEN {} ELSE peers[x].active
             r == [peers[x] EXCEPT !.choked = TRUE, !.active = @ \ dropped]
  <2>1. /\ peers' = [peers EXCEPT ![x] = r] /\ UNCHANGED <<has, wantedFiles, listed>>
        /\ wishlist' = ResetBlocks(wishlist, dropped)
    BY <1>8 DEF GotChoke, torVars
  <2> HIDE DEF dropped
  <2>2. r.active = peers[x].active \ dropped
    BY <1>1 DEF PeerRecords
  <2> HIDE DEF r
  <2> QED
    BY <1>3, <2>1, <2>2
<1>9. ASSUME NEW b \in Blocks, GotReject(x, b)
      PROVE  AlignedInv'
  <2> DEFINE r == [peers[x] EXCEPT !.active = @ \ {b}]
  <2>1. /\ peers' = [peers EXCEPT ![x] = r] /\ UNCHANGED <<has, wantedFiles, listed>>
        /\ wishlist' = ResetBlocks(wishlist, {b})
    BY <1>9 DEF GotReject, torVars
  <2>2. r.active = peers[x].active \ {b}
    BY <1>1 DEF PeerRecords
  <2> HIDE DEF r
  <2> QED
    BY <1>3, <2>1, <2>2
<1>10. CASE ClosePeer(x)
  <2> DEFINE d == DecReplication(wishlist, peers[x].have)
             bs == peers[x].active
  <2>1. /\ wishlist' = ResetBlocks(d, bs) /\ UNCHANGED <<has, wantedFiles, listed>>
        /\ peers' = [y \in Connected \ {x} |-> peers[y]]
    BY <1>10 DEF ClosePeer, PeerDisconnect, torVars
  <2>2. WellFormed(d) /\ DOMAIN d = DOMAIN wishlist /\ Offers(d, wishlist, {})
    BY <1>1, DecReplicationOK, CountsOffered
  <2> HIDE DEF d
  <2>3. /\ Offers(wishlist', d, {}) /\ DOMAIN wishlist' = DOMAIN d
        /\ \A p \in DOMAIN d : RawSpan(p) \cap bs \subseteq wishlist'[p].unrequested
    BY <2>1, <2>2, BlocksOffered, ResetBlocksOK
  <2>4. Asked(peers) \subseteq Asked(peers') \cup bs
    BY <2>1 DEF Asked, Connected
  <2>5. /\ Offers(wishlist', wishlist, {}) /\ DOMAIN wishlist' = DOMAIN wishlist
        /\ \A p \in DOMAIN wishlist : RawSpan(p) \cap bs \subseteq wishlist'[p].unrequested \cup Asked(peers')
    BY <2>2, <2>3 DEF Offers
  <2> HIDE DEF bs
  <2> QED
    BY <2>1, <2>4, <2>5, NoneRequested
<1>11. ASSUME NEW expired \in SUBSET peers[x].active, NEW desired \in 1 .. MaxRequests,
              Pulse(x, expired, desired)
       PROVE  AlignedInv'
  <2> DEFINE s == Expire(x, expired)
             w == ResetBlocks(wishlist, expired)
  <2>1. s.wishlist = w /\ s.peer = [peers[x] EXCEPT !.active = @ \ expired]
    BY DEF Expire
  <2>2. PICK bs : /\ peers' = [peers EXCEPT ![x] = [s.peer EXCEPT !.active = @ \cup bs]]
                  /\ wishlist' = RequestedBlocks(s.wishlist, bs)
                  /\ UNCHANGED <<torVars, listed>>
    BY <1>11 DEF Pulse
  <2> HIDE DEF s
  <2> DEFINE r == [s.peer EXCEPT !.active = @ \cup bs]
  <2>3. r.active = (peers[x].active \ expired) \cup bs
    BY <1>1, <2>1 DEF PeerRecords
  <2>4. peers' = [peers EXCEPT ![x] = r] /\ UNCHANGED <<has, wantedFiles, listed>>
    BY <2>2 DEF torVars
  <2> HIDE DEF r
  <2>5. bs \subseteq Asked(peers') /\ Asked(peers) \subseteq Asked(peers') \cup expired
    BY <2>3, <2>4, OneAsked
  <2>6. /\ WellFormed(w) /\ DOMAIN w = DOMAIN wishlist /\ Offers(w, wishlist, {})
        /\ \A p \in DOMAIN wishlist : RawSpan(p) \cap expired \subseteq w[p].unrequested
    BY <1>1, BlocksOffered, ResetBlocksOK
  <2> HIDE DEF w
  <2>7. /\ Offers(wishlist', w, bs) /\ DOMAIN wishlist' = DOMAIN w
    BY <2>1, <2>2, <2>6, BlocksOffered, RequestedBlocksOK
  <2>8. /\ Offers(wishlist', wishlist, bs) /\ DOMAIN wishlist' = DOMAIN wishlist
        /\ \A p \in DOMAIN wishlist : RawSpan(p) \cap expired \subseteq wishlist'[p].unrequested \cup Asked(peers')
    BY <2>5, <2>6, <2>7 DEF Offers
  <2> QED
    BY <2>4, <2>5, <2>8, OffersKept
<1> QED
  BY <1>4, <1>5, <1>7, <1>8, <1>9, <1>10, <1>11, GotBlockKeeps DEF PeerStep

\* Every step keeps what is held and tracked.
LEMMA StepKeeps == Aligned /\ IInv /\ AlignedInv /\ [Next]_vars => AlignedInv'
<1> SUFFICES ASSUME Aligned, IInv, AlignedInv, [Next]_vars PROVE AlignedInv'
  OBVIOUS
<1>1. Held(wishlist, peers, has) /\ (listed => Tracks(wishlist, has, Wanted)) /\ WellFormed(wishlist)
  BY DEF AlignedInv, IInv
<1>2. ASSUME NEW fs \in SUBSET Files, NEW wanted \in BOOLEAN, SetFilesWanted(fs, wanted)
      PROVE  AlignedInv'
  <2> DEFINE ws == WantedPieces(wantedFiles')
             w == IF listed THEN Upkeep(wishlist, has, ws, Replications(peers)) ELSE wishlist
  <2>1. Recheck(has, ws, w, peers) /\ wantedFiles' \in SUBSET Files /\ has' = has /\ ws = Wanted'
    BY <1>2 DEF SetFilesWanted, IInv, TypeOK, Wanted
  <2>2. ws \in SUBSET Pieces
    BY <2>1, WantedPiecesOK
  <2> HIDE DEF ws
  <2>3. Held(w, peers, has) /\ (listed => Tracks(w, has, ws))
    BY <1>1, <2>2, UpkeepOffers
  <2> HIDE DEF w
  <2> QED
    BY <2>1, <2>3, RecheckKeeps DEF AlignedInv
<1>3. CASE IdleWork
  BY <1>1, <1>3, RecheckKeeps DEF IdleWork, AlignedInv, Wanted
<1>4. CASE Start
  <2>1. /\ wishlist' = Upkeep(NoWishlist, has, Wanted, Replications(peers)) /\ peers' = peers
        /\ has' = has /\ Wanted' = Wanted
    BY <1>4 DEF Start, Wanted
  <2>2. WellFormed(NoWishlist) /\ Held(NoWishlist, peers, has) /\ Wanted \in SUBSET Pieces
    BY NoWishlistOK, WantedPiecesOK DEF Held, NoWishlist, IInv, TypeOK, Wanted
  <2> QED
    BY <2>1, <2>2, UpkeepOffers DEF AlignedInv
<1>5. CASE Stop
  BY <1>5 DEF Stop, AlignedInv, Held, NoWishlist
<1>6. CASE UpdateInterest
  <2>1. peers \in [Connected -> PeerRecords]
    BY DEF IInv, TypeOK
  <2>2. /\ DOMAIN peers' = DOMAIN peers /\ \A y \in DOMAIN peers : peers'[y].active = peers[y].active
        /\ UNCHANGED <<wishlist, has, wantedFiles, listed>>
    BY <1>6, <2>1 DEF UpdateInterest, PeerRecords, torVars, listVars
  <2>3. Asked(peers') = Asked(peers)
    BY <2>2 DEF Asked
  <2> QED
    BY <2>2, <2>3 DEF AlignedInv, Held, Tracks, Wanted
<1>7. ASSUME NEW x \in Peers, Connect(x)
      PROVE  AlignedInv'
  <2>1. /\ UNCHANGED <<wishlist, has, wantedFiles, listed>> /\ x \notin Connected
        /\ peers' = [y \in Connected \cup {x} |-> IF y = x THEN NewPeer ELSE peers[y]]
    BY <1>7 DEF Connect, torVars, listVars
  <2>2. Asked(peers) \subseteq Asked(peers')
    BY <2>1 DEF Asked, Connected
  <2> QED
    BY <2>1, <2>2 DEF AlignedInv, Held, Tracks, Wanted
<1>8. CASE UNCHANGED vars
  BY <1>8 DEF vars, torVars, listVars, peerVars, AlignedInv, Held, Tracks, Wanted
<1> QED
  BY <1>2, <1>3, <1>4, <1>5, <1>6, <1>7, <1>8, PeerStepKeeps DEF Next, UserStep

\* While there is a wishlist, each missing block of a wanted piece is offered or asked of
\* a peer, if no two pieces share a block.
THEOREM NothingLost == Aligned => (Spec => []NoBlockLost)
<1> SUFFICES ASSUME Aligned PROVE Spec => []NoBlockLost
  OBVIOUS
<1>1. Init => AlignedInv
  BY DEF Init, AlignedInv, Held, NoWishlist
<1>2. IInv /\ AlignedInv /\ [Next]_vars => AlignedInv'
  BY StepKeeps
<1>3. IInv /\ AlignedInv => NoBlockLost
  BY NotLost
<1> QED
  BY <1>1, <1>2, <1>3, Invariance, PTL DEF Spec

-----------------------------------------------------------------------------
(* Each block once: the inductive invariant.                               *)

\* The user wants all of the torrent or nothing of it.
OneFile == \A f \in Files : FilePieces[f] = Pieces

\* The blocks that some candidate owns.
Covered(w) == UNION {Span(w[p]) : p \in DOMAIN w}

\* No block is asked of two peers.
Distinct(ps) == \A x, y \in DOMAIN ps : x # y => ps[x].active \cap ps[y].active = {}

\* What peers are asked for is not offered, and owned while there is a wishlist.
Once(w, ps, l) ==
    /\ Distinct(ps)
    /\ Asked(ps) \cap TotalUnrequested(w) = {}
    /\ l => Asked(ps) \subseteq Covered(w)

\* A torrent that is done, but was not told so, asks for nothing.
OnceInv ==
    /\ Once(wishlist, peers, listed)
    /\ listed /\ Done => Asked(peers) = {}
    /\ Wanted = {} => Done

LEMMA OnceIsEachBlockOnce == OnceInv => EachBlockOnce
  BY DEF OnceInv, Once, Distinct, Asked, EachBlockOnce, NoDuplicateRequest, NoRequestedOffered, Connected

\* Wishlist v has what w has, but for blocks hs.
Within(v, w, hs) ==
    /\ Covered(w) \subseteq Covered(v) \cup hs
    /\ TotalUnrequested(v) \subseteq TotalUnrequested(w) \cup hs

\* Peers that are asked for less, by a wishlist that takes back what none of them has.
LEMMA LessAsked ==
    ASSUME NEW w, NEW v, NEW ps, NEW qs, NEW l, NEW hs, Once(w, ps, l),
           \A y \in DOMAIN qs : \/ y \in DOMAIN ps /\ qs[y].active \subseteq ps[y].active
                               \/ qs[y].active = {},
           Within(v, w, hs), hs \cap Asked(qs) = {}
    PROVE  Once(v, qs, l) /\ Asked(qs) \subseteq Asked(ps)
<1>1. Asked(qs) \subseteq Asked(ps)
  BY DEF Asked
<1>2. Distinct(qs)
  BY DEF Once, Distinct
<1>3. Asked(qs) \cap TotalUnrequested(v) = {}
  BY <1>1 DEF Once, Within
<1>4. l => Asked(qs) \subseteq Covered(v)
  BY <1>1 DEF Once, Within
<1> QED
  BY <1>1, <1>2, <1>3, <1>4 DEF Once

-----------------------------------------------------------------------------
(* Each block once: the wishlist's handlers.                               *)

\* Candidates with the same spans own the same blocks.
LEMMA SameCovered ==
    ASSUME NEW w, NEW v, DOMAIN v = DOMAIN w,
           \A p \in DOMAIN w : v[p].begin = w[p].begin /\ v[p].end = w[p].end
    PROVE  Covered(v) = Covered(w)
  BY DEF Covered, Span

\* Handlers that only offer more or less.
LEMMA OffersWithin ==
    ASSUME NEW w, WellFormed(w), NEW bs
    PROVE  /\ Within(ResetBlocks(w, bs), w, bs)
           /\ Within(GotBlock(w, bs), w, {})
           /\ Within(IncReplication(w, bs), w, {})
           /\ Within(DecReplication(w, bs), w, {})
           /\ Covered(RequestedBlocks(w, bs)) = Covered(w)
           /\ TotalUnrequested(RequestedBlocks(w, bs)) \subseteq TotalUnrequested(w) \ bs
<1>1. \A p \in DOMAIN w : w[p] \in Candidates /\ w[p].unrequested \subseteq Span(w[p])
  BY Spans
<1>2. Within(ResetBlocks(w, bs), w, bs)
  <2> DEFINE v == ResetBlocks(w, bs)
  <2>1. DOMAIN v = DOMAIN w /\ \A p \in DOMAIN w : /\ v[p].begin = w[p].begin /\ v[p].end = w[p].end
                                                 /\ v[p].unrequested \subseteq w[p].unrequested \cup bs
    BY <1>1 DEF ResetBlocks, Candidates
  <2> HIDE DEF v
  <2>2. Covered(v) = Covered(w)
    BY <2>1, SameCovered
  <2>3. TotalUnrequested(v) \subseteq TotalUnrequested(w) \cup bs
    BY <2>1 DEF TotalUnrequested
  <2> QED
    BY <2>2, <2>3 DEF Within, v
<1>3. Within(GotBlock(w, bs), w, {})
  <2> DEFINE v == GotBlock(w, bs)
  <2>1. DOMAIN v = DOMAIN w /\ \A p \in DOMAIN w : /\ v[p].begin = w[p].begin /\ v[p].end = w[p].end
                                                 /\ v[p].unrequested \subseteq w[p].unrequested
    BY <1>1 DEF GotBlock, Candidates
  <2> HIDE DEF v
  <2>2. Covered(v) = Covered(w)
    BY <2>1, SameCovered
  <2>3. TotalUnrequested(v) \subseteq TotalUnrequested(w)
    BY <2>1 DEF TotalUnrequested
  <2> QED
    BY <2>2, <2>3 DEF Within, v
<1>4. Within(IncReplication(w, bs), w, {})
  <2> DEFINE v == IncReplication(w, bs)
  <2>1. DOMAIN v = DOMAIN w /\ \A p \in DOMAIN w : /\ v[p].begin = w[p].begin /\ v[p].end = w[p].end
                                                 /\ v[p].unrequested = w[p].unrequested
    BY <1>1 DEF IncReplication, Candidates
  <2> HIDE DEF v
  <2>2. Covered(v) = Covered(w)
    BY <2>1, SameCovered
  <2>3. TotalUnrequested(v) \subseteq TotalUnrequested(w)
    BY <2>1 DEF TotalUnrequested
  <2> QED
    BY <2>2, <2>3 DEF Within, v
<1>5. Within(DecReplication(w, bs), w, {})
  <2> DEFINE v == DecReplication(w, bs)
  <2>1. DOMAIN v = DOMAIN w /\ \A p \in DOMAIN w : /\ v[p].begin = w[p].begin /\ v[p].end = w[p].end
                                                 /\ v[p].unrequested = w[p].unrequested
    BY <1>1 DEF DecReplication, Candidates
  <2> HIDE DEF v
  <2>2. Covered(v) = Covered(w)
    BY <2>1, SameCovered
  <2>3. TotalUnrequested(v) \subseteq TotalUnrequested(w)
    BY <2>1 DEF TotalUnrequested
  <2> QED
    BY <2>2, <2>3 DEF Within, v
<1>6. /\ Covered(RequestedBlocks(w, bs)) = Covered(w)
      /\ TotalUnrequested(RequestedBlocks(w, bs)) \subseteq TotalUnrequested(w) \ bs
  <2> DEFINE v == RequestedBlocks(w, bs)
  <2>1. DOMAIN v = DOMAIN w /\ \A p \in DOMAIN w : /\ v[p].begin = w[p].begin /\ v[p].end = w[p].end
                                                 /\ v[p].unrequested = w[p].unrequested \ bs
    BY <1>1 DEF RequestedBlocks, Candidates
  <2> HIDE DEF v
  <2>2. Covered(v) = Covered(w)
    BY <2>1, SameCovered
  <2>3. TotalUnrequested(v) \subseteq TotalUnrequested(w) \ bs
    BY <2>1 DEF TotalUnrequested
  <2> QED
    BY <2>2, <2>3 DEF v
<1> QED
  BY <1>2, <1>3, <1>4, <1>5, <1>6

\* A completed piece takes none but its own blocks along, and a failed one gives back none but its
\* own.
LEMMA CheckedWithin ==
    ASSUME NEW w, WellFormed(w), NEW p \in Pieces
    PROVE  /\ Within(RemovePiece(w, p), w, RawSpan(p))
           /\ Within(GotBadPiece(w, p), w, RawSpan(p))
<1>1. \A q \in DOMAIN w : q \in Pieces /\ w[q] \in Candidates /\ Span(w[q]) \subseteq RawSpan(q)
  <2> SUFFICES ASSUME NEW q \in DOMAIN w
               PROVE  q \in Pieces /\ w[q] \in Candidates /\ Span(w[q]) \subseteq RawSpan(q)
    OBVIOUS
  <2>1. /\ q \in Pieces /\ w[q] \in Candidates /\ w[q].begin \in Int /\ w[q].end \in Int
        /\ RawBegin[q] <= w[q].begin /\ w[q].end <= RawEnd[q]
    BY Spans
  <2>2. RawBegin[q] \in Nat /\ RawEnd[q] \in Nat
    BY <2>1, PieceBounds
  <2> QED
    BY <2>1, <2>2 DEF Span, RawSpan
<1>2. Within(RemovePiece(w, p), w, RawSpan(p))
  BY <1>1 DEF Within, Covered, TotalUnrequested, RemovePiece
<1>3. ASSUME p \in DOMAIN w
      PROVE  Within(GotBadPiece(w, p), w, RawSpan(p))
  <2> DEFINE begin == BadBegin(w, p)
             end == BadEnd(w, p)
             g(q) == CASE q = p     -> [w[q] EXCEPT !.begin = begin, !.end = end,
                                                    !.unrequested = @ \cup (begin .. end - 1)]
                       [] q = p - 1 -> [w[q] EXCEPT !.unrequested = @ \cup (RawBegin[p] .. begin - 1)]
                       [] q = p + 1 -> [w[q] EXCEPT !.unrequested = @ \cup (end .. RawEnd[p] - 1)]
                       [] OTHER     -> w[q]
  <2>1. GotBadPiece(w, p) = [q \in DOMAIN w |-> g(q)]
    BY <1>3 DEF GotBadPiece
  <2>2. /\ begin .. end - 1 \subseteq RawSpan(p)
        /\ RawBegin[p] .. begin - 1 \subseteq RawSpan(p)
        /\ end .. RawEnd[p] - 1 \subseteq RawSpan(p)
    <3>1. /\ begin \in Int /\ end \in Int
          /\ RawBegin[p] <= begin /\ begin <= end /\ end <= RawEnd[p]
      BY <1>3, BadSpan
    <3>2. RawBegin[p] \in Nat /\ RawEnd[p] \in Nat
      BY PieceBounds
    <3> HIDE DEF begin, end
    <3> QED
      BY <3>1, <3>2 DEF RawSpan
  <2>3. ASSUME NEW q \in DOMAIN w
        PROVE  /\ g(q).unrequested \subseteq w[q].unrequested \cup RawSpan(p)
               /\ q # p => g(q).begin = w[q].begin /\ g(q).end = w[q].end
    <3> HIDE DEF begin, end
    <3>1. w[q] \in Candidates
      BY <1>1
    <3> QED
      BY <2>2, <3>1 DEF Candidates
  <2> HIDE DEF g
  <2>4. Covered(w) \subseteq Covered(GotBadPiece(w, p)) \cup RawSpan(p)
    BY <1>1, <2>1, <2>3 DEF Covered, Span
  <2>5. TotalUnrequested(GotBadPiece(w, p)) \subseteq TotalUnrequested(w) \cup RawSpan(p)
    BY <2>1, <2>3 DEF TotalUnrequested
  <2> QED
    BY <2>4, <2>5 DEF Within
<1>4. ASSUME p \notin DOMAIN w
      PROVE  Within(GotBadPiece(w, p), w, RawSpan(p))
  BY <1>4 DEF GotBadPiece, Within
<1> QED
  BY <1>2, <1>3, <1>4

\* A kept candidate owns what it did, and offers what it and its neighbours did.
LEMMA KeptOffers ==
    ASSUME NEW w, WellFormed(w), NEW tracked \in SUBSET Pieces, NEW p \in DOMAIN w
    PROVE  /\ KeptCandidate(w, tracked, p).unrequested \subseteq TotalUnrequested(w)
           /\ Span(w[p]) \subseteq Span(KeptCandidate(w, tracked, p))
<1> DEFINE dropped == DOMAIN w \ tracked
           fromPrev == IF p - 1 \in dropped
                       THEN w[p - 1].unrequested \cap (RawBegin[p] .. w[p].begin - 1) ELSE {}
           toNext == IF p + 1 \in DOMAIN w \cap tracked
                     THEN w[p + 1].begin .. w[p].end - 1 ELSE {}
           fromNext == IF p + 1 \in dropped
                       THEN w[p + 1].unrequested \cap (w[p].end .. RawEnd[p] - 1) ELSE {}
           c == KeptCandidate(w, tracked, p)
<1>1. /\ p \in Pieces /\ w[p] \in Candidates /\ w[p].begin \in Int /\ w[p].end \in Int
      /\ RawBegin[p] <= w[p].begin /\ w[p].end <= RawEnd[p]
  BY Spans
<1>2. RawBegin[p] \in Nat /\ RawEnd[p] \in Nat
  BY <1>1, PieceBounds
<1>3. c.unrequested = ((w[p].unrequested \cup fromPrev) \ toNext) \cup fromNext
  <2>1. c = [w[p] EXCEPT
          !.begin = IF p - 1 \in dropped THEN RawBegin[p] ELSE @,
          !.end = CASE p + 1 \in dropped -> RawEnd[p]
                    [] p + 1 \in DOMAIN w \cap tracked /\ w[p + 1].begin < @ -> w[p + 1].begin
                    [] OTHER -> @,
          !.unrequested = ((@ \cup fromPrev) \ toNext) \cup fromNext]
    BY DEF KeptCandidate
  <2> HIDE DEF fromPrev, toNext, fromNext, c
  <2> QED
    BY <1>1, <2>1 DEF Candidates
<1>4. fromPrev \subseteq TotalUnrequested(w) /\ fromNext \subseteq TotalUnrequested(w)
      /\ w[p].unrequested \subseteq TotalUnrequested(w)
  BY DEF TotalUnrequested
<1>5. /\ c.begin = IF p - 1 \in dropped THEN RawBegin[p] ELSE w[p].begin
      /\ c.end = IF p + 1 \in dropped THEN RawEnd[p] ELSE w[p].end
  BY KeptCandidateOK
<1> HIDE DEF fromPrev, toNext, fromNext, dropped, c
<1>6. Span(w[p]) \subseteq Span(c)
  BY <1>1, <1>2, <1>5 DEF Span
<1> QED
  BY <1>3, <1>4, <1>6 DEF c

\* A new candidate offers no missing block that another candidate owned.
LEMMA NewOffersNone ==
    ASSUME NEW w, WellFormed(w), NEW hs, NEW tracked \in SUBSET Pieces, NEW repl,
           NEW p \in tracked, p \notin DOMAIN w, repl[p] \in Int,
           NEW b \in Covered(w), b \notin hs, \A q \in DOMAIN w : b \in RawSpan(q) => q \in tracked
    PROVE  b \notin NewCandidate(w, hs, tracked, repl, p).unrequested
<1>0. LET c == NewCandidate(w, hs, tracked, repl, p)
      IN /\ c \in Candidates
         /\ c.begin = IF p - 1 \in tracked /\ p - 1 \in DOMAIN w THEN w[p - 1].end
                      ELSE IF p - 1 \in tracked THEN RawEnd[p - 1]
                      ELSE RawBegin[p]
         /\ c.end = IF p + 1 \in tracked \cap DOMAIN w THEN w[p + 1].begin ELSE RawEnd[p]
         /\ c.begin <= c.end
         /\ c.unrequested \subseteq Span(c)
         /\ c.unrequested \cap hs = {}
  BY NewCandidateOK
<1> DEFINE c == NewCandidate(w, hs, tracked, repl, p)
<1> SUFFICES ASSUME b \in c.unrequested PROVE FALSE
  OBVIOUS
<1>1. PICK q \in DOMAIN w : b \in Span(w[q])
  BY DEF Covered
<1>2. /\ q \in Pieces /\ w[q].begin \in Int /\ w[q].end \in Int
      /\ RawBegin[q] <= w[q].begin /\ w[q].end <= RawEnd[q]
      /\ RawBegin[q] \in Nat /\ RawEnd[q] \in Nat
  BY Spans, PieceBounds
<1>3. b \in RawSpan(q) /\ q \in tracked /\ b \in Int /\ w[q].begin <= b /\ b < w[q].end
  <2>1. b \in Int /\ w[q].begin <= b /\ b < w[q].end
    BY <1>1, <1>2 DEF Span
  <2> QED
    BY <1>2, <2>1 DEF RawSpan
<1>4. /\ c \in Candidates /\ c.unrequested \subseteq Span(c)
      /\ c.begin = IF p - 1 \in tracked /\ p - 1 \in DOMAIN w THEN w[p - 1].end
                   ELSE IF p - 1 \in tracked THEN RawEnd[p - 1]
                   ELSE RawBegin[p]
      /\ c.end = IF p + 1 \in tracked \cap DOMAIN w THEN w[p + 1].begin ELSE RawEnd[p]
  BY <1>0
<1> HIDE DEF c
<1>5. c.begin <= b /\ b < c.end
  BY <1>3, <1>4 DEF Span, Candidates
<1>6. p \in Pieces /\ p \in Int /\ q \in Int /\ p # q
  BY <1>2 DEF Pieces
<1>7. q # p - 1
  <2> SUFFICES ASSUME q = p - 1 PROVE FALSE
    OBVIOUS
  <2>1. c.begin = w[q].end
    BY <1>3, <1>4
  <2> QED
    BY <1>2, <1>3, <1>5, <2>1
<1>8. q # p + 1
  <2> SUFFICES ASSUME q = p + 1 PROVE FALSE
    OBVIOUS
  <2>1. c.end = w[q].begin
    BY <1>3, <1>4
  <2> QED
    BY <1>2, <1>3, <1>5, <2>1
<1>9. b \in RawSpan(p)
  <2>1. RawBegin[p] \in Nat /\ RawEnd[p] \in Nat /\ c.begin \in Int /\ c.end \in Int
    BY <1>4, <1>6, PieceBounds DEF Candidates
  <2>2. RawBegin[p] <= c.begin
    <3>1. CASE p - 1 \in tracked
      <4>1. p - 1 \in Pieces /\ (p - 1) + 1 = p
        BY <1>6, <3>1
      <4>2. RawBegin[p] <= RawEnd[p - 1]
        BY <1>6, <4>1, NextPiece
      <4>3. p - 1 \in DOMAIN w => RawBegin[p] <= w[p - 1].end
        BY <1>6, <4>1, Spans
      <4> QED
        BY <1>4, <3>1, <4>2, <4>3
    <3>2. CASE p - 1 \notin tracked
      BY <1>4, <2>1, <3>2
    <3> QED
      BY <3>1, <3>2
  <2>3. c.end <= RawEnd[p]
    <3>1. CASE p + 1 \in tracked \cap DOMAIN w
      <4>1. p + 1 \in Pieces /\ (p + 1) - 1 = p
        BY <1>6, <3>1
      <4>2. w[p + 1].begin <= RawEnd[p]
        BY <1>6, <3>1, <4>1, Spans
      <4> QED
        BY <1>4, <3>1, <4>2
    <3>2. CASE p + 1 \notin tracked \cap DOMAIN w
      BY <1>4, <2>1, <3>2
    <3> QED
      BY <3>1, <3>2
  <2> QED
    BY <1>3, <1>5, <2>1, <2>2, <2>3 DEF RawSpan
<1> QED
  BY <1>2, <1>3, <1>6, <1>7, <1>8, <1>9, SharedBlock

\* A wishlist brought up to date while the user wants no less owns what is asked for, and
\* does not offer it.
LEMMA UpkeepOnce ==
    ASSUME NEW w, WellFormed(w), NEW hs, NEW ws \in SUBSET Pieces, DOMAIN w \subseteq ws,
           NEW repl \in [Pieces -> Int],
           NEW as, as \subseteq Covered(w), as \cap hs = {}, as \cap TotalUnrequested(w) = {}
    PROVE  /\ as \subseteq Covered(Upkeep(w, hs, ws, repl))
           /\ as \cap TotalUnrequested(Upkeep(w, hs, ws, repl)) = {}
<1> DEFINE tracked == ShouldTrack(hs, ws)
           u == Upkeep(w, hs, ws, repl)
<1>1. /\ u = [p \in tracked |-> IF p \in DOMAIN w THEN KeptCandidate(w, tracked, p)
                                ELSE NewCandidate(w, hs, tracked, repl, p)]
      /\ tracked \in SUBSET Pieces
      /\ \A p \in ws : p \notin tracked => RawSpan(p) \subseteq hs
  BY DEF Upkeep, ShouldTrack, HasPiece
<1> HIDE DEF tracked, u
<1>2. \A q \in DOMAIN w : \A b \in RawSpan(q) : b \notin hs => q \in tracked
  BY <1>1
<1>3. ASSUME NEW b \in as
      PROVE  b \in Covered(u)
  <2>1. PICK p \in DOMAIN w : b \in Span(w[p])
    BY <1>3 DEF Covered
  <2>2. b \in RawSpan(p)
    <3>1. /\ p \in Pieces /\ w[p].begin \in Int /\ w[p].end \in Int
          /\ RawBegin[p] <= w[p].begin /\ w[p].end <= RawEnd[p]
      BY Spans
    <3>2. RawBegin[p] \in Nat /\ RawEnd[p] \in Nat
      BY <3>1, PieceBounds
    <3> QED
      BY <2>1, <3>1, <3>2 DEF Span, RawSpan
  <2>3. p \in tracked
    BY <1>2, <1>3, <2>2
  <2>4. Span(w[p]) \subseteq Span(KeptCandidate(w, tracked, p))
    BY <1>1, KeptOffers
  <2>5. u[p] = KeptCandidate(w, tracked, p) /\ p \in DOMAIN u
    BY <1>1, <2>3
  <2> QED
    BY <2>1, <2>4, <2>5 DEF Covered
<1>4. ASSUME NEW b \in as, NEW p \in DOMAIN u
      PROVE  b \notin u[p].unrequested
  <2>1. p \in tracked
    BY <1>1, <1>4
  <2>2. CASE p \in DOMAIN w
    <3>1. u[p] = KeptCandidate(w, tracked, p)
      BY <1>1, <2>1, <2>2
    <3>2. u[p].unrequested \subseteq TotalUnrequested(w)
      BY <1>1, <2>2, <3>1, KeptOffers
    <3> QED
      BY <1>4, <3>2
  <2>3. CASE p \notin DOMAIN w
    <3>1. u[p] = NewCandidate(w, hs, tracked, repl, p)
      BY <1>1, <2>1, <2>3
    <3>2. b \in Covered(w) /\ b \notin hs /\ \A q \in DOMAIN w : b \in RawSpan(q) => q \in tracked
      BY <1>2, <1>4
    <3>3. repl[p] \in Int
      BY <1>1, <2>1
    <3> QED
      BY <1>1, <2>1, <2>3, <3>1, <3>2, <3>3, NewOffersNone
  <2> QED
    BY <2>2, <2>3
<1>5. as \cap TotalUnrequested(u) = {}
  <2> SUFFICES ASSUME NEW b \in as, b \in TotalUnrequested(u) PROVE FALSE
    OBVIOUS
  <2>1. PICK p \in DOMAIN u : b \in u[p].unrequested
    BY DEF TotalUnrequested
  <2> QED
    BY <1>4, <2>1
<1>6. as \subseteq Covered(u)
  BY <1>3
<1> QED
  BY <1>5, <1>6 DEF u

-----------------------------------------------------------------------------
(* Each block once: a block arrives.                                       *)

LEMMA WithinTwice ==
    ASSUME NEW w, NEW v, NEW u, NEW hs, Within(v, w, hs), Within(u, v, hs)
    PROVE  Within(u, w, hs)
  BY DEF Within

\* Checking a piece concerns no block but those that are stored.
LEMMA CheckPieceWithin ==
    ASSUME NEW s, NEW p \in Pieces, NEW hs, WellFormed(s.wishlist), s.has \subseteq hs,
           s = [has |-> s.has, bad |-> s.bad, wishlist |-> s.wishlist,
                passed |-> s.passed, failed |-> s.failed]
    PROVE  Within(CheckPiece(s, p).wishlist, s.wishlist, hs)
<1> DEFINE r == CheckPiece(s, p)
<1>1. Within(s.wishlist, s.wishlist, hs)
  BY DEF Within
<1>2. CASE ~HasPiece(s.has, p)
  BY <1>1, <1>2 DEF CheckPiece
<1>3. CASE HasPiece(s.has, p) /\ \A b \in RawSpan(p) : <<p, b>> \notin s.bad
  <2>1. r = [has |-> s.has, bad |-> s.bad, wishlist |-> RemovePiece(s.wishlist, p),
             passed |-> TRUE, failed |-> s.failed]
    BY <1>3 DEF CheckPiece
  <2>2. r.wishlist = RemovePiece(s.wishlist, p)
    BY <2>1
  <2> HIDE DEF r
  <2>3. Within(RemovePiece(s.wishlist, p), s.wishlist, hs)
    BY <1>3, CheckedWithin DEF Within, HasPiece
  <2> QED
    BY <2>2, <2>3 DEF r
<1>4. CASE HasPiece(s.has, p) /\ ~(\A b \in RawSpan(p) : <<p, b>> \notin s.bad)
  <2>1. r = [has |-> s.has \ RawSpan(p), bad |-> s.bad, wishlist |-> GotBadPiece(s.wishlist, p),
             passed |-> s.passed, failed |-> TRUE]
    BY <1>4 DEF CheckPiece
  <2>2. r.wishlist = GotBadPiece(s.wishlist, p)
    BY <2>1
  <2> HIDE DEF r
  <2>3. Within(GotBadPiece(s.wishlist, p), s.wishlist, hs)
    BY <1>4, CheckedWithin DEF Within, HasPiece
  <2> QED
    BY <2>2, <2>3 DEF r
<1> QED
  BY <1>2, <1>3, <1>4

\* The whole of on_block_received() concerns no block but those that are stored, or were.
LEMMA AfterBlockWithin ==
    ASSUME IInv, NEW x, NEW b, PiecesOf(b) # {}, b \notin has, NEW corrupt
    PROVE  Within(AfterBlock(x, b, corrupt).wishlist, wishlist, has \cup {b})
<1> DEFINE hs == has \cup {b}
           s0 == [has |-> has \cup {b},
                  bad |-> (bad \ (PiecesOf(b) \X {b})) \cup (corrupt \X {b}),
                  wishlist |-> WithBlock(x, b), passed |-> FALSE, failed |-> FALSE]
           s1 == CheckPiece(s0, FirstPiece(b))
           s2 == CheckPiece(s1, LastPiece(b))
<1>1. s2 = AfterBlock(x, b, corrupt)
  BY DEF AfterBlock
<1>2. FirstPiece(b) \in Pieces /\ LastPiece(b) \in Pieces
  BY EdgePieces DEF PiecesOf
<1>3. Within(WithBlock(x, b), wishlist, hs)
  <2>1. WellFormed(wishlist) /\ Within(wishlist, wishlist, {b})
    BY DEF IInv, Within
  <2>2. WellFormed(Cancelled(x, b)) /\ Within(Cancelled(x, b), wishlist, {b})
    BY <2>1, ResetBlocksOK, OffersWithin DEF Cancelled
  <2>3. Within(WithBlock(x, b), Cancelled(x, b), {})
    BY <2>2, OffersWithin DEF WithBlock
  <2> QED
    BY <2>2, <2>3 DEF Within
<1>4. /\ s0.has = hs /\ s0.wishlist = WithBlock(x, b)
      /\ s0.passed \in BOOLEAN /\ s0.failed \in BOOLEAN
      /\ s0 = [has |-> s0.has, bad |-> s0.bad, wishlist |-> s0.wishlist,
               passed |-> s0.passed, failed |-> s0.failed]
      /\ WellFormed(s0.wishlist) /\ OffersNone(s0.wishlist, s0.has)
  BY WithBlockOK
<1> HIDE DEF s0, hs
<1>5. Within(s1.wishlist, s0.wishlist, hs)
  BY <1>2, <1>4, CheckPieceWithin
<1>6. /\ WellFormed(s1.wishlist) /\ s1.has \subseteq hs
      /\ s1 = [has |-> s1.has, bad |-> s1.bad, wishlist |-> s1.wishlist,
               passed |-> s1.passed, failed |-> s1.failed]
  BY <1>2, <1>4, CheckPieceOK
<1> HIDE DEF s1
<1>7. Within(s2.wishlist, s1.wishlist, hs)
  BY <1>2, <1>6, CheckPieceWithin
<1> HIDE DEF s2
<1>8. Within(s2.wishlist, wishlist, hs)
  BY <1>3, <1>4, <1>5, <1>7, WithinTwice
<1> QED
  BY <1>1, <1>8 DEF hs

-----------------------------------------------------------------------------
(* Each block once: every step.                                            *)

\* Most steps leave the completeness, the wanted files and the wishlist's existence alone.
LEMMA LessAskedStep ==
    ASSUME IInv, OnceInv, UNCHANGED <<completeness, wantedFiles, listed>>, NEW hs,
           \A y \in DOMAIN peers' : \/ y \in DOMAIN peers /\ peers'[y].active \subseteq peers[y].active
                                   \/ peers'[y].active = {},
           Within(wishlist', wishlist, hs), hs \cap Asked(peers') = {}
    PROVE  OnceInv'
<1>1. Once(wishlist', peers', listed) /\ Asked(peers') \subseteq Asked(peers)
  BY LessAsked DEF OnceInv
<1> QED
  BY <1>1 DEF OnceInv, Done, Wanted

\* Of one peer some blocks are not asked any more; they may be offered again.
LEMMA OneAskedLess ==
    ASSUME IInv, OnceInv, UNCHANGED <<completeness, wantedFiles, listed>>,
           NEW x \in Connected, NEW r, NEW bs \in SUBSET peers[x].active,
           peers' = [peers EXCEPT ![x] = r], r.active = peers[x].active \ bs,
           Within(wishlist', wishlist, bs)
    PROVE  OnceInv'
<1>1. /\ DOMAIN peers' = DOMAIN peers /\ x \in DOMAIN peers /\ peers'[x] = r
      /\ \A y \in DOMAIN peers : y # x => peers'[y] = peers[y]
  BY DEF IInv, TypeOK, Connected
<1>2. \A y \in DOMAIN peers' : y \in DOMAIN peers /\ peers'[y].active \subseteq peers[y].active
  BY <1>1
<1>3. bs \cap Asked(peers') = {}
  <2>1. \A y \in DOMAIN peers : y # x => peers[y].active \cap peers[x].active = {}
    BY <1>1 DEF OnceInv, Once, Distinct
  <2>2. \A y \in DOMAIN peers' : bs \cap peers'[y].active = {}
    BY <1>1, <2>1
  <2> QED
    BY <2>2 DEF Asked
<1> QED
  BY <1>2, <1>3, LessAskedStep

\* What one peer is asked for is not on offer any more.
LEMMA OneAskedMore ==
    ASSUME NEW w, WellFormed(w), NEW ps, NEW l, Once(w, ps, l), NEW x \in DOMAIN ps,
           NEW bs, bs \subseteq TotalUnrequested(w), NEW qs, DOMAIN qs = DOMAIN ps,
           qs[x].active = ps[x].active \cup bs,
           \A y \in DOMAIN ps : y # x => qs[y].active = ps[y].active
    PROVE  Once(RequestedBlocks(w, bs), qs, l) /\ Asked(qs) = Asked(ps) \cup bs
<1> DEFINE v == RequestedBlocks(w, bs)
<1>1. Asked(qs) = Asked(ps) \cup bs
  BY DEF Asked
<1>2. Covered(v) = Covered(w) /\ TotalUnrequested(v) \subseteq TotalUnrequested(w) \ bs
  BY OffersWithin
<1>3. TotalUnrequested(w) \subseteq Covered(w)
  <2>1. \A p \in DOMAIN w : w[p].unrequested \subseteq Span(w[p])
    BY Spans
  <2> QED
    BY <2>1 DEF TotalUnrequested, Covered
<1>4. Distinct(qs)
  <2>1. bs \cap Asked(ps) = {}
    BY DEF Once
  <2>2. \A y \in DOMAIN ps : bs \cap ps[y].active = {}
    BY <2>1 DEF Asked
  <2> QED
    BY <2>2 DEF Once, Distinct
<1> HIDE DEF v
<1>5. Asked(qs) \cap TotalUnrequested(v) = {}
  BY <1>1, <1>2 DEF Once
<1>6. l => Asked(qs) \subseteq Covered(v)
  BY <1>1, <1>2, <1>3 DEF Once
<1>7. Once(v, qs, l)
  BY <1>4, <1>5, <1>6 DEF Once
<1> QED
  BY <1>1, <1>7 DEF v

\* A block that comes is neither asked for nor offered any more, and what a failed piece gives
\* back was asked of nobody.
LEMMA GotBlockOnce ==
    ASSUME IInv, OnceInv, NEW x \in Connected, NEW b \in Blocks, NEW corrupt,
           GotBlockData(x, b, corrupt)
    PROVE  OnceInv'
<1>1. PICK struck : peers' = DropRequests(x, b, struck)
  BY DEF GotBlockData
<1>2. /\ Accepts(x, b) /\ wishlist' = AfterBlock(x, b, corrupt).wishlist
      /\ UNCHANGED <<wantedFiles, completeness, listed>>
  BY DEF GotBlockData
<1>3. b \notin has /\ PiecesOf(b) # {}
  BY <1>2 DEF Accepts
<1>4. Within(wishlist', wishlist, has \cup {b})
  BY <1>2, <1>3, AfterBlockWithin
<1>5. DOMAIN peers' = DOMAIN peers /\ \A y \in DOMAIN peers : peers'[y].active = peers[y].active \ {b}
  <2>1. peers \in [Connected -> PeerRecords]
    BY DEF IInv, TypeOK
  <2> QED
    BY <1>1, <2>1 DEF DropRequests, PeerRecords
<1>6. (has \cup {b}) \cap Asked(peers') = {}
  <2>1. \A y \in DOMAIN peers : peers[y].active \cap has = {}
    BY DEF IInv, ActiveOnlyMissing, Connected
  <2>2. \A y \in DOMAIN peers' : (has \cup {b}) \cap peers'[y].active = {}
    BY <1>5, <2>1
  <2> QED
    BY <2>2 DEF Asked
<1>7. \A y \in DOMAIN peers' : y \in DOMAIN peers /\ peers'[y].active \subseteq peers[y].active
  BY <1>5
<1> QED
  BY <1>2, <1>4, <1>6, <1>7, LessAskedStep

\* pulse() gives back what expired and then asks for what is on offer, if not done.
LEMMA PulseOnce ==
    ASSUME IInv, OnceInv, NEW x \in Connected, NEW expired \in SUBSET peers[x].active,
           NEW desired \in 1 .. MaxRequests, Pulse(x, expired, desired)
    PROVE  OnceInv'
<1> DEFINE s == Expire(x, expired)
           w == ResetBlocks(wishlist, expired)
           n == IF MayRequest(x) THEN desired - Cardinality(s.peer.active) ELSE 0
<1>1. s.wishlist = w /\ s.peer = [peers[x] EXCEPT !.active = @ \ expired]
  BY DEF Expire
<1>2. PICK bs \in IF n > 0 THEN NextBlocks(s.wishlist, s.peer.have, n) ELSE {{}} :
          /\ peers' = [peers EXCEPT ![x] = [s.peer EXCEPT !.active = @ \cup bs]]
          /\ wishlist' = RequestedBlocks(s.wishlist, bs)
          /\ UNCHANGED <<torVars, listed>>
  BY DEF Pulse
<1>3. bs \subseteq TotalUnrequested(w) /\ (Done => bs = {})
  <2>1. Done => n = 0
    BY DEF MayRequest
  <2> HIDE DEF n
  <2> QED
    BY <1>1, <1>2, <2>1 DEF NextBlocks
<1> DEFINE ps == [peers EXCEPT ![x] = s.peer]
<1>4. /\ DOMAIN ps = DOMAIN peers /\ x \in DOMAIN peers /\ peers[x] \in PeerRecords
      /\ ps[x] = s.peer /\ \A y \in DOMAIN peers : y # x => ps[y] = peers[y]
  BY DEF IInv, TypeOK, Connected
<1> HIDE DEF s, n, ps
<1>5. ps[x].active = peers[x].active \ expired
  BY <1>1, <1>4 DEF PeerRecords
<1>6. /\ DOMAIN peers' = DOMAIN ps
      /\ peers'[x].active = ps[x].active \cup bs
      /\ \A y \in DOMAIN ps : y # x => peers'[y].active = ps[y].active
  BY <1>1, <1>2, <1>4 DEF PeerRecords
<1>7. WellFormed(wishlist) /\ Once(wishlist, peers, listed)
  BY DEF IInv, OnceInv
<1>8. WellFormed(w) /\ Within(w, wishlist, expired)
  BY <1>7, ResetBlocksOK, OffersWithin
<1>9. expired \cap Asked(ps) = {}
  <2>1. \A y \in DOMAIN peers : y # x => peers[y].active \cap peers[x].active = {}
    BY <1>4, <1>7 DEF Once, Distinct
  <2>2. \A y \in DOMAIN ps : expired \cap ps[y].active = {}
    BY <1>4, <1>5, <2>1
  <2> QED
    BY <2>2 DEF Asked
<1> HIDE DEF w
<1>10. Once(w, ps, listed) /\ Asked(ps) \subseteq Asked(peers)
  <2>1. \A y \in DOMAIN ps : y \in DOMAIN peers /\ ps[y].active \subseteq peers[y].active
    BY <1>4, <1>5
  <2> QED
    BY <1>7, <1>8, <1>9, <2>1, LessAsked
<1>11. Once(wishlist', peers', listed) /\ Asked(peers') = Asked(ps) \cup bs
  <2>1. wishlist' = RequestedBlocks(w, bs) /\ bs \subseteq TotalUnrequested(w) /\ x \in DOMAIN ps
    BY <1>1, <1>2, <1>3, <1>4
  <2> QED
    BY <1>6, <1>8, <1>10, <2>1, OneAskedMore
<1>12. UNCHANGED <<completeness, wantedFiles, listed>>
  BY <1>2 DEF torVars
<1> QED
  BY <1>3, <1>10, <1>11, <1>12 DEF OnceInv, Done, Wanted

\* What a peer does, and pulse().
LEMMA PeerStepOnce ==
    ASSUME IInv, OnceInv, NEW x \in Connected, PeerStep(x)
    PROVE  OnceInv'
<1>1. /\ WellFormed(wishlist) /\ Within(wishlist, wishlist, {})
      /\ peers[x] \in PeerRecords /\ x \in DOMAIN peers
  BY DEF IInv, TypeOK, Within, Connected
<1>2. ASSUME NEW r, peers' = [peers EXCEPT ![x] = r], r.active = peers[x].active,
             Within(wishlist', wishlist, {}), UNCHANGED <<completeness, wantedFiles, listed>>
      PROVE  OnceInv'
  <2> DEFINE none == {}
  <2>1. none \in SUBSET peers[x].active /\ r.active = peers[x].active \ none
    BY <1>2
  <2>2. Within(wishlist', wishlist, none)
    BY <1>2
  <2> HIDE DEF none
  <2> QED
    BY <1>2, <2>1, <2>2, OneAskedLess
<1>3. CASE DisconnectSoon(x)
  <2> DEFINE r == [peers[x] EXCEPT !.leaving = TRUE]
  <2>1. r.active = peers[x].active
    BY <1>1 DEF PeerRecords
  <2>2. peers' = [peers EXCEPT ![x] = r] /\ UNCHANGED <<wishlist, completeness, wantedFiles, listed>>
    BY <1>3 DEF DisconnectSoon, torVars, listVars
  <2> HIDE DEF r
  <2> QED
    BY <1>1, <1>2, <2>1, <2>2
<1>4. CASE GotUnchoke(x)
  <2> DEFINE r == [peers[x] EXCEPT !.choked = FALSE]
  <2>1. r.active = peers[x].active
    BY <1>1 DEF PeerRecords
  <2>2. peers' = [peers EXCEPT ![x] = r] /\ UNCHANGED <<wishlist, completeness, wantedFiles, listed>>
    BY <1>4 DEF GotUnchoke, torVars, listVars
  <2> HIDE DEF r
  <2> QED
    BY <1>1, <1>2, <2>1, <2>2
<1>5. ASSUME NEW hs, NEW ps, peers' = [peers EXCEPT ![x].have = hs],
             wishlist' = IncReplication(wishlist, ps) \/ wishlist' = wishlist,
             UNCHANGED <<completeness, wantedFiles, listed>>
      PROVE  OnceInv'
  <2> DEFINE r == [peers[x] EXCEPT !.have = hs]
  <2>1. r.active = peers[x].active /\ peers' = [peers EXCEPT ![x] = r]
    BY <1>1, <1>5 DEF PeerRecords
  <2>2. Within(wishlist', wishlist, {})
    BY <1>1, <1>5, OffersWithin
  <2> HIDE DEF r
  <2> QED
    BY <1>2, <1>5, <2>1, <2>2
<1>6. CASE \/ \E p \in Pieces : GotHave(x, p)
           \/ \E qs \in SUBSET Pieces : GotBitfield(x, qs)
           \/ GotHaveAll(x)
           \/ GotHaveNone(x)
  BY <1>5, <1>6 DEF GotHave, GotBitfield, GotHaveAll, GotHaveNone, torVars, listVars
<1>7. CASE GotChoke(x)
  <2> DEFINE dropped == IF x \in FastPeers THEN {} ELSE peers[x].active
             r == [peers[x] EXCEPT !.choked = TRUE, !.active = @ \ dropped]
  <2>1. /\ peers' = [peers EXCEPT ![x] = r] /\ UNCHANGED <<completeness, wantedFiles, listed>>
        /\ wishlist' = ResetBlocks(wishlist, dropped)
    BY <1>7 DEF GotChoke, torVars
  <2>2. dropped \in SUBSET peers[x].active
    OBVIOUS
  <2> HIDE DEF dropped
  <2>3. r.active = peers[x].active \ dropped
    BY <1>1 DEF PeerRecords
  <2>4. Within(wishlist', wishlist, dropped)
    BY <1>1, <2>1, OffersWithin
  <2> HIDE DEF r
  <2> QED
    BY <2>1, <2>2, <2>3, <2>4, OneAskedLess
<1>8. ASSUME NEW b \in Blocks, GotReject(x, b)
      PROVE  OnceInv'
  <2> DEFINE r == [peers[x] EXCEPT !.active = @ \ {b}]
             bs == {b}
  <2>1. /\ peers' = [peers EXCEPT ![x] = r] /\ UNCHANGED <<completeness, wantedFiles, listed>>
        /\ wishlist' = ResetBlocks(wishlist, bs) /\ b \in peers[x].active
    BY <1>8 DEF GotReject, torVars
  <2>2. r.active = peers[x].active \ bs /\ bs \in SUBSET peers[x].active
    BY <1>1, <2>1 DEF PeerRecords
  <2> HIDE DEF r, bs
  <2>3. Within(wishlist', wishlist, bs)
    BY <1>1, <2>1, OffersWithin
  <2> QED
    BY <2>1, <2>2, <2>3, OneAskedLess
<1>9. CASE ClosePeer(x)
  <2> DEFINE d == DecReplication(wishlist, peers[x].have)
             bs == peers[x].active
  <2>1. /\ wishlist' = ResetBlocks(d, bs) /\ UNCHANGED <<completeness, wantedFiles, listed>>
        /\ peers' = [y \in Connected \ {x} |-> peers[y]]
    BY <1>9 DEF ClosePeer, PeerDisconnect, torVars
  <2>2. WellFormed(d) /\ Within(d, wishlist, {})
    BY <1>1, DecReplicationOK, OffersWithin
  <2>3. \A y \in DOMAIN peers : y # x => peers[y].active \cap bs = {}
    BY <1>1 DEF OnceInv, Once, Distinct
  <2>4. DOMAIN peers' = DOMAIN peers \ {x} /\ \A y \in DOMAIN peers' : peers'[y] = peers[y]
    BY <2>1 DEF Connected
  <2> HIDE DEF d, bs
  <2>5. Within(wishlist', d, bs)
    BY <2>1, <2>2, OffersWithin
  <2>6. Within(wishlist', wishlist, bs)
    BY <2>2, <2>5 DEF Within
  <2>7. bs \cap Asked(peers') = {}
    BY <2>3, <2>4 DEF Asked
  <2>8. \A y \in DOMAIN peers' : y \in DOMAIN peers /\ peers'[y].active \subseteq peers[y].active
    BY <2>4
  <2> QED
    BY <2>1, <2>6, <2>7, <2>8, LessAskedStep
<1> QED
  BY <1>3, <1>4, <1>6, <1>7, <1>8, <1>9, GotBlockOnce, PulseOnce DEF PeerStep

\* recheck_completeness() drops a wishlist that was not told of what came, when the torrent is
\* done.
LEMMA RecheckOnce ==
    ASSUME IInv, OnceInv, NEW h, NEW ws, NEW w, Recheck(h, ws, w, peers),
           Status(h, ws) \in {completeness, "leech"} => Once(w, peers, listed)
    PROVE  /\ Once(wishlist', peers', listed')
           /\ listed' /\ Done' => Asked(peers') = {}
           /\ ws = {} => Done'
<1>1. completeness' = Status(h, ws) /\ (ws = {} => Status(h, ws) # "leech")
  BY DEF Recheck, Status
<1>2. CASE Status(h, ws) \in {completeness, "leech"}
  <2>1. wishlist' = w /\ peers' = peers /\ (listed' => listed)
    <3>1. listed \in BOOLEAN
      BY DEF IInv, TypeOK
    <3> QED
      BY <1>2, <3>1 DEF Recheck
  <2>2. Once(w, peers, listed')
    BY <1>2, <2>1 DEF Once
  <2>3. listed' /\ Done' => Asked(peers) = {}
    BY <1>1, <1>2, <2>1 DEF OnceInv, Done
  <2> QED
    BY <1>1, <2>1, <2>2, <2>3 DEF Done
<1>3. CASE Status(h, ws) \notin {completeness, "leech"}
  <2>1. wishlist' = NoWishlist /\ ~listed'
    BY <1>3 DEF Recheck
  <2>2. DOMAIN peers' = DOMAIN peers /\ \A y \in DOMAIN peers : peers'[y].active = peers[y].active
    <3>1. peers \in [Connected -> PeerRecords]
      BY DEF IInv, TypeOK
    <3> QED
      BY <1>3, <3>1 DEF Recheck, PeerRecords
  <2>3. Distinct(peers')
    BY <2>2 DEF OnceInv, Once, Distinct
  <2>4. TotalUnrequested(wishlist') = {}
    BY <2>1 DEF TotalUnrequested, NoWishlist
  <2> QED
    BY <1>1, <2>1, <2>3, <2>4 DEF Once, Done
<1> QED
  BY <1>2, <1>3

\* In a torrent of one file the user wants all or nothing.
LEMMA AllOrNothing ==
    ASSUME OneFile, NEW fs \in SUBSET Files
    PROVE  WantedPieces(fs) = {} \/ WantedPieces(fs) = Pieces
<1>1. CASE fs = {}
  BY <1>1 DEF WantedPieces
<1>2. CASE fs # {}
  BY <1>2 DEF WantedPieces, OneFile
<1> QED
  BY <1>1, <1>2

\* set_files_wanted(): nothing is left of the wishlist, or the torrent asked for nothing, or the
\* user wants what he wanted.
LEMMA SetFilesWantedOnce ==
    ASSUME OneFile, IInv, OnceInv, NEW fs \in SUBSET Files, NEW wanted \in BOOLEAN, SetFilesWanted(fs, wanted)
    PROVE  OnceInv'
<1> DEFINE ws == WantedPieces(wantedFiles')
           u == Upkeep(wishlist, has, ws, Replications(peers))
           w == IF listed THEN u ELSE wishlist
<1>1. Recheck(has, ws, w, peers) /\ wantedFiles' \in SUBSET Files /\ ws = Wanted'
  BY DEF SetFilesWanted, IInv, TypeOK, Wanted
<1>2. (ws = {} \/ ws = Pieces) /\ (Wanted = {} \/ Wanted = Pieces)
  BY <1>1, AllOrNothing DEF Wanted, IInv, TypeOK
<1> HIDE DEF ws
<1>3. /\ WellFormed(wishlist) /\ DOMAIN wishlist \subseteq Wanted
      /\ Once(wishlist, peers, listed) /\ Asked(peers) \cap has = {}
      /\ Replications(peers) \in [Pieces -> Int]
  BY ReplicationsOK DEF IInv, OnceInv, TypeOK, ActiveOnlyMissing, Asked, Connected
<1>4. ASSUME listed, Status(has, ws) \in {completeness, "leech"}
      PROVE  Once(u, peers, listed)
  <2>1. CASE Asked(peers) = {}
    BY <1>3, <2>1 DEF Once
  <2>2. CASE ws = {} \/ Wanted = {}
    <3>1. Done
      BY <1>4, <2>2 DEF OnceInv, Done, Status
    <3> QED
      BY <1>4, <2>1, <3>1 DEF OnceInv
  <2>3. CASE ws = Pieces /\ Wanted = Pieces
    <3> DEFINE as == Asked(peers)
    <3>1. as \subseteq Covered(wishlist) /\ as \cap has = {} /\ as \cap TotalUnrequested(wishlist) = {}
      BY <1>3, <1>4 DEF Once
    <3>2. ws \in SUBSET Pieces /\ DOMAIN wishlist \subseteq ws
      BY <1>3, <2>3
    <3> HIDE DEF as
    <3>3. as \subseteq Covered(u) /\ as \cap TotalUnrequested(u) = {}
      BY <1>3, <3>1, <3>2, UpkeepOnce
    <3> QED
      BY <1>3, <3>3 DEF Once, as
  <2> QED
    BY <1>2, <2>2, <2>3
<1> HIDE DEF u
<1>5. Status(has, ws) \in {completeness, "leech"} => Once(w, peers, listed)
  BY <1>3, <1>4
<1> HIDE DEF w
<1>6. /\ Once(wishlist', peers', listed')
      /\ listed' /\ Done' => Asked(peers') = {}
      /\ ws = {} => Done'
  BY <1>1, <1>5, RecheckOnce
<1> QED
  BY <1>1, <1>6 DEF OnceInv

\* Every step keeps a block in one place.
LEMMA StepOnce == OneFile /\ IInv /\ OnceInv /\ [Next]_vars => OnceInv'
<1> SUFFICES ASSUME OneFile, IInv, OnceInv, [Next]_vars PROVE OnceInv'
  OBVIOUS
<1>1. Once(wishlist, peers, listed) /\ WellFormed(wishlist) /\ Within(wishlist, wishlist, {})
  BY DEF OnceInv, IInv, Within
<1>2. CASE IdleWork
  <2>1. Recheck(has, Wanted, wishlist, peers) /\ Wanted' = Wanted
    BY <1>2 DEF IdleWork, Wanted
  <2> QED
    BY <1>1, <2>1, RecheckOnce DEF OnceInv
<1>3. CASE Start
  <2> DEFINE u == Upkeep(NoWishlist, has, Wanted, Replications(peers))
  <2>1. /\ wishlist' = u /\ peers' = peers /\ Wanted' = Wanted
        /\ completeness' = Status(has, Wanted)
    BY <1>3 DEF Start, Wanted
  <2>2. DOMAIN peers = {} /\ Asked(peers) = {}
    BY <1>3 DEF Start, IInv, Connected, Asked
  <2> HIDE DEF u
  <2>3. Once(u, peers, listed')
    BY <2>2 DEF Once, Distinct
  <2>4. Wanted = {} => Done'
    BY <2>1 DEF Status, Done
  <2> QED
    BY <2>1, <2>2, <2>3, <2>4 DEF OnceInv
<1>4. CASE Stop
  <2>1. wishlist' = NoWishlist /\ ~listed' /\ DOMAIN peers' = {} /\ UNCHANGED <<completeness, wantedFiles>>
    BY <1>4 DEF Stop
  <2>2. Asked(peers') = {}
    BY <2>1 DEF Asked
  <2> QED
    BY <2>1, <2>2 DEF OnceInv, Once, Distinct, Done, Wanted
<1>5. CASE UpdateInterest
  <2>1. peers \in [Connected -> PeerRecords]
    BY DEF IInv, TypeOK
  <2>2. /\ \A y \in DOMAIN peers' : y \in DOMAIN peers /\ peers'[y].active \subseteq peers[y].active
        /\ UNCHANGED <<wishlist, completeness, wantedFiles, listed>>
    BY <1>5, <2>1 DEF UpdateInterest, PeerRecords, torVars, listVars, Connected
  <2> DEFINE none == {}
  <2>3. Within(wishlist', wishlist, none) /\ none \cap Asked(peers') = {}
    BY <1>1, <2>2
  <2> HIDE DEF none
  <2> QED
    BY <2>2, <2>3, LessAskedStep
<1>6. ASSUME NEW x \in Peers, Connect(x)
      PROVE  OnceInv'
  <2>1. /\ UNCHANGED <<wishlist, completeness, wantedFiles, listed>>
        /\ peers' = [y \in Connected \cup {x} |-> IF y = x THEN NewPeer ELSE peers[y]]
    BY <1>6 DEF Connect, torVars, listVars
  <2>2. \A y \in DOMAIN peers' : \/ y \in DOMAIN peers /\ peers'[y].active \subseteq peers[y].active
                                \/ peers'[y].active = {}
    BY <2>1 DEF NewPeer, Connected
  <2> DEFINE none == {}
  <2>3. Within(wishlist', wishlist, none) /\ none \cap Asked(peers') = {}
    BY <1>1, <2>1
  <2> HIDE DEF none
  <2> QED
    BY <2>1, <2>2, <2>3, LessAskedStep
<1>7. CASE UNCHANGED vars
  BY <1>7 DEF vars, torVars, listVars, peerVars, OnceInv, Done, Wanted
<1> QED
  BY <1>2, <1>3, <1>4, <1>5, <1>6, <1>7, PeerStepOnce, SetFilesWantedOnce DEF Next, UserStep

\* Each missing block is offered to the peers or asked of one of them, never both, in a torrent
\* of one file: through chokes, rejections, timeouts and cancels, bad pieces that are offered
\* again (got_bad_piece()) and edge blocks that change hands (candidate_list_upkeep()).
THEOREM AskedOnce == OneFile => (Spec => []EachBlockOnce)
<1> SUFFICES ASSUME OneFile PROVE Spec => []EachBlockOnce
  OBVIOUS
<1>1. Init => OnceInv
  <2> SUFFICES ASSUME Init PROVE OnceInv
    OBVIOUS
  <2>1. DOMAIN peers = {} /\ ~listed /\ (Wanted = {} => Done)
    BY DEF Init, Done, Status
  <2>2. Asked(peers) = {}
    BY <2>1 DEF Asked
  <2> QED
    BY <2>1, <2>2 DEF OnceInv, Once, Distinct
<1>2. IInv /\ OnceInv /\ [Next]_vars => OnceInv'
  BY StepOnce
<1> QED
  BY <1>1, <1>2, OnceIsEachBlockOnce, Invariance, PTL DEF Spec
=============================================================================
