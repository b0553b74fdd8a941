--------------------------- MODULE Wishlist_proof ---------------------------
(***************************************************************************)
(* What the operations of the wishlist preserve, for every torrent.        *)
(*                                                                         *)
(* WellFormed is the invariant of the candidates that the code relies on   *)
(* without stating it: each candidate owns its raw span but for an edge    *)
(* block on either side, and offers only blocks it owns.  Meet is what     *)
(* got_bad_piece() asserts of neighbours.                                  *)
(***************************************************************************)
EXTENDS Wishlist, TLAPS

\* The span of a candidate is its raw span without, at most, the block it
\* shares with the piece before it and the one it shares with the piece after.
SpanOK(w) ==
    \A p \in DOMAIN w :
        /\ RawBegin[p] <= w[p].begin
        /\ w[p].begin <= w[p].end
        /\ w[p].end <= RawEnd[p]
        /\ w[p].begin <= IF p - 1 \in Pieces THEN RawEnd[p - 1] ELSE RawBegin[p]
        /\ w[p].end >= IF p + 1 \in Pieces THEN RawBegin[p + 1] ELSE RawEnd[p]

OffersOwn(w) == \A p \in DOMAIN w : w[p].unrequested \subseteq Span(w[p])

Meet(w) == \A p \in DOMAIN w : p + 1 \in DOMAIN w => w[p].end = w[p + 1].begin

WellFormed(w) == IsWishlist(w) /\ SpanOK(w) /\ OffersOwn(w) /\ Meet(w)

\* No tracked piece offers a block of bs.
OffersNone(w, bs) == \A p \in DOMAIN w : w[p].unrequested \cap bs = {}

-----------------------------------------------------------------------------
(* Geometry.                                                               *)

\* The blocks of a piece are blocks of the torrent.
LEMMA PieceBounds ==
    ASSUME NEW p \in Pieces
    PROVE  /\ RawBegin[p] \in Nat /\ RawEnd[p] \in Nat
           /\ RawBegin[p] < RawEnd[p]
           /\ RawEnd[p] <= NumBlocks
           /\ NumBlocks \in Nat
           /\ RawSpan(p) \subseteq Blocks
<1>1. NumPieces - 1 \in Pieces /\ p <= NumPieces - 1
  BY GeometryAssumption DEF Pieces
<1>2. RawEnd[p] <= NumBlocks /\ NumBlocks \in Nat
  BY <1>1, GeometryAssumption DEF NumBlocks
<1> QED
  BY <1>2, GeometryAssumption DEF RawSpan, Blocks

\* Two pieces that share a block are neighbours.
LEMMA SharedBlock ==
    ASSUME NEW p \in Pieces, NEW q \in Pieces, p < q,
           NEW b \in RawSpan(p), b \in RawSpan(q)
    PROVE  q = p + 1
<1>1. RawBegin[q] < RawEnd[p]
  BY PieceBounds DEF RawSpan
<1>2. ~(p + 1 < q)
  BY <1>1, PieceBounds, GeometryAssumption
<1> QED
  BY <1>2 DEF Pieces

\* Where a piece ends and the next one begins.
LEMMA NextPiece ==
    ASSUME NEW p \in Pieces, p + 1 \in Pieces
    PROVE  /\ RawBegin[p + 1] <= RawEnd[p]
           /\ RawEnd[p] <= RawBegin[p + 1] + 1
           /\ RawBegin[p] <= RawBegin[p + 1]
           /\ RawEnd[p] <= RawEnd[p + 1]
           /\ p + 2 \in Pieces => RawEnd[p] <= RawBegin[p + 2]
<1>1. p <= p + 1 /\ p + 1 < p + 2
  BY DEF Pieces
<1>2. RawBegin[p] <= RawBegin[p + 1] /\ RawEnd[p] <= RawEnd[p + 1]
  BY <1>1, GeometryAssumption
<1>3. p + 2 \in Pieces => RawEnd[p] <= RawBegin[p + 2]
  BY <1>1, GeometryAssumption
<1>4. RawBegin[p + 1] \in {RawEnd[p] - 1, RawEnd[p]}
  BY GeometryAssumption
<1> QED
  BY <1>2, <1>3, <1>4, PieceBounds

-----------------------------------------------------------------------------
(* Operations that change `unrequested' within the spans.                  *)

\* The parts of a wishlist with new sets of unrequested blocks.
LEMMA NewOffers ==
    ASSUME NEW w, WellFormed(w), NEW v, DOMAIN v = DOMAIN w,
           v = [p \in DOMAIN w |-> v[p]],
           \A p \in DOMAIN w : /\ v[p] = [w[p] EXCEPT !.unrequested = v[p].unrequested]
                               /\ v[p].unrequested \subseteq Span(w[p])
    PROVE  WellFormed(v)
<1>1. \A p \in DOMAIN w : /\ p \in Pieces
                          /\ w[p] \in Candidates
                          /\ v[p].begin = w[p].begin
                          /\ v[p].end = w[p].end
                          /\ v[p].replication = w[p].replication
  BY DEF WellFormed, IsWishlist, Candidates
<1>2. SpanOK(v)
  BY <1>1 DEF SpanOK, WellFormed
<1>3. OffersOwn(v)
  BY <1>1 DEF OffersOwn, Span
<1>4. Meet(v)
  BY <1>1 DEF Meet, WellFormed
<1>5. IsWishlist(v)
  <2>1. ASSUME NEW p \in DOMAIN w
        PROVE  v[p] \in Candidates
    <3>1. Span(w[p]) \subseteq Blocks
      BY <1>1, PieceBounds DEF Candidates, Span, Blocks
    <3> QED
      BY <1>1, <3>1 DEF Candidates
  <2> QED
    BY <2>1 DEF IsWishlist, WellFormed
<1> QED
  BY <1>2, <1>3, <1>4, <1>5 DEF WellFormed

\* requested_block_span() takes away what is offered, and nothing else.
LEMMA RequestedBlocksOK ==
    ASSUME NEW w, WellFormed(w), NEW bs
    PROVE  /\ WellFormed(RequestedBlocks(w, bs))
           /\ DOMAIN RequestedBlocks(w, bs) = DOMAIN w
           /\ \A hs : OffersNone(w, hs) => OffersNone(RequestedBlocks(w, bs), hs)
<1> DEFINE v == RequestedBlocks(w, bs)
<1>1. /\ DOMAIN v = DOMAIN w
      /\ v = [p \in DOMAIN w |-> v[p]]
      /\ \A p \in DOMAIN w : v[p] = [w[p] EXCEPT !.unrequested = @ \ (bs \cap Span(w[p]))]
  BY DEF RequestedBlocks
<1>2. \A p \in DOMAIN w : /\ w[p] \in Candidates
                          /\ w[p].unrequested \subseteq Span(w[p])
  BY DEF WellFormed, IsWishlist, OffersOwn
<1>3. \A p \in DOMAIN w : v[p].unrequested = w[p].unrequested \ (bs \cap Span(w[p]))
  BY <1>1, <1>2 DEF Candidates
<1>4. \A p \in DOMAIN w : /\ v[p] = [w[p] EXCEPT !.unrequested = v[p].unrequested]
                          /\ v[p].unrequested \subseteq Span(w[p])
  BY <1>1, <1>2, <1>3
<1> HIDE DEF v
<1>5. WellFormed(v)
  BY <1>1, <1>4, NewOffers
<1>6. \A hs : OffersNone(w, hs) => OffersNone(v, hs)
  BY <1>1, <1>3 DEF OffersNone
<1> QED
  BY <1>1, <1>5, <1>6 DEF v

\* reset_block() offers no more than the blocks that are reset.
LEMMA ResetBlocksOK ==
    ASSUME NEW w, WellFormed(w), NEW bs
    PROVE  /\ WellFormed(ResetBlocks(w, bs))
           /\ DOMAIN ResetBlocks(w, bs) = DOMAIN w
           /\ \A hs : bs \cap hs = {} /\ OffersNone(w, hs) => OffersNone(ResetBlocks(w, bs), hs)
<1> DEFINE v == ResetBlocks(w, bs)
<1>1. /\ DOMAIN v = DOMAIN w
      /\ v = [p \in DOMAIN w |-> v[p]]
      /\ \A p \in DOMAIN w : v[p] = [w[p] EXCEPT !.unrequested = @ \cup (bs \cap Span(w[p]))]
  BY DEF ResetBlocks
<1>2. \A p \in DOMAIN w : /\ w[p] \in Candidates
                          /\ w[p].unrequested \subseteq Span(w[p])
  BY DEF WellFormed, IsWishlist, OffersOwn
<1>3. \A p \in DOMAIN w : v[p].unrequested = w[p].unrequested \cup (bs \cap Span(w[p]))
  BY <1>1, <1>2 DEF Candidates
<1>4. \A p \in DOMAIN w : /\ v[p] = [w[p] EXCEPT !.unrequested = v[p].unrequested]
                          /\ v[p].unrequested \subseteq Span(w[p])
  BY <1>1, <1>2, <1>3
<1> HIDE DEF v
<1>5. WellFormed(v)
  BY <1>1, <1>4, NewOffers
<1>6. \A hs : bs \cap hs = {} /\ OffersNone(w, hs) => OffersNone(v, hs)
  BY <1>1, <1>3 DEF OffersNone
<1> QED
  BY <1>1, <1>5, <1>6 DEF v

\* client_got_block() leaves no candidate that offers the block: the one that
\* owns it does not any more, and the others never did.
LEMMA GotBlockOK ==
    ASSUME NEW w, WellFormed(w), NEW b
    PROVE  /\ WellFormed(GotBlock(w, b))
           /\ DOMAIN GotBlock(w, b) = DOMAIN w
           /\ \A hs : OffersNone(w, hs) => OffersNone(GotBlock(w, b), hs \cup {b})
<1> DEFINE v == GotBlock(w, b)
<1>1. /\ DOMAIN v = DOMAIN w
      /\ v = [p \in DOMAIN w |-> v[p]]
      /\ \A p \in DOMAIN w : v[p] = [w[p] EXCEPT !.unrequested = @ \ ({b} \cap Span(w[p]))]
  BY DEF GotBlock
<1>2. \A p \in DOMAIN w : /\ w[p] \in Candidates
                          /\ w[p].unrequested \subseteq Span(w[p])
  BY DEF WellFormed, IsWishlist, OffersOwn
<1>3. \A p \in DOMAIN w : v[p].unrequested = w[p].unrequested \ {b}
  BY <1>1, <1>2 DEF Candidates
<1>4. \A p \in DOMAIN w : /\ v[p] = [w[p] EXCEPT !.unrequested = v[p].unrequested]
                          /\ v[p].unrequested \subseteq Span(w[p])
  BY <1>1, <1>2, <1>3
<1> HIDE DEF v
<1>5. WellFormed(v)
  BY <1>1, <1>4, NewOffers
<1>6. \A hs : OffersNone(w, hs) => OffersNone(v, hs \cup {b})
  BY <1>1, <1>3 DEF OffersNone
<1> QED
  BY <1>1, <1>5, <1>6 DEF v

-----------------------------------------------------------------------------
(* Operators that change the replication or drop a candidate.              *)

\* The candidates of a wishlist with other replications, or some of them.
LEMMA SameSpans ==
    ASSUME NEW w, WellFormed(w), NEW v, DOMAIN v \subseteq DOMAIN w,
           v = [p \in DOMAIN v |-> v[p]],
           \A p \in DOMAIN v : /\ v[p] \in Candidates
                               /\ v[p].begin = w[p].begin
                               /\ v[p].end = w[p].end
                               /\ v[p].unrequested = w[p].unrequested
    PROVE  /\ WellFormed(v)
           /\ \A hs : OffersNone(w, hs) => OffersNone(v, hs)
<1>1. IsWishlist(v)
  BY DEF WellFormed, IsWishlist
<1>2. SpanOK(v)
  BY DEF WellFormed, SpanOK
<1>3. OffersOwn(v)
  BY DEF WellFormed, OffersOwn, Span
<1>4. Meet(v)
  BY DEF WellFormed, Meet
<1>5. \A hs : OffersNone(w, hs) => OffersNone(v, hs)
  BY DEF OffersNone
<1> QED
  BY <1>1, <1>2, <1>3, <1>4, <1>5 DEF WellFormed

\* remove_piece() drops one candidate and leaves the others.
LEMMA RemovePieceOK ==
    ASSUME NEW w, WellFormed(w), NEW piece
    PROVE  /\ WellFormed(RemovePiece(w, piece))
           /\ DOMAIN RemovePiece(w, piece) = DOMAIN w \ {piece}
           /\ \A hs : OffersNone(w, hs) => OffersNone(RemovePiece(w, piece), hs)
<1> DEFINE v == RemovePiece(w, piece)
<1>1. /\ DOMAIN v = DOMAIN w \ {piece}
      /\ v = [p \in DOMAIN v |-> v[p]]
      /\ \A p \in DOMAIN v : v[p] = w[p]
  BY DEF RemovePiece
<1>2. \A p \in DOMAIN w : w[p] \in Candidates
  BY DEF WellFormed, IsWishlist
<1> HIDE DEF v
<1>3. WellFormed(v) /\ \A hs : OffersNone(w, hs) => OffersNone(v, hs)
  BY <1>1, <1>2, SameSpans
<1> QED
  BY <1>1, <1>3 DEF v

\* inc_replication() changes no span and no offer.
LEMMA IncReplicationOK ==
    ASSUME NEW w, WellFormed(w), NEW ps
    PROVE  /\ WellFormed(IncReplication(w, ps))
           /\ DOMAIN IncReplication(w, ps) = DOMAIN w
           /\ \A hs : OffersNone(w, hs) => OffersNone(IncReplication(w, ps), hs)
<1> DEFINE v == IncReplication(w, ps)
<1>1. /\ DOMAIN v = DOMAIN w
      /\ v = [p \in DOMAIN v |-> v[p]]
      /\ \A p \in DOMAIN v :
            v[p] = IF p \in ps THEN [w[p] EXCEPT !.replication = @ + 1] ELSE w[p]
  BY DEF IncReplication
<1>2. \A p \in DOMAIN w : w[p] \in Candidates
  BY DEF WellFormed, IsWishlist
<1>3. \A p \in DOMAIN v : /\ v[p] \in Candidates
                          /\ v[p].begin = w[p].begin
                          /\ v[p].end = w[p].end
                          /\ v[p].unrequested = w[p].unrequested
  BY <1>1, <1>2 DEF Candidates
<1> HIDE DEF v
<1>4. WellFormed(v) /\ \A hs : OffersNone(w, hs) => OffersNone(v, hs)
  BY <1>1, <1>3, SameSpans
<1> QED
  BY <1>1, <1>4 DEF v

\* dec_replication() changes no span and no offer.
LEMMA DecReplicationOK ==
    ASSUME NEW w, WellFormed(w), NEW ps
    PROVE  /\ WellFormed(DecReplication(w, ps))
           /\ DOMAIN DecReplication(w, ps) = DOMAIN w
           /\ \A hs : OffersNone(w, hs) => OffersNone(DecReplication(w, ps), hs)
<1> DEFINE v == DecReplication(w, ps)
<1>1. /\ DOMAIN v = DOMAIN w
      /\ v = [p \in DOMAIN v |-> v[p]]
      /\ \A p \in DOMAIN v :
            v[p] = IF p \in ps THEN [w[p] EXCEPT !.replication = @ - 1] ELSE w[p]
  BY DEF DecReplication
<1>2. \A p \in DOMAIN w : w[p] \in Candidates
  BY DEF WellFormed, IsWishlist
<1>3. \A p \in DOMAIN v : /\ v[p] \in Candidates
                          /\ v[p].begin = w[p].begin
                          /\ v[p].end = w[p].end
                          /\ v[p].unrequested = w[p].unrequested
  BY <1>1, <1>2 DEF Candidates
<1> HIDE DEF v
<1>4. WellFormed(v) /\ \A hs : OffersNone(w, hs) => OffersNone(v, hs)
  BY <1>1, <1>3, SameSpans
<1> QED
  BY <1>1, <1>4 DEF v

\* peer_disconnect() offers no more than what the peer was asked for.
LEMMA PeerDisconnectOK ==
    ASSUME NEW w, WellFormed(w), NEW have, NEW requests
    PROVE  /\ WellFormed(PeerDisconnect(w, have, requests))
           /\ DOMAIN PeerDisconnect(w, have, requests) = DOMAIN w
           /\ \A hs : requests \cap hs = {} /\ OffersNone(w, hs) =>
                 OffersNone(PeerDisconnect(w, have, requests), hs)
<1>1. WellFormed(DecReplication(w, have))
  BY DecReplicationOK
<1> QED
  BY <1>1, DecReplicationOK, ResetBlocksOK DEF PeerDisconnect

-----------------------------------------------------------------------------
(* got_bad_piece().                                                        *)

\* The span that a bad piece gets ends where its neighbours begin.
LEMMA BadSpan ==
    ASSUME NEW w, WellFormed(w), NEW p \in DOMAIN w
    PROVE  LET begin == BadBegin(w, p)
               end == BadEnd(w, p)
           IN /\ begin \in 0 .. NumBlocks /\ end \in 0 .. NumBlocks
              /\ RawBegin[p] <= begin /\ begin <= end /\ end <= RawEnd[p]
              /\ begin <= IF p - 1 \in Pieces THEN RawEnd[p - 1] ELSE RawBegin[p]
              /\ end >= IF p + 1 \in Pieces THEN RawBegin[p + 1] ELSE RawEnd[p]
              /\ p - 1 \in DOMAIN w => begin = w[p - 1].end
              /\ p + 1 \in DOMAIN w => end = w[p + 1].begin
<1> DEFINE begin == BadBegin(w, p)
           end == BadEnd(w, p)
<1>1. DOMAIN w \subseteq Pieces /\ \A q \in DOMAIN w : w[q] \in Candidates
  BY DEF WellFormed, IsWishlist
<1>2. \A q \in DOMAIN w : w[q].begin \in Int /\ w[q].end \in Int
  BY <1>1, PieceBounds DEF Candidates
<1>3. p \in Pieces /\ (p - 1) + 1 = p /\ (p - 1) + 2 = p + 1
  BY <1>1 DEF Pieces
<1>4. /\ RawBegin[p] <= begin
      /\ begin <= IF p - 1 \in Pieces THEN RawEnd[p - 1] ELSE RawBegin[p]
      /\ begin \in Int
      /\ p - 1 \in DOMAIN w => begin = w[p - 1].end
      /\ p + 1 \in Pieces => begin <= RawBegin[p + 1]
      /\ begin <= RawEnd[p]
  <2>1. CASE p - 1 \notin Pieces
    <3>1. begin = RawBegin[p] /\ p - 1 \notin DOMAIN w
      BY <1>1, <2>1 DEF BadBegin
    <3>2. p + 1 \in Pieces => begin <= RawBegin[p + 1]
      BY <1>3, <3>1, NextPiece
    <3> QED
      BY <1>3, <2>1, <3>1, <3>2, PieceBounds
  <2>2. CASE p - 1 \in Pieces
    <3>1. RawBegin[p] <= RawEnd[p - 1] /\ RawEnd[p - 1] <= RawBegin[p] + 1
      BY <1>3, <2>2, NextPiece
    <3>2. /\ RawBegin[p] <= begin
          /\ begin <= RawEnd[p - 1]
          /\ begin \in Int
          /\ p - 1 \in DOMAIN w => begin = w[p - 1].end
      BY <1>2, <1>3, <2>2, <3>1, PieceBounds DEF BadBegin, WellFormed, SpanOK
    <3>3. p + 1 \in Pieces => RawEnd[p - 1] <= RawBegin[p + 1]
      BY <1>3, <2>2, NextPiece
    <3>4. RawEnd[p - 1] <= RawEnd[p]
      BY <1>3, <2>2, NextPiece
    <3> QED
      BY <1>3, <2>2, <3>2, <3>3, <3>4, PieceBounds
  <2> QED
    BY <2>1, <2>2
<1>5. /\ end <= RawEnd[p]
      /\ end >= IF p + 1 \in Pieces THEN RawBegin[p + 1] ELSE RawEnd[p]
      /\ end \in Int
      /\ p + 1 \in DOMAIN w => end = w[p + 1].begin
  <2>1. CASE p + 1 \notin Pieces
    BY <1>1, <1>3, <2>1, PieceBounds DEF BadEnd
  <2>2. CASE p + 1 \in Pieces
    <3>1. (p + 1) - 1 = p
      BY <1>3 DEF Pieces
    <3> QED
      BY <1>2, <1>3, <2>2, <3>1, NextPiece, PieceBounds DEF BadEnd, WellFormed, SpanOK
  <2> QED
    BY <2>1, <2>2
<1>6. begin <= end
  BY <1>3, <1>4, <1>5, PieceBounds
<1>7. begin \in 0 .. NumBlocks /\ end \in 0 .. NumBlocks
  BY <1>3, <1>4, <1>5, <1>6, PieceBounds
<1> QED
  BY <1>4, <1>5, <1>6, <1>7

\* A piece that was had and turned out bad is offered again, with its edge
\* blocks by the neighbours that own them; nothing else is.
LEMMA GotBadPieceOK ==
    ASSUME NEW w, WellFormed(w), NEW piece \in Pieces, OffersNone(w, RawSpan(piece))
    PROVE  /\ WellFormed(GotBadPiece(w, piece))
           /\ DOMAIN GotBadPiece(w, piece) = DOMAIN w
           /\ \A hs : OffersNone(w, hs) => OffersNone(GotBadPiece(w, piece), hs \ RawSpan(piece))
<1>1. CASE piece \notin DOMAIN w
  BY <1>1 DEF GotBadPiece, OffersNone
<1>2. CASE piece \in DOMAIN w
  <2> DEFINE v == GotBadPiece(w, piece)
             begin == BadBegin(w, piece)
             end == BadEnd(w, piece)
  <2>1. /\ DOMAIN w \subseteq Pieces
        /\ \A q \in DOMAIN w : w[q] \in Candidates
        /\ \A q \in DOMAIN w : w[q].unrequested \subseteq Span(w[q])
    BY DEF WellFormed, IsWishlist, OffersOwn
  <2>2. /\ begin \in 0 .. NumBlocks /\ end \in 0 .. NumBlocks
        /\ RawBegin[piece] <= begin /\ begin <= end /\ end <= RawEnd[piece]
        /\ begin <= IF piece - 1 \in Pieces THEN RawEnd[piece - 1] ELSE RawBegin[piece]
        /\ end >= IF piece + 1 \in Pieces THEN RawBegin[piece + 1] ELSE RawEnd[piece]
        /\ piece - 1 \in DOMAIN w => begin = w[piece - 1].end
        /\ piece + 1 \in DOMAIN w => end = w[piece + 1].begin
    BY <1>2, BadSpan
  <2>3. DOMAIN v = DOMAIN w /\ v = [q \in DOMAIN w |-> v[q]]
    BY <1>2 DEF GotBadPiece
  <2>4. v[piece] = [w[piece] EXCEPT !.begin = begin, !.end = end,
                                    !.unrequested = @ \cup (begin .. end - 1)]
    BY <1>2 DEF GotBadPiece, Pieces
  <2>5. piece - 1 \in DOMAIN w =>
            v[piece - 1] = [w[piece - 1] EXCEPT !.unrequested = @ \cup (RawBegin[piece] .. begin - 1)]
    BY <1>2, <2>1 DEF GotBadPiece, Pieces
  <2>6. piece + 1 \in DOMAIN w =>
            v[piece + 1] = [w[piece + 1] EXCEPT !.unrequested = @ \cup (end .. RawEnd[piece] - 1)]
    BY <1>2, <2>1 DEF GotBadPiece, Pieces
  <2>7. \A q \in DOMAIN w \ {piece - 1, piece, piece + 1} : v[q] = w[q]
    BY <1>2, <2>1 DEF GotBadPiece, Pieces
  <2> HIDE DEF v, begin, end
  <2>8. /\ v[piece].begin = begin /\ v[piece].end = end
        /\ v[piece].unrequested = w[piece].unrequested \cup (begin .. end - 1)
        /\ v[piece].replication = w[piece].replication
    BY <1>2, <2>1, <2>4 DEF Candidates
  <2>9. \A q \in DOMAIN w \ {piece} : v[q].begin = w[q].begin /\ v[q].end = w[q].end
    BY <2>1, <2>5, <2>6, <2>7 DEF Candidates
  <2>10. \A q \in DOMAIN w : w[q].begin \in Int /\ w[q].end \in Int
    BY <2>1, PieceBounds DEF Candidates
  <2>11. w[piece].unrequested = {}
    BY <1>2, <2>1, <2>10, PieceBounds DEF OffersNone, WellFormed, SpanOK, Span, RawSpan
  <2>12. piece - 1 \in DOMAIN w => w[piece - 1].begin <= RawBegin[piece]
    <3>1. SUFFICES ASSUME piece - 1 \in DOMAIN w
                   PROVE  w[piece - 1].begin <= RawBegin[piece]
      OBVIOUS
    <3>2. /\ piece - 1 \in Pieces
          /\ (piece - 1) + 1 = piece /\ (piece - 1) - 1 = piece - 2 /\ (piece - 2) + 2 = piece
          /\ (piece - 2) + 1 = piece - 1
      BY <2>1, <3>1 DEF Pieces
    <3>3. RawBegin[piece - 1] <= RawBegin[piece]
      BY <3>2, NextPiece
    <3>4. piece - 2 \in Pieces => RawEnd[piece - 2] <= RawBegin[piece]
      BY <3>2, NextPiece
    <3>5. w[piece - 1].begin <= IF piece - 2 \in Pieces THEN RawEnd[piece - 2] ELSE RawBegin[piece - 1]
      BY <3>1, <3>2 DEF WellFormed, SpanOK
    <3> QED
      BY <2>10, <3>1, <3>2, <3>3, <3>4, <3>5, PieceBounds
  <2>13. piece + 1 \in DOMAIN w => RawEnd[piece] <= w[piece + 1].end
    <3>1. SUFFICES ASSUME piece + 1 \in DOMAIN w
                   PROVE  RawEnd[piece] <= w[piece + 1].end
      OBVIOUS
    <3>2. piece + 1 \in Pieces /\ (piece + 1) + 1 = piece + 2
      BY <2>1, <3>1 DEF Pieces
    <3>3. /\ RawEnd[piece] <= RawEnd[piece + 1]
          /\ piece + 2 \in Pieces => RawEnd[piece] <= RawBegin[piece + 2]
      BY <3>2, NextPiece
    <3>4. w[piece + 1].end >= IF piece + 2 \in Pieces THEN RawBegin[piece + 2] ELSE RawEnd[piece + 1]
      BY <3>1, <3>2 DEF WellFormed, SpanOK
    <3> QED
      BY <2>10, <3>1, <3>2, <3>3, <3>4, PieceBounds
  <2>14. /\ piece - 1 \in DOMAIN w =>
              v[piece - 1].unrequested = w[piece - 1].unrequested \cup (RawBegin[piece] .. begin - 1)
         /\ piece + 1 \in DOMAIN w =>
              v[piece + 1].unrequested = w[piece + 1].unrequested \cup (end .. RawEnd[piece] - 1)
    BY <2>1, <2>5, <2>6 DEF Candidates
  <2>15. OffersOwn(v)
    <3>1. SUFFICES ASSUME NEW q \in DOMAIN w
                   PROVE  v[q].unrequested \subseteq Span(v[q])
      BY <2>3 DEF OffersOwn
    <3>2. CASE q = piece
      BY <2>8, <2>11, <3>2 DEF Span
    <3>3. CASE q = piece - 1
      <4>1. q # piece
        BY <3>3 DEF Pieces
      <4>2. (RawBegin[piece] .. begin - 1) \subseteq Span(w[q])
        BY <2>2, <2>10, <2>12, <3>1, <3>3, PieceBounds DEF Span
      <4> QED
        BY <2>1, <2>9, <2>14, <3>1, <3>3, <4>1, <4>2 DEF Span
    <3>4. CASE q = piece + 1
      <4>1. q # piece
        BY <3>4 DEF Pieces
      <4>2. (end .. RawEnd[piece] - 1) \subseteq Span(w[q])
        BY <2>2, <2>10, <2>13, <3>1, <3>4, PieceBounds DEF Span
      <4> QED
        BY <2>1, <2>9, <2>14, <3>1, <3>4, <4>1, <4>2 DEF Span
    <3>5. CASE q \notin {piece - 1, piece, piece + 1}
      BY <2>1, <2>7, <3>1, <3>5
    <3> QED
      BY <3>2, <3>3, <3>4, <3>5
  <2>16. SpanOK(v)
    <3>1. SUFFICES ASSUME NEW q \in DOMAIN w
                   PROVE  /\ RawBegin[q] <= v[q].begin
                          /\ v[q].begin <= v[q].end
                          /\ v[q].end <= RawEnd[q]
                          /\ v[q].begin <= IF q - 1 \in Pieces THEN RawEnd[q - 1] ELSE RawBegin[q]
                          /\ v[q].end >= IF q + 1 \in Pieces THEN RawBegin[q + 1] ELSE RawEnd[q]
      BY <2>3 DEF SpanOK
    <3>2. CASE q = piece
      BY <2>2, <2>8, <3>2
    <3>3. CASE q # piece
      BY <2>9, <3>1, <3>3 DEF WellFormed, SpanOK
    <3> QED
      BY <3>2, <3>3
  <2>17. Meet(v)
    <3>1. SUFFICES ASSUME NEW q \in DOMAIN w, q + 1 \in DOMAIN w
                   PROVE  v[q].end = v[q + 1].begin
      BY <2>3 DEF Meet
    <3>2. q \in Int /\ q # q + 1 /\ (q + 1) - 1 = q /\ piece \in Int
      BY <2>1, <3>1 DEF Pieces
    <3>3. w[q].end = w[q + 1].begin
      BY <3>1 DEF WellFormed, Meet
    <3>4. CASE q = piece
      BY <2>2, <2>8, <2>9, <3>1, <3>2, <3>4
    <3>5. CASE q + 1 = piece
      BY <2>2, <2>8, <2>9, <3>1, <3>2, <3>5
    <3>6. CASE q # piece /\ q + 1 # piece
      BY <2>9, <3>1, <3>3, <3>6
    <3> QED
      BY <3>4, <3>5, <3>6
  <2>18. IsWishlist(v)
    <3>1. SUFFICES ASSUME NEW q \in DOMAIN w
                   PROVE  v[q] \in Candidates
      BY <2>1, <2>3 DEF IsWishlist
    <3>2. v[q].begin \in 0 .. NumBlocks /\ v[q].end \in 0 .. NumBlocks
      BY <2>1, <2>2, <2>8, <2>9, <3>1 DEF Candidates
    <3>3. v[q].unrequested \subseteq Blocks
      <4>1. v[q].unrequested \subseteq Span(v[q])
        BY <2>3, <2>15 DEF OffersOwn
      <4> QED
        BY <3>1, <3>2, <4>1, PieceBounds DEF Span, Blocks
    <3>4. v[q].replication \in Int
      BY <2>1, <2>5, <2>6, <2>7, <2>8, <3>1 DEF Candidates
    <3>5. v[q] = [begin |-> v[q].begin, end |-> v[q].end,
                  unrequested |-> v[q].unrequested, replication |-> v[q].replication]
      BY <2>1, <2>4, <2>5, <2>6, <2>7, <3>1 DEF Candidates
    <3> QED
      BY <3>2, <3>3, <3>4, <3>5 DEF Candidates
  <2>19. ASSUME NEW hs, OffersNone(w, hs)
         PROVE  OffersNone(v, hs \ RawSpan(piece))
    <3>1. /\ (begin .. end - 1) \subseteq RawSpan(piece)
          /\ (RawBegin[piece] .. begin - 1) \subseteq RawSpan(piece)
          /\ (end .. RawEnd[piece] - 1) \subseteq RawSpan(piece)
      BY <2>2, PieceBounds DEF RawSpan
    <3>2. \A q \in DOMAIN w : v[q].unrequested \subseteq w[q].unrequested \cup RawSpan(piece)
      BY <2>7, <2>8, <2>14, <3>1
    <3> QED
      BY <2>3, <2>19, <3>2 DEF OffersNone
  <2> QED
    BY <2>3, <2>15, <2>16, <2>17, <2>18, <2>19 DEF WellFormed, v
<1> QED
  BY <1>1, <1>2

-----------------------------------------------------------------------------
(* candidate_list_upkeep().                                                *)

\* Bounds of the tracked spans, in one place.
LEMMA Spans ==
    ASSUME NEW w, WellFormed(w), NEW p \in DOMAIN w
    PROVE  /\ p \in Pieces /\ w[p] \in Candidates
           /\ w[p].begin \in Int /\ w[p].end \in Int
           /\ RawBegin[p] <= w[p].begin /\ w[p].begin <= w[p].end /\ w[p].end <= RawEnd[p]
           /\ p - 1 \in Pieces => w[p].begin <= RawEnd[p - 1]
           /\ p - 1 \notin Pieces => w[p].begin = RawBegin[p]
           /\ p + 1 \in Pieces => w[p].end >= RawBegin[p + 1]
           /\ p + 1 \notin Pieces => w[p].end = RawEnd[p]
           /\ w[p].unrequested \subseteq Span(w[p])
           /\ p + 1 \in DOMAIN w => w[p].end = w[p + 1].begin
<1>1. p \in Pieces /\ w[p] \in Candidates
  BY DEF WellFormed, IsWishlist
<1>2. w[p].begin \in Int /\ w[p].end \in Int
  BY <1>1, PieceBounds DEF Candidates
<1>3. /\ RawBegin[p] <= w[p].begin /\ w[p].begin <= w[p].end /\ w[p].end <= RawEnd[p]
      /\ w[p].begin <= IF p - 1 \in Pieces THEN RawEnd[p - 1] ELSE RawBegin[p]
      /\ w[p].end >= IF p + 1 \in Pieces THEN RawBegin[p + 1] ELSE RawEnd[p]
  BY DEF WellFormed, SpanOK
<1>4. /\ w[p].unrequested \subseteq Span(w[p])
      /\ p + 1 \in DOMAIN w => w[p].end = w[p + 1].begin
  BY DEF WellFormed, OffersOwn, Meet
<1> QED
  BY <1>1, <1>2, <1>3, <1>4, PieceBounds

\* A kept candidate takes over the edges of the neighbours that are dropped.
LEMMA KeptCandidateOK ==
    ASSUME NEW w, WellFormed(w), NEW tracked \in SUBSET Pieces, NEW p \in DOMAIN w
    PROVE  LET c == KeptCandidate(w, tracked, p)
               dropped == DOMAIN w \ tracked
           IN /\ c \in Candidates
              /\ c.begin = IF p - 1 \in dropped THEN RawBegin[p] ELSE w[p].begin
              /\ c.end = IF p + 1 \in dropped THEN RawEnd[p] ELSE w[p].end
              /\ c.unrequested \subseteq Span(c)
              /\ w[p].unrequested \subseteq c.unrequested
              /\ \A hs : OffersNone(w, hs) => c.unrequested \cap hs = {}
<1> DEFINE c == KeptCandidate(w, tracked, p)
           dropped == DOMAIN w \ tracked
           fromPrev == IF p - 1 \in dropped
                       THEN w[p - 1].unrequested \cap (RawBegin[p] .. w[p].begin - 1) ELSE {}
           fromNext == IF p + 1 \in dropped
                       THEN w[p + 1].unrequested \cap (w[p].end .. RawEnd[p] - 1) ELSE {}
           toNext == IF p + 1 \in DOMAIN w \cap tracked
                     THEN w[p + 1].begin .. w[p].end - 1 ELSE {}
           begin == IF p - 1 \in dropped THEN RawBegin[p] ELSE w[p].begin
           end == IF p + 1 \in dropped THEN RawEnd[p] ELSE w[p].end
<1>1. /\ p \in Pieces /\ w[p] \in Candidates
      /\ w[p].begin \in Int /\ w[p].end \in Int
      /\ RawBegin[p] <= w[p].begin /\ w[p].begin <= w[p].end /\ w[p].end <= RawEnd[p]
      /\ w[p].unrequested \subseteq Span(w[p])
      /\ p + 1 \in DOMAIN w => w[p].end = w[p + 1].begin
  BY Spans
<1>2. c = [begin |-> begin, end |-> end, replication |-> w[p].replication,
           unrequested |-> ((w[p].unrequested \cup fromPrev) \ toNext) \cup fromNext]
  <2> DEFINE caseEnd == CASE p + 1 \in dropped -> RawEnd[p]
                          [] p + 1 \in DOMAIN w \cap tracked /\ w[p + 1].begin < w[p].end -> w[p + 1].begin
                          [] OTHER -> w[p].end
             offers == ((w[p].unrequested \cup fromPrev) \ toNext) \cup fromNext
  <2>1. caseEnd = end
    <3>1. ~(p + 1 \in DOMAIN w \cap tracked /\ w[p + 1].begin < w[p].end)
      BY <1>1
    <3>2. CASE p + 1 \in dropped
      BY <3>1, <3>2
    <3>3. CASE p + 1 \notin dropped
      BY <3>1, <3>3
    <3> QED
      BY <3>2, <3>3
  <2>2. c = [w[p] EXCEPT !.begin = begin, !.end = caseEnd, !.unrequested = offers]
    BY DEF KeptCandidate
  <2> HIDE DEF c, begin, end, caseEnd, offers
  <2>3. c = [begin |-> begin, end |-> end, replication |-> w[p].replication, unrequested |-> offers]
    BY <1>1, <2>1, <2>2 DEF Candidates
  <2> QED
    BY <2>3 DEF offers
<1>3. toNext = {}
  BY <1>1
<1>4. /\ begin \in 0 .. NumBlocks /\ end \in 0 .. NumBlocks
      /\ RawBegin[p] <= begin /\ begin <= w[p].begin /\ w[p].end <= end /\ end <= RawEnd[p]
  BY <1>1, PieceBounds
<1>5. /\ w[p].unrequested \subseteq begin .. end - 1
      /\ fromPrev \subseteq begin .. end - 1
      /\ fromNext \subseteq begin .. end - 1
  BY <1>1, <1>4, PieceBounds DEF Span
<1>6. (begin .. end - 1) \subseteq Blocks
  BY <1>1, <1>4, PieceBounds DEF Blocks
<1>7. \A hs : OffersNone(w, hs) => /\ w[p].unrequested \cap hs = {}
                                   /\ fromPrev \cap hs = {}
                                   /\ fromNext \cap hs = {}
  BY DEF OffersNone
<1> HIDE DEF c, begin, end, fromPrev, fromNext, toNext
<1>8. c \in Candidates
  BY <1>1, <1>2, <1>4, <1>5, <1>6 DEF Candidates
<1>9. c.begin = begin /\ c.end = end /\ c.unrequested \subseteq Span(c)
  BY <1>2, <1>5 DEF Span
<1>10. \A hs : OffersNone(w, hs) => c.unrequested \cap hs = {}
  BY <1>2, <1>7
<1>11. w[p].unrequested \subseteq c.unrequested
  BY <1>2, <1>3
<1> QED
  BY <1>8, <1>9, <1>10, <1>11 DEF c, begin, end

\* A new candidate takes what its neighbours leave.
LEMMA NewCandidateOK ==
    ASSUME NEW w, WellFormed(w), NEW tracked \in SUBSET Pieces, NEW p \in tracked, p \notin DOMAIN w,
           NEW has, NEW repl, repl[p] \in Int
    PROVE  LET c == NewCandidate(w, has, tracked, repl, p)
           IN /\ c \in Candidates
              /\ c.begin = IF p - 1 \in tracked /\ p - 1 \in DOMAIN w THEN w[p - 1].end
                           ELSE IF p - 1 \in tracked THEN RawEnd[p - 1]
                           ELSE RawBegin[p]
              /\ c.end = IF p + 1 \in tracked \cap DOMAIN w THEN w[p + 1].begin ELSE RawEnd[p]
              /\ c.begin <= c.end
              /\ c.unrequested \subseteq Span(c)
              /\ c.unrequested \cap has = {}
<1> DEFINE c == NewCandidate(w, has, tracked, repl, p)
           begin == IF p - 1 \in tracked /\ p - 1 \in DOMAIN w THEN w[p - 1].end
                    ELSE IF p - 1 \in tracked THEN RawEnd[p - 1]
                    ELSE RawBegin[p]
           end == IF p + 1 \in tracked \cap DOMAIN w THEN w[p + 1].begin ELSE RawEnd[p]
<1>1. /\ p \in Pieces /\ (p - 1) + 1 = p /\ (p - 1) + 2 = p + 1 /\ (p + 1) - 1 = p
      /\ p - 1 \in tracked => p - 1 \in Pieces
      /\ p + 1 \in tracked => p + 1 \in Pieces
  BY DEF Pieces
<1>2. p - 1 \in Pieces =>
          /\ RawBegin[p] <= RawEnd[p - 1] /\ RawEnd[p - 1] <= RawEnd[p]
          /\ RawEnd[p - 1] \in Int
          /\ p + 1 \in Pieces => RawEnd[p - 1] <= RawBegin[p + 1]
  BY <1>1, NextPiece, PieceBounds
<1>3. p + 1 \in Pieces => /\ RawBegin[p + 1] <= RawEnd[p] /\ RawBegin[p] <= RawBegin[p + 1]
                          /\ RawBegin[p + 1] \in Int
  BY <1>1, NextPiece, PieceBounds
<1>4. p - 1 \in tracked /\ p - 1 \in DOMAIN w =>
          /\ w[p - 1].end \in Int
          /\ RawBegin[p] <= w[p - 1].end
          /\ w[p - 1].end <= RawEnd[p - 1]
  BY <1>1, Spans
<1>5. p + 1 \in tracked /\ p + 1 \in DOMAIN w =>
          /\ w[p + 1].begin \in Int
          /\ RawBegin[p + 1] <= w[p + 1].begin
          /\ w[p + 1].begin <= RawEnd[p]
  BY <1>1, Spans
<1>6. /\ begin \in Int /\ RawBegin[p] <= begin
      /\ begin <= IF p - 1 \in Pieces THEN RawEnd[p - 1] ELSE RawBegin[p]
  BY <1>1, <1>2, <1>4, PieceBounds
<1>7. /\ end \in Int /\ end <= RawEnd[p]
      /\ end >= IF p + 1 \in Pieces THEN RawBegin[p + 1] ELSE RawEnd[p]
  BY <1>1, <1>3, <1>5, PieceBounds
<1>8. begin <= end
  BY <1>1, <1>2, <1>3, <1>6, <1>7, PieceBounds
<1>9. c = [begin |-> begin, end |-> end, replication |-> repl[p],
           unrequested |-> (begin .. end - 1) \ has]
  <2>1. begin = IF p - 1 \in tracked /\ PassedEnd(w, p - 1) > RawBegin[p]
                THEN PassedEnd(w, p - 1) ELSE RawBegin[p]
    BY <1>1, <1>2, <1>4, PieceBounds DEF PassedEnd
  <2>2. end = IF p + 1 \in tracked \cap DOMAIN w /\ w[p + 1].begin < RawEnd[p]
              THEN w[p + 1].begin ELSE RawEnd[p]
    BY <1>1, <1>3, <1>5, PieceBounds
  <2> HIDE DEF begin, end
  <2> QED
    BY <2>1, <2>2 DEF NewCandidate
<1>10. /\ begin \in 0 .. NumBlocks /\ end \in 0 .. NumBlocks
       /\ (begin .. end - 1) \subseteq Blocks
  BY <1>1, <1>6, <1>7, <1>8, PieceBounds DEF Blocks
<1> HIDE DEF c, begin, end
<1>11. c \in Candidates
  BY <1>9, <1>10 DEF Candidates
<1>12. /\ c.begin = begin /\ c.end = end
       /\ c.unrequested \subseteq Span(c) /\ c.unrequested \cap has = {}
  BY <1>9 DEF Span
<1> QED
  BY <1>8, <1>11, <1>12 DEF c, begin, end

\* Upkeep keeps the candidates well formed and offers no block that is had.
LEMMA UpkeepOK ==
    ASSUME NEW w, WellFormed(w), NEW has, OffersNone(w, has),
           NEW wanted \in SUBSET Pieces, NEW repl \in [Pieces -> Int]
    PROVE  /\ WellFormed(Upkeep(w, has, wanted, repl))
           /\ DOMAIN Upkeep(w, has, wanted, repl) = ShouldTrack(has, wanted)
           /\ OffersNone(Upkeep(w, has, wanted, repl), has)
<1> DEFINE tracked == ShouldTrack(has, wanted)
           dropped == DOMAIN w \ tracked
           v == Upkeep(w, has, wanted, repl)
<1>1. tracked \in SUBSET Pieces
  BY DEF ShouldTrack
<1>2. /\ DOMAIN v = tracked /\ v = [p \in tracked |-> v[p]]
      /\ \A p \in tracked : v[p] = IF p \in DOMAIN w THEN KeptCandidate(w, tracked, p)
                                   ELSE NewCandidate(w, has, tracked, repl, p)
  BY DEF Upkeep
<1> HIDE DEF v, tracked
<1>3. \A p \in tracked \cap DOMAIN w :
        /\ v[p] \in Candidates
        /\ v[p].begin = IF p - 1 \in dropped THEN RawBegin[p] ELSE w[p].begin
        /\ v[p].end = IF p + 1 \in dropped THEN RawEnd[p] ELSE w[p].end
        /\ v[p].unrequested \subseteq Span(v[p])
        /\ v[p].unrequested \cap has = {}
  <2>1. SUFFICES ASSUME NEW p \in tracked \cap DOMAIN w
                 PROVE  LET c == KeptCandidate(w, tracked, p)
                        IN /\ c \in Candidates
                           /\ c.begin = IF p - 1 \in dropped THEN RawBegin[p] ELSE w[p].begin
                           /\ c.end = IF p + 1 \in dropped THEN RawEnd[p] ELSE w[p].end
                           /\ c.unrequested \subseteq Span(c)
                           /\ c.unrequested \cap has = {}
    BY <1>2
  <2> QED
    BY <1>1, <2>1, KeptCandidateOK
<1>4. \A p \in tracked \ DOMAIN w :
        /\ v[p] \in Candidates
        /\ v[p].begin = IF p - 1 \in tracked /\ p - 1 \in DOMAIN w THEN w[p - 1].end
                        ELSE IF p - 1 \in tracked THEN RawEnd[p - 1]
                        ELSE RawBegin[p]
        /\ v[p].end = IF p + 1 \in tracked \cap DOMAIN w THEN w[p + 1].begin ELSE RawEnd[p]
        /\ v[p].begin <= v[p].end
        /\ v[p].unrequested \subseteq Span(v[p])
        /\ v[p].unrequested \cap has = {}
  <2>1. SUFFICES ASSUME NEW p \in tracked \ DOMAIN w
                 PROVE  LET c == NewCandidate(w, has, tracked, repl, p)
                        IN /\ c \in Candidates
                           /\ c.begin = IF p - 1 \in tracked /\ p - 1 \in DOMAIN w THEN w[p - 1].end
                                        ELSE IF p - 1 \in tracked THEN RawEnd[p - 1]
                                        ELSE RawBegin[p]
                           /\ c.end = IF p + 1 \in tracked \cap DOMAIN w THEN w[p + 1].begin ELSE RawEnd[p]
                           /\ c.begin <= c.end
                           /\ c.unrequested \subseteq Span(c)
                           /\ c.unrequested \cap has = {}
    BY <1>2
  <2>2. p \in tracked /\ p \notin DOMAIN w /\ repl[p] \in Int
    BY <1>1, <2>1
  <2> HIDE DEF NewCandidate
  <2> QED
    BY <1>1, <2>2, NewCandidateOK
<1>5. IsWishlist(v)
  BY <1>1, <1>2, <1>3, <1>4 DEF IsWishlist
<1>6. OffersOwn(v) /\ OffersNone(v, has)
  BY <1>2, <1>3, <1>4 DEF OffersOwn, OffersNone
<1>7. SpanOK(v)
  <2>1. SUFFICES ASSUME NEW p \in tracked
                 PROVE  /\ RawBegin[p] <= v[p].begin
                        /\ v[p].begin <= v[p].end
                        /\ v[p].end <= RawEnd[p]
                        /\ v[p].begin <= IF p - 1 \in Pieces THEN RawEnd[p - 1] ELSE RawBegin[p]
                        /\ v[p].end >= IF p + 1 \in Pieces THEN RawBegin[p + 1] ELSE RawEnd[p]
    BY <1>2 DEF SpanOK
  <2>2. /\ p \in Pieces /\ (p - 1) + 1 = p /\ (p + 1) - 1 = p
        /\ p - 1 \in Pieces => RawBegin[p] <= RawEnd[p - 1]
        /\ p + 1 \in Pieces => RawBegin[p + 1] <= RawEnd[p]
    BY <1>1, NextPiece DEF Pieces
  <2>3. CASE p \in DOMAIN w
    BY <1>3, <2>1, <2>2, <2>3, Spans, PieceBounds
  <2>4. CASE p \notin DOMAIN w
    <3>1. p - 1 \in tracked /\ p - 1 \in DOMAIN w =>
              RawBegin[p] <= w[p - 1].end /\ w[p - 1].end <= RawEnd[p - 1]
      BY <1>1, <2>2, Spans
    <3>2. p + 1 \in tracked /\ p + 1 \in DOMAIN w =>
              RawBegin[p + 1] <= w[p + 1].begin /\ w[p + 1].begin <= RawEnd[p]
      BY <1>1, <2>2, Spans
    <3> QED
      BY <1>1, <1>4, <2>2, <2>4, <3>1, <3>2, PieceBounds
  <2> QED
    BY <2>3, <2>4
<1>8. Meet(v)
  <2>1. SUFFICES ASSUME NEW p \in tracked, p + 1 \in tracked
                 PROVE  v[p].end = v[p + 1].begin
    BY <1>2 DEF Meet
  <2>2. p \in Pieces /\ p + 1 \in Pieces /\ (p + 1) - 1 = p
    BY <1>1, <2>1 DEF Pieces
  <2>3. CASE p \in DOMAIN w /\ p + 1 \in DOMAIN w
    BY <1>3, <2>1, <2>2, <2>3, Spans
  <2>4. CASE p \in DOMAIN w /\ p + 1 \notin DOMAIN w
    BY <1>3, <1>4, <2>1, <2>2, <2>4
  <2>5. CASE p \notin DOMAIN w /\ p + 1 \in DOMAIN w
    BY <1>3, <1>4, <2>1, <2>2, <2>5
  <2>6. CASE p \notin DOMAIN w /\ p + 1 \notin DOMAIN w
    BY <1>4, <2>1, <2>2, <2>6
  <2> QED
    BY <2>3, <2>4, <2>5, <2>6
<1> QED
  BY <1>2, <1>5, <1>6, <1>7, <1>8 DEF WellFormed, v, tracked

\* No block has two owners: spans that meet do not overlap.
LEMMA SpansApart ==
    ASSUME NEW w, WellFormed(w), NEW p \in DOMAIN w, NEW q \in DOMAIN w, p # q
    PROVE  Span(w[p]) \cap Span(w[q]) = {}
<1>1. ASSUME NEW i \in DOMAIN w, NEW j \in DOMAIN w, i < j
      PROVE  Span(w[i]) \cap Span(w[j]) = {}
  <2>1. i \in Pieces /\ j \in Pieces
    BY Spans
  <2>2. CASE j = i + 1
    BY <1>1, <2>2, Spans DEF Span
  <2>3. CASE j # i + 1
    <3>1. i + 1 < j
      BY <1>1, <2>1, <2>3 DEF Pieces
    <3>2. RawEnd[i] <= RawBegin[j]
      BY <2>1, <3>1, GeometryAssumption
    <3> QED
      BY <2>1, <3>2, Spans, PieceBounds DEF Span
  <2> QED
    BY <2>2, <2>3
<1>2. p \in Int /\ q \in Int
  BY Spans DEF Pieces
<1> QED
  BY <1>1, <1>2
=============================================================================
