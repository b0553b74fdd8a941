------------------------------ MODULE Wishlist ------------------------------
(***************************************************************************)
(* The download wishlist of one torrent: which blocks of the wanted pieces *)
(* still have to be requested (libtransmission/peer-mgr-wishlist.cc).      *)
(*                                                                         *)
(* A wishlist is a function from the pieces it tracks to candidates.  Two  *)
(* consecutive pieces may share the block at their common edge; a tracked  *)
(* piece therefore carries, besides its raw block span, the block_span it  *)
(* currently owns.  Every operator below is one signal handler of          *)
(* Wishlist::Impl, as a function from wishlist to wishlist.  The order of  *)
(* the candidates is left out: it matters only to NextBlocks, which allows  *)
(* every choice that some order allows.                                    *)
(*                                                                         *)
(* Definitions called ...Fault are the wrong code a property must notice;  *)
(* the specification does not use them.                                    *)
(*                                                                         *)
(* The module has no state and no recursion: candidate_list_upkeep is      *)
(* given in closed form.                                                   *)
(***************************************************************************)
EXTENDS Integers, FiniteSets

CONSTANTS NumPieces,   \* number of pieces of the torrent
          RawBegin,    \* RawBegin[p]: first block of piece p
          RawEnd       \* RawEnd[p]: the block after the last block of piece p

Pieces == 0 .. NumPieces - 1

\* Pieces tile the torrent: the first block of a piece is the last block of
\* the piece before it, or the block after that.  A piece in the middle is at
\* least one block long, so a block touches two pieces at most.
ASSUME GeometryAssumption ==
    /\ NumPieces \in Nat \ {0}
    /\ RawBegin \in [Pieces -> Nat]
    /\ RawEnd \in [Pieces -> Nat]
    /\ RawBegin[0] = 0
    /\ \A p \in Pieces : RawBegin[p] < RawEnd[p]
    /\ \A p \in Pieces : p + 1 \in Pieces => RawBegin[p + 1] \in {RawEnd[p] - 1, RawEnd[p]}
    /\ \A p, q \in Pieces : p <= q => RawBegin[p] <= RawBegin[q] /\ RawEnd[p] <= RawEnd[q]
    /\ \A p, q \in Pieces : p + 1 < q => RawEnd[p] <= RawBegin[q]

NumBlocks == RawEnd[NumPieces - 1]
Blocks == 0 .. NumBlocks - 1

\* mediator.block_span(piece)
RawSpan(p) == RawBegin[p] .. RawEnd[p] - 1

\* The pieces that have bytes in block b.
PiecesOf(b) == {p \in Pieces : b \in RawSpan(p)}

HasPiece(has, p) == RawSpan(p) \subseteq has

Candidates == [begin : 0 .. NumBlocks, end : 0 .. NumBlocks,
               unrequested : SUBSET Blocks, replication : Int]

IsWishlist(w) == DOMAIN w \subseteq Pieces /\ w \in [DOMAIN w -> Candidates]

NoWishlist == [p \in {} |-> 0]

\* Candidate::block_span of a candidate.
Span(c) == c.begin .. c.end - 1

TotalUnrequested(w) == UNION {w[p].unrequested : p \in DOMAIN w}

-----------------------------------------------------------------------------
(* Signals that touch block bookkeeping.                                   *)

\* Fault: a sent request is not noted.
RequestedBlocksFault(w, bs) == w

\* requested_block_span(): the blocks of a sent request leave `unrequested`.
RequestedBlocks(w, bs) ==
    [p \in DOMAIN w |-> [w[p] EXCEPT !.unrequested = @ \ (bs \cap Span(w[p]))]]

\* reset_block() and reset_blocks_bitfield(): requests that were cancelled,
\* rejected, choked away or lost with their peer can be made again.
ResetBlocks(w, bs) ==
    [p \in DOMAIN w |-> [w[p] EXCEPT !.unrequested = @ \cup (bs \cap Span(w[p]))]]

\* client_got_block()
GotBlock(w, b) ==
    [p \in DOMAIN w |-> [w[p] EXCEPT !.unrequested = @ \ ({b} \cap Span(w[p]))]]

\* remove_piece(): a completed piece is no longer tracked.  The spans of its
\* neighbours stay as they are.
RemovePiece(w, piece) == [p \in DOMAIN w \ {piece} |-> w[p]]

\* The span that got_bad_piece() gives a tracked piece: all of its raw span
\* but what the tracked neighbours own.
BadBegin(w, p) ==
    IF p - 1 \in DOMAIN w /\ w[p - 1].end > RawBegin[p] THEN w[p - 1].end ELSE RawBegin[p]
BadEnd(w, p) ==
    IF p + 1 \in DOMAIN w /\ w[p + 1].begin < RawEnd[p] THEN w[p + 1].begin ELSE RawEnd[p]

\* Fault: the blocks of a bad piece are not put back.
GotBadPieceFault(w, piece) == w

\* got_bad_piece(): every block of the piece has to be requested again, an
\* edge block by the neighbour that owns it.  Ignored for an untracked piece.
GotBadPiece(w, piece) ==
    IF piece \notin DOMAIN w THEN w
    ELSE LET begin == BadBegin(w, piece)
             end   == BadEnd(w, piece)
         IN [p \in DOMAIN w |->
               CASE p = piece     -> [w[p] EXCEPT !.begin = begin, !.end = end,
                                                  !.unrequested = @ \cup (begin .. end - 1)]
                 [] p = piece - 1 -> [w[p] EXCEPT !.unrequested = @ \cup (RawBegin[piece] .. begin - 1)]
                 [] p = piece + 1 -> [w[p] EXCEPT !.unrequested = @ \cup (end .. RawEnd[piece] - 1)]
                 [] OTHER         -> w[p]]

-----------------------------------------------------------------------------
(* Signals that touch replication.                                         *)

\* Fault: a peer that has everything is not counted, as one that has nothing.
IncReplicationFault(w, ps) ==
    [p \in DOMAIN w |-> IF p \in ps /\ ps # Pieces THEN [w[p] EXCEPT !.replication = @ + 1] ELSE w[p]]

\* inc_replication(), inc_replication_bitfield() and inc_replication_piece().
IncReplication(w, ps) ==
    [p \in DOMAIN w |-> IF p \in ps THEN [w[p] EXCEPT !.replication = @ + 1] ELSE w[p]]

\* dec_replication() and dec_replication_bitfield().
DecReplication(w, ps) ==
    [p \in DOMAIN w |-> IF p \in ps THEN [w[p] EXCEPT !.replication = @ - 1] ELSE w[p]]

\* Fault: the requests of a peer that leaves stay out.
PeerDisconnectFault(w, have, requests) == DecReplication(w, have)

\* peer_disconnect()
PeerDisconnect(w, have, requests) == ResetBlocks(DecReplication(w, have), requests)

-----------------------------------------------------------------------------
(* candidate_list_upkeep(): bring the tracked pieces in line with the      *)
(* pieces that are wanted and incomplete.  `repl' is the mediator's        *)
(* count_piece_replication() of each piece.                                *)

ShouldTrack(has, wanted) == {p \in wanted : ~HasPiece(has, p)}

\* Where the block span of piece p ends when the loop has passed p: a kept
\* candidate as it was, a new one at its raw end.
PassedEnd(w, p) == IF p \in DOMAIN w THEN w[p].end ELSE RawEnd[p]

\* A kept candidate: an edge comes back from a neighbour that is dropped,
\* with its unrequested blocks, and the end gives way to a kept successor.
KeptCandidate(w, tracked, p) ==
    LET dropped  == DOMAIN w \ tracked
        fromPrev == IF p - 1 \in dropped
                    THEN w[p - 1].unrequested \cap (RawBegin[p] .. w[p].begin - 1) ELSE {}
        toNext   == IF p + 1 \in DOMAIN w \cap tracked
                    THEN w[p + 1].begin .. w[p].end - 1 ELSE {}
        fromNext == IF p + 1 \in dropped
                    THEN w[p + 1].unrequested \cap (w[p].end .. RawEnd[p] - 1) ELSE {}
    IN [w[p] EXCEPT
          !.begin = IF p - 1 \in dropped THEN RawBegin[p] ELSE @,
          !.end = CASE p + 1 \in dropped -> RawEnd[p]
                    [] p + 1 \in DOMAIN w \cap tracked /\ w[p + 1].begin < @ -> w[p + 1].begin
                    [] OTHER -> @,
          !.unrequested = ((@ \cup fromPrev) \ toNext) \cup fromNext]

\* Faults: one block too many; the neighbour before it is ignored.
NewCandidateFault1(w, has, tracked, repl, p) ==
    [begin |-> RawBegin[p], end |-> RawEnd[p], replication |-> repl[p],
     unrequested |-> (RawBegin[p] .. RawEnd[p]) \ has]
NewCandidateFault2(w, has, tracked, repl, p) ==
    [begin |-> RawBegin[p], replication |-> repl[p],
     end |-> IF p + 1 \in tracked \cap DOMAIN w THEN w[p + 1].begin ELSE RawEnd[p],
     unrequested |-> RawSpan(p) \ has]

\* A new candidate: it gives way to the candidate before it and to a kept
\* candidate after it.
NewCandidate(w, has, tracked, repl, p) ==
    LET begin == IF p - 1 \in tracked /\ PassedEnd(w, p - 1) > RawBegin[p]
                 THEN PassedEnd(w, p - 1) ELSE RawBegin[p]
        end   == IF p + 1 \in tracked \cap DOMAIN w /\ w[p + 1].begin < RawEnd[p]
                 THEN w[p + 1].begin ELSE RawEnd[p]
    IN [begin |-> begin, end |-> end, replication |-> repl[p],
        unrequested |-> (begin .. end - 1) \ has]

Upkeep(w, has, wanted, repl) ==
    LET tracked == ShouldTrack(has, wanted)
    IN [p \in tracked |-> IF p \in DOMAIN w THEN KeptCandidate(w, tracked, p)
                                            ELSE NewCandidate(w, has, tracked, repl, p)]

-----------------------------------------------------------------------------
(* next(): at most n blocks for a peer that has the pieces `have'.         *)

\* Fault: asks a peer for pieces it does not have.
EligibleFault(w, have) == {p \in DOMAIN w : w[p].replication # 0}

Eligible(w, have) == {p \in DOMAIN w : p \in have /\ w[p].replication # 0}

\* The candidates are walked in order, fewest unrequested blocks first; each
\* one but the last that is used gives all its unrequested blocks, the last
\* gives its smallest ones.
IsNext(w, have, n, bs) ==
    LET ps == Eligible(w, have)
        offered == UNION {w[p].unrequested : p \in ps}
        used(p) == w[p].unrequested \cap bs # {}
        left(p) == w[p].unrequested \ bs # {}
        total == Cardinality(offered)
    IN /\ bs \subseteq offered
       /\ Cardinality(bs) = IF n < total THEN n ELSE total
       /\ \A p \in ps : \A b \in w[p].unrequested \cap bs, c \in w[p].unrequested \ bs : b < c
       /\ \A p, q \in ps : p # q /\ used(p) /\ left(q) =>
              /\ Cardinality(w[p].unrequested) <= Cardinality(w[q].unrequested)
              /\ ~(left(p) /\ used(q))

NextBlocks(w, have, n) == {bs \in SUBSET TotalUnrequested(w) : IsNext(w, have, n, bs)}
=============================================================================
