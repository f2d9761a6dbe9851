---------------------------- MODULE AmrCodebook ----------------------------
(* The algebraic codebooks of the AMR codec: the encoder picks a few pulses  *)
(* of fixed size among the forty positions of a subframe and packs their     *)
(* positions and signs into the bits of the mode (build_code, compress_code, *)
(* q_p); the decoder unpacks them (decode_2i40_9bits ... dec_10i40_35bits).  *)
(* Where two pulses share a track only one sign is sent: the order of the    *)
(* two positions tells the other.                                            *)
(*                                                                           *)
(* The searches are left out: they may find any pulses of the tracks they    *)
(* visit.  A sign belongs to a position (set_sign, set_sign12k2), so pulses  *)
(* on one position agree.  The module has no state.                          *)
EXTENDS Integers

L_CODE    == 40
Positions == 0 .. L_CODE - 1
Pulses    == [at: Positions, neg: BOOLEAN]

Pulse(at, neg) == [at |-> at, neg |-> neg]

Agree(p, q) == p.at = q.at => p.neg = q.neg

\* Position within its track: a multiplication with 1/5 in Q15.
Cell(i)  == (i * 6554) \div 32768
Track(i) == i - 5 * Cell(i)

\* The sign word of the small codebooks has a one for every positive pulse.
SignBit(p, bit)  == IF p.neg THEN 0 ELSE bit
IsNeg(sign, bit) == (sign \div bit) % 2 = 0

\* The decoder of a small codebook assigns: a later pulse replaces an earlier.
Placed(p, q) == IF p.at = q.at THEN {q} ELSE {p, q}

\* gray_tbl.cpp
gray(i)  == <<0, 1, 3, 2, 6, 4, 5, 7>>[i + 1]
dgray(i) == <<0, 1, 3, 2, 5, 6, 4, 7>>[i + 1]

-----------------------------------------------------------------------------
(* MR475, MR515: two pulses, 7 bits and 2 signs; the tracks depend on the    *)
(* subframe s.                                                               *)

\* c2_9pf_tab.cpp
startPos(k) == <<0, 2, 0, 3, 0, 2, 0, 3, 1, 3, 2, 4, 1, 4, 1, 4>>[k + 1]

\* c2_9pf.cpp
trackTable(k) ==
    <<0, 1, 0, 1, -1, 0, -1, 1, 0, 1, 0, 1, 0, -1, 1, 0, 1, -1, 0, 1>>[k + 1]

\* The first and second pulses search_2i40 tries.
Chosen9(s, p, q) ==
    \E t \in 0 .. 1 : /\ Track(p.at) = startPos(2 * s + 8 * t)
                      /\ Track(q.at) = startPos(2 * s + 8 * t + 1)

Index9(s, p, q) ==
    Cell(p.at) + (IF trackTable(5 * s + Track(p.at)) # 0 THEN 64 ELSE 0)
        + 8 * Cell(q.at)

Sign9(p, q) == SignBit(p, 1) + SignBit(q, 2)

decode_2i40_9bits(s, sign, index) ==
    LET k == 2 * s + 8 * ((index \div 64) % 2)
    IN  Placed(Pulse((index % 8) * 5 + startPos(k), IsNeg(sign, 1)),
               Pulse(((index \div 8) % 8) * 5 + startPos(k + 1), IsNeg(sign, 2)))

-----------------------------------------------------------------------------
(* MR59: two pulses, 9 bits and 2 signs.  Both may be on track 1.            *)

Chosen11(p, q) == Track(p.at) \in {1, 3} /\ Track(q.at) \in {0, 1, 2, 4}

Index11(p, q) ==
    2 * Cell(p.at) + (IF Track(p.at) = 3 THEN 1 ELSE 0)
        + 64 * Cell(q.at) + (IF Track(q.at) = 4 THEN 48 ELSE 16 * Track(q.at))

Sign11(p, q) == SignBit(p, 1) + SignBit(q, 2)

decode_2i40_11bits(sign, index) ==
    LET j == (index \div 16) % 4
    IN  Placed(Pulse(((index \div 2) % 8) * 5 + 2 * (index % 2) + 1, IsNeg(sign, 1)),
               Pulse(((index \div 64) % 8) * 5 + (IF j = 3 THEN 4 ELSE j),
                     IsNeg(sign, 2)))

-----------------------------------------------------------------------------
(* MR67: three pulses on tracks 0, 1 or 3, 2 or 4; 11 bits and 3 signs.      *)

Chosen14(p, q, r) ==
    Track(p.at) = 0 /\ Track(q.at) \in {1, 3} /\ Track(r.at) \in {2, 4}

Index14(p, q, r) ==
    Cell(p.at) + 16 * Cell(q.at) + (IF Track(q.at) = 3 THEN 8 ELSE 0)
        + 256 * Cell(r.at) + (IF Track(r.at) = 4 THEN 128 ELSE 0)

Sign14(p, q, r) == SignBit(p, 1) + SignBit(q, 2) + SignBit(r, 4)

decode_3i40_14bits(sign, index) ==
    {Pulse((index % 8) * 5, IsNeg(sign, 1)),
     Pulse(((index \div 16) % 8) * 5 + 2 * ((index \div 8) % 2) + 1, IsNeg(sign, 2)),
     Pulse(((index \div 256) % 8) * 5 + 2 * ((index \div 128) % 2) + 2, IsNeg(sign, 4))}

-----------------------------------------------------------------------------
(* MR74, MR795: four pulses on tracks 0, 1, 2, 3 or 4; 13 bits and 4 signs.  *)

Chosen17(p, q, r, u) ==
    /\ Track(p.at) = 0 /\ Track(q.at) = 1 /\ Track(r.at) = 2
    /\ Track(u.at) \in {3, 4}

Index17(p, q, r, u) ==
    gray(Cell(p.at)) + 8 * gray(Cell(q.at)) + 64 * gray(Cell(r.at))
        + 1024 * gray(Cell(u.at)) + (IF Track(u.at) = 4 THEN 512 ELSE 0)

Sign17(p, q, r, u) ==
    SignBit(p, 1) + SignBit(q, 2) + SignBit(r, 4) + SignBit(u, 8)

decode_4i40_17bits(sign, index) ==
    {Pulse(dgray(index % 8) * 5, IsNeg(sign, 1)),
     Pulse(dgray((index \div 8) % 8) * 5 + 1, IsNeg(sign, 2)),
     Pulse(dgray((index \div 64) % 8) * 5 + 2, IsNeg(sign, 4)),
     Pulse(dgray((index \div 1024) % 8) * 5 + 3 + ((index \div 512) % 2),
           IsNeg(sign, 8))}

-----------------------------------------------------------------------------
(* MR102, MR122: two pulses on each track.  build_code sends the sign of the *)
(* first of the two; where both agree the one with the smaller position goes *)
(* first, else the one with the greater.                                     *)

GoesFirst(p, q) == (p.neg = q.neg) <=> (p.at <= q.at)

First(p, q)  == IF GoesFirst(p, q) THEN p ELSE q
Second(p, q) == IF GoesFirst(p, q) THEN q ELSE p

\* The decoder adds up, so pulses on one position make one of twice the size.
Together(pos1, pos2, neg) ==
    {Pulse(pos1, neg), Pulse(pos2, IF pos2 < pos1 THEN ~neg ELSE neg)}

\* MR122: q_p codes the position, the first with its sign in a fourth bit.
Index35(p, q) ==
    <<gray(Cell(First(p, q).at)) + (IF First(p, q).neg THEN 8 ELSE 0),
      gray(Cell(Second(p, q).at))>>

dec_10i40_35bits(track, index1, index2) ==
    Together(dgray(index1 % 8) * 5 + track, dgray(index2 % 8) * 5 + track,
             (index1 \div 8) % 2 = 1)

\* MR102: four tracks of ten positions, so a position is no number of bits.
\* compress10 packs three of them into ten bits, Last the other two in seven.
compress10(a, b, c) ==
    8 * ((a \div 2) + 5 * (b \div 2) + 25 * (c \div 2))
        + (a % 2) + 2 * (b % 2) + 4 * (c % 2)

CompressLast(a, b) ==
    LET half == b \div 2
        low  == IF half % 2 = 1 THEN 4 - a \div 2 ELSE a \div 2
    IN  4 * (((32 * (5 * half + low) + 12) * 1311) \div 32768) + (a % 2) + 2 * (b % 2)

decompress10(index) ==
    LET MSBs == IF index \div 8 > 124 THEN 124 ELSE index \div 8
        LSBs == index % 8
        ic   == (MSBs * 1311) \div 32768
        ia   == MSBs - 25 * ic
        ib   == (ia * 6554) \div 32768
    IN  <<2 * (ia - 5 * ib) + (LSBs % 2), 2 * ib + ((LSBs \div 2) % 2),
          (LSBs \div 4) + 2 * ic>>

DecompressLast(index) ==
    LET MSBs == (25 * (index \div 4) + 12) \div 32
        half == (MSBs * 6554) \div 32768
        low  == MSBs - 5 * half
    IN  <<2 * (IF half % 2 = 1 THEN 4 - low ELSE low) + (index % 2),
          2 * half + ((index % 4) \div 2)>>

\* The pulses of the four tracks, as functions, and what is sent of them.
compress_code(p, q) ==
    LET one(t) == First(p[t], q[t]).at \div 4
        two(t) == Second(p[t], q[t]).at \div 4
    IN  <<compress10(one(0), two(0), one(1)), compress10(one(2), two(2), two(1)),
          CompressLast(one(3), two(3))>>

SentSign(p, q, t) == First(p[t], q[t]).neg

\* decompress_code and the positions of the two pulses of track t.
Decompressed(neg, index, t) ==
    LET a == decompress10(index[1])
        b == decompress10(index[2])
        c == DecompressLast(index[3])
        one == IF t = 0 THEN a[1] ELSE IF t = 1 THEN a[3] ELSE IF t = 2 THEN b[1] ELSE c[1]
        two == IF t = 0 THEN a[2] ELSE IF t = 1 THEN b[3] ELSE IF t = 2 THEN b[2] ELSE c[2]
    IN  Together(4 * one + t, 4 * two + t, neg)

\* The pulses of track t; what would lie outside is not placed.
dec_8i40_31bits(neg, index, t) == {x \in Decompressed(neg, index, t) : x.at < L_CODE}

=============================================================================
