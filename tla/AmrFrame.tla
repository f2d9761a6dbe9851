------------------------------ MODULE AmrFrame ------------------------------
(* The frames of the AMR codec: parameters become serial bits (Prm2bits), a  *)
(* pause's frame gets the type and mode of its SID (AMREncode), the bits are *)
(* put in the order of their importance and packed into octets, in one of    *)
(* three formats (ets_to_ietf, ets_to_wmf, ets_to_if2), and the decoder      *)
(* takes all of it apart again (wmf_to_ets, if2_to_ets, AMRDecode,           *)
(* Bits2prm).  An octet is a function from its bits 0..7, the lowest first.  *)
(* The module has no state.                                                  *)
EXTENDS Integers, Sequences

CONSTANTS
    reorderBits,    \* for each speech frame type, the bits in order of importance
    bitno           \* for each mode and for SID, the widths of its parameters

\* Frame_Type_3GPP; a mode has the number of its frame type.
SpeechTypes == 0 .. 7
AMR_SID     == 8
AMR_NO_DATA == 15
FrameTypes  == 0 .. 15
SentTypes   == SpeechTypes \cup {AMR_SID, AMR_NO_DATA}

numOfBits(t) ==
    <<95, 103, 118, 134, 148, 159, 204, 244, 39, 43, 38, 37, 0, 0, 0, 0>>[t + 1]

MAX_SERIAL_SIZE == 244

\* The octets of a frame the encoder counts and the decoder skips; the IETF
\* decoder does not count the header.
WmfEncBytesPerFrame(t) ==
    <<13, 14, 16, 18, 20, 21, 27, 32, 6, 7, 6, 6, 0, 0, 0, 1>>[t + 1]
WmfDecBytesPerFrame(t) ==
    <<12, 13, 15, 17, 19, 20, 26, 31, 5, 6, 5, 5, 0, 0, 0, 0>>[t + 1]
If2EncBytesPerFrame(t) ==
    <<13, 14, 16, 18, 19, 21, 26, 31, 6, 6, 6, 6, 0, 0, 0, 1>>[t + 1]
If2DecBytesPerFrame(t) ==
    <<13, 14, 16, 18, 19, 21, 26, 31, 6, 6, 6, 6, 0, 0, 0, 1>>[t + 1]
numCompressedBytes(t) ==
    <<13, 14, 16, 18, 19, 21, 26, 31, 6, 6, 6, 6, 0, 0, 0, 1>>[t + 1]

\* The reordering tables are permutations of the bits of their frame.
ASSUME ReorderAssumption ==
    \A t \in SpeechTypes :
        LET bits == 0 .. numOfBits(t) - 1
        IN  /\ reorderBits[t] \in [bits -> bits]
            /\ \A i, j \in bits : reorderBits[t][i] = reorderBits[t][j] => i = j
            /\ \A b \in bits : \E i \in bits : reorderBits[t][i] = b

-----------------------------------------------------------------------------
(* Parameters and serial bits.                                               *)

Pow2(k) == <<1, 2, 4, 8, 16, 32, 64, 128, 256, 512, 1024, 2048, 4096, 8192>>[k + 1]

\* Where the bits of parameter i begin: after those of all before it.
Start(m) ==
    LET start[i \in 1 .. Len(bitno[m]) + 1] ==
            IF i = 1 THEN 0 ELSE start[i - 1] + bitno[m][i - 1]
    IN  start

\* The widths are those of a frame without its SID type and mode.
ASSUME BitnoAssumption ==
    \A m \in SpeechTypes \cup {AMR_SID} :
        /\ bitno[m] \in Seq(1 .. 13)
        /\ \A i \in 1 .. Len(bitno[m]) :
             /\ Start(m)[i] \in Nat
             /\ Start(m)[i] + bitno[m][i] <= IF m = AMR_SID THEN 35 ELSE numOfBits(m)
             /\ \A j \in i + 1 .. Len(bitno[m]) : Start(m)[i] + bitno[m][i] <= Start(m)[j]

\* Int2bin shifts from the last bit back, Bin2int from the first on.
Int2bin(value, no) == [k \in 0 .. no - 1 |-> (value \div Pow2(no - 1 - k)) % 2]

Values(no, bit) ==
    LET value[i \in 0 .. no] == IF i = 0 THEN 0 ELSE 2 * value[i - 1] + bit[i - 1]
    IN  value

Bin2int(no, bit) == Values(no, bit)[no]

\* The parameters of a frame of mode m, each within its width.
Parameters(m) ==
    {prm \in [1 .. Len(bitno[m]) -> Nat] :
        \A i \in 1 .. Len(bitno[m]) : prm[i] < Pow2(bitno[m][i])}

\* The parameter that bit p belongs to.
Owner(m, p) ==
    CHOOSE i \in 1 .. Len(bitno[m]) : p \in Start(m)[i] .. Start(m)[i] + bitno[m][i] - 1

\* Prm2bits over bits that still hold what was there before.
Prm2bits(m, prm, bits) ==
    [p \in 0 .. MAX_SERIAL_SIZE - 1 |->
        IF \E i \in 1 .. Len(bitno[m]) : p \in Start(m)[i] .. Start(m)[i] + bitno[m][i] - 1
        THEN LET i == Owner(m, p) IN Int2bin(prm[i], bitno[m][i])[p - Start(m)[i]]
        ELSE bits[p]]

Bits2prm(m, bits) ==
    [i \in 1 .. Len(bitno[m]) |->
        Bin2int(bitno[m][i], [k \in 0 .. bitno[m][i] - 1 |-> bits[Start(m)[i] + k]])]

-----------------------------------------------------------------------------
(* The type and the mode of a SID.                                           *)

TxTypeBit == 35
TxModeBit == 36

\* AMREncode: bits of a SID; a first SID clears the type bit, an update sets it.
SidBits(bits, update, mode) ==
    [p \in DOMAIN bits |->
        IF p = TxTypeBit THEN IF update THEN 1 ELSE 0
        ELSE IF p \in TxModeBit .. TxModeBit + 2 THEN (mode \div Pow2(p - TxModeBit)) % 2
        ELSE bits[p]]

\* AMRDecode
SidMode(bits)   == bits[TxModeBit] + 2 * bits[TxModeBit + 1] + 4 * bits[TxModeBit + 2]
SidUpdate(bits) == bits[TxTypeBit] # 0

-----------------------------------------------------------------------------
(* Octets.                                                                   *)

\* The serial bit that is sent as the i-th.
Nth(t, i) == IF t < AMR_SID THEN reorderBits[t][i] ELSE i

\* Rounds of a loop that takes eight of k until none is left.
Rounds(k) == IF k <= 0 THEN 0 ELSE (k + 7) \div 8

\* n - (n & 0xFFF8)
BitsLeft(n) == n - (n - (n % 8))

\* ets_to_wmf and ets_to_ietf after the header: whole octets, then the bits
\* left over and zeros; the first bit is the highest.
WmfOctets(t, bits) ==
    LET n == numOfBits(t)
        whole == Rounds(n - 7)
    IN  [j \in 0 .. whole |-> [k \in 0 .. 7 |->
            IF j < whole \/ 7 - k < BitsLeft(n) THEN bits[Nth(t, 8 * j + 7 - k)] ELSE 0]]

ets_to_wmf(t, bits)  == [header |-> t % 16, octets |-> WmfOctets(t, bits)]
ets_to_ietf(t, bits) == [header |-> (8 * t) % 256, octets |-> WmfOctets(t, bits)]

\* Encoder_Interface_Encode marks the frame as good: out[0] |= 0x04.
Marked(frame) ==
    [frame EXCEPT !.header = IF (@ \div 4) % 2 = 1 THEN @ ELSE @ + 4]

\* Decoder_Interface_Decode: the frame type of an IETF header.
HeaderType(frame) == (frame.header \div 8) % 16

\* wmf_to_ets: the i-th bit sent goes back to its place.
wmf_to_ets(t, octets) ==
    [p \in 0 .. numOfBits(t) - 1 |->
        LET i == CHOOSE i \in 0 .. numOfBits(t) - 1 : Nth(t, i) = p
        IN  octets[i \div 8][7 - (i % 8)]]

\* ets_to_if2: four bits of type, the first bit is the lowest, and no spare octet.
If2Whole(t) ==
    IF t < AMR_SID THEN Rounds(numOfBits(t) - 7 - 4)
    ELSE ((4 + numOfBits(t)) - ((4 + numOfBits(t)) % 8) - 7) \div 8

If2Last(t) == IF BitsLeft(4 + numOfBits(t)) # 0 THEN If2Whole(t) + 1 ELSE If2Whole(t)

ets_to_if2(t, bits) ==
    IF t = AMR_NO_DATA THEN [j \in {0} |-> [k \in 0 .. 7 |-> IF k < 4 THEN 1 ELSE 0]]
    ELSE [j \in 0 .. If2Last(t) |-> [k \in 0 .. 7 |->
            IF j = 0 /\ k < 4 THEN (t \div Pow2(k)) % 2
            ELSE IF j <= If2Whole(t) \/ k < BitsLeft(4 + numOfBits(t))
            THEN bits[Nth(t, 8 * j + k - 4)] ELSE 0]]

\* if2_to_ets writes the bits of all its octets, in a speech frame only as
\* many as it has.
If2Bits(t) ==
    LET read == 4 + 8 * (numCompressedBytes(t) - 1)
    IN  IF numCompressedBytes(t) = 0 THEN 4
        ELSE IF t < AMR_SID /\ numOfBits(t) < read THEN numOfBits(t) ELSE read

if2_to_ets(t, octets) ==
    [p \in 0 .. If2Bits(t) - 1 |->
        LET i == CHOOSE i \in 0 .. If2Bits(t) - 1 : Nth(t, i) = p
        IN  octets[(i + 4) \div 8][(i + 4) % 8]]

=============================================================================
