------------------------------ MODULE AmrPitch ------------------------------
(* The pitch lag of the AMR codec, subframe by subframe: the closed-loop     *)
(* search of the encoder picks a lag and a fraction (Pitch_fr), codes it     *)
(* absolutely or against the lag of the subframe before (Enc_lag3/6), and    *)
(* the decoder decodes the index (Dec_lag3/6) or, in a bad frame, goes on    *)
(* from its own last lag (Decoder_amr).  Nothing but the index crosses the   *)
(* line: after lost frames the decoder must find the encoder's lags again.   *)
(* Correlations, gains and the excitation are left out: the search may find  *)
(* any lag of its range.  The module has no state: prev and old stand for    *)
(* T0_prev_subframe of the encoder and old_T0 of the decoder.                *)
EXTENDS Integers

\* cnst.h, inter_36.cpp, pred_lt.cpp
PIT_MIN       == 20
PIT_MIN_MR122 == 18
PIT_MAX       == 143
L_INTERPOL    == 11
L_INTER10     == L_INTERPOL - 1

Modes == {"MR475", "MR515", "MR59", "MR67", "MR74", "MR795", "MR102", "MR122"}

Subframes == 0 .. 3

\* What the open-loop search may find, and what the closed loop makes of it.
OpenLags == PIT_MIN_MR122 .. PIT_MAX
Lags     == PIT_MIN_MR122 - 1 .. PIT_MAX + 1

Lag(T0, frac) == [T0 |-> T0, frac |-> frac]

Bool(b) == IF b THEN 1 ELSE 0
Lesser(a, b) == IF a < b THEN a ELSE b
Greater(a, b) == IF a > b THEN a ELSE b

-----------------------------------------------------------------------------
(* What the modes differ in                                                  *)

\* mode_dep_parm
max_frac_lag(m)    == IF m = "MR122" THEN 94 ELSE 84
flag3(m)           == m # "MR122"
first_frac(m)      == IF flag3(m) THEN -2 ELSE -3
last_frac(m)       == IF flag3(m) THEN 2 ELSE 3
delta_int_low(m)   == IF m \in {"MR475", "MR515"} THEN 5 ELSE 3
delta_int_range(m) == IF m \in {"MR475", "MR515"} THEN 10 ELSE 6
delta_frc_low(m)   == IF m = "MR795" THEN 10 ELSE 5
delta_frc_range(m) == IF m = "MR795" THEN 19 ELSE 9
pit_min(m)         == IF m = "MR122" THEN PIT_MIN_MR122 ELSE PIT_MIN

flag4(m) == m \in {"MR475", "MR515", "MR59", "MR67"}

\* Which subframes code their lag against the one before.
delta(m, s) == s \in {1, 3} \/ (s = 2 /\ m \in {"MR475", "MR515"})

\* bitno_tab: the number of indices of the lag parameter.
Indices(m, s) ==
    IF ~delta(m, s) THEN IF m = "MR122" THEN 512 ELSE 256
    ELSE IF flag4(m) THEN 16
    ELSE IF m \in {"MR74", "MR102"} THEN 32 ELSE 64

-----------------------------------------------------------------------------
(* The encoder                                                               *)

\* getRange: range + 1 lags around T0, inside pitmin..pitmax.
getRange(T0, low, range, pitmin, pitmax) ==
    LET t0_min == Lesser(Greater(T0 - low, pitmin), pitmax - range)
    IN  [min |-> t0_min, max |-> t0_min + range]

\* Pitch_fr: the lags the closed loop searches.
SearchRange(m, s, T_op, prev) ==
    IF delta(m, s)
    THEN getRange(prev, delta_frc_low(m), delta_frc_range(m), pit_min(m), PIT_MAX)
    ELSE getRange(T_op, delta_int_low(m), delta_int_range(m), pit_min(m), PIT_MAX)

\* Where the fractions of the 4-bit code lie: the last lag, or as near to it
\* as leaves five lags below and four above.
Centre(prev, r) == Greater(Lesser(prev, r.min + 5), r.max - 4)

\* Pitch_fr, 4-bit code: full resolution only next to the centre.
NearFractions(lag, c) ==
    IF lag = c - 2 THEN 0 .. 2
    ELSE IF lag \in {c - 1, c} THEN -2 .. 2
    ELSE IF lag = c + 1 THEN -2 .. 0
    ELSE {0}

\* Pitch_fr: the fractions searched around lag.
Fractions(m, s, lag, prev, r) ==
    IF ~delta(m, s) /\ lag > max_frac_lag(m) THEN {0}
    ELSE IF delta(m, s) /\ flag4(m) THEN NearFractions(lag, Centre(prev, r))
    ELSE first_frac(m) .. last_frac(m)

\* searchFrac: the fraction found, with the lag it belongs to.
searchFrac(m, lag, frac) ==
    IF frac = -3 THEN Lag(lag - 1, 3)
    ELSE IF flag3(m) /\ frac = -2 THEN Lag(lag - 1, 1)
    ELSE IF flag3(m) /\ frac = 2 THEN Lag(lag + 1, -1)
    ELSE Lag(lag, frac)

\* Enc_lag3, thirds of a sample: absolute, relative to the range, and the
\* 4-bit code with its fractions next to c.
Enc3Absolute(T0, frac) == IF T0 <= 85 THEN 3 * T0 - 58 + frac ELSE T0 + 112

Enc3Relative(T0, frac, t0_min) == 3 * (T0 - t0_min) + 2 + frac

Enc3Four(T0, frac, c) ==
    IF 3 * T0 + frac <= 3 * (c - 2) THEN T0 - c + 5
    ELSE IF 3 * T0 + frac < 3 * (c + 1) THEN 3 * (T0 - c + 2) + frac + 3
    ELSE T0 - c + 11

\* Enc_lag6, sixths of a sample.
Enc6Absolute(T0, frac) == IF T0 <= 94 THEN 6 * T0 - 105 + frac ELSE T0 + 368

Enc6Relative(T0, frac, t0_min) == 6 * (T0 - t0_min) + 3 + frac

\* Pitch_fr: the lags with their fractions the search may find in a subframe.
Found(m, s, T_op, prev, p) ==
    LET r == SearchRange(m, s, T_op, prev)
    IN  \E lag \in r.min .. r.max : \E frac \in Fractions(m, s, lag, prev, r) :
            p = searchFrac(m, lag, frac)

\* Pitch_fr: the code of what was found.
Index(m, s, p, T_op, prev) ==
    LET r == SearchRange(m, s, T_op, prev)
    IN  IF flag3(m)
        THEN IF ~delta(m, s) THEN Enc3Absolute(p.T0, p.frac)
             ELSE IF flag4(m) THEN Enc3Four(p.T0, p.frac, Centre(prev, r))
             ELSE Enc3Relative(p.T0, p.frac, r.min)
        ELSE IF ~delta(m, s) THEN Enc6Absolute(p.T0, p.frac)
             ELSE Enc6Relative(p.T0, p.frac, r.min)

-----------------------------------------------------------------------------
(* The decoder                                                               *)

\* Decoder_amr, Dec_lag6: the range a relative index counts in.
DecoderRange(m, old) ==
    getRange(old, delta_frc_low(m), delta_frc_range(m), pit_min(m), PIT_MAX)

\* Division by 3 and by 6 as multiplications, (x * 10923) >> 15.
Third(x) == (x * 10923) \div 32768
Sixth(x) == (x * 5462) \div 32768

\* Dec_lag3, the three codes.
Dec3Absolute(index) ==
    LET T0 == Third(index + 2) + 19
    IN  IF index < 197 THEN Lag(T0, index - 3 * T0 + 58) ELSE Lag(index - 112, 0)

Dec3Relative(index, t0_min) ==
    LET i == Third(index + 2) - 1 IN Lag(i + t0_min, index - 2 - 3 * i)

Dec3Four(index, c) ==
    LET i == Third(index - 5) - 1
    IN  IF index < 4 THEN Lag(c - 5 + index, 0)
        ELSE IF index < 12 THEN Lag(i + c, index - 9 - 3 * i)
        ELSE Lag(index - 12 + c + 1, 0)

\* Dec_lag6, the two codes.
Dec6Absolute(index) ==
    LET T0 == Sixth(index + 5) + 17
    IN  IF index < 463 THEN Lag(T0, index - 6 * T0 + 105) ELSE Lag(index - 368, 0)

Dec6Relative(index, t0_min) ==
    LET i == Sixth(index + 5) - 1 IN Lag(i + t0_min, index - 3 - 6 * i)

Decoded(m, s, index, old) ==
    LET r == DecoderRange(m, old)
    IN  IF flag3(m)
        THEN IF ~delta(m, s) THEN Dec3Absolute(index)
             ELSE IF flag4(m) THEN Dec3Four(index, Centre(old, r))
             ELSE Dec3Relative(index, r.min)
        ELSE IF ~delta(m, s) THEN Dec6Absolute(index) ELSE Dec6Relative(index, r.min)

\* Decoder_amr, bad frame: one more than the last lag, but the decoded lag in
\* background noise of the low modes; MR122 repeats the last lag.
Concealed(m, s, index, old, noisy) ==
    IF m = "MR122" THEN Lag(old, 0)
    ELSE IF noisy /\ m \in {"MR475", "MR515", "MR59"}
    THEN Lag(Decoded(m, s, index, old).T0, 0)
    ELSE Lag(IF old < PIT_MAX THEN old + 1 ELSE old, 0)

\* Decoder_amr: MR122 also distrusts relative indices the encoder never sends.
DecoderLag(m, s, bad, index, old, noisy) ==
    IF bad \/ (m = "MR122" /\ delta(m, s) /\ index >= 61)
    THEN Concealed(m, s, index, old, noisy)
    ELSE Decoded(m, s, index, old)

\* Pred_lt_3or6: how far back the interpolation reads into the excitation.
Reach(p) == p.T0 + Bool(p.frac > 0) + L_INTER10 - 1

-----------------------------------------------------------------------------
(* What the two ends promise each other, one subframe at a time              *)

\* In a good frame the decoder finds the lag and the fraction the encoder
\* meant, if it has the encoder's last lag or does not need it.
Decodes(m, s, T_op, prev, old, p) ==
    (delta(m, s) => old = prev)
        => DecoderLag(m, s, FALSE, Index(m, s, p, T_op, prev), old, FALSE) = p

\* The index fits the bits of its parameter.
Fits(m, s, T_op, prev, p) == Index(m, s, p, T_op, prev) \in 0 .. Indices(m, s) - 1

\* Whatever index a frame holds and however it is concealed, the decoder reads
\* inside its excitation history of PIT_MAX + L_INTERPOL samples.
Inside(m, s, bad, index, old, noisy) ==
    Reach(DecoderLag(m, s, bad, index, old, noisy)) <= PIT_MAX + L_INTERPOL

=============================================================================
