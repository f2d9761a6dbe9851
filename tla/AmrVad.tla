------------------------------- MODULE AmrVad -------------------------------
(* The voice activity detector of the AMR encoder (vad1), whose flag is the  *)
(* vad of AmrDtx: one step is one frame, which vad1() judges with what it    *)
(* knows, and then the open-loop pitch search tells it what it found.        *)
(*                                                                           *)
(* The filter bank and the comparison of the signal with the noise are free  *)
(* choices: the levels of the bands, whether they rise above the noise       *)
(* (loud), whether they differ from their average (moving).  The estimate of *)
(* the noise, the hangovers and the registers of earlier decisions are those *)
(* of the code, in its 16 bits.                                              *)
EXTENDS Integers

Bands  == 0 .. 8
Bits   == 0 .. 14
MAX_16 == 32767
BandLevels == 0 .. MAX_16

\* cnst_vad.h
STAT_COUNT            == 20
CAD_MIN_STAT_COUNT    == 5
NOISE_MIN             == 40
NOISE_MAX             == 16000
NOISE_INIT            == 150
HANG_NOISE_THR        == 100
BURST_LEN_HIGH_NOISE  == 4
HANG_LEN_HIGH_NOISE   == 7
BURST_LEN_LOW_NOISE   == 5
HANG_LEN_LOW_NOISE    == 4
CVAD_THRESH_ADAPT_HIGH == 19660
CVAD_THRESH_ADAPT_LOW  == 16383
CVAD_THRESH_IN_NOISE   == 21298
CVAD_THRESH_HANG       == 22936
CVAD_HANG_LIMIT        == 100
CVAD_HANG_LENGTH       == 250
CVAD_LOWPOW_RESET      == 13106
CVAD_MIN_CORR          == 13106
NTHRESH                == 4

VARIABLES
    bckr,             \* the estimate of the noise in each band
    oldLevel,         \* the levels of the frame before
    vadreg,           \* the intermediate decisions; bit 0 is the last one
    pitch, tone,      \* flags of the open-loop search
    complexHigh, complexLow,  \* flags of a signal that is neither speech nor noise
    statCount,        \* frames to go until the estimate is forced
    burstCount,       \* decisions for speech in a row
    hangCount,        \* frames of the hangover after speech
    complexTimer,     \* frames of a very complex signal in a row
    complexHang,      \* frames of the hangover of a complex signal
    complexWarning,   \* the signal has been complex for some time
    corr, bestCorr,   \* long-term estimate of the correlation, and the last one
    lagCount,         \* like lags in the frame before
    flag,             \* the decision: speech
    quiet, plain      \* history, see below

registers == <<vadreg, pitch, tone, complexHigh, complexLow>>
counters  == <<statCount, burstCount, hangCount, complexTimer, complexHang>>
vadVars == <<bckr, oldLevel, registers, counters, complexWarning, corr, bestCorr, lagCount,
          flag, quiet, plain>>

\* A register: Word16 shifted right by one bit a frame, a new flag at 0x4000.
NoFlags == [k \in Bits |-> FALSE]
Shift(reg, new) == [k \in Bits |-> IF k = 0 THEN new ELSE reg[k - 1]]
All(reg, bits)  == \A k \in bits : reg[k]
None(reg, bits) == \A k \in bits : ~reg[k]

VadInit ==
    /\ bckr = [b \in Bands |-> NOISE_INIT] /\ oldLevel = [b \in Bands |-> NOISE_INIT]
    /\ vadreg = NoFlags /\ pitch = NoFlags /\ tone = NoFlags
    /\ complexHigh = NoFlags /\ complexLow = NoFlags
    /\ statCount = 0 /\ burstCount = 0 /\ hangCount = 0
    /\ complexTimer = 0 /\ complexHang = 0 /\ complexWarning = FALSE
    /\ corr = CVAD_LOWPOW_RESET /\ bestCorr = CVAD_LOWPOW_RESET
    /\ lagCount = 0 /\ flag = FALSE
    /\ quiet = 0 /\ plain = 0

-----------------------------------------------------------------------------
(* The parts of vad_decision(), in the order of their calls; what a part     *)
(* reads primed, a part before it has written.  The power of the frame is    *)
(* "low", "middle" (enough to be judged, not for a pitch) or "high".         *)

Powers == {"low", "middle", "high"}

\* The pitch flag vad1() leaves for this frame.
Pitch(power) == [pitch EXCEPT ![0] = @ /\ power = "high"]

complex_estimate_adapt(low) ==
    LET alpha == IF corr < CVAD_THRESH_ADAPT_HIGH THEN 2621
                 ELSE IF bestCorr < corr THEN 6553 ELSE 655
        new == (65536 * corr - 2 * alpha * corr + 2 * alpha * bestCorr + 32768) \div 65536
    IN  corr' = IF low \/ new < CVAD_MIN_CORR THEN CVAD_MIN_CORR ELSE new

\* vad1() has cleared the flag of the last frame in complexLow if the power is low.
complex_vad(low) ==
    /\ complexHigh' = Shift(complexHigh, ~low /\ corr' > CVAD_THRESH_ADAPT_HIGH)
    /\ complexLow' = Shift([complexLow EXCEPT ![0] = @ /\ ~low],
                           ~low /\ corr' > CVAD_THRESH_ADAPT_LOW)
    /\ complexTimer' = IF corr' > CVAD_THRESH_HANG
                       THEN IF complexTimer = MAX_16 THEN MAX_16 ELSE complexTimer + 1
                       ELSE 0
    /\ complexWarning' = (All(complexHigh', 0 .. 7) \/ All(complexLow', 0 .. 14))

\* Pitch or tone for some time: the signal is no background noise.
Tonal(p) == All(p, 0 .. 1) \/ All(tone, 0 .. 4)

update_cntrl(p, moving) ==
    LET count == IF complexWarning' /\ statCount < CAD_MIN_STAT_COUNT
                 THEN CAD_MIN_STAT_COUNT ELSE statCount
    IN  statCount' = IF Tonal(p) \/ None(vadreg', 0 .. 7) \/ moving THEN STAT_COUNT
                     ELSE IF vadreg'[0] /\ count # 0 THEN count - 1 ELSE count

mult_r(alpha, x) == (alpha * x + 16384) \div 32768

\* The speed of the update: upwards, downwards, and a constant upwards.
Speed(p) ==
    IF None(vadreg', 0 .. 3) /\ None(p, 0 .. 3) /\ complexHang = 0
    THEN [up |-> 1638, down |-> 2097, add |-> 2]
    ELSE IF statCount' = 0 /\ complexHang = 0
    THEN [up |-> 491, down |-> 1867, add |-> 2]
    ELSE [up |-> 0, down |-> 1638, add |-> 0]

\* One band's estimate moves towards the level of the frame before.
Updated(s, est, old) ==
    LET temp == old - est
        less == est + mult_r(s.down, temp) - 2
        more == est + mult_r(s.up, temp) + s.add
    IN  IF temp < 0 THEN IF less < NOISE_MIN THEN NOISE_MIN ELSE less
                    ELSE IF more > NOISE_MAX THEN NOISE_MAX ELSE more

noise_estimate_update(p, level) ==
    /\ bckr' = [b \in Bands |-> Updated(Speed(p), bckr[b], oldLevel[b])]
    /\ oldLevel' = level

\* The average (an eighth of the sum of nine) of the estimates.
NoiseLevel ==
    (bckr[0] + bckr[1] + bckr[2] + bckr[3] + bckr[4] + bckr[5] + bckr[6] + bckr[7] + bckr[8])
        \div 8

\* At low power complexTimer' is 0 already, since corr' is at its minimum.
hangover_addition(low) ==
    LET noisy    == NoiseLevel > HANG_NOISE_THR
        burstLen == IF noisy THEN BURST_LEN_HIGH_NOISE ELSE BURST_LEN_LOW_NOISE
        hangLen  == IF noisy THEN HANG_LEN_HIGH_NOISE ELSE HANG_LEN_LOW_NOISE
        hang     == IF complexTimer' > CVAD_HANG_LIMIT THEN CVAD_HANG_LENGTH ELSE complexHang
        burst    == IF burstCount = MAX_16 THEN MAX_16 ELSE burstCount + 1
    IN  \/ /\ low
           /\ burstCount' = 0 /\ hangCount' = 0 /\ complexHang' = 0 /\ flag' = FALSE
       \/ /\ ~low /\ hang # 0
          /\ burstCount' = BURST_LEN_HIGH_NOISE /\ complexHang' = hang - 1
          /\ flag' = TRUE
          /\ UNCHANGED hangCount
       \/ /\ ~low /\ hang = 0
          /\ UNCHANGED complexHang
          /\ \/ /\ None(vadreg', 1 .. 10) /\ corr' > CVAD_THRESH_IN_NOISE
                /\ flag' = TRUE
                /\ UNCHANGED <<burstCount, hangCount>>
             \/ /\ ~(None(vadreg', 1 .. 10) /\ corr' > CVAD_THRESH_IN_NOISE)
                /\ flag' = (vadreg'[0] \/ hangCount > 0)
                /\ burstCount' = IF vadreg'[0] THEN burst ELSE 0
                /\ hangCount' = IF vadreg'[0]
                                THEN IF burst >= burstLen THEN hangLen ELSE hangCount
                                ELSE IF hangCount > 0 THEN hangCount - 1 ELSE 0

-----------------------------------------------------------------------------

vad_decision(power, level, loud, moving) ==
    /\ vadreg' = Shift(vadreg, loud)
    /\ complex_estimate_adapt(power = "low")
    /\ complex_vad(power = "low")
    /\ update_cntrl(Pitch(power), moving)
    /\ noise_estimate_update(Pitch(power), level)
    /\ hangover_addition(power = "low")

\* The search of the open-loop lags: two tone flags a frame (in the modes with
\* one lag the first is always set), the best correlation, and how many of the
\* two lags are like the one before.
OpenLoop(power, tones, best, lags) ==
    /\ tone' = Shift(Shift(tone, tones[1]), tones[2])
    /\ bestCorr' = best
    /\ pitch' = Shift(Pitch(power), lagCount + lags >= NTHRESH)
    /\ lagCount' = lags

\* History: how long there has been nothing to hear, by the detector's own
\* measures; and how long it has heard a steady signal it has no reason to
\* take for speech but its level.
History(power, moving) ==
    /\ quiet' = IF vadreg'[0] \/ corr' > CVAD_THRESH_IN_NOISE THEN 0 ELSE quiet + 1
    /\ plain' = IF vadreg'[0] /\ ~moving /\ ~Tonal(Pitch(power)) /\ ~complexWarning'
                THEN plain + 1 ELSE 0

\* A frame with DTX on.
Frame(power, level, loud, moving, tones, best, lags) ==
    /\ vad_decision(power, level, loud, moving)
    /\ OpenLoop(power, tones, best, lags)
    /\ History(power, moving)

VadNext ==
    \E power \in Powers, level \in [Bands -> BandLevels], loud, moving \in BOOLEAN,
       tones \in [1 .. 2 -> BOOLEAN], best \in 0 .. MAX_16, lags \in 0 .. 2 :
        Frame(power, level, loud, moving, tones, best, lags)

VadSpec == VadInit /\ [][VadNext]_vadVars

-----------------------------------------------------------------------------
(* Properties.                                                               *)

\* Every variable keeps its type.  The estimate of the noise keeps its limits:
\* the detector divides by it, and by nothing smaller than NOISE_MIN.
VadTypeOK ==
    /\ bckr \in [Bands -> NOISE_MIN .. NOISE_MAX] /\ oldLevel \in [Bands -> BandLevels]
    /\ vadreg \in [Bits -> BOOLEAN] /\ pitch \in [Bits -> BOOLEAN] /\ tone \in [Bits -> BOOLEAN]
    /\ complexHigh \in [Bits -> BOOLEAN] /\ complexLow \in [Bits -> BOOLEAN]
    /\ statCount \in 0 .. STAT_COUNT /\ burstCount \in 0 .. MAX_16
    /\ hangCount \in 0 .. HANG_LEN_HIGH_NOISE
    /\ complexTimer \in 0 .. MAX_16 /\ complexHang \in 0 .. CVAD_HANG_LENGTH - 1
    /\ complexWarning \in BOOLEAN
    /\ corr \in CVAD_MIN_CORR .. MAX_16 /\ bestCorr \in 0 .. MAX_16
    /\ lagCount \in 0 .. 2 /\ flag \in BOOLEAN
    /\ quiet \in Nat /\ plain \in Nat

\* The hangovers end: when there has been nothing to hear for as many frames as
\* both hangovers take, one after the other, the flag is down, although each is
\* held while the other runs (hangover_addition).
QuietEnds == flag => quiet < CVAD_HANG_LENGTH + HANG_LEN_HIGH_NOISE

\* The comment at vad1.cpp:663 has it that "deadlock in speech is not possible
\* unless the signal is very complex": a steady signal that is taken for speech
\* for its level alone is STAT_COUNT frames later taken for noise, whose estimate
\* then rises with every frame towards the level of the signal.
NoDeadlock ==
    [][plain' >= STAT_COUNT /\ complexHang = 0 =>
          \A b \in Bands :
              \/ oldLevel[b] < bckr[b]
              \/ bckr'[b] >= bckr[b] + 2
              \/ bckr'[b] = NOISE_MAX]_vadVars

=============================================================================
