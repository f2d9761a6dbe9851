------------------------------- MODULE AmrDtx -------------------------------
(* Discontinuous transmission of the AMR codec (src/amr/.../amr_nb), frame   *)
(* by frame: the transmitter decides from the voice activity flag whether a  *)
(* frame is speech or comfort noise (tx_dtx_handler), sid_sync schedules the *)
(* noise descriptions (SID frames), the line delivers, damages or loses the  *)
(* frame, and the receiver follows with the state machines of rx_dtx_handler *)
(* (speech, noise, muted), dtx_dec (the noise level) and Decoder_amr (how    *)
(* far bad frames are muted).                                                *)
(*                                                                           *)
(* The receiver is never told whether the transmitter added a hangover, the  *)
(* noise frames it still codes as speech so that both ends can average them: *)
(* it has to count along.  Samples, gains and filters are left out; of the   *)
(* noise energy log_en the model keeps floor(log_en / 256), which is exact   *)
(* for the steps of 256 the muting takes.                                    *)
EXTENDS Integers

CONSTANTS
    HangConst,      \* DTX_HANG_CONST, 7
    ElapsedThresh,  \* DTX_ELAPSED_FRAMES_THRESH, 24 + 7 - 1
    EmptyThresh,    \* DTX_MAX_EMPTY_THRESH, 50
    SidRate,        \* sid_update_rate, 8
    FirstUpdate,    \* frames from the first SID to the first update, 3
    MaxCount,       \* MAX_16: frame counters saturate here
    LevelLimit,     \* log_en \div 256 is in -LevelLimit..LevelLimit-1; 128
    Levels,         \* the noise levels a SID or the averaged history can give
    ResetLevel,     \* the level after a reset, 3500 \div 256
    MaxDebt,        \* bound on the handover debt
    Damage          \* frame types the line may put in place of one it damages

ASSUME ThreshAssumption ==
    /\ HangConst \in Nat \ {0}
    /\ ElapsedThresh \in Nat /\ ElapsedThresh > HangConst
    /\ MaxCount \in Nat /\ MaxCount > ElapsedThresh + HangConst
    /\ EmptyThresh \in Nat
    /\ MaxDebt \in Nat

ASSUME RateAssumption ==
    /\ SidRate \in Nat /\ FirstUpdate \in Nat
    /\ 2 < FirstUpdate /\ FirstUpdate < SidRate
    /\ SidRate < EmptyThresh /\ FirstUpdate <= HangConst

ASSUME LevelAssumption ==
    /\ LevelLimit \in Nat \ {0}
    /\ Levels \subseteq -LevelLimit .. LevelLimit - 1 /\ Levels # {}
    /\ ResetLevel \in -LevelLimit .. LevelLimit - 1

TXFrameType == {"TX_SPEECH_GOOD", "TX_SID_FIRST", "TX_SID_UPDATE", "TX_NO_DATA"}

RXFrameType == {"RX_SPEECH_GOOD", "RX_SPEECH_DEGRADED", "RX_ONSET",
                "RX_SPEECH_BAD", "RX_SID_FIRST", "RX_SID_UPDATE", "RX_SID_BAD",
                "RX_NO_DATA"}

ASSUME DamageAssumption ==
    Damage \subseteq RXFrameType \ {"RX_SPEECH_GOOD", "RX_SID_FIRST", "RX_SID_UPDATE"}

VARIABLES
    tx,     \* dtx_encState: [hang, elapsed]
    sid,    \* sid_syncState: [counter, debt, prev]
    line,   \* the frame on its way: [type, update, level], or NoFrame
    rx,     \* dtx_decState: see TypeOK
    level,  \* log_en of dtx_decState
    bfh,    \* state of Decoder_amrState: 0 good .. 6 muted
    ghost   \* what really happened, for the properties: see TypeOK

vars == <<tx, sid, line, rx, level, bfh, ghost>>

NoFrame == [type |-> "NONE", update |-> FALSE]

\* Mutant: a plain addition.
add_16_Unsaturated(a, b) == a + b

\* add_16: the frame counters stop at the greatest Word16.
add_16(a, b) == IF a + b > MaxCount THEN MaxCount ELSE a + b

\* Assignment of a difference to a Word16 without saturation.
Word16(x) == ((x + LevelLimit) % (2 * LevelLimit)) - LevelLimit

Capped(n, cap) == IF n > cap THEN cap ELSE n

-----------------------------------------------------------------------------
(* dtx_enc_reset, sid_sync_init/_reset, dtx_dec_reset, Decoder_amr_reset     *)

dtx_enc_reset == [hang |-> HangConst, elapsed |-> MaxCount]

sid_sync_reset == [counter |-> FirstUpdate, debt |-> 0, prev |-> "TX_SPEECH_GOOD"]

dtx_dec_reset ==
    [state |-> "DTX", since |-> 0, hang |-> HangConst, elapsed |-> MaxCount,
     added |-> FALSE, sidFrame |-> FALSE, valid |-> FALSE, updated |-> FALSE]

Decoder_amr_reset == 0

Init ==
    /\ tx = dtx_enc_reset
    /\ sid = sid_sync_reset
    /\ line = NoFrame
    /\ rx = dtx_dec_reset
    /\ level = ResetLevel
    /\ bfh = Decoder_amr_reset
    /\ ghost = [noise |-> 0, gap |-> 0, intact |-> TRUE, pause |-> 0, stale |-> 0]

-----------------------------------------------------------------------------
(* The transmitter: cod_amr with dtx on, then sid_sync, then AMREncode.      *)

\* tx_dtx_handler: the new state, and whether the frame is a noise frame.
tx_dtx_handler(vad) ==
    LET elapsed == add_16(tx.elapsed, 1)
        left    == tx.hang - 1
    IN  IF vad
        THEN [st |-> [hang |-> HangConst, elapsed |-> elapsed], noise |-> FALSE]
        ELSE IF tx.hang = 0
        THEN [st |-> [hang |-> 0, elapsed |-> 0], noise |-> TRUE]
        ELSE [st |-> [hang |-> left, elapsed |-> elapsed],
              noise |-> add_16(elapsed, left) < ElapsedThresh]

\* Mutant: the counter is not loaded again after an update.
sid_sync_Unloaded(noise) ==
    IF ~noise
    THEN [sid EXCEPT !.counter = SidRate, !.prev = "TX_SPEECH_GOOD"]
    ELSE IF sid.prev = "TX_SPEECH_GOOD"
    THEN [sid EXCEPT !.counter = FirstUpdate, !.prev = "TX_SID_FIRST"]
    ELSE [sid EXCEPT !.counter = @ - 1,
                     !.prev = IF sid.counter = 1 THEN "TX_SID_UPDATE" ELSE "TX_NO_DATA"]

\* sid_sync in a speech frame and in a noise frame.
sid_sync(noise) ==
    LET counter == sid.counter - 1
    IN  IF ~noise
        THEN [sid EXCEPT !.counter = SidRate, !.prev = "TX_SPEECH_GOOD"]
        ELSE IF sid.prev = "TX_SPEECH_GOOD"
        THEN [sid EXCEPT !.counter = FirstUpdate, !.prev = "TX_SID_FIRST"]
        ELSE IF sid.debt > 0 /\ counter > 2
        THEN [sid EXCEPT !.counter = counter, !.debt = @ - 1, !.prev = "TX_SID_UPDATE"]
        ELSE IF counter = 0
        THEN [sid EXCEPT !.counter = SidRate, !.prev = "TX_SID_UPDATE"]
        ELSE [sid EXCEPT !.counter = counter, !.prev = "TX_NO_DATA"]

\* AMREncode: the 3GPP frame type and the bit that tells an update from a first SID.
AMREncode(ft) ==
    [type   |-> IF ft = "TX_SPEECH_GOOD" THEN "SPEECH"
                ELSE IF ft = "TX_NO_DATA" THEN "AMR_NO_DATA" ELSE "AMR_SID",
     update |-> ft = "TX_SID_UPDATE"]

Encode(vad) ==
    /\ line = NoFrame
    /\ LET dtx  == tx_dtx_handler(vad)
           sync == sid_sync(dtx.noise)
       IN  /\ tx' = dtx.st
           /\ sid' = sync
           /\ line' = AMREncode(sync.prev)
           /\ ghost' = [ghost EXCEPT
                !.noise = IF vad THEN 0
                          ELSE IF dtx.noise THEN @ ELSE Capped(@ + 1, HangConst),
                !.gap   = IF sync.prev = "TX_NO_DATA" THEN Capped(@ + 1, SidRate) ELSE 0]
    /\ UNCHANGED <<rx, level, bfh>>

\* sid_sync_set_handover_debt, between two frames.
SetHandoverDebt(frames) ==
    /\ line = NoFrame
    /\ sid.debt = 0
    /\ sid' = [sid EXCEPT !.debt = frames]
    /\ UNCHANGED <<tx, line, rx, level, bfh, ghost>>

-----------------------------------------------------------------------------
(* The receiver: AMRDecode gives the frame a type, Decoder_amr handles it.   *)

AMRDecode(frame) ==
    IF frame.type = "SPEECH" THEN "RX_SPEECH_GOOD"
    ELSE IF frame.type = "AMR_NO_DATA" THEN "RX_NO_DATA"
    ELSE IF frame.update THEN "RX_SID_UPDATE" ELSE "RX_SID_FIRST"

SidTypes == {"RX_SID_FIRST", "RX_SID_UPDATE", "RX_SID_BAD"}

\* rx_dtx_handler, first part: speech, noise or muted noise.
StaysNoise(t) ==
    \/ t \in SidTypes
    \/ /\ rx.state \in {"DTX", "DTX_MUTE"}
       /\ t \in {"RX_NO_DATA", "RX_SPEECH_BAD", "RX_ONSET"}

StaysMuted(t) ==
    /\ rx.state = "DTX_MUTE"
    /\ t \in {"RX_SID_BAD", "RX_SID_FIRST", "RX_ONSET", "RX_NO_DATA"}

TooOld(t) == t # "RX_SID_UPDATE" /\ rx.since + 1 > EmptyThresh

NewState(t) ==
    IF ~StaysNoise(t) THEN "SPEECH"
    ELSE IF StaysMuted(t) \/ TooOld(t) THEN "DTX_MUTE" ELSE "DTX"

\* rx_dtx_handler, second part: what the transmitter seems to be doing.
SpeaksOnTx(t, new) ==
    \/ t \notin SidTypes \cup {"RX_ONSET", "RX_NO_DATA"}
    \/ t = "RX_NO_DATA" /\ new = "SPEECH"

\* Mutant: the elapsed count goes on after an added hangover.
FollowHangoverKept(t, new) ==
    LET elapsed == add_16(IF ~rx.updated /\ t = "RX_SID_UPDATE" THEN 0 ELSE rx.elapsed, 1)
    IN  IF SpeaksOnTx(t, new)
        THEN [hang |-> HangConst, elapsed |-> elapsed, added |-> FALSE]
        ELSE IF elapsed > ElapsedThresh
        THEN [hang |-> 0, elapsed |-> elapsed, added |-> TRUE]
        ELSE IF rx.hang = 0
        THEN [hang |-> 0, elapsed |-> 0, added |-> FALSE]
        ELSE [hang |-> rx.hang - 1, elapsed |-> elapsed, added |-> FALSE]

\* rx_dtx_handler, third part: follow the transmitter's hangover.
FollowHangover(t, new) ==
    LET elapsed == add_16(IF ~rx.updated /\ t = "RX_SID_UPDATE" THEN 0 ELSE rx.elapsed, 1)
    IN  IF SpeaksOnTx(t, new)
        THEN [hang |-> HangConst, elapsed |-> elapsed, added |-> FALSE]
        ELSE IF elapsed > ElapsedThresh
        THEN [hang |-> 0, elapsed |-> 0, added |-> TRUE]
        ELSE IF rx.hang = 0
        THEN [hang |-> 0, elapsed |-> 0, added |-> FALSE]
        ELSE [hang |-> rx.hang - 1, elapsed |-> elapsed, added |-> FALSE]

\* rx_dtx_handler as a whole; a damaged SID makes no use of an added hangover.
rx_dtx_handler(t) ==
    LET new    == NewState(t)
        follow == FollowHangover(t, new)
        noise  == new # "SPEECH"
    IN  [state    |-> new,
         since    |-> IF noise THEN rx.since + 1 ELSE 0,
         hang     |-> follow.hang,
         elapsed  |-> follow.elapsed,
         added    |-> follow.added /\ ~(noise /\ t = "RX_SID_BAD"),
         sidFrame |-> IF noise THEN t \in SidTypes ELSE rx.sidFrame,
         valid    |-> IF noise THEN t = "RX_SID_UPDATE" ELSE rx.valid,
         updated  |-> rx.updated]

\* dtx_dec: does the frame bring a new description of the noise?
NewNoise(st) == st.sidFrame /\ (st.valid \/ st.added)

\* dtx_dec: the level after the averaged history or the received SID.
LevelOf(st, received) == IF NewNoise(st) THEN received ELSE level

\* dtx_dec: a muted frame lowers the level by one eighth, unsaturated.
Muted(lev) == Word16(lev - 1)

\* Mutant: the counter is reset only by the muting.
dtx_dec_Uncounted(st) ==
    [st EXCEPT !.since   = IF st.state = "DTX_MUTE" THEN 0 ELSE @,
               !.updated = @ \/ NewNoise(st)]

\* dtx_dec: the frame counter and the flags it leaves.
dtx_dec(st) ==
    [st EXCEPT !.since   = IF NewNoise(st) \/ st.state = "DTX_MUTE" THEN 0 ELSE @,
               !.updated = @ \/ NewNoise(st)]

\* Decoder_amr: the bad frame handler in a speech frame.
IsBad(t) == t \in {"RX_SPEECH_BAD", "RX_NO_DATA", "RX_ONSET"}

\* Mutant: a good frame leaves the state alone.
BadFrameStateKept(t) ==
    IF IsBad(t) THEN Capped(bfh + 1, 6) ELSE IF bfh = 6 THEN 5 ELSE bfh

BadFrameState(t) ==
    IF IsBad(t) THEN Capped(bfh + 1, 6) ELSE IF bfh = 6 THEN 5 ELSE 0

\* Decoder_amr: the first speech frame after noise starts from state 5.
Decoder_amr(t) == IF rx.state = "SPEECH" THEN BadFrameState(t) ELSE 5

\* ghost: consecutive intact frames of this pause from its first SID that was
\* received, and the frames since the receiver last heard something to go by.
Heard(t, intact) ==
    LET st    == rx_dtx_handler(t)
        fresh == \/ st.state # "SPEECH" /\ NewNoise(st)
                 \/ t \in {"RX_SPEECH_GOOD", "RX_SPEECH_DEGRADED"}
        run   == IF intact /\ line.type # "SPEECH" /\ (ghost.pause > 0 \/ t \in SidTypes)
                 THEN Capped(ghost.pause + 1, HangConst + 1) ELSE 0
    IN  [ghost EXCEPT !.pause  = run,
                      !.intact = (@ /\ intact) \/ run > HangConst,
                      !.stale  = IF fresh THEN 0 ELSE Capped(@ + 1, EmptyThresh + 1)]

Decode(t, intact) ==
    LET st == rx_dtx_handler(t)
    IN  /\ IF st.state = "SPEECH"
           THEN /\ rx' = st
                /\ bfh' = Decoder_amr(t)
                /\ level' = level
           ELSE /\ rx' = dtx_dec(st)
                /\ bfh' = Decoder_amr_reset
                /\ \E received \in IF NewNoise(st) THEN Levels ELSE {level} :
                     level' = IF st.state = "DTX_MUTE" THEN Muted(LevelOf(st, received))
                                                       ELSE LevelOf(st, received)
        /\ line' = NoFrame
        /\ ghost' = Heard(t, intact)
        /\ UNCHANGED <<tx, sid>>

\* The frame arrives as it was sent.
Deliver ==
    /\ line # NoFrame
    /\ Decode(AMRDecode(line), TRUE)

\* The line damages it: a lost frame is RX_NO_DATA.
Spoil(t) ==
    /\ line # NoFrame
    /\ t # AMRDecode(line)
    /\ Decode(t, FALSE)

Next ==
    \/ \E vad \in BOOLEAN : Encode(vad)
    \/ \E frames \in 1 .. MaxDebt : SetHandoverDebt(frames)
    \/ Deliver
    \/ \E t \in Damage : Spoil(t)

Spec == Init /\ [][Next]_vars

\* The encoder is called for every frame of 20 ms and each frame reaches the
\* decoder, good or bad: the fairness of two ends driven by the sample clock.
FairSpec == Spec /\ WF_vars(Next)

-----------------------------------------------------------------------------
(* Properties                                                                *)

TypeOK ==
    /\ tx \in [hang: 0 .. HangConst, elapsed: 0 .. MaxCount]
    /\ sid \in [counter: 1 .. SidRate, debt: 0 .. MaxDebt,
                prev: TXFrameType]
    /\ line \in [type: {"SPEECH", "AMR_SID", "AMR_NO_DATA", "NONE"}, update: BOOLEAN]
    /\ rx \in [state: {"SPEECH", "DTX", "DTX_MUTE"}, since: 0 .. EmptyThresh,
               hang: 0 .. HangConst, elapsed: 0 .. MaxCount, added: BOOLEAN,
               sidFrame: BOOLEAN, valid: BOOLEAN, updated: BOOLEAN]
    /\ level \in -LevelLimit .. LevelLimit - 1
    /\ bfh \in 0 .. 6
    /\ ghost \in [noise: 0 .. HangConst, gap: 0 .. SidRate, intact: BOOLEAN,
                  pause: 0 .. HangConst + 1, stale: 0 .. EmptyThresh + 1]

\* While no frame has been damaged, or since a whole pause arrived again, the
\* receiver averages its history at a first SID exactly when the transmitter
\* coded a full hangover of noise as speech for it, although nothing on the
\* line says so (dtxHangoverAdded of rx_dtx_handler against tx_dtx_handler).
HangoverAgreed ==
    [][line.type = "AMR_SID" /\ line' = NoFrame /\ ghost.intact /\ ghost'.intact
        => (rx'.added <=> ~line.update /\ ghost.noise = HangConst)]_vars

\* A pause is never silent for SidRate frames in a row, handover or not
\* (sid_update_counter of sid_sync).
SidsOnTime == ghost.gap < SidRate

\* The decoder starts to mute only when it has heard neither speech nor a new
\* noise description in the EmptyThresh frames before (since_last_sid).
MutedOnlyWhenStale ==
    [][rx.state # "DTX_MUTE" /\ rx'.state = "DTX_MUTE"
        => ghost.stale >= EmptyThresh]_vars

\* When someone speaks and the frames are readable again, the speech is soon
\* decoded at its full level for good (dtxGlobalState and state).
Recovers ==
    <>[](line.type \in {"SPEECH", "NONE"} /\ ghost.stale = 0)
        => <>[](rx.state = "SPEECH" /\ bfh = 0)

=============================================================================
