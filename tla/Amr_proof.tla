------------------------------ MODULE Amr_proof ------------------------------
(* Proofs about the AMR codec.  AmrDtx, for every value of its constants: the *)
(* types, the schedule of the noise descriptions, when the decoder mutes, and *)
(* that the receiver follows the hangovers of the transmitter.  AmrVad, for   *)
(* every signal: its limits, the end of its hangovers, and that it does not   *)
(* take a steady signal for speech for ever.  The codes: whatever lag, pulses *)
(* and parameters the encoder chooses, the decoder gets back from their bits, *)
(* and whatever bits arrive, it stays inside its buffers.                     *)
EXTENDS AmrDtx, AmrVad, AmrPitch, AmrCodebook, AmrFrame, TLAPS

-----------------------------------------------------------------------------
(* AmrDtx.                                                                   *)

Speaks == sid.prev = "TX_SPEECH_GOOD"

-----------------------------------------------------------------------------
(* The inductive invariant                                                   *)

\* The frames without data and the counter that ends them.
Schedule == ghost.gap + sid.counter <= SidRate

\* What the decoder counts is never more than what it has not heard.
Counted == rx.since <= ghost.stale

\* The frame on the line is the one sid_sync asked for.
LineInv == line # NoFrame => line = AMREncode(sid.prev)

\* Noise coded as speech is either none or becomes a whole hangover; in a
\* pause the two counts together stay below the threshold.
TxInv ==
    /\ Speaks => /\ tx.hang + ghost.noise = HangConst
                 /\ ghost.noise > 0 => tx.elapsed + tx.hang >= ElapsedThresh
    /\ ~Speaks => tx.elapsed + tx.hang < ElapsedThresh
    /\ sid.prev = "TX_SID_FIRST" => sid.counter = FirstUpdate

\* Between two frames both ends have the same counts.
SameCounts ==
    /\ rx.elapsed = tx.elapsed
    /\ Speaks => rx.hang = HangConst
    /\ ~Speaks => rx.hang = tx.hang /\ rx.state # "SPEECH" /\ rx.updated
    /\ rx.updated \/ tx.elapsed >= ElapsedThresh

Elapsed == add_16(rx.elapsed, 1)

\* The frame on the line ends a whole hangover.
EndsHangover ==
    /\ Elapsed > ElapsedThresh
    /\ line = [type |-> "AMR_SID", update |-> FALSE]
    /\ ghost.noise = HangConst
    /\ tx.hang = 0 /\ tx.elapsed = 0

\* The frame on the line is one of a pause without an added hangover.
InPause ==
    /\ Elapsed <= ElapsedThresh /\ rx.updated
    /\ line = [type |-> "AMR_SID", update |-> FALSE] => ghost.noise # HangConst
    /\ line.type = "AMR_NO_DATA" => rx.state # "SPEECH"
    /\ rx.hang = 0 => tx.hang = 0 /\ tx.elapsed = 0
    /\ rx.hang # 0 => tx.hang = rx.hang - 1 /\ tx.elapsed = Elapsed

\* The receiver is one frame behind, and the frame will bring it level.
OneBehind ==
    /\ Speaks => tx.elapsed = Elapsed /\ (rx.updated \/ tx.elapsed >= ElapsedThresh)
    /\ ~Speaks => EndsHangover \/ InPause

Follows == ghost.intact => IF line = NoFrame THEN SameCounts ELSE OneBehind

\* How long the transmitter has been sending the pause the receiver sees.
Sent == IF line = NoFrame THEN ghost.pause ELSE ghost.pause + 1

\* The hangover counts run out in an undamaged pause, at both ends.
RunTx ==
    ~Speaks => /\ tx.hang = 0 \/ tx.hang + Sent <= HangConst
               /\ Sent > HangConst => tx.hang = 0 /\ tx.elapsed = 0

RunRx ==
    ghost.pause > 0 =>
        /\ rx.state # "SPEECH"
        /\ rx.hang = 0 \/ rx.hang + ghost.pause <= HangConst
        /\ ghost.pause > HangConst => rx.hang = 0 /\ rx.elapsed = 0
        /\ line = NoFrame => ~Speaks
        /\ line # NoFrame => sid.prev # "TX_SID_FIRST"

\* The pause brings an update before it has lasted as long as a hangover.
RunUpdate ==
    ghost.pause > 0 /\ ~rx.updated /\ ~Speaks /\ ~line.update
        => sid.counter + Sent <= FirstUpdate + 1

IInv ==
    /\ TypeOK /\ Schedule /\ Counted /\ LineInv /\ TxInv
    /\ Follows /\ RunTx /\ RunRx /\ RunUpdate

-----------------------------------------------------------------------------
(* What the steps do to single fields                                        *)

Noise(vad) == tx_dtx_handler(vad).noise

\* The frame counts after a frame of the transmitter.
LEMMA EncodeTx ==
    ASSUME TypeOK, NEW vad \in BOOLEAN, Encode(vad)
    PROVE  /\ Noise(vad) \in BOOLEAN
           /\ tx' \in [hang: 0 .. HangConst, elapsed: 0 .. MaxCount]
           /\ vad => /\ ~Noise(vad) /\ tx'.hang = HangConst
                     /\ tx'.elapsed = add_16(tx.elapsed, 1)
           /\ ~vad /\ tx.hang = 0 => Noise(vad) /\ tx'.hang = 0 /\ tx'.elapsed = 0
           /\ ~vad /\ tx.hang # 0 =>
                /\ tx'.hang = tx.hang - 1 /\ tx'.elapsed = add_16(tx.elapsed, 1)
                /\ Noise(vad) = (add_16(tx'.elapsed, tx'.hang) < ElapsedThresh)
<1>1. tx \in [hang: 0 .. HangConst, elapsed: 0 .. MaxCount] /\ MaxCount \in Nat /\ HangConst \in Nat
  BY ThreshAssumption DEF TypeOK
<1>2. tx' = tx_dtx_handler(vad).st
  BY Zenon DEF Encode
<1>3. \A a \in 0 .. MaxCount : add_16(a, 1) \in 0 .. MaxCount
  BY <1>1, SMT DEF add_16
<1>4. 0 \in 0 .. MaxCount /\ 0 \in 0 .. HangConst /\ HangConst \in 0 .. HangConst
  BY <1>1, SMT
<1>5. tx.elapsed \in 0 .. MaxCount /\ tx.hang \in 0 .. HangConst
  BY <1>1
<1>6. CASE vad
  <2>1. tx' = [hang |-> HangConst, elapsed |-> add_16(tx.elapsed, 1)] /\ Noise(vad) = FALSE
    BY <1>2, <1>6, Zenon DEF tx_dtx_handler, Noise
  <2> QED
    BY <1>3, <1>4, <1>5, <1>6, <2>1, Zenon
<1>7. CASE ~vad /\ tx.hang = 0
  <2>1. tx' = [hang |-> 0, elapsed |-> 0] /\ Noise(vad) = TRUE
    BY <1>2, <1>7, Zenon DEF tx_dtx_handler, Noise
  <2> QED
    BY <1>4, <1>7, <2>1, Zenon
<1>8. CASE ~vad /\ tx.hang # 0
  <2>1. /\ tx' = [hang |-> tx.hang - 1, elapsed |-> add_16(tx.elapsed, 1)]
        /\ Noise(vad) = (add_16(add_16(tx.elapsed, 1), tx.hang - 1) < ElapsedThresh)
    BY <1>2, <1>8, Zenon DEF tx_dtx_handler, Noise
  <2>2. tx.hang - 1 \in 0 .. HangConst
    BY <1>1, <1>5, <1>8, SMT
  <2>3. (add_16(add_16(tx.elapsed, 1), tx.hang - 1) < ElapsedThresh) \in BOOLEAN
    OBVIOUS
  <2> QED
    BY <1>3, <1>5, <1>8, <2>1, <2>2, <2>3, Zenon
<1> QED
  BY <1>6, <1>7, <1>8, Zenon

\* The schedule and the frame on the line.
LEMMA EncodeSid ==
    ASSUME TypeOK, NEW vad \in BOOLEAN, Encode(vad)
    PROVE  /\ sid' \in [counter: 1 .. SidRate, debt: 0 .. MaxDebt, prev: TXFrameType]
           /\ line' = AMREncode(sid'.prev)
           /\ line = NoFrame /\ rx' = rx /\ level' = level /\ bfh' = bfh
           /\ ~Noise(vad) => sid'.prev = "TX_SPEECH_GOOD" /\ sid'.counter = SidRate
           /\ Noise(vad) /\ Speaks => sid'.prev = "TX_SID_FIRST" /\ sid'.counter = FirstUpdate
           /\ Noise(vad) /\ ~Speaks =>
                \/ sid'.prev = "TX_SID_UPDATE"
                \/ sid'.prev = "TX_NO_DATA" /\ sid'.counter = sid.counter - 1
<1>1. /\ sid \in [counter: 1 .. SidRate, debt: 0 .. MaxDebt, prev: TXFrameType]
      /\ SidRate \in Nat /\ FirstUpdate \in 1 .. SidRate /\ MaxDebt \in Nat
  BY RateAssumption, ThreshAssumption, SMT DEF TypeOK
<1>2. sid' = sid_sync(Noise(vad)) /\ Noise(vad) \in BOOLEAN
  BY EncodeTx, Zenon DEF Encode, Noise
<1>3. /\ line' = AMREncode(sid'.prev)
      /\ line = NoFrame /\ rx' = rx /\ level' = level /\ bfh' = bfh
  BY Zenon DEF Encode
<1>4. sid.counter \in 1 .. SidRate /\ sid.debt \in 0 .. MaxDebt
  BY <1>1
<1>5. SidRate \in 1 .. SidRate
  BY <1>1, SMT
<1>6. CASE ~Noise(vad)
  <2>1. sid' = [counter |-> SidRate, debt |-> sid.debt, prev |-> "TX_SPEECH_GOOD"]
    BY <1>1, <1>2, <1>6, Zenon DEF sid_sync
  <2> QED
    BY <1>3, <1>4, <1>5, <1>6, <2>1, Zenon DEF TXFrameType
<1>7. CASE Noise(vad) /\ Speaks
  <2>1. sid' = [counter |-> FirstUpdate, debt |-> sid.debt, prev |-> "TX_SID_FIRST"]
    BY <1>1, <1>2, <1>7, Zenon DEF sid_sync, Speaks
  <2> QED
    BY <1>1, <1>3, <1>4, <1>7, <2>1, Zenon DEF TXFrameType
<1>8. CASE Noise(vad) /\ ~Speaks
  <2> DEFINE counter == sid.counter - 1
  <2>1. \/ /\ sid.debt > 0 /\ counter > 2
           /\ sid' = [counter |-> counter, debt |-> sid.debt - 1, prev |-> "TX_SID_UPDATE"]
        \/ sid' = [counter |-> SidRate, debt |-> sid.debt, prev |-> "TX_SID_UPDATE"]
        \/ /\ counter # 0
           /\ sid' = [counter |-> counter, debt |-> sid.debt, prev |-> "TX_NO_DATA"]
    BY <1>1, <1>2, <1>8, Zenon DEF sid_sync, Speaks
  <2>2. /\ counter # 0 => counter \in 1 .. SidRate
        /\ sid.debt > 0 => sid.debt - 1 \in 0 .. MaxDebt
        /\ counter > 2 => counter # 0
    BY <1>1, <1>4, SMT
  <2>3. sid' \in [counter: 1 .. SidRate, debt: 0 .. MaxDebt, prev: TXFrameType]
    BY <1>4, <1>5, <2>1, <2>2 DEF TXFrameType
  <2>4. \/ sid'.prev = "TX_SID_UPDATE"
        \/ sid'.prev = "TX_NO_DATA" /\ sid'.counter = sid.counter - 1
    BY <2>1
  <2> QED
    BY <1>3, <1>8, <2>3, <2>4, Zenon
<1> QED
  BY <1>2, <1>6, <1>7, <1>8, Zenon

GhostType == [noise: 0 .. HangConst, gap: 0 .. SidRate, intact: BOOLEAN,
              pause: 0 .. HangConst + 1, stale: 0 .. EmptyThresh + 1]

\* The history after a frame of the transmitter.
LEMMA EncodeGhost ==
    ASSUME TypeOK, NEW vad \in BOOLEAN, Encode(vad)
    PROVE  /\ ghost' \in GhostType
           /\ ghost'.intact = ghost.intact /\ ghost'.pause = ghost.pause
           /\ ghost'.stale = ghost.stale
           /\ vad => ghost'.noise = 0
           /\ Noise(vad) => ghost'.noise = ghost.noise
           /\ ~vad /\ ~Noise(vad) => ghost'.noise = Capped(ghost.noise + 1, HangConst)
           /\ ghost'.gap = IF sid'.prev = "TX_NO_DATA" THEN Capped(ghost.gap + 1, SidRate)
                                                       ELSE 0
<1>1. ghost \in GhostType /\ HangConst \in Nat /\ SidRate \in Nat
  BY ThreshAssumption, RateAssumption, Zenon DEF TypeOK, GhostType
<1>2. vad => ~Noise(vad)
  BY EncodeTx
<1>3. sid' = sid_sync(Noise(vad))
  BY Zenon DEF Encode, Noise
<1> DEFINE noise == IF vad THEN 0
                    ELSE IF Noise(vad) THEN ghost.noise
                         ELSE Capped(ghost.noise + 1, HangConst)
           gap   == IF sid'.prev = "TX_NO_DATA" THEN Capped(ghost.gap + 1, SidRate) ELSE 0
<1>4. ghost' = [ghost EXCEPT !.noise = noise, !.gap = gap]
  BY <1>3, Zenon DEF Encode, Noise
<1>5. \A n \in 0 .. HangConst : Capped(n + 1, HangConst) \in 0 .. HangConst
  BY <1>1, SMT DEF Capped
<1>6. \A n \in 0 .. SidRate : Capped(n + 1, SidRate) \in 0 .. SidRate
  BY <1>1, SMT DEF Capped
<1>7. 0 \in 0 .. HangConst /\ 0 \in 0 .. SidRate
  BY <1>1, SMT
<1>8. ghost.noise \in 0 .. HangConst /\ ghost.gap \in 0 .. SidRate
  BY <1>1, Zenon DEF GhostType
<1>9. noise \in 0 .. HangConst /\ gap \in 0 .. SidRate
  BY <1>5, <1>6, <1>7, <1>8, Zenon
<1> HIDE DEF noise, gap
<1>10. ghost' = [noise |-> noise, gap |-> gap, intact |-> ghost.intact,
                 pause |-> ghost.pause, stale |-> ghost.stale]
  BY <1>1, <1>4, Zenon DEF GhostType
<1>11. ghost' \in GhostType
  BY <1>1, <1>9, <1>10, Zenon DEF GhostType
<1>12. /\ ghost'.intact = ghost.intact /\ ghost'.pause = ghost.pause
       /\ ghost'.stale = ghost.stale /\ ghost'.noise = noise /\ ghost'.gap = gap
  BY <1>10, Zenon
<1> QED
  BY <1>2, <1>11, <1>12, Zenon DEF noise, gap

RxType == [state: {"SPEECH", "DTX", "DTX_MUTE"}, since: 0 .. EmptyThresh,
           hang: 0 .. HangConst, elapsed: 0 .. MaxCount, added: BOOLEAN,
           sidFrame: BOOLEAN, valid: BOOLEAN, updated: BOOLEAN]

\* The receiver after a frame, field by field.
RxAfter(t) ==
    LET new    == NewState(t)
        follow == FollowHangover(t, new)
        noise  == new # "SPEECH"
        added  == follow.added /\ ~(noise /\ t = "RX_SID_BAD")
        fresh  == noise /\ t \in SidTypes /\ (t = "RX_SID_UPDATE" \/ added)
    IN  [state    |-> new,
         since    |-> IF ~noise \/ fresh \/ new = "DTX_MUTE" THEN 0 ELSE rx.since + 1,
         hang     |-> follow.hang,
         elapsed  |-> follow.elapsed,
         added    |-> added,
         sidFrame |-> IF noise THEN t \in SidTypes ELSE rx.sidFrame,
         valid    |-> IF noise THEN t = "RX_SID_UPDATE" ELSE rx.valid,
         updated  |-> rx.updated \/ fresh]

LEMMA DecodeRx ==
    ASSUME TypeOK, NEW t \in RXFrameType, NEW intact \in BOOLEAN, Decode(t, intact)
    PROVE  rx' = RxAfter(t)
<1>1. rx \in RxType
  BY DEF TypeOK, RxType
<1> DEFINE new    == NewState(t)
           follow == FollowHangover(t, new)
           noise  == new # "SPEECH"
           added  == follow.added /\ ~(noise /\ t = "RX_SID_BAD")
           sidFrame == IF noise THEN t \in SidTypes ELSE rx.sidFrame
           valid  == IF noise THEN t = "RX_SID_UPDATE" ELSE rx.valid
           since  == IF noise THEN rx.since + 1 ELSE 0
           st     == rx_dtx_handler(t)
<1>2. st = [state |-> new, since |-> since, hang |-> follow.hang,
            elapsed |-> follow.elapsed, added |-> added, sidFrame |-> sidFrame,
            valid |-> valid, updated |-> rx.updated]
  BY DEF rx_dtx_handler
<1>3. rx' = IF st.state = "SPEECH" THEN st ELSE dtx_dec(st)
  BY Zenon DEF Decode
<1> DEFINE fresh == noise /\ t \in SidTypes /\ (t = "RX_SID_UPDATE" \/ added)
<1>4. RxAfter(t)
        = [state |-> new,
           since |-> IF ~noise \/ fresh \/ new = "DTX_MUTE" THEN 0 ELSE rx.since + 1,
           hang |-> follow.hang, elapsed |-> follow.elapsed, added |-> added,
           sidFrame |-> sidFrame, valid |-> valid, updated |-> rx.updated \/ fresh]
  BY DEF RxAfter
<1>5. CASE ~noise
  <2>1. rx' = st /\ since = 0
    BY <1>2, <1>3, <1>5
  <2>2. rx.updated = (rx.updated \/ fresh)
    BY <1>1, <1>5 DEF RxType
  <2> HIDE DEF new, follow, added, sidFrame, valid, since, st, fresh
  <2> QED
    BY <1>2, <1>4, <1>5, <2>1, <2>2, Zenon
<1>6. CASE noise
  <2> DEFINE since2   == IF fresh \/ new = "DTX_MUTE" THEN 0 ELSE since
             updated2 == rx.updated \/ fresh
             mid      == [st EXCEPT !.since = since2]
  <2>1. NewNoise(st) = fresh
    <3>1. /\ st.sidFrame = (t \in SidTypes) /\ st.valid = (t = "RX_SID_UPDATE")
          /\ st.added = added
      <4>1. sidFrame = (t \in SidTypes) /\ valid = (t = "RX_SID_UPDATE")
        BY <1>6
      <4> HIDE DEF sidFrame, valid, added, st
      <4> QED
        BY <1>2, <4>1, Zenon
    <3> HIDE DEF added, st, new
    <3> QED
      BY <1>6, <3>1, Zenon DEF NewNoise
  <2>2. st.since = since /\ st.updated = rx.updated /\ st.state = new
    <3> HIDE DEF new, follow, added, sidFrame, valid, since, st
    <3> QED
      BY <1>2, Zenon
  <2>3. rx' = [mid EXCEPT !.updated = updated2]
    <3> HIDE DEF new, follow, added, sidFrame, valid, since, st, fresh
    <3> QED
      BY <1>3, <1>6, <2>1, <2>2, Zenon DEF dtx_dec
  <2>4. since = rx.since + 1
    BY <1>6
  <2> HIDE DEF new, follow, added, sidFrame, valid, since, st, fresh, since2, updated2
  <2>5. mid = [state |-> new, since |-> since2, hang |-> follow.hang,
               elapsed |-> follow.elapsed, added |-> added, sidFrame |-> sidFrame,
               valid |-> valid, updated |-> rx.updated]
    BY <1>2, SMT
  <2> HIDE DEF mid
  <2>6. rx' = [state |-> new, since |-> since2, hang |-> follow.hang,
               elapsed |-> follow.elapsed, added |-> added, sidFrame |-> sidFrame,
               valid |-> valid, updated |-> updated2]
    BY <2>3, <2>5, SMT
  <2>7. since2 = (IF ~noise \/ fresh \/ new = "DTX_MUTE" THEN 0 ELSE rx.since + 1)
    BY <1>6, <2>4, Zenon DEF since2
  <2> QED
    BY <1>4, <2>6, <2>7, Zenon DEF updated2
<1> QED
  BY <1>5, <1>6

\* The elapsed count rx_dtx_handler works with.
Counting(t) == add_16(IF ~rx.updated /\ t = "RX_SID_UPDATE" THEN 0 ELSE rx.elapsed, 1)

LEMMA Follow ==
    ASSUME TypeOK, NEW t \in RXFrameType, NEW new
    PROVE  LET f == FollowHangover(t, new)
           IN  /\ Counting(t) \in 0 .. MaxCount
               /\ f.hang \in 0 .. HangConst /\ f.elapsed \in 0 .. MaxCount
               /\ f.added \in BOOLEAN
               /\ SpeaksOnTx(t, new) =>
                    f.hang = HangConst /\ f.elapsed = Counting(t) /\ ~f.added
               /\ ~SpeaksOnTx(t, new) /\ Counting(t) > ElapsedThresh =>
                    f.hang = 0 /\ f.elapsed = 0 /\ f.added
               /\ ~SpeaksOnTx(t, new) /\ ~(Counting(t) > ElapsedThresh) /\ rx.hang = 0 =>
                    f.hang = 0 /\ f.elapsed = 0 /\ ~f.added
               /\ ~SpeaksOnTx(t, new) /\ ~(Counting(t) > ElapsedThresh) /\ rx.hang # 0 =>
                    f.hang = rx.hang - 1 /\ f.elapsed = Counting(t) /\ ~f.added
<1> DEFINE f == FollowHangover(t, new)
           e == Counting(t)
<1>1. rx.hang \in 0 .. HangConst /\ rx.elapsed \in 0 .. MaxCount /\ HangConst \in Nat /\ MaxCount \in Nat
  BY ThreshAssumption DEF TypeOK
<1>2. e \in 0 .. MaxCount
  <2>1. \A a \in 0 .. MaxCount : add_16(a, 1) \in 0 .. MaxCount
    BY <1>1, SMT DEF add_16
  <2>2. 0 \in 0 .. MaxCount
    BY <1>1, SMT
  <2> QED
    BY <1>1, <2>1, <2>2, Zenon DEF Counting
<1>3. 0 \in 0 .. HangConst /\ HangConst \in 0 .. HangConst /\ 0 \in 0 .. MaxCount
  BY <1>1, SMT
<1>4. rx.hang # 0 => rx.hang - 1 \in 0 .. HangConst
  BY <1>1, SMT
<1>5. f = IF SpeaksOnTx(t, new) THEN [hang |-> HangConst, elapsed |-> e, added |-> FALSE]
          ELSE IF e > ElapsedThresh THEN [hang |-> 0, elapsed |-> 0, added |-> TRUE]
          ELSE IF rx.hang = 0 THEN [hang |-> 0, elapsed |-> 0, added |-> FALSE]
          ELSE [hang |-> rx.hang - 1, elapsed |-> e, added |-> FALSE]
  BY Zenon DEF FollowHangover, Counting
<1> HIDE DEF e, f
<1>6. CASE SpeaksOnTx(t, new)
  <2>1. f.hang = HangConst /\ f.elapsed = e /\ f.added = FALSE
    BY <1>5, <1>6, Zenon
  <2> QED
    BY <1>2, <1>3, <1>6, <2>1, Zenon DEF f, e
<1>7. CASE ~SpeaksOnTx(t, new) /\ e > ElapsedThresh
  <2>1. f.hang = 0 /\ f.elapsed = 0 /\ f.added = TRUE
    BY <1>5, <1>7, Zenon
  <2> QED
    BY <1>2, <1>3, <1>7, <2>1, Zenon DEF f, e
<1>8. CASE ~SpeaksOnTx(t, new) /\ ~(e > ElapsedThresh) /\ rx.hang = 0
  <2>1. f.hang = 0 /\ f.elapsed = 0 /\ f.added = FALSE
    BY <1>5, <1>8, Zenon
  <2> QED
    BY <1>2, <1>3, <1>8, <2>1, Zenon DEF f, e
<1>9. CASE ~SpeaksOnTx(t, new) /\ ~(e > ElapsedThresh) /\ rx.hang # 0
  <2>1. f.hang = rx.hang - 1 /\ f.elapsed = e /\ f.added = FALSE
    BY <1>5, <1>9, Zenon
  <2> QED
    BY <1>2, <1>4, <1>9, <2>1, Zenon DEF f, e
<1> QED
  BY <1>6, <1>7, <1>8, <1>9, Zenon DEF e

\* The frames of the pause at hand that the line has brought undamaged.
RunAfter(t, intact) ==
    IF intact /\ line.type # "SPEECH" /\ (ghost.pause > 0 \/ t \in SidTypes)
    THEN Capped(ghost.pause + 1, HangConst + 1) ELSE 0

Fresh(t) ==
    \/ NewState(t) # "SPEECH" /\ NewNoise(rx_dtx_handler(t))
    \/ t \in {"RX_SPEECH_GOOD", "RX_SPEECH_DEGRADED"}

\* The history after a frame of the receiver.
LEMMA DecodeGhost ==
    ASSUME TypeOK, NEW t \in RXFrameType, NEW intact \in BOOLEAN, Decode(t, intact)
    PROVE  /\ ghost' \in GhostType
           /\ ghost'.noise = ghost.noise /\ ghost'.gap = ghost.gap
           /\ ghost'.pause = RunAfter(t, intact)
           /\ ghost'.intact = ((ghost.intact /\ intact) \/ ghost'.pause > HangConst)
           /\ ghost'.stale = IF Fresh(t) THEN 0 ELSE Capped(ghost.stale + 1, EmptyThresh + 1)
           /\ line' = NoFrame /\ tx' = tx /\ sid' = sid
<1>1. ghost \in GhostType /\ HangConst \in Nat /\ EmptyThresh \in Nat
  BY ThreshAssumption, Zenon DEF TypeOK, GhostType
<1>2. /\ ghost.noise \in 0 .. HangConst /\ ghost.gap \in 0 .. SidRate
      /\ ghost.intact \in BOOLEAN
      /\ ghost.pause \in 0 .. HangConst + 1 /\ ghost.stale \in 0 .. EmptyThresh + 1
  BY <1>1, Zenon DEF GhostType
<1> DEFINE run     == RunAfter(t, intact)
           stale   == IF Fresh(t) THEN 0 ELSE Capped(ghost.stale + 1, EmptyThresh + 1)
           unharmed == (ghost.intact /\ intact) \/ run > HangConst
<1>3. run \in 0 .. HangConst + 1 /\ stale \in 0 .. EmptyThresh + 1
  <2>1. /\ Capped(ghost.pause + 1, HangConst + 1) \in 0 .. HangConst + 1
        /\ Capped(ghost.stale + 1, EmptyThresh + 1) \in 0 .. EmptyThresh + 1
        /\ 0 \in 0 .. HangConst + 1 /\ 0 \in 0 .. EmptyThresh + 1
    BY <1>1, <1>2, SMT DEF Capped
  <2> QED
    BY <2>1, Zenon DEF RunAfter
<1>4. rx_dtx_handler(t).state = NewState(t)
  BY DEF rx_dtx_handler
<1>5. ghost' = [ghost EXCEPT !.pause = run, !.intact = unharmed, !.stale = stale]
  BY <1>4, Zenon DEF Decode, Heard, RunAfter, Fresh
<1>6. line' = NoFrame /\ tx' = tx /\ sid' = sid
  BY Zenon DEF Decode
<1>7. unharmed \in BOOLEAN
  OBVIOUS
<1> HIDE DEF run, stale, unharmed
<1>8. ghost' = [noise |-> ghost.noise, gap |-> ghost.gap, intact |-> unharmed,
                pause |-> run, stale |-> stale]
  BY <1>1, <1>5, Zenon DEF GhostType
<1>9. ghost' \in GhostType
  BY <1>2, <1>3, <1>7, <1>8, Zenon DEF GhostType
<1>10. /\ ghost'.noise = ghost.noise /\ ghost'.gap = ghost.gap
       /\ ghost'.pause = run /\ ghost'.intact = unharmed /\ ghost'.stale = stale
  BY <1>8, Zenon
<1> QED
  BY <1>6, <1>9, <1>10, Zenon DEF run, stale, unharmed

-----------------------------------------------------------------------------
(* Types                                                                     *)

LEMMA RxTypePreserved ==
    ASSUME TypeOK, NEW t \in RXFrameType, NEW intact \in BOOLEAN, Decode(t, intact)
    PROVE  rx' \in RxType
<1> DEFINE new    == NewState(t)
           follow == FollowHangover(t, new)
           noise  == new # "SPEECH"
           added  == follow.added /\ ~(noise /\ t = "RX_SID_BAD")
           fresh  == noise /\ t \in SidTypes /\ (t = "RX_SID_UPDATE" \/ added)
           since  == IF ~noise \/ fresh \/ new = "DTX_MUTE" THEN 0 ELSE rx.since + 1
           sidFrame == IF noise THEN t \in SidTypes ELSE rx.sidFrame
           valid  == IF noise THEN t = "RX_SID_UPDATE" ELSE rx.valid
           updated == rx.updated \/ fresh
<1>1. /\ rx \in RxType /\ EmptyThresh \in Nat /\ rx.since \in 0 .. EmptyThresh
      /\ rx.sidFrame \in BOOLEAN /\ rx.valid \in BOOLEAN /\ rx.updated \in BOOLEAN
  BY ThreshAssumption DEF TypeOK, RxType
<1>2. new \in {"SPEECH", "DTX", "DTX_MUTE"}
  BY Zenon DEF NewState
<1>3. follow.hang \in 0 .. HangConst /\ follow.elapsed \in 0 .. MaxCount
  BY Follow, Zenon
<1>4. since \in 0 .. EmptyThresh
  <2>1. CASE ~noise \/ fresh \/ new = "DTX_MUTE"
    <3>1. since = 0
      BY <2>1
    <3> QED
      BY <1>1, <3>1, SMT
  <2>2. CASE ~(~noise \/ fresh \/ new = "DTX_MUTE")
    <3>1. t # "RX_SID_UPDATE"
      BY <2>2 DEF SidTypes
    <3>2. ~TooOld(t)
      BY <2>2, Zenon DEF NewState
    <3>3. since = rx.since + 1 /\ ~(rx.since + 1 > EmptyThresh)
      BY <2>2, <3>1, <3>2, Zenon DEF TooOld
    <3> HIDE DEF since
    <3> QED
      BY <1>1, <3>3, SMT
  <2> HIDE DEF since, fresh, noise, new
  <2> QED
    BY <2>1, <2>2, Zenon
<1>5. added \in BOOLEAN /\ sidFrame \in BOOLEAN /\ valid \in BOOLEAN /\ updated \in BOOLEAN
  <2>1. added \in BOOLEAN /\ updated \in BOOLEAN
    <3> HIDE DEF noise, fresh, follow
    <3> QED
      OBVIOUS
  <2>2. sidFrame = (t \in SidTypes) \/ sidFrame = rx.sidFrame
    OBVIOUS
  <2>3. valid = (t = "RX_SID_UPDATE") \/ valid = rx.valid
    OBVIOUS
  <2>4. (t \in SidTypes) \in BOOLEAN /\ (t = "RX_SID_UPDATE") \in BOOLEAN
    OBVIOUS
  <2> HIDE DEF added, updated, sidFrame, valid
  <2> QED
    BY <1>1, <2>1, <2>2, <2>3, <2>4
<1>6. rx' = [state |-> new, since |-> since, hang |-> follow.hang,
             elapsed |-> follow.elapsed, added |-> added, sidFrame |-> sidFrame,
             valid |-> valid, updated |-> updated]
  BY DecodeRx DEF RxAfter
<1> HIDE DEF new, follow, since, added, sidFrame, valid, updated
<1> QED
  BY <1>2, <1>3, <1>4, <1>5, <1>6, Zenon DEF RxType

LEMMA LevelPreserved ==
    ASSUME TypeOK, NEW t \in RXFrameType, NEW intact \in BOOLEAN, Decode(t, intact)
    PROVE  level' \in -LevelLimit .. LevelLimit - 1
<1> DEFINE Range16 == -LevelLimit .. LevelLimit - 1
           st      == rx_dtx_handler(t)
<1>1. LevelLimit \in Nat \ {0} /\ Levels \subseteq Range16 /\ level \in Range16
  BY LevelAssumption, Zenon DEF TypeOK
<1>2. \A x \in Range16 : Muted(x) \in Range16
  <2>1. \A x \in Int : Word16(x) \in Range16
    BY <1>1, SMT DEF Word16
  <2>2. \A x \in Range16 : x - 1 \in Int
    BY <1>1, SMT
  <2> QED
    BY <2>1, <2>2, Zenon DEF Muted
<1>3. CASE st.state = "SPEECH"
  BY <1>1, <1>3, Zenon DEF Decode
<1>4. CASE st.state # "SPEECH"
  <2>1. PICK received \in IF NewNoise(st) THEN Levels ELSE {level} :
          level' = IF st.state = "DTX_MUTE" THEN Muted(LevelOf(st, received))
                                            ELSE LevelOf(st, received)
    BY <1>4, Zenon DEF Decode
  <2>2. received \in Range16
    BY <1>1, <2>1, Zenon
  <2>3. LevelOf(st, received) \in Range16
    BY <1>1, <2>2, Zenon DEF LevelOf
  <2> QED
    BY <1>2, <2>1, <2>3, Zenon
<1> QED
  BY <1>3, <1>4

LEMMA BfhPreserved ==
    ASSUME TypeOK, NEW t \in RXFrameType, NEW intact \in BOOLEAN, Decode(t, intact)
    PROVE  bfh' \in 0 .. 6
<1>1. bfh \in 0 .. 6
  BY DEF TypeOK
<1>2. Capped(bfh + 1, 6) \in 0 .. 6 /\ 5 \in 0 .. 6 /\ 0 \in 0 .. 6
  BY <1>1, SMT DEF Capped
<1>3. Decoder_amr(t) \in 0 .. 6
  BY <1>2, Zenon DEF Decoder_amr, BadFrameState
<1> QED
  BY <1>2, <1>3, Zenon DEF Decode, Decoder_amr_reset

LineType == [type: {"SPEECH", "AMR_SID", "AMR_NO_DATA", "NONE"}, update: BOOLEAN]

\* A delivered or a damaged frame is decoded under some type.
LEMMA DecodeSteps ==
    ASSUME TypeOK, Deliver \/ (\E t \in Damage : Spoil(t))
    PROVE  \E t \in RXFrameType : \E intact \in BOOLEAN : Decode(t, intact)
<1>1. CASE Deliver
  <2>1. AMRDecode(line) \in RXFrameType
    BY Zenon DEF AMRDecode, RXFrameType
  <2> QED
    BY <1>1, <2>1, Zenon DEF Deliver
<1>2. ASSUME NEW t \in Damage, Spoil(t) PROVE t \in RXFrameType /\ Decode(t, FALSE)
  BY <1>2, DamageAssumption, Zenon DEF Spoil
<1> QED
  BY <1>1, <1>2, Zenon

LEMMA TypeInit == Init => TypeOK
<1> SUFFICES ASSUME Init PROVE TypeOK
  OBVIOUS
<1>1. /\ HangConst \in 0 .. HangConst /\ MaxCount \in 0 .. MaxCount
      /\ FirstUpdate \in 1 .. SidRate /\ 0 \in 0 .. MaxDebt
      /\ 0 \in 0 .. HangConst /\ 0 \in 0 .. EmptyThresh /\ 0 \in 0 .. SidRate
      /\ 0 \in 0 .. HangConst + 1 /\ 0 \in 0 .. EmptyThresh + 1 /\ 0 \in 0 .. 6
  BY ThreshAssumption, RateAssumption, SMT
<1>2. tx \in [hang: 0 .. HangConst, elapsed: 0 .. MaxCount]
  BY <1>1, Zenon DEF Init, dtx_enc_reset
<1>3. sid \in [counter: 1 .. SidRate, debt: 0 .. MaxDebt, prev: TXFrameType]
  BY <1>1, Zenon DEF Init, sid_sync_reset, TXFrameType
<1>4. line \in LineType
  BY Zenon DEF Init, NoFrame, LineType
<1>5. rx \in RxType
  <2>1. rx = [state |-> "DTX", since |-> 0, hang |-> HangConst, elapsed |-> MaxCount,
              added |-> FALSE, sidFrame |-> FALSE, valid |-> FALSE, updated |-> FALSE]
    BY Zenon DEF Init, dtx_dec_reset
  <2> QED
    BY <1>1, <2>1, Zenon DEF RxType
<1>6. ghost \in GhostType
  BY <1>1, Zenon DEF Init, GhostType
<1>7. level \in -LevelLimit .. LevelLimit - 1 /\ bfh \in 0 .. 6
  BY <1>1, LevelAssumption, Zenon DEF Init, Decoder_amr_reset
<1> QED
  BY <1>2, <1>3, <1>4, <1>5, <1>6, <1>7, Zenon DEF TypeOK, LineType, RxType, GhostType

LEMMA TypeNext == TypeOK /\ [Next]_vars => TypeOK'
<1> SUFFICES ASSUME TypeOK, [Next]_vars PROVE TypeOK'
  OBVIOUS
<1> USE DEF LineType, RxType, GhostType
<1>1. ASSUME NEW vad \in BOOLEAN, Encode(vad) PROVE TypeOK'
  <2>1. line' \in LineType
    <3>1. line' = AMREncode(sid'.prev)
      BY <1>1, EncodeSid
    <3> QED
      BY <3>1, Zenon DEF AMREncode
  <2>2. /\ tx' \in [hang: 0 .. HangConst, elapsed: 0 .. MaxCount]
        /\ sid' \in [counter: 1 .. SidRate, debt: 0 .. MaxDebt, prev: TXFrameType]
        /\ ghost' \in GhostType /\ rx' = rx /\ level' = level /\ bfh' = bfh
    BY <1>1, EncodeTx, EncodeSid, EncodeGhost
  <2> QED
    BY <2>1, <2>2, Zenon DEF TypeOK
<1>2. ASSUME NEW frames \in 1 .. MaxDebt, SetHandoverDebt(frames) PROVE TypeOK'
  <2>1. sid' \in [counter: 1 .. SidRate, debt: 0 .. MaxDebt, prev: TXFrameType]
    <3>1. frames \in 0 .. MaxDebt
      BY <1>2, ThreshAssumption, SMT
    <3>2. sid' = [counter |-> sid.counter, debt |-> frames, prev |-> sid.prev]
      BY <1>2, Zenon DEF SetHandoverDebt, TypeOK
    <3> QED
      BY <3>1, <3>2, Zenon DEF TypeOK
  <2> QED
    BY <1>2, <2>1, Zenon DEF TypeOK, SetHandoverDebt
<1>3. ASSUME NEW t \in RXFrameType, NEW intact \in BOOLEAN, Decode(t, intact) PROVE TypeOK'
  <2>1. rx' \in RxType /\ level' \in -LevelLimit .. LevelLimit - 1 /\ bfh' \in 0 .. 6
    BY <1>3, RxTypePreserved, LevelPreserved, BfhPreserved
  <2>2. ghost' \in GhostType /\ line' = NoFrame /\ tx' = tx /\ sid' = sid
    BY <1>3, DecodeGhost
  <2>3. NoFrame \in LineType
    BY Zenon DEF NoFrame
  <2> QED
    BY <2>1, <2>2, <2>3, Zenon DEF TypeOK
<1>4. CASE UNCHANGED vars
  BY <1>4, Zenon DEF TypeOK, vars
<1> QED
  BY <1>1, <1>2, <1>3, <1>4, DecodeSteps, Zenon DEF Next

(* The types of the two ends, the line and the history.                      *)
THEOREM TypeCorrect == Spec => []TypeOK
  BY TypeInit, TypeNext, PTL DEF Spec

-----------------------------------------------------------------------------
(* The schedule of the noise descriptions                                    *)

LEMMA ScheduleNext == TypeOK /\ Schedule /\ [Next]_vars => Schedule'
<1> SUFFICES ASSUME TypeOK, Schedule, [Next]_vars PROVE Schedule'
  OBVIOUS
<1>1. /\ ghost.gap \in 0 .. SidRate /\ sid.counter \in 1 .. SidRate
      /\ SidRate \in Nat /\ FirstUpdate \in 1 .. SidRate
  BY RateAssumption, SMT DEF TypeOK
<1>2. ASSUME NEW vad \in BOOLEAN, Encode(vad) PROVE Schedule'
  <2>1. /\ sid'.counter \in 1 .. SidRate
        /\ sid'.prev = "TX_NO_DATA" => sid'.counter = sid.counter - 1
    <3>1. sid' \in [counter: 1 .. SidRate, debt: 0 .. MaxDebt, prev: TXFrameType]
      BY <1>2, EncodeSid
    <3>2. sid'.prev = "TX_NO_DATA" => sid'.counter = sid.counter - 1
      BY <1>2, EncodeSid
    <3> QED
      BY <3>1, <3>2
  <2>2. ghost'.gap = IF sid'.prev = "TX_NO_DATA" THEN Capped(ghost.gap + 1, SidRate) ELSE 0
    BY <1>2, EncodeGhost
  <2>3. CASE sid'.prev = "TX_NO_DATA"
    BY <1>1, <2>1, <2>2, <2>3, SMT DEF Schedule, Capped
  <2>4. CASE sid'.prev # "TX_NO_DATA"
    BY <1>1, <2>1, <2>2, <2>4, SMT DEF Schedule
  <2> QED
    BY <2>3, <2>4
<1>3. ASSUME NEW frames \in 1 .. MaxDebt, SetHandoverDebt(frames) PROVE Schedule'
  <2>1. sid' = [counter |-> sid.counter, debt |-> frames, prev |-> sid.prev]
    BY <1>3, Zenon DEF SetHandoverDebt, TypeOK
  <2>2. sid'.counter = sid.counter /\ ghost' = ghost
    BY <1>3, <2>1, Zenon DEF SetHandoverDebt
  <2> QED
    BY <2>2, Zenon DEF Schedule
<1>4. ASSUME NEW t \in RXFrameType, NEW intact \in BOOLEAN, Decode(t, intact) PROVE Schedule'
  <2>1. ghost'.gap = ghost.gap /\ sid' = sid
    BY <1>4, DecodeGhost
  <2> QED
    BY <2>1, Zenon DEF Schedule
<1>5. CASE UNCHANGED vars
  BY <1>5, Zenon DEF Schedule, vars
<1> QED
  BY <1>2, <1>3, <1>4, <1>5, DecodeSteps, Zenon DEF Next

(* A pause is never silent for SidRate frames in a row (sid_sync), whatever  *)
(* the handover debt: each frame without data costs the counter one.         *)
THEOREM SidSchedule == Spec => []SidsOnTime
<1>1. Init => Schedule
  BY RateAssumption, SMT DEF Init, Schedule, sid_sync_reset
<1>2. TypeOK /\ Schedule => SidsOnTime
  <2> SUFFICES ASSUME TypeOK, Schedule PROVE SidsOnTime
    OBVIOUS
  <2>1. ghost.gap \in 0 .. SidRate /\ sid.counter \in 1 .. SidRate /\ SidRate \in Nat
    BY RateAssumption, SMT DEF TypeOK
  <2> QED
    BY <2>1, SMT DEF Schedule, SidsOnTime
<1> QED
  BY <1>1, <1>2, TypeCorrect, ScheduleNext, PTL DEF Spec

-----------------------------------------------------------------------------
(* When the decoder starts to mute                                           *)

\* What brings the frame counter back makes the decoder count afresh.
LEMMA CountedDecode ==
    ASSUME TypeOK, Counted, NEW t \in RXFrameType, NEW intact \in BOOLEAN,
           Decode(t, intact)
    PROVE  Counted'
<1> DEFINE st == rx_dtx_handler(t)
<1>1. /\ rx.since \in 0 .. EmptyThresh /\ ghost.stale \in 0 .. EmptyThresh + 1
      /\ EmptyThresh \in Nat
  BY ThreshAssumption DEF TypeOK
<1>2. rx'.since \in 0 .. EmptyThresh /\ ghost'.stale \in 0 .. EmptyThresh + 1
  BY TypeNext, RxTypePreserved, DecodeGhost, Zenon DEF RxType, GhostType
<1>3. rx'.since = 0 \/ (rx'.since = rx.since + 1 /\ ~Fresh(t))
  <2> DEFINE new   == NewState(t)
             added == FollowHangover(t, new).added /\ ~(new # "SPEECH" /\ t = "RX_SID_BAD")
             fresh == new # "SPEECH" /\ t \in SidTypes /\ (t = "RX_SID_UPDATE" \/ added)
             since == IF ~(new # "SPEECH") \/ fresh \/ new = "DTX_MUTE" THEN 0 ELSE rx.since + 1
  <2>1. rx'.since = since
    BY DecodeRx DEF RxAfter
  <2>2. Fresh(t) => fresh \/ new = "SPEECH"
    <3>1. ASSUME new # "SPEECH" PROVE NewNoise(st) = fresh
      <4>1. /\ st.sidFrame = (t \in SidTypes) /\ st.valid = (t = "RX_SID_UPDATE")
            /\ st.added = added
        BY <3>1 DEF rx_dtx_handler
      <4> HIDE DEF added, st, new
      <4> QED
        BY <3>1, <4>1, Zenon DEF NewNoise
    <3>2. t \in {"RX_SPEECH_GOOD", "RX_SPEECH_DEGRADED"} => new = "SPEECH"
      BY DEF NewState, StaysNoise, SidTypes
    <3> HIDE DEF fresh, new, st
    <3> QED
      BY <3>1, <3>2, Zenon DEF Fresh, new, st
  <2> HIDE DEF fresh, new
  <2> QED
    BY <2>1, <2>2, Zenon
<1> HIDE DEF st
<1>4. ghost'.stale = IF Fresh(t) THEN 0 ELSE Capped(ghost.stale + 1, EmptyThresh + 1)
  BY DecodeGhost
<1>5. CASE rx'.since = 0
  BY <1>2, <1>5, SMT DEF Counted
<1>6. CASE rx'.since = rx.since + 1 /\ ~Fresh(t)
  <2>1. ghost'.stale = Capped(ghost.stale + 1, EmptyThresh + 1)
    BY <1>4, <1>6, Zenon
  <2> QED
    BY <1>1, <1>2, <1>6, <2>1, SMT DEF Counted, Capped
<1> QED
  BY <1>3, <1>5, <1>6

LEMMA CountedNext == TypeOK /\ Counted /\ [Next]_vars => Counted'
<1> SUFFICES ASSUME TypeOK, Counted, [Next]_vars PROVE Counted'
  OBVIOUS
<1>1. ASSUME NEW vad \in BOOLEAN, Encode(vad) PROVE Counted'
  <2>1. rx' = rx /\ ghost'.stale = ghost.stale
    BY <1>1, EncodeSid, EncodeGhost
  <2> QED
    BY <2>1, Zenon DEF Counted
<1>2. ASSUME NEW frames \in 1 .. MaxDebt, SetHandoverDebt(frames) PROVE Counted'
  BY <1>2, Zenon DEF Counted, SetHandoverDebt
<1>3. ASSUME NEW t \in RXFrameType, NEW intact \in BOOLEAN, Decode(t, intact) PROVE Counted'
  BY <1>3, CountedDecode
<1>4. CASE UNCHANGED vars
  BY <1>4, Zenon DEF Counted, vars
<1> QED
  BY <1>1, <1>2, <1>3, <1>4, DecodeSteps, Zenon DEF Next

LEMMA MuteStep ==
    ASSUME TypeOK, Counted, [Next]_vars, rx.state # "DTX_MUTE", rx'.state = "DTX_MUTE"
    PROVE  ghost.stale >= EmptyThresh
<1>1. ASSUME NEW t \in RXFrameType, NEW intact \in BOOLEAN, Decode(t, intact)
      PROVE  ghost.stale >= EmptyThresh
  <2>1. NewState(t) = "DTX_MUTE"
    BY <1>1, DecodeRx DEF RxAfter
  <2>2. TooOld(t)
    BY <2>1, Zenon DEF NewState, StaysMuted
  <2>3. /\ rx.since \in 0 .. EmptyThresh /\ ghost.stale \in 0 .. EmptyThresh + 1
        /\ EmptyThresh \in Nat
    BY ThreshAssumption DEF TypeOK
  <2> QED
    BY <2>2, <2>3, SMT DEF TooOld, Counted
<1>2. ~(\E vad \in BOOLEAN : Encode(vad))
  BY Zenon DEF Encode
<1>3. ~(\E frames \in 1 .. MaxDebt : SetHandoverDebt(frames))
  BY Zenon DEF SetHandoverDebt
<1>4. ~UNCHANGED vars
  BY Zenon DEF vars
<1> QED
  BY <1>1, <1>2, <1>3, <1>4, DecodeSteps, Zenon DEF Next

(* The decoder starts to mute only after EmptyThresh frames without speech   *)
(* and without a new description of the noise (rx_dtx_handler and dtx_dec).  *)
THEOREM MutedWhenStale == Spec => MutedOnlyWhenStale
<1>1. Init => Counted
  BY SMT DEF Init, Counted, dtx_dec_reset
<1>2. TypeOK /\ Counted /\ [Next]_vars
        => [rx.state # "DTX_MUTE" /\ rx'.state = "DTX_MUTE" => ghost.stale >= EmptyThresh]_vars
  BY MuteStep
<1> QED
  BY <1>1, <1>2, TypeCorrect, CountedNext, PTL DEF Spec, MutedOnlyWhenStale

-----------------------------------------------------------------------------
(* The receiver follows the hangovers of the transmitter                     *)

\* What the frame on the line says of the transmitter, and how it is read.
LEMMA OnTheLine ==
    ASSUME TypeOK, LineInv, line # NoFrame
    PROVE  /\ Speaks => line.type = "SPEECH" /\ AMRDecode(line) = "RX_SPEECH_GOOD"
           /\ ~Speaks => /\ line.type \in {"AMR_SID", "AMR_NO_DATA"}
                         /\ \/ /\ sid.prev = "TX_SID_FIRST" /\ ~line.update
                               /\ line = [type |-> "AMR_SID", update |-> FALSE]
                               /\ AMRDecode(line) = "RX_SID_FIRST"
                            \/ /\ sid.prev = "TX_SID_UPDATE" /\ line.update
                               /\ line = [type |-> "AMR_SID", update |-> TRUE]
                               /\ AMRDecode(line) = "RX_SID_UPDATE"
                            \/ /\ sid.prev = "TX_NO_DATA" /\ ~line.update
                               /\ line.type = "AMR_NO_DATA"
                               /\ AMRDecode(line) = "RX_NO_DATA"
<1>1. line = AMREncode(sid.prev)
  BY Zenon DEF LineInv
<1>2. sid.prev \in TXFrameType
  BY DEF TypeOK
<1>3. CASE sid.prev = "TX_SPEECH_GOOD"
  BY <1>1, <1>3 DEF AMREncode, AMRDecode, Speaks
<1>4. CASE sid.prev = "TX_SID_FIRST"
  BY <1>1, <1>4 DEF AMREncode, AMRDecode, Speaks
<1>5. CASE sid.prev = "TX_SID_UPDATE"
  BY <1>1, <1>5 DEF AMREncode, AMRDecode, Speaks
<1>6. CASE sid.prev = "TX_NO_DATA"
  BY <1>1, <1>6 DEF AMREncode, AMRDecode, Speaks
<1> QED
  BY <1>2, <1>3, <1>4, <1>5, <1>6, Zenon DEF TXFrameType

\* An encoded frame is a frame.
LEMMA OnItsWay ==
    ASSUME TypeOK, NEW vad \in BOOLEAN, Encode(vad)
    PROVE  /\ line' # NoFrame
           /\ sid'.prev = "TX_SID_FIRST" =>
                line' = [type |-> "AMR_SID", update |-> FALSE]
           /\ sid'.prev = "TX_SID_UPDATE" =>
                line'.update /\ line' # [type |-> "AMR_SID", update |-> FALSE]
                             /\ line'.type = "AMR_SID"
           /\ sid'.prev = "TX_NO_DATA" =>
                line'.type = "AMR_NO_DATA" /\ line' # [type |-> "AMR_SID", update |-> FALSE]
<1>1. line' = AMREncode(sid'.prev)
  BY EncodeSid
<1>2. line' # NoFrame
  <2>1. line'.type # "NONE"
    BY <1>1, Zenon DEF AMREncode
  <2> QED
    BY <2>1 DEF NoFrame
<1>3. CASE sid'.prev = "TX_SID_FIRST"
  BY <1>1, <1>2, <1>3 DEF AMREncode
<1>4. CASE sid'.prev = "TX_SID_UPDATE"
  BY <1>1, <1>2, <1>4 DEF AMREncode
<1>5. CASE sid'.prev = "TX_NO_DATA"
  BY <1>1, <1>2, <1>5 DEF AMREncode
<1> QED
  BY <1>2, <1>3, <1>4, <1>5, Zenon

\* The receiver after a frame, as rules.
LEMMA DecodeFields ==
    ASSUME TypeOK, NEW t \in RXFrameType, NEW intact \in BOOLEAN, Decode(t, intact)
    PROVE  /\ rx'.state = NewState(t)
           /\ Counting(t) \in 0 .. MaxCount
           /\ SpeaksOnTx(t, NewState(t)) =>
                rx'.hang = HangConst /\ rx'.elapsed = Counting(t) /\ ~rx'.added
           /\ ~SpeaksOnTx(t, NewState(t)) /\ Counting(t) > ElapsedThresh =>
                /\ rx'.hang = 0 /\ rx'.elapsed = 0
                /\ t = "RX_SID_FIRST" => rx'.added
           /\ ~SpeaksOnTx(t, NewState(t)) /\ ~(Counting(t) > ElapsedThresh) =>
                /\ ~rx'.added
                /\ rx.hang = 0 => rx'.hang = 0 /\ rx'.elapsed = 0
                /\ rx.hang # 0 => rx'.hang = rx.hang - 1 /\ rx'.elapsed = Counting(t)
           /\ rx.updated => rx'.updated
           /\ NewState(t) # "SPEECH" /\ t = "RX_SID_UPDATE" => rx'.updated
           /\ NewState(t) # "SPEECH" /\ t = "RX_SID_FIRST" /\ rx'.added => rx'.updated
<1> DEFINE new    == NewState(t)
           follow == FollowHangover(t, new)
           noise  == new # "SPEECH"
           added  == follow.added /\ ~(noise /\ t = "RX_SID_BAD")
           fresh  == noise /\ t \in SidTypes /\ (t = "RX_SID_UPDATE" \/ added)
<1>1. /\ rx'.state = new /\ rx'.hang = follow.hang /\ rx'.elapsed = follow.elapsed
      /\ rx'.added = added /\ rx'.updated = (rx.updated \/ fresh)
  BY DecodeRx DEF RxAfter
<1>2. /\ Counting(t) \in 0 .. MaxCount
      /\ SpeaksOnTx(t, new) =>
           follow.hang = HangConst /\ follow.elapsed = Counting(t) /\ ~follow.added
      /\ ~SpeaksOnTx(t, new) /\ Counting(t) > ElapsedThresh =>
           follow.hang = 0 /\ follow.elapsed = 0 /\ follow.added
      /\ ~SpeaksOnTx(t, new) /\ ~(Counting(t) > ElapsedThresh) /\ rx.hang = 0 =>
           follow.hang = 0 /\ follow.elapsed = 0 /\ ~follow.added
      /\ ~SpeaksOnTx(t, new) /\ ~(Counting(t) > ElapsedThresh) /\ rx.hang # 0 =>
           follow.hang = rx.hang - 1 /\ follow.elapsed = Counting(t) /\ ~follow.added
  BY Follow, Zenon
<1>3. /\ "RX_SID_FIRST" \in SidTypes /\ "RX_SID_UPDATE" \in SidTypes
      /\ "RX_SID_FIRST" # "RX_SID_BAD"
  BY DEF SidTypes
<1> HIDE DEF new, follow
<1>4. rx.updated => rx'.updated
  BY <1>1, Zenon
<1>5. noise /\ t = "RX_SID_UPDATE" => rx'.updated
  BY <1>1, <1>3, Zenon
<1>6. noise /\ t = "RX_SID_FIRST" /\ rx'.added => rx'.updated
  BY <1>1, <1>3, Zenon
<1>7. t = "RX_SID_FIRST" /\ follow.added => rx'.added
  BY <1>1, <1>3, Zenon
<1>8. ~follow.added => ~rx'.added
  BY <1>1, Zenon
<1> HIDE DEF added, fresh
<1> QED
  BY <1>1, <1>2, <1>4, <1>5, <1>6, <1>7, <1>8, Zenon DEF new

\* A frame of a pause: the receiver takes or keeps it for noise.
LEMMA PauseFrame ==
    ASSUME TypeOK, NEW t \in {"RX_SID_FIRST", "RX_SID_UPDATE", "RX_NO_DATA"},
           t \in SidTypes \/ rx.state # "SPEECH"
    PROVE  NewState(t) # "SPEECH" /\ ~SpeaksOnTx(t, NewState(t))
<1>1. rx.state \in {"SPEECH", "DTX", "DTX_MUTE"}
  BY DEF TypeOK
<1>2. StaysNoise(t)
  BY <1>1 DEF StaysNoise, SidTypes
<1>3. NewState(t) \in {"DTX", "DTX_MUTE"}
  BY <1>2, Zenon DEF NewState
<1> QED
  BY <1>3 DEF SpeaksOnTx, SidTypes

\* The counts that saturate.
LEMMA Adding ==
    ASSUME NEW a \in 0 .. MaxCount
    PROVE  /\ add_16(a, 1) \in 0 .. MaxCount
           /\ a >= ElapsedThresh <=> add_16(a, 1) > ElapsedThresh
           /\ add_16(a, 1) >= a
           /\ a < ElapsedThresh => add_16(a, 1) = a + 1
<1>1. MaxCount \in Nat /\ ElapsedThresh \in Nat /\ MaxCount > ElapsedThresh
  BY ThreshAssumption, SMT
<1> QED
  BY <1>1, SMT DEF add_16

LEMMA AddingBoth ==
    ASSUME NEW a \in 0 .. MaxCount, NEW h \in 0 .. HangConst
    PROVE  add_16(a, h) < ElapsedThresh <=> a + h < ElapsedThresh
<1>1. MaxCount \in Nat /\ ElapsedThresh \in Nat /\ MaxCount > ElapsedThresh /\ HangConst \in Nat
  BY ThreshAssumption, SMT
<1> QED
  BY <1>1, SMT DEF add_16

\* The two counts of the transmitter in one frame: it speaks, it ends a
\* hangover, it goes on with a hangover, or it pauses without one.
LEMMA TxCases ==
    ASSUME TypeOK, TxInv, NEW vad \in BOOLEAN, Encode(vad)
    PROVE  \/ /\ sid'.prev = "TX_SPEECH_GOOD"
              /\ tx'.hang = HangConst /\ ghost'.noise = 0
              /\ tx'.elapsed = add_16(tx.elapsed, 1)
           \/ /\ sid'.prev = "TX_SPEECH_GOOD" /\ Speaks
              /\ tx'.hang + ghost'.noise = HangConst /\ ghost'.noise > 0
              /\ tx'.elapsed = add_16(tx.elapsed, 1)
              /\ tx'.elapsed + tx'.hang >= ElapsedThresh
           \/ /\ sid'.prev = "TX_SID_FIRST" /\ Speaks /\ sid'.counter = FirstUpdate
              /\ tx.hang = 0 /\ tx'.hang = 0 /\ tx'.elapsed = 0
              /\ ghost'.noise = HangConst /\ tx.elapsed >= ElapsedThresh
           \/ /\ sid'.prev = "TX_SID_FIRST" /\ Speaks /\ sid'.counter = FirstUpdate
              /\ tx.hang = HangConst /\ tx'.hang = HangConst - 1
              /\ ghost'.noise = 0 /\ tx'.elapsed = tx.elapsed + 1
              /\ tx'.elapsed + tx'.hang < ElapsedThresh
           \/ /\ sid'.prev \in {"TX_SID_UPDATE", "TX_NO_DATA"} /\ ~Speaks
              /\ sid'.prev = "TX_NO_DATA" => sid'.counter = sid.counter - 1
              /\ tx.hang = 0 => tx'.hang = 0 /\ tx'.elapsed = 0
              /\ tx.hang # 0 => tx'.hang = tx.hang - 1 /\ tx'.elapsed = tx.elapsed + 1
<1> DEFINE noise == Noise(vad)
<1>0. /\ tx.hang \in 0 .. HangConst /\ tx.elapsed \in 0 .. MaxCount
      /\ ghost.noise \in 0 .. HangConst
      /\ HangConst \in Nat \ {0} /\ ElapsedThresh \in Nat /\ MaxCount \in Nat
      /\ ElapsedThresh > HangConst /\ MaxCount > ElapsedThresh
  BY ThreshAssumption, SMT DEF TypeOK
<1>1. /\ noise \in BOOLEAN
      /\ tx'.hang \in 0 .. HangConst /\ tx'.elapsed \in 0 .. MaxCount
      /\ vad => ~noise /\ tx'.hang = HangConst /\ tx'.elapsed = add_16(tx.elapsed, 1)
      /\ ~vad /\ tx.hang = 0 => noise /\ tx'.hang = 0 /\ tx'.elapsed = 0
      /\ ~vad /\ tx.hang # 0 =>
           /\ tx'.hang = tx.hang - 1 /\ tx'.elapsed = add_16(tx.elapsed, 1)
           /\ noise = (add_16(tx'.elapsed, tx'.hang) < ElapsedThresh)
  <2>1. tx' \in [hang: 0 .. HangConst, elapsed: 0 .. MaxCount]
    BY EncodeTx
  <2>2. tx'.hang \in 0 .. HangConst /\ tx'.elapsed \in 0 .. MaxCount
    BY <2>1
  <2> QED
    BY <2>2, EncodeTx, Zenon
<1>2. /\ ~noise => sid'.prev = "TX_SPEECH_GOOD"
      /\ noise /\ Speaks => sid'.prev = "TX_SID_FIRST" /\ sid'.counter = FirstUpdate
      /\ noise /\ ~Speaks => /\ sid'.prev \in {"TX_SID_UPDATE", "TX_NO_DATA"}
                             /\ sid'.prev = "TX_NO_DATA" => sid'.counter = sid.counter - 1
  BY EncodeSid, Zenon
<1>3. /\ vad => ghost'.noise = 0
      /\ noise => ghost'.noise = ghost.noise
      /\ ~vad /\ ~noise => ghost'.noise = Capped(ghost.noise + 1, HangConst)
  BY EncodeGhost, Zenon
<1>4. /\ Speaks => /\ tx.hang + ghost.noise = HangConst
                   /\ ghost.noise > 0 => tx.elapsed + tx.hang >= ElapsedThresh
      /\ ~Speaks => tx.elapsed + tx.hang < ElapsedThresh
  BY Zenon DEF TxInv
<1>5. noise = (add_16(tx'.elapsed, tx'.hang) < ElapsedThresh)
         => (noise <=> tx'.elapsed + tx'.hang < ElapsedThresh)
  <2>1. add_16(tx'.elapsed, tx'.hang) < ElapsedThresh
          <=> tx'.elapsed + tx'.hang < ElapsedThresh
    BY <1>1, AddingBoth
  <2> QED
    BY <1>1, <2>1, Zenon
<1>6. /\ add_16(tx.elapsed, 1) >= tx.elapsed
      /\ tx.elapsed >= ElapsedThresh => add_16(tx.elapsed, 1) > ElapsedThresh
      /\ tx.elapsed < ElapsedThresh => add_16(tx.elapsed, 1) = tx.elapsed + 1
  BY <1>0, Adding
<1> HIDE DEF noise
<1>7. CASE vad
  BY <1>1, <1>2, <1>3, <1>7, Zenon
<1>8. CASE ~vad /\ tx.hang = 0 /\ Speaks
  <2>1. noise /\ tx'.hang = 0 /\ tx'.elapsed = 0
    BY <1>1, <1>8, Zenon
  <2>2. sid'.prev = "TX_SID_FIRST" /\ sid'.counter = FirstUpdate /\ ghost'.noise = ghost.noise
    BY <1>2, <1>3, <1>8, <2>1, Zenon
  <2>3. ghost.noise = HangConst /\ tx.elapsed >= ElapsedThresh
    BY <1>0, <1>4, <1>8, SMT
  <2> QED
    BY <1>8, <2>1, <2>2, <2>3, Zenon
<1>9. CASE ~vad /\ tx.hang = 0 /\ ~Speaks
  BY <1>1, <1>2, <1>9, Zenon
<1>10. CASE ~vad /\ tx.hang # 0 /\ ~noise
  <2>1. tx'.hang = tx.hang - 1 /\ tx'.elapsed = add_16(tx.elapsed, 1)
    BY <1>1, <1>10, Zenon
  <2>2. ~(tx'.elapsed + tx'.hang < ElapsedThresh)
    BY <1>1, <1>5, <1>10, Zenon
  <2>3. Speaks
    <3>1. SUFFICES ASSUME tx.elapsed + tx.hang < ElapsedThresh PROVE FALSE
      BY <1>4, Zenon
    <3> QED
      BY <1>0, <1>6, <1>10, <2>1, <2>2, <3>1, SMT
  <2>4. sid'.prev = "TX_SPEECH_GOOD" /\ ghost'.noise = Capped(ghost.noise + 1, HangConst)
    BY <1>2, <1>3, <1>10, Zenon
  <2>5. tx.hang + ghost.noise = HangConst
    BY <1>4, <2>3, Zenon
  <2>6. /\ tx'.hang + ghost'.noise = HangConst /\ ghost'.noise > 0
        /\ tx'.elapsed + tx'.hang >= ElapsedThresh
    BY <1>0, <1>1, <1>10, <2>1, <2>2, <2>4, <2>5, SMT DEF Capped
  <2> QED
    BY <2>1, <2>3, <2>4, <2>6, Zenon
<1>11. CASE ~vad /\ tx.hang # 0 /\ noise
  <2>1. tx'.hang = tx.hang - 1 /\ tx'.elapsed = add_16(tx.elapsed, 1)
    BY <1>1, <1>11, Zenon
  <2>2. tx'.elapsed + tx'.hang < ElapsedThresh
    BY <1>1, <1>5, <1>11, Zenon
  <2>3. tx'.elapsed = tx.elapsed + 1 /\ tx.elapsed + tx.hang < ElapsedThresh
    BY <1>0, <1>1, <1>6, <1>11, <2>1, <2>2, SMT
  <2>4. CASE Speaks
    <3>1. tx.hang + ghost.noise = HangConst /\ ~(ghost.noise > 0)
      BY <1>0, <1>4, <2>3, <2>4, SMT
    <3>2. ghost.noise = 0 /\ tx.hang = HangConst
      BY <1>0, <3>1, SMT
    <3> QED
      BY <1>2, <1>3, <1>11, <2>1, <2>2, <2>3, <2>4, <3>2, Zenon
  <2>5. CASE ~Speaks
    BY <1>2, <1>11, <2>1, <2>3, <2>5, Zenon
  <2> QED
    BY <2>4, <2>5
<1> QED
  BY <1>1, <1>7, <1>8, <1>9, <1>10, <1>11, Zenon

\* One frame of the transmitter.
LEMMA EncodeInv ==
    ASSUME TypeOK, TxInv, Follows, RunTx, RunRx, RunUpdate, NEW vad \in BOOLEAN, Encode(vad)
    PROVE  LineInv' /\ TxInv' /\ Follows' /\ RunTx' /\ RunRx' /\ RunUpdate'
<1> DEFINE cases ==
      \/ /\ sid'.prev = "TX_SPEECH_GOOD"
         /\ tx'.hang = HangConst /\ ghost'.noise = 0
         /\ tx'.elapsed = add_16(tx.elapsed, 1)
      \/ /\ sid'.prev = "TX_SPEECH_GOOD" /\ Speaks
         /\ tx'.hang + ghost'.noise = HangConst /\ ghost'.noise > 0
         /\ tx'.elapsed = add_16(tx.elapsed, 1)
         /\ tx'.elapsed + tx'.hang >= ElapsedThresh
<1>0. /\ tx.hang \in 0 .. HangConst /\ tx.elapsed \in 0 .. MaxCount
      /\ rx.hang \in 0 .. HangConst /\ rx.elapsed \in 0 .. MaxCount
      /\ ghost.noise \in 0 .. HangConst /\ ghost.pause \in 0 .. HangConst + 1
      /\ sid.counter \in 1 .. SidRate /\ SidRate \in Nat /\ FirstUpdate \in Nat
      /\ HangConst \in Nat \ {0} /\ ElapsedThresh \in Nat /\ MaxCount \in Nat
      /\ ElapsedThresh > HangConst /\ MaxCount > ElapsedThresh
  BY ThreshAssumption, RateAssumption, SMT DEF TypeOK
<1>1. /\ line = NoFrame /\ line' # NoFrame /\ rx' = rx
      /\ ghost'.intact = ghost.intact /\ ghost'.pause = ghost.pause
  BY EncodeSid, EncodeGhost, OnItsWay, Zenon
<1>2. /\ sid'.prev = "TX_SID_FIRST" => line' = [type |-> "AMR_SID", update |-> FALSE]
                                       /\ line'.type # "AMR_NO_DATA"
      /\ sid'.prev = "TX_SID_UPDATE" => line'.update /\ line'.type = "AMR_SID"
      /\ sid'.prev \in {"TX_SID_UPDATE", "TX_NO_DATA"} =>
           line' # [type |-> "AMR_SID", update |-> FALSE]
  BY OnItsWay
<1>3. Speaks' <=> sid'.prev = "TX_SPEECH_GOOD"
  BY DEF Speaks
<1>4. LineInv'
  <2>1. line' = AMREncode(sid'.prev)
    BY EncodeSid
  <2> QED
    BY <2>1, Zenon DEF LineInv
<1>5. /\ add_16(tx.elapsed, 1) >= tx.elapsed
      /\ add_16(tx.elapsed, 1) \in 0 .. MaxCount
      /\ tx.elapsed >= ElapsedThresh <=> add_16(tx.elapsed, 1) > ElapsedThresh
      /\ tx.elapsed < ElapsedThresh => add_16(tx.elapsed, 1) = tx.elapsed + 1
  BY <1>0, Adding
<1>6. ghost.intact =>
        /\ rx.elapsed = tx.elapsed
        /\ Speaks => rx.hang = HangConst
        /\ ~Speaks => rx.hang = tx.hang /\ rx.state # "SPEECH" /\ rx.updated
        /\ rx.updated \/ tx.elapsed >= ElapsedThresh
  BY <1>1, Zenon DEF Follows, SameCounts
<1>7. ghost.intact => Elapsed' = add_16(tx.elapsed, 1)
  BY <1>1, <1>6, Zenon DEF Elapsed
<1>8. Follows' <=> (ghost.intact => OneBehind')
  BY <1>1, Zenon DEF Follows
<1>9. Sent = ghost.pause /\ Sent' = ghost.pause + 1
  BY <1>1, Zenon DEF Sent
<1>10. /\ ~Speaks => /\ tx.hang = 0 \/ tx.hang + ghost.pause <= HangConst
                     /\ ghost.pause > HangConst => tx.hang = 0 /\ tx.elapsed = 0
       /\ ghost.pause > 0 =>
            /\ rx.state # "SPEECH"
            /\ rx.hang = 0 \/ rx.hang + ghost.pause <= HangConst
            /\ ghost.pause > HangConst => rx.hang = 0 /\ rx.elapsed = 0
            /\ ~Speaks
       /\ ghost.pause > 0 /\ ~rx.updated /\ ~Speaks => sid.counter + ghost.pause <= FirstUpdate + 1
  <2>1. ~line.update
    BY <1>1, Zenon DEF NoFrame
  <2> QED
    BY <1>1, <1>9, <2>1, Zenon DEF RunTx, RunRx, RunUpdate
<1>11. sid'.prev # "TX_SID_FIRST" => RunRx'
  BY <1>1, <1>10, Zenon DEF RunRx
<1>12. CASE cases
  <2>1. Speaks' /\ RunTx' /\ RunUpdate' /\ RunRx' /\ sid'.prev # "TX_SID_FIRST"
    BY <1>3, <1>11, <1>12 DEF RunTx, RunUpdate
  <2>2. TxInv'
    <3>1. /\ tx'.hang + ghost'.noise = HangConst
          /\ ghost'.noise > 0 => tx'.elapsed + tx'.hang >= ElapsedThresh
      BY <1>0, <1>12, SMT
    <3> QED
      BY <2>1, <3>1, Zenon DEF TxInv
  <2>3. tx'.elapsed = add_16(tx.elapsed, 1)
    BY <1>12
  <2>4. tx.elapsed >= ElapsedThresh => tx'.elapsed >= ElapsedThresh
    BY <1>0, <1>5, <2>3, SMT
  <2>5. ghost.intact => OneBehind'
    BY <1>1, <1>6, <1>7, <2>1, <2>3, <2>4, Zenon DEF OneBehind
  <2> QED
    BY <1>4, <1>8, <2>1, <2>2, <2>5, Zenon
<1>13. CASE /\ sid'.prev = "TX_SID_FIRST" /\ Speaks /\ sid'.counter = FirstUpdate
            /\ tx.hang = 0 /\ tx'.hang = 0 /\ tx'.elapsed = 0
            /\ ghost'.noise = HangConst /\ tx.elapsed >= ElapsedThresh
  <2>1. ~Speaks' /\ ~(ghost.pause > 0)
    BY <1>3, <1>10, <1>13
  <2>2. RunRx' /\ RunUpdate'
    BY <1>1, <2>1, Zenon DEF RunRx, RunUpdate
  <2>3. RunTx'
    BY <1>13, Zenon DEF RunTx
  <2>4. TxInv'
    BY <1>0, <1>13, <2>1, SMT DEF TxInv
  <2>5. ghost.intact => EndsHangover'
    BY <1>2, <1>5, <1>7, <1>13, Zenon DEF EndsHangover
  <2>6. ghost.intact => OneBehind'
    BY <2>1, <2>5, Zenon DEF OneBehind
  <2> QED
    BY <1>4, <1>8, <2>2, <2>3, <2>4, <2>6, Zenon
<1>14. CASE /\ sid'.prev = "TX_SID_FIRST" /\ Speaks /\ sid'.counter = FirstUpdate
            /\ tx.hang = HangConst /\ tx'.hang = HangConst - 1
            /\ ghost'.noise = 0 /\ tx'.elapsed = tx.elapsed + 1
            /\ tx'.elapsed + tx'.hang < ElapsedThresh
  <2>1. ~Speaks' /\ ~(ghost.pause > 0)
    BY <1>3, <1>10, <1>14
  <2>2. RunRx' /\ RunUpdate'
    BY <1>1, <2>1, Zenon DEF RunRx, RunUpdate
  <2>3. RunTx'
    <3>1. tx'.hang + (ghost.pause + 1) <= HangConst /\ ~(ghost.pause + 1 > HangConst)
      BY <1>0, <1>14, <2>1, SMT
    <3> QED
      BY <1>9, <3>1, Zenon DEF RunTx
  <2>4. TxInv'
    BY <1>14, <2>1, Zenon DEF TxInv
  <2>5. ghost.intact => InPause'
    <3>1. /\ ~(tx.elapsed >= ElapsedThresh) /\ add_16(tx.elapsed, 1) = tx.elapsed + 1
          /\ add_16(tx.elapsed, 1) <= ElapsedThresh /\ HangConst # 0
      BY <1>0, <1>5, <1>14, SMT
    <3>2. ghost'.noise # HangConst
      BY <1>0, <1>14, SMT
    <3>3. ghost.intact => rx.hang = HangConst /\ rx.updated
      BY <1>6, <1>14, <3>1, Zenon
    <3> QED
      BY <1>1, <1>2, <1>7, <1>14, <3>1, <3>2, <3>3, Zenon DEF InPause
  <2>6. ghost.intact => OneBehind'
    BY <2>1, <2>5, Zenon DEF OneBehind
  <2> QED
    BY <1>4, <1>8, <2>2, <2>3, <2>4, <2>6, Zenon
<1>15. CASE /\ sid'.prev \in {"TX_SID_UPDATE", "TX_NO_DATA"} /\ ~Speaks
            /\ sid'.prev = "TX_NO_DATA" => sid'.counter = sid.counter - 1
            /\ tx.hang = 0 => tx'.hang = 0 /\ tx'.elapsed = 0
            /\ tx.hang # 0 => tx'.hang = tx.hang - 1 /\ tx'.elapsed = tx.elapsed + 1
  <2>1. ~Speaks' /\ sid'.prev # "TX_SID_FIRST" /\ sid'.prev # "TX_SPEECH_GOOD"
    BY <1>3, <1>15
  <2>2. tx.elapsed + tx.hang < ElapsedThresh
    BY <1>15, Zenon DEF TxInv
  <2>3. RunRx'
    BY <1>11, <2>1
  <2>4. RunTx'
    <3>1. /\ tx'.hang = 0 \/ tx'.hang + (ghost.pause + 1) <= HangConst
          /\ ghost.pause + 1 > HangConst => tx'.hang = 0 /\ tx'.elapsed = 0
      <4>1. CASE tx.hang = 0
        BY <1>15, <4>1, Zenon
      <4>2. CASE tx.hang # 0
        <5>1. tx.hang + ghost.pause <= HangConst
          BY <1>10, <1>15, <4>2, Zenon
        <5> QED
          BY <1>0, <1>15, <4>2, <5>1, SMT
      <4> QED
        BY <4>1, <4>2
    <3> QED
      BY <1>9, <3>1, Zenon DEF RunTx
  <2>5. RunUpdate'
    <3> SUFFICES ASSUME ghost.pause > 0, ~rx.updated, ~line'.update
                 PROVE  sid'.counter + (ghost.pause + 1) <= FirstUpdate + 1
      BY <1>1, <1>9, Zenon DEF RunUpdate
    <3>1. sid'.counter = sid.counter - 1
      BY <1>2, <1>15
    <3>2. sid.counter + ghost.pause <= FirstUpdate + 1
      BY <1>10, <1>15, Zenon
    <3> QED
      BY <1>0, <3>1, <3>2, SMT
  <2>6. TxInv'
    <3>1. tx'.elapsed + tx'.hang < ElapsedThresh
      <4>1. CASE tx.hang = 0
        <5>1. tx'.hang = 0 /\ tx'.elapsed = 0
          BY <1>15, <4>1, Zenon
        <5> QED
          BY <1>0, <5>1, SMT
      <4>2. CASE tx.hang # 0
        <5>1. tx'.hang = tx.hang - 1 /\ tx'.elapsed = tx.elapsed + 1
          BY <1>15, <4>2, Zenon
        <5> QED
          BY <1>0, <2>2, <5>1, SMT
      <4> QED
        BY <4>1, <4>2
    <3> QED
      BY <2>1, <3>1, Zenon DEF TxInv
  <2>7. ghost.intact => InPause'
    <3>1. add_16(tx.elapsed, 1) = tx.elapsed + 1 /\ add_16(tx.elapsed, 1) <= ElapsedThresh
      BY <1>0, <1>5, <2>2, SMT
    <3>2. ghost.intact => rx.hang = tx.hang /\ rx.state # "SPEECH" /\ rx.updated
      BY <1>6, <1>15, Zenon
    <3>3. line' # [type |-> "AMR_SID", update |-> FALSE]
      BY <1>2, <1>15, Zenon
    <3> QED
      BY <1>1, <1>7, <1>15, <3>1, <3>2, <3>3, Zenon DEF InPause
  <2>8. ghost.intact => OneBehind'
    BY <2>1, <2>7, Zenon DEF OneBehind
  <2> QED
    BY <1>4, <1>8, <2>3, <2>4, <2>5, <2>6, <2>8, Zenon
<1> QED
  BY TxCases, <1>12, <1>13, <1>14, <1>15, Zenon

\* A frame that arrives as it was sent, in a pause: the receiver's counts.
LEMMA PauseArrives ==
    ASSUME TypeOK, LineInv, line # NoFrame, ~Speaks,
           NEW t, t = AMRDecode(line), Decode(t, TRUE),
           t \in SidTypes \/ rx.state # "SPEECH"
    PROVE  /\ rx'.state # "SPEECH"
           /\ Counting(t) \in 0 .. MaxCount
           /\ Counting(t) > ElapsedThresh =>
                /\ rx'.hang = 0 /\ rx'.elapsed = 0
                /\ t = "RX_SID_FIRST" => rx'.added /\ rx'.updated
           /\ ~(Counting(t) > ElapsedThresh) =>
                /\ ~rx'.added
                /\ rx.hang = 0 => rx'.hang = 0 /\ rx'.elapsed = 0
                /\ rx.hang # 0 => rx'.hang = rx.hang - 1 /\ rx'.elapsed = Counting(t)
           /\ rx.updated => rx'.updated /\ Counting(t) = Elapsed
           /\ line.update => rx'.updated
           /\ t = "RX_SID_FIRST" => Counting(t) = Elapsed
<1>1. t \in {"RX_SID_FIRST", "RX_SID_UPDATE", "RX_NO_DATA"} /\ t \in RXFrameType
  BY OnTheLine DEF RXFrameType
<1>2. NewState(t) # "SPEECH" /\ ~SpeaksOnTx(t, NewState(t))
  BY <1>1, PauseFrame
<1>3. line.update => t = "RX_SID_UPDATE"
  BY OnTheLine
<1>4. /\ rx.updated => Counting(t) = Elapsed
      /\ t = "RX_SID_FIRST" => Counting(t) = Elapsed
  <2>1. "RX_SID_FIRST" # "RX_SID_UPDATE"
    OBVIOUS
  <2> QED
    BY <2>1, Zenon DEF Counting, Elapsed
<1>5. TRUE \in BOOLEAN
  OBVIOUS
<1> QED
  BY <1>1, <1>2, <1>3, <1>4, <1>5, DecodeFields, Zenon

\* The counts of the receiver run out in an undamaged pause.
LEMMA DeliverRun ==
    ASSUME TypeOK, LineInv, TxInv, RunTx, RunRx, RunUpdate, Deliver
    PROVE  RunTx' /\ RunRx' /\ RunUpdate'
<1> DEFINE t == AMRDecode(line)
<1>0. /\ tx.hang \in 0 .. HangConst /\ rx.hang \in 0 .. HangConst
      /\ ghost.pause \in 0 .. HangConst + 1
      /\ sid.counter \in 1 .. SidRate /\ SidRate \in Nat /\ FirstUpdate \in Nat
      /\ HangConst \in Nat \ {0}
  BY ThreshAssumption, RateAssumption, SMT DEF TypeOK
<1>1. line # NoFrame /\ Decode(t, TRUE) /\ t \in RXFrameType /\ TRUE \in BOOLEAN
  <2>1. t \in RXFrameType
    BY Zenon DEF AMRDecode, RXFrameType
  <2> QED
    BY <2>1, Zenon DEF Deliver
<1>2. /\ ghost'.pause = RunAfter(t, TRUE)
      /\ line' = NoFrame /\ tx' = tx /\ sid' = sid
  BY <1>1, DecodeGhost, Zenon
<1>3. Sent = ghost.pause + 1 /\ Sent' = ghost'.pause /\ Speaks' = Speaks
  BY <1>1, <1>2, Zenon DEF Sent, Speaks
<1>4. ghost'.pause = 0 \/ ghost'.pause = ghost.pause + 1
         \/ (ghost'.pause = ghost.pause /\ ghost.pause > HangConst)
  <2>1. ghost'.pause = 0 \/ ghost'.pause = Capped(ghost.pause + 1, HangConst + 1)
    BY <1>2, Zenon DEF RunAfter
  <2> QED
    BY <1>0, <2>1, SMT DEF Capped
<1>5. ghost'.pause > 0 => ~Speaks /\ (ghost.pause > 0 \/ t \in SidTypes)
  <2>1. ~(0 > 0)
    BY SMT
  <2> QED
    BY <1>1, <1>2, <2>1, OnTheLine, Zenon DEF RunAfter
<1>6. RunTx'
  <2> SUFFICES ASSUME ~Speaks
               PROVE  /\ tx.hang = 0 \/ tx.hang + ghost'.pause <= HangConst
                      /\ ghost'.pause > HangConst => tx.hang = 0 /\ tx.elapsed = 0
    BY <1>2, <1>3, Zenon DEF RunTx
  <2>1. /\ tx.hang = 0 \/ tx.hang + (ghost.pause + 1) <= HangConst
        /\ ghost.pause + 1 > HangConst => tx.hang = 0 /\ tx.elapsed = 0
    BY <1>3, Zenon DEF RunTx
  <2>2. ghost'.pause > HangConst => ghost.pause + 1 > HangConst
    BY <1>0, <1>4, SMT
  <2>3. tx.hang + (ghost.pause + 1) <= HangConst => tx.hang + ghost'.pause <= HangConst
    BY <1>0, <1>4, SMT
  <2> QED
    BY <2>1, <2>2, <2>3, Zenon
<1>7. ASSUME ghost'.pause > 0
      PROVE  /\ rx'.state # "SPEECH"
             /\ rx'.hang = 0 \/ rx'.hang + ghost'.pause <= HangConst
             /\ ghost'.pause > HangConst => rx'.hang = 0 /\ rx'.elapsed = 0
             /\ ~rx'.updated => ~rx.updated /\ ~line.update
  <2>1. ~Speaks /\ (ghost.pause > 0 \/ t \in SidTypes)
    BY <1>5, <1>7
  <2>2. ghost.pause > 0 =>
          /\ rx.state # "SPEECH"
          /\ rx.hang = 0 \/ rx.hang + ghost.pause <= HangConst
    BY Zenon DEF RunRx
  <2>3. t \in SidTypes \/ rx.state # "SPEECH"
    BY <2>1, <2>2, Zenon
  <2> HIDE DEF t
  <2>4. /\ rx'.state # "SPEECH"
        /\ Counting(t) > ElapsedThresh => rx'.hang = 0 /\ rx'.elapsed = 0
        /\ ~(Counting(t) > ElapsedThresh) =>
             /\ rx.hang = 0 => rx'.hang = 0 /\ rx'.elapsed = 0
             /\ rx.hang # 0 => rx'.hang = rx.hang - 1
        /\ rx.updated => rx'.updated
        /\ line.update => rx'.updated
    BY <1>1, <2>1, <2>3, PauseArrives, Zenon DEF t
  <2>5. \/ rx'.hang = 0 /\ rx'.elapsed = 0
        \/ rx.hang # 0 /\ rx'.hang = rx.hang - 1
    BY <2>4, Zenon
  <2>6. CASE rx'.hang = 0 /\ rx'.elapsed = 0
    BY <2>4, <2>6, Zenon
  <2>7. CASE rx.hang # 0 /\ rx'.hang = rx.hang - 1
    <3>1. ghost.pause > 0 => rx.hang + ghost.pause <= HangConst
      BY <2>2, <2>7, Zenon
    <3>2. rx'.hang + ghost'.pause <= HangConst /\ ~(ghost'.pause > HangConst)
      BY <1>0, <1>4, <2>7, <3>1, SMT
    <3> QED
      BY <2>4, <3>2, Zenon
  <2> QED
    BY <2>5, <2>6, <2>7
<1>8. RunRx'
  <2>1. ghost'.pause > 0 => ~Speaks
    BY <1>5
  <2> QED
    BY <1>2, <1>3, <1>7, <2>1, Zenon DEF RunRx
<1>9. RunUpdate'
  <2> SUFFICES ASSUME ghost'.pause > 0, ~rx'.updated
               PROVE  sid.counter + ghost'.pause <= FirstUpdate + 1
    BY <1>2, <1>3, Zenon DEF RunUpdate
  <2>1. ~Speaks /\ ~rx.updated /\ ~line.update
    BY <1>5, <1>7
  <2>2. CASE ghost.pause > 0
    <3>1. sid.counter + (ghost.pause + 1) <= FirstUpdate + 1
      BY <1>3, <2>1, <2>2, Zenon DEF RunUpdate
    <3> QED
      BY <1>0, <1>4, <3>1, SMT
  <2>3. CASE ~(ghost.pause > 0)
    <3>1. t \in SidTypes
      BY <1>5, <2>3
    <3>2. sid.prev = "TX_SID_FIRST"
      <4>1. "RX_NO_DATA" \notin SidTypes
        BY DEF SidTypes
      <4> QED
        BY <1>1, <2>1, <3>1, <4>1, OnTheLine, Zenon
    <3>3. sid.counter = FirstUpdate
      BY <3>2, Zenon DEF TxInv
    <3> QED
      BY <1>0, <1>4, <2>3, <3>3, SMT
  <2> QED
    BY <2>2, <2>3
<1> QED
  BY <1>6, <1>8, <1>9

\* A frame of a pause that arrives undamaged at a receiver one frame behind.
LEMMA DeliverInPause ==
    ASSUME TypeOK, LineInv, OneBehind, ~Speaks, line # NoFrame,
           NEW t, t = AMRDecode(line), Decode(t, TRUE)
    PROVE  /\ rx'.state # "SPEECH" /\ rx'.updated
           /\ rx'.hang = tx.hang /\ rx'.elapsed = tx.elapsed
           /\ line.type = "AMR_SID" =>
                (rx'.added <=> ~line.update /\ ghost.noise = HangConst)
<1>1. /\ EndsHangover \/ InPause
      /\ \/ /\ ~line.update /\ t = "RX_SID_FIRST"
            /\ line = [type |-> "AMR_SID", update |-> FALSE]
         \/ /\ line.update /\ t = "RX_SID_UPDATE" /\ line.type = "AMR_SID"
            /\ line # [type |-> "AMR_SID", update |-> FALSE]
         \/ /\ ~line.update /\ t = "RX_NO_DATA" /\ line.type = "AMR_NO_DATA"
            /\ line.type # "AMR_SID"
  BY OnTheLine DEF OneBehind
<1>2. t \in SidTypes \/ rx.state # "SPEECH"
  <2>1. "RX_SID_FIRST" \in SidTypes /\ "RX_SID_UPDATE" \in SidTypes
    BY DEF SidTypes
  <2>2. line = [type |-> "AMR_SID", update |-> FALSE] => line.type # "AMR_NO_DATA"
    OBVIOUS
  <2> QED
    BY <1>1, <2>1, <2>2, Zenon DEF EndsHangover, InPause
<1>3. /\ rx'.state # "SPEECH"
      /\ Counting(t) > ElapsedThresh =>
           /\ rx'.hang = 0 /\ rx'.elapsed = 0
           /\ t = "RX_SID_FIRST" => rx'.added /\ rx'.updated
      /\ ~(Counting(t) > ElapsedThresh) =>
           /\ ~rx'.added
           /\ rx.hang = 0 => rx'.hang = 0 /\ rx'.elapsed = 0
           /\ rx.hang # 0 => rx'.hang = rx.hang - 1 /\ rx'.elapsed = Counting(t)
      /\ rx.updated => rx'.updated /\ Counting(t) = Elapsed
      /\ t = "RX_SID_FIRST" => Counting(t) = Elapsed
  BY <1>2, PauseArrives, Zenon
<1>4. CASE EndsHangover
  <2>1. t = "RX_SID_FIRST" /\ ~line.update
    BY <1>1, <1>4, Zenon DEF EndsHangover
  <2> QED
    BY <1>3, <1>4, <2>1, Zenon DEF EndsHangover
<1>5. CASE InPause
  <2>1. Counting(t) = Elapsed /\ ~(Counting(t) > ElapsedThresh)
    <3>1. Elapsed <= ElapsedThresh /\ Counting(t) = Elapsed
      BY <1>3, <1>5, Zenon DEF InPause
    <3>2. Elapsed \in Int /\ ElapsedThresh \in Int
      <4>1. rx.elapsed \in 0 .. MaxCount /\ MaxCount \in Nat /\ ElapsedThresh \in Int
        BY ThreshAssumption, SMT DEF TypeOK
      <4> QED
        BY <4>1, SMT DEF Elapsed, add_16
    <3> QED
      BY <3>1, <3>2, SMT
  <2>2. rx'.hang = tx.hang /\ rx'.elapsed = tx.elapsed /\ rx'.updated /\ ~rx'.added
    BY <1>3, <1>5, <2>1, Zenon DEF InPause
  <2>3. line.type = "AMR_SID" /\ ~line.update => ghost.noise # HangConst
    BY <1>1, <1>5, Zenon DEF InPause
  <2> QED
    BY <1>3, <2>2, <2>3, Zenon
<1> QED
  BY <1>1, <1>4, <1>5

\* After the frame the receiver has the counts of the transmitter again.
LEMMA DeliverFollows ==
    ASSUME TypeOK, LineInv, TxInv, Follows, RunTx, RunRx, RunUpdate, Deliver
    PROVE  Follows'
<1> DEFINE t == AMRDecode(line)
<1>1. line # NoFrame /\ Decode(t, TRUE) /\ t \in RXFrameType /\ TRUE \in BOOLEAN
  <2>1. t \in RXFrameType
    BY Zenon DEF AMRDecode, RXFrameType
  <2> QED
    BY <2>1, Zenon DEF Deliver
<1>2. /\ ghost'.pause = RunAfter(t, TRUE)
      /\ ghost'.intact = ((ghost.intact /\ TRUE) \/ ghost'.pause > HangConst)
      /\ line' = NoFrame /\ tx' = tx /\ sid' = sid
  BY <1>1, DecodeGhost, Zenon
<1>3. Speaks' = Speaks
  BY <1>2, Zenon DEF Speaks
<1> SUFFICES ASSUME ghost.intact \/ ghost'.pause > HangConst
             PROVE  /\ rx'.elapsed = tx.elapsed
                    /\ Speaks => rx'.hang = HangConst
                    /\ ~Speaks => rx'.hang = tx.hang /\ rx'.state # "SPEECH" /\ rx'.updated
                    /\ rx'.updated \/ tx.elapsed >= ElapsedThresh
  BY <1>2, <1>3, Zenon DEF Follows, SameCounts
<1>4. CASE ghost.intact /\ Speaks
  <2>1. t = "RX_SPEECH_GOOD"
    BY <1>1, <1>4, OnTheLine
  <2>2. tx.elapsed = Elapsed /\ (rx.updated \/ tx.elapsed >= ElapsedThresh)
    BY <1>1, <1>4, Zenon DEF Follows, OneBehind
  <2>3. SpeaksOnTx(t, NewState(t)) /\ Counting(t) = Elapsed
    BY <2>1 DEF SpeaksOnTx, SidTypes, Counting, Elapsed
  <2> HIDE DEF t
  <2>4. rx'.hang = HangConst /\ rx'.elapsed = Counting(t) /\ (rx.updated => rx'.updated)
    BY <1>1, <2>3, DecodeFields, Zenon
  <2> QED
    BY <1>4, <2>2, <2>3, <2>4, Zenon
<1>5. CASE ghost.intact /\ ~Speaks
  <2>1. OneBehind
    BY <1>1, <1>5, Zenon DEF Follows
  <2> HIDE DEF t
  <2> QED
    BY <1>1, <1>5, <2>1, DeliverInPause, Zenon DEF t
<1>6. CASE ghost'.pause > HangConst
  <2>0. /\ ghost.pause \in 0 .. HangConst + 1 /\ HangConst \in Nat \ {0}
        /\ sid.counter \in 1 .. SidRate /\ SidRate \in Nat /\ FirstUpdate \in Nat
        /\ FirstUpdate <= HangConst /\ 2 < FirstUpdate
    BY ThreshAssumption, RateAssumption, SMT DEF TypeOK
  <2>1. ghost'.pause > 0 /\ ghost.pause > 0 /\ ghost.pause + 1 > HangConst
    <3>1. ghost'.pause = 0 \/ ghost'.pause = Capped(ghost.pause + 1, HangConst + 1)
      BY <1>2, Zenon DEF RunAfter
    <3> QED
      BY <1>6, <2>0, <3>1, SMT DEF Capped
  <2>2. ~Speaks /\ rx'.state # "SPEECH" /\ rx'.hang = 0 /\ rx'.elapsed = 0
    <3>1. RunRx'
      BY DeliverRun
    <3>2. /\ rx'.state # "SPEECH" /\ rx'.hang = 0 /\ rx'.elapsed = 0
          /\ line' = NoFrame => ~Speaks'
      BY <1>6, <2>1, <3>1, Zenon DEF RunRx
    <3> QED
      BY <1>2, <1>3, <3>2, Zenon
  <2>3. Sent = ghost.pause + 1
    BY <1>1, Zenon DEF Sent
  <2>4. tx.hang = 0 /\ tx.elapsed = 0
    BY <2>1, <2>2, <2>3, Zenon DEF RunTx
  <2>5. rx'.updated
    <3>1. rx.updated \/ line.update
      <4> SUFFICES ASSUME ~rx.updated, ~line.update PROVE FALSE
        OBVIOUS
      <4>1. sid.counter + (ghost.pause + 1) <= FirstUpdate + 1
        BY <2>1, <2>2, <2>3, Zenon DEF RunUpdate
      <4> QED
        BY <2>0, <2>1, <4>1, SMT
    <3>2. rx.state # "SPEECH"
      BY <2>1, Zenon DEF RunRx
    <3> HIDE DEF t
    <3> QED
      BY <1>1, <2>2, <3>1, <3>2, PauseArrives, Zenon DEF t
  <2> QED
    BY <2>2, <2>4, <2>5, Zenon
<1> QED
  BY <1>4, <1>5, <1>6

LEMMA InvInit == Init => IInv
<1> SUFFICES ASSUME Init PROVE IInv
  OBVIOUS
<1>1. /\ tx.hang = HangConst /\ tx.elapsed = MaxCount
      /\ sid.counter = FirstUpdate /\ sid.prev = "TX_SPEECH_GOOD"
      /\ line = NoFrame /\ rx.hang = HangConst /\ rx.elapsed = MaxCount /\ rx.since = 0
      /\ ghost.noise = 0 /\ ghost.gap = 0 /\ ghost.pause = 0 /\ ghost.stale = 0
  BY DEF Init, dtx_enc_reset, sid_sync_reset, dtx_dec_reset
<1>2. HangConst \in Nat /\ MaxCount \in Nat /\ MaxCount >= ElapsedThresh
      /\ FirstUpdate <= SidRate /\ FirstUpdate \in Nat
  BY ThreshAssumption, RateAssumption, SMT
<1>3. Speaks /\ ~(0 > 0)
  BY <1>1, SMT DEF Speaks
<1>4. Schedule /\ Counted
  BY <1>1, <1>2, SMT DEF Schedule, Counted
<1>5. TxInv
  <2>1. tx.hang + ghost.noise = HangConst
    BY <1>1, <1>2, SMT
  <2> QED
    BY <1>1, <1>3, <2>1 DEF TxInv
<1>6. Follows /\ LineInv
  BY <1>1, <1>2, <1>3, Zenon DEF Follows, SameCounts, LineInv
<1>7. RunTx /\ RunRx /\ RunUpdate
  BY <1>1, <1>3, Zenon DEF RunTx, RunRx, RunUpdate
<1> QED
  BY <1>4, <1>5, <1>6, <1>7, TypeInit, Zenon DEF IInv

LEMMA InvNext == IInv /\ [Next]_vars => IInv'
<1> SUFFICES ASSUME IInv, [Next]_vars PROVE IInv'
  OBVIOUS
<1>1. /\ TypeOK /\ Schedule /\ Counted /\ LineInv /\ TxInv
      /\ Follows /\ RunTx /\ RunRx /\ RunUpdate
  BY Zenon DEF IInv
<1>2. TypeOK' /\ Schedule' /\ Counted'
  BY <1>1, TypeNext, ScheduleNext, CountedNext, Zenon
<1>3. ASSUME NEW vad \in BOOLEAN, Encode(vad) PROVE IInv'
  BY <1>1, <1>2, <1>3, EncodeInv, Zenon DEF IInv
<1>4. ASSUME NEW frames \in 1 .. MaxDebt, SetHandoverDebt(frames) PROVE IInv'
  <2>1. /\ tx' = tx /\ line' = line /\ rx' = rx /\ ghost' = ghost
        /\ sid'.counter = sid.counter /\ sid'.prev = sid.prev
    BY <1>1, <1>4 DEF SetHandoverDebt, TypeOK
  <2>2. Speaks' = Speaks /\ Sent' = Sent /\ Elapsed' = Elapsed
    BY <2>1, Zenon DEF Speaks, Sent, Elapsed
  <2>3. LineInv' /\ TxInv'
    BY <1>1, <2>1, <2>2, Zenon DEF LineInv, TxInv
  <2>4. Follows'
    BY <1>1, <2>1, <2>2, Zenon
       DEF Follows, SameCounts, OneBehind, EndsHangover, InPause
  <2>5. RunTx' /\ RunRx' /\ RunUpdate'
    BY <1>1, <2>1, <2>2, Zenon DEF RunTx, RunRx, RunUpdate
  <2> QED
    BY <1>2, <2>3, <2>4, <2>5, Zenon DEF IInv
<1>5. ASSUME NEW t \in RXFrameType, NEW intact \in BOOLEAN, Decode(t, intact)
      PROVE  LineInv' /\ TxInv'
  <2>1. line' = NoFrame /\ tx' = tx /\ sid' = sid /\ ghost'.noise = ghost.noise
    BY <1>1, <1>5, DecodeGhost
  <2> QED
    BY <1>1, <2>1, Zenon DEF LineInv, TxInv, Speaks
<1>6. CASE Deliver
  <2>1. LineInv' /\ TxInv'
    BY <1>1, <1>5, <1>6, DecodeSteps, Zenon
  <2>2. Follows' /\ RunTx' /\ RunRx' /\ RunUpdate'
    BY <1>1, <1>6, DeliverFollows, DeliverRun, Zenon
  <2> QED
    BY <1>2, <2>1, <2>2, Zenon DEF IInv
<1>7. ASSUME NEW t \in Damage, Spoil(t) PROVE IInv'
  <2>0. t \in RXFrameType /\ FALSE \in BOOLEAN /\ Decode(t, FALSE) /\ line # NoFrame
    BY <1>7, DamageAssumption, Zenon DEF Spoil
  <2>1. LineInv' /\ TxInv'
    BY <1>5, <2>0, Zenon
  <2>2. /\ ghost'.pause = RunAfter(t, FALSE)
        /\ ghost'.intact = ((ghost.intact /\ FALSE) \/ ghost'.pause > HangConst)
        /\ line' = NoFrame /\ tx' = tx /\ sid' = sid
    BY <1>1, <2>0, DecodeGhost, Zenon
  <2>3. ghost'.pause = 0
    BY <2>2, Zenon DEF RunAfter
  <2>4. ~(0 > HangConst) /\ ~(0 > 0)
    BY ThreshAssumption, SMT
  <2>5. ~ghost'.intact
    BY <2>2, <2>3, <2>4, Zenon
  <2>6. Follows' /\ RunRx' /\ RunUpdate'
    BY <2>3, <2>4, <2>5, Zenon DEF Follows, RunRx, RunUpdate
  <2>7. RunTx'
    <3> SUFFICES ASSUME ~Speaks PROVE tx.hang = 0 \/ tx.hang + 0 <= HangConst
      BY <2>2, <2>3, <2>4, Zenon DEF RunTx, Speaks, Sent
    <3> QED
      BY <1>1, ThreshAssumption, SMT DEF TypeOK
  <2> QED
    BY <1>2, <2>1, <2>6, <2>7, Zenon DEF IInv
<1>8. CASE UNCHANGED vars
  <2>1. /\ tx' = tx /\ sid' = sid /\ line' = line /\ rx' = rx /\ ghost' = ghost
    BY <1>8, Zenon DEF vars
  <2>2. Speaks' = Speaks /\ Sent' = Sent /\ Elapsed' = Elapsed
    BY <2>1, Zenon DEF Speaks, Sent, Elapsed
  <2>3. LineInv' /\ TxInv'
    BY <1>1, <2>1, <2>2, Zenon DEF LineInv, TxInv
  <2>4. Follows'
    BY <1>1, <2>1, <2>2, Zenon
       DEF Follows, SameCounts, OneBehind, EndsHangover, InPause
  <2>5. RunTx' /\ RunRx' /\ RunUpdate'
    BY <1>1, <2>1, <2>2, Zenon DEF RunTx, RunRx, RunUpdate
  <2> QED
    BY <1>2, <2>3, <2>4, <2>5, Zenon DEF IInv
<1> QED
  BY <1>3, <1>4, <1>6, <1>7, <1>8, Zenon DEF Next

\* One frame that ends or interrupts the hangover of the transmitter.
LEMMA AgreedStep ==
    ASSUME IInv, [Next]_vars,
           line.type = "AMR_SID", line' = NoFrame, ghost.intact, ghost'.intact
    PROVE  rx'.added <=> ~line.update /\ ghost.noise = HangConst
<1>1. TypeOK /\ LineInv /\ Follows
  BY Zenon DEF IInv
<1>2. line # NoFrame
  BY DEF NoFrame
<1>3. CASE Deliver
  <2> DEFINE t == AMRDecode(line)
  <2>1. Decode(t, TRUE)
    BY <1>3, Zenon DEF Deliver
  <2>2. OneBehind
    BY <1>1, <1>2, Zenon DEF Follows
  <2>3. ~Speaks
    BY <1>1, <1>2, OnTheLine
  <2> HIDE DEF t
  <2> QED
    BY <1>1, <1>2, <2>1, <2>2, <2>3, DeliverInPause, Zenon DEF t
<1>4. ASSUME NEW t \in Damage, Spoil(t) PROVE FALSE
  <2>0. t \in RXFrameType /\ FALSE \in BOOLEAN /\ Decode(t, FALSE)
    BY <1>4, DamageAssumption, Zenon DEF Spoil
  <2>1. /\ ghost'.pause = RunAfter(t, FALSE)
        /\ ghost'.intact = ((ghost.intact /\ FALSE) \/ ghost'.pause > HangConst)
    BY <1>1, <2>0, DecodeGhost, Zenon
  <2>2. ghost'.pause = 0
    BY <2>1, Zenon DEF RunAfter
  <2>3. ~(0 > HangConst)
    BY ThreshAssumption, SMT
  <2> QED
    BY <2>1, <2>2, <2>3, Zenon
<1>5. ~(\E vad \in BOOLEAN : Encode(vad)) /\ ~UNCHANGED vars
  BY <1>2, Zenon DEF Encode, vars
<1>6. ~(\E frames \in 1 .. MaxDebt : SetHandoverDebt(frames))
  BY <1>2, Zenon DEF SetHandoverDebt
<1> QED
  BY <1>3, <1>4, <1>5, <1>6, Zenon DEF Next

(* While nothing has been damaged, and again after a pause that arrives      *)
(* whole, the receiver averages its history at a first SID exactly when the  *)
(* transmitter coded a full hangover for it (dtxHangoverAdded), for every    *)
(* hangover, threshold and counter width that satisfy the assumptions.       *)
THEOREM HangoverFollowed == Spec => HangoverAgreed
<1>1. IInv /\ [Next]_vars
        => [line.type = "AMR_SID" /\ line' = NoFrame /\ ghost.intact /\ ghost'.intact
              => (rx'.added <=> ~line.update /\ ghost.noise = HangConst)]_vars
  BY AgreedStep, Zenon
<1> QED
  BY <1>1, InvInit, InvNext, PTL DEF Spec, HangoverAgreed

-----------------------------------------------------------------------------
(* AmrVad.                                                                   *)

\* A new flag goes in front of those of earlier frames.
LEMMA ShiftType ==
    ASSUME NEW reg \in [Bits -> BOOLEAN], NEW new \in BOOLEAN
    PROVE  /\ Shift(reg, new) \in [Bits -> BOOLEAN]
           /\ Shift(reg, new)[0] = new
  <1>1. ASSUME NEW k \in Bits PROVE k # 0 => k - 1 \in Bits
    BY DEF Bits
  <1>2. 0 \in Bits
    BY DEF Bits
  <1> QED
    BY <1>1, <1>2 DEF Shift

\* Clearing the flag of the last frame leaves a register.
LEMMA ClearType ==
    ASSUME NEW reg \in [Bits -> BOOLEAN], NEW keep \in BOOLEAN
    PROVE  [reg EXCEPT ![0] = @ /\ keep] \in [Bits -> BOOLEAN]
  <1>1. 0 \in Bits
    BY DEF Bits
  <1>2. (reg[0] /\ keep) \in BOOLEAN
    OBVIOUS
  <1> QED
    BY <1>1, <1>2

\* The rounded product keeps the sign of its second factor, or is zero.
LEMMA MultSign ==
    ASSUME NEW alpha \in {0, 491, 1638, 1867, 2097}, NEW x \in Int
    PROVE  /\ mult_r(alpha, x) \in Int
           /\ x >= 0 => mult_r(alpha, x) >= 0
           /\ x < 0 => mult_r(alpha, x) <= 0
  BY DEF mult_r

\* The speeds there are, and which move the estimate up.
LEMMA Speeds ==
    ASSUME NEW p
    PROVE  /\ Speed(p).up \in {0, 491, 1638}
           /\ Speed(p).down \in {1638, 1867, 2097}
           /\ Speed(p).add \in {0, 2}
           /\ statCount' = 0 /\ complexHang = 0 => Speed(p).add = 2
  BY DEF Speed

\* What the proofs need of the large constants, whose values they leave folded.
LEMMA VadLimits ==
    /\ MAX_16 \in Nat /\ 250 <= MAX_16
    /\ NOISE_MIN \in Nat /\ NOISE_MAX \in Nat /\ NOISE_MIN <= NOISE_MAX
    /\ CVAD_MIN_CORR \in Nat /\ CVAD_MIN_CORR <= MAX_16
  <1>1. MAX_16 \in Nat /\ 250 <= MAX_16
    BY DEF MAX_16
  <1>2. NOISE_MIN \in Nat /\ NOISE_MAX \in Nat
    BY DEF NOISE_MIN, NOISE_MAX
  <1>3. NOISE_MIN <= NOISE_MAX
    BY DEF NOISE_MIN, NOISE_MAX
  <1>4. CVAD_MIN_CORR \in Nat
    BY DEF CVAD_MIN_CORR
  <1>5. CVAD_MIN_CORR <= MAX_16
    BY DEF CVAD_MIN_CORR, MAX_16
  <1> QED
    BY <1>1, <1>2, <1>3, <1>4, <1>5, Zenon

\* Of two integers one is at least the other.
LEMMA AtLeast == \A x, y \in Int : ~(x < y) => x >= y
  OBVIOUS

\* One estimate keeps its limits; a constant upwards is added in full unless
\* the level is lower or the limit is met.
LEMMA UpdateLimits ==
    ASSUME NEW s, s.up \in {0, 491, 1638}, s.down \in {1638, 1867, 2097}, s.add \in {0, 2},
           NEW est \in NOISE_MIN .. NOISE_MAX, NEW old \in BandLevels
    PROVE  /\ Updated(s, est, old) \in NOISE_MIN .. NOISE_MAX
           /\ s.add = 2 /\ old >= est =>
                  Updated(s, est, old) >= est + 2 \/ Updated(s, est, old) = NOISE_MAX
  <1> DEFINE temp == old - est
  <1>0. est \in Int /\ NOISE_MIN <= est /\ est <= NOISE_MAX /\ old \in Int /\ 0 <= old
    BY VadLimits DEF BandLevels
  <1>1. temp \in Int
    BY <1>0
  <1>2. /\ mult_r(s.up, temp) \in Int /\ mult_r(s.down, temp) \in Int
        /\ temp >= 0 => mult_r(s.up, temp) >= 0
        /\ temp < 0 => mult_r(s.down, temp) <= 0
    <2>1. /\ s.up \in {0, 491, 1638, 1867, 2097} /\ s.down \in {0, 491, 1638, 1867, 2097}
      OBVIOUS
    <2> QED
      BY <1>1, <2>1, MultSign
  <1> HIDE DEF temp
  <1>3. Updated(s, est, old) =
            IF temp < 0
            THEN IF est + mult_r(s.down, temp) - 2 < NOISE_MIN THEN NOISE_MIN
                 ELSE est + mult_r(s.down, temp) - 2
            ELSE IF est + mult_r(s.up, temp) + s.add > NOISE_MAX THEN NOISE_MAX
                 ELSE est + mult_r(s.up, temp) + s.add
    BY DEF Updated, temp
  <1>4. old >= est => ~(temp < 0)
    BY <1>0 DEF temp
  <1> DEFINE up == mult_r(s.up, temp)  down == mult_r(s.down, temp)
  <1>5. /\ up \in Int /\ down \in Int
        /\ temp >= 0 => up >= 0
        /\ temp < 0 => down <= 0
        /\ temp \in Int
    BY <1>1, <1>2
  <1>6. Updated(s, est, old) =
            IF temp < 0
            THEN IF est + down - 2 < NOISE_MIN THEN NOISE_MIN ELSE est + down - 2
            ELSE IF est + up + s.add > NOISE_MAX THEN NOISE_MAX ELSE est + up + s.add
    BY <1>3
  <1> HIDE DEF up, down
  <1>8. CASE temp < 0
    <2>1. Updated(s, est, old)
              = IF est + down - 2 < NOISE_MIN THEN NOISE_MIN ELSE est + down - 2
      BY <1>6, <1>8
    <2>3. Updated(s, est, old) \in NOISE_MIN .. NOISE_MAX
      BY <2>1, <1>0, <1>5, <1>8, VadLimits
    <2>4. ~(old >= est)
      BY <1>4, <1>8
    <2> QED
      BY <2>3, <2>4
  <1>9. CASE ~(temp < 0)
    <2>1. s.add \in Int /\ 0 <= s.add
      OBVIOUS
    <2>2. PICK a \in Int : a = s.add /\ 0 <= a
      BY <2>1
    <2>3. Updated(s, est, old)
              = IF est + up + a > NOISE_MAX THEN NOISE_MAX ELSE est + up + a
      BY <1>6, <1>9, <2>2
    <2>4. Updated(s, est, old) \in NOISE_MIN .. NOISE_MAX
      BY <2>2, <2>3, <1>0, <1>5, <1>9, VadLimits
    <2>5. a = 2 => Updated(s, est, old) >= est + 2 \/ Updated(s, est, old) = NOISE_MAX
      BY <2>2, <2>3, <1>0, <1>5, <1>9, VadLimits
    <2> QED
      BY <2>2, <2>4, <2>5
  <1> QED
    BY <1>8, <1>9

\* Arithmetic of the counters.
LEMMA Forced ==
    ASSUME NEW n \in Nat, NEW s \in Nat, n > 0 => s = 0 \/ s + n <= 20
    PROVE  n >= 20 => s = 0
  OBVIOUS

LEMMA Nearer ==
    ASSUME NEW n \in Nat, NEW s \in Nat, NEW n1 \in Nat, NEW s1 \in Nat, s <= 20,
           n > 0 => s = 0 \/ s + n <= 20,
           n1 > 0 => n1 = n + 1 /\ s1 = IF s = 0 THEN 0 ELSE s - 1
    PROVE  n1 > 0 => s1 = 0 \/ s1 + n1 <= 20
  OBVIOUS

\* A frame takes one from a hangover, from that of a complex signal first.
LEMMA OneTaken ==
    ASSUME NEW c \in Nat, NEW h \in Nat, NEW c1, NEW h1,
           \/ h1 = 0 /\ c1 = 0
           \/ c # 0 /\ c1 = c - 1 /\ h1 = h
           \/ c = 0 /\ c1 = c /\ h1 = IF h > 0 THEN h - 1 ELSE 0
    PROVE  c1 + h1 = 0 \/ c1 + h1 = c + h - 1
  <1>1. CASE h1 = 0 /\ c1 = 0
    BY <1>1
  <1>2. CASE c # 0 /\ c1 = c - 1 /\ h1 = h
    BY <1>2
  <1>3. CASE c = 0 /\ c1 = c /\ h1 = IF h > 0 THEN h - 1 ELSE 0
    <2>1. c1 = 0 /\ c = 0 /\ (h1 = 0 \/ h1 = h - 1)
      BY <1>3
    <2> QED
      BY <2>1
  <1> QED
    BY <1>1, <1>2, <1>3

\* Something is left when either hangover is.
LEMMA SomeLeft ==
    ASSUME NEW c \in Nat, NEW h \in Nat, c # 0 \/ h > 0
    PROVE  c + h > 0
  OBVIOUS

\* The counters of quiet and of steady frames are numbers.
LEMMA Tallies ==
    ASSUME VadTypeOK
    PROVE  /\ statCount \in Nat /\ statCount <= 20
           /\ plain \in Nat /\ quiet \in Nat
  <1>1. statCount \in Nat /\ statCount <= 20
    <2>1. statCount \in 0 .. STAT_COUNT
      BY DEF VadTypeOK
    <2> QED
      BY <2>1 DEF STAT_COUNT
  <1>2. plain \in Nat /\ quiet \in Nat
    BY DEF VadTypeOK
  <1> QED
    BY <1>1, <1>2, Zenon

\* The hangovers are numbers, and how large they can be.
LEMMA Hangs ==
    ASSUME VadTypeOK
    PROVE  /\ hangCount \in Nat /\ hangCount <= 7
           /\ complexHang \in Nat /\ complexHang <= 249
  <1>1. hangCount \in Nat /\ hangCount <= 7
    <2>1. hangCount \in 0 .. HANG_LEN_HIGH_NOISE
      BY DEF VadTypeOK
    <2> QED
      BY <2>1 DEF HANG_LEN_HIGH_NOISE
  <1>2. complexHang \in Nat /\ complexHang <= 249
    <2>1. complexHang \in 0 .. CVAD_HANG_LENGTH - 1
      BY DEF VadTypeOK
    <2> QED
      BY <2>1 DEF CVAD_HANG_LENGTH
  <1> QED
    BY <1>1, <1>2, Zenon

\* So are the lengths of the burst and of the complex signal.
LEMMA Lengths ==
    ASSUME VadTypeOK
    PROVE  /\ burstCount \in Nat /\ burstCount <= MAX_16
           /\ complexTimer \in Nat /\ complexTimer <= MAX_16
  <1>1. burstCount \in 0 .. MAX_16 /\ complexTimer \in 0 .. MAX_16
    BY DEF VadTypeOK
  <1> QED
    BY <1>1, VadLimits

\* The correlations are numbers below 1.
LEMMA Correlations ==
    ASSUME VadTypeOK
    PROVE  /\ corr \in Int /\ 0 <= corr /\ corr <= MAX_16
           /\ bestCorr \in Int /\ 0 <= bestCorr /\ bestCorr <= MAX_16
  <1>1. corr \in CVAD_MIN_CORR .. MAX_16 /\ bestCorr \in 0 .. MAX_16
    BY DEF VadTypeOK
  <1> QED
    BY <1>1, VadLimits

\* The long-term correlation stays between its minimum and 1.
LEMMA CorrType ==
    ASSUME VadTypeOK, NEW low \in BOOLEAN, complex_estimate_adapt(low)
    PROVE  corr' \in CVAD_MIN_CORR .. MAX_16
  <1> DEFINE alpha == IF corr < CVAD_THRESH_ADAPT_HIGH THEN 2621
                      ELSE IF bestCorr < corr THEN 6553 ELSE 655
             new(a) == (65536 * corr - 2 * a * corr + 2 * a * bestCorr + 32768) \div 65536
  <1>1. corr \in Int /\ bestCorr \in Int /\ corr >= 0 /\ corr <= MAX_16 /\ bestCorr <= MAX_16
        /\ MAX_16 \in Int
    BY Correlations, VadLimits
  <1>2. new(2621) \in Int /\ new(2621) <= MAX_16
    BY <1>1
  <1>3. new(6553) \in Int /\ new(6553) <= MAX_16
    BY <1>1
  <1>4. new(655) \in Int /\ new(655) <= MAX_16
    BY <1>1
  <1>5. corr' = IF low \/ new(alpha) < CVAD_MIN_CORR THEN CVAD_MIN_CORR ELSE new(alpha)
    BY DEF complex_estimate_adapt
  <1>6. new(alpha) \in Int /\ new(alpha) <= MAX_16
    <2>1. alpha = 2621 \/ alpha = 6553 \/ alpha = 655
      OBVIOUS
    <2> HIDE DEF alpha
    <2> QED
      BY <2>1, <1>2, <1>3, <1>4
  <1>7. PICK n \in Int : n = new(alpha)
    BY <1>6
  <1>8. corr' = IF low \/ n < CVAD_MIN_CORR THEN CVAD_MIN_CORR ELSE n
    BY <1>5, <1>7
  <1>9. n <= MAX_16
    BY <1>6, <1>7
  <1> HIDE DEF new, alpha
  <1>11. CASE low \/ n < CVAD_MIN_CORR
    <2>1. corr' = CVAD_MIN_CORR
      BY <1>8, <1>11
    <2>2. CVAD_MIN_CORR \in CVAD_MIN_CORR .. MAX_16
      BY VadLimits
    <2> QED
      BY <2>1, <2>2
  <1>12. CASE ~(low \/ n < CVAD_MIN_CORR)
    <2>1. corr' = n
      BY <1>8, <1>12
    <2>2. n \in Int /\ CVAD_MIN_CORR \in Int /\ MAX_16 \in Int
      BY <1>7, VadLimits
    <2>3. n >= CVAD_MIN_CORR
      BY <1>12, <2>2, AtLeast
    <2>4. n \in CVAD_MIN_CORR .. MAX_16
      BY <1>9, <2>2, <2>3
    <2> QED
      BY <2>1, <2>4
  <1> QED
    BY <1>11, <1>12

-----------------------------------------------------------------------------
(* The type invariant.                                                       *)

\* What a frame brings.
Inputs(power, lev, loud, moving, tones, best, lags) ==
    /\ power \in Powers /\ lev \in [Bands -> BandLevels]
    /\ loud \in BOOLEAN /\ moving \in BOOLEAN /\ tones \in [1 .. 2 -> BOOLEAN]
    /\ best \in 0 .. MAX_16 /\ lags \in 0 .. 2

\* The registers of a frame.
LEMMA RegisterTypes ==
    ASSUME VadTypeOK,
           NEW power, NEW lev, NEW loud, NEW moving, NEW tones, NEW best, NEW lags,
           Inputs(power, lev, loud, moving, tones, best, lags),
           Frame(power, lev, loud, moving, tones, best, lags)
    PROVE  /\ vadreg' \in [Bits -> BOOLEAN] /\ vadreg'[0] = loud
           /\ pitch' \in [Bits -> BOOLEAN] /\ tone' \in [Bits -> BOOLEAN]
           /\ complexHigh' \in [Bits -> BOOLEAN] /\ complexLow' \in [Bits -> BOOLEAN]
           /\ complexWarning' \in BOOLEAN
  <1>0. /\ vadreg \in [Bits -> BOOLEAN] /\ pitch \in [Bits -> BOOLEAN]
        /\ tone \in [Bits -> BOOLEAN] /\ complexHigh \in [Bits -> BOOLEAN]
        /\ complexLow \in [Bits -> BOOLEAN]
    BY DEF VadTypeOK
  <1>1. vadreg' = Shift(vadreg, loud) /\ loud \in BOOLEAN
    BY DEF Frame, vad_decision, Inputs
  <1>2. vadreg' \in [Bits -> BOOLEAN] /\ vadreg'[0] = loud
    BY <1>0, <1>1, ShiftType
  <1>3. pitch' \in [Bits -> BOOLEAN]
    <2>1. Pitch(power) \in [Bits -> BOOLEAN]
      <3>1. (power = "high") \in BOOLEAN
        OBVIOUS
      <3> QED
        BY <1>0, <3>1, ClearType DEF Pitch
    <2>2. (lagCount + lags >= NTHRESH) \in BOOLEAN
      OBVIOUS
    <2>3. pitch' = Shift(Pitch(power), lagCount + lags >= NTHRESH)
      BY DEF Frame, OpenLoop
    <2> QED
      BY <2>1, <2>2, <2>3, ShiftType
  <1>4. tone' \in [Bits -> BOOLEAN]
    <2>1. tones[1] \in BOOLEAN /\ tones[2] \in BOOLEAN
      BY DEF Inputs
    <2>2. Shift(tone, tones[1]) \in [Bits -> BOOLEAN]
      BY <1>0, <2>1, ShiftType
    <2>3. tone' = Shift(Shift(tone, tones[1]), tones[2])
      BY DEF Frame, OpenLoop
    <2> QED
      BY <2>1, <2>2, <2>3, ShiftType
  <1>5. complexHigh' \in [Bits -> BOOLEAN]
    <2>1. complexHigh' = Shift(complexHigh, power # "low" /\ corr' > CVAD_THRESH_ADAPT_HIGH)
      BY DEF Frame, vad_decision, complex_vad
    <2>2. (power # "low" /\ corr' > CVAD_THRESH_ADAPT_HIGH) \in BOOLEAN
      OBVIOUS
    <2> QED
      BY <1>0, <2>1, <2>2, ShiftType
  <1>6. complexLow' \in [Bits -> BOOLEAN]
    <2> DEFINE cleared == [complexLow EXCEPT ![0] = @ /\ power # "low"]
    <2>1. complexLow' = Shift(cleared, power # "low" /\ corr' > CVAD_THRESH_ADAPT_LOW)
      BY DEF Frame, vad_decision, complex_vad
    <2>2. /\ (power # "low" /\ corr' > CVAD_THRESH_ADAPT_LOW) \in BOOLEAN
          /\ (power # "low") \in BOOLEAN
      OBVIOUS
    <2>3. cleared \in [Bits -> BOOLEAN]
      BY <1>0, <2>2, ClearType
    <2> HIDE DEF cleared
    <2> QED
      BY <2>1, <2>2, <2>3, ShiftType
  <1>7. complexWarning' \in BOOLEAN
    BY DEF Frame, vad_decision, complex_vad
  <1> QED
    BY <1>2, <1>3, <1>4, <1>5, <1>6, <1>7

\* What statCount becomes: it begins again, or it goes down by one, or it stays
\* with no decision for speech.
LEMMA StatCount ==
    ASSUME VadTypeOK,
           NEW power, NEW lev, NEW loud, NEW moving, NEW tones, NEW best, NEW lags,
           Inputs(power, lev, loud, moving, tones, best, lags),
           Frame(power, lev, loud, moving, tones, best, lags)
    PROVE  /\ statCount' \in 0 .. STAT_COUNT
           /\ plain' \in Nat
           /\ plain' > 0 => /\ plain' = plain + 1
                            /\ statCount' = IF statCount = 0 THEN 0 ELSE statCount - 1
  <1> DEFINE p == Pitch(power)
             count == IF complexWarning' /\ statCount < CAD_MIN_STAT_COUNT
                      THEN CAD_MIN_STAT_COUNT ELSE statCount
             again == Tonal(p) \/ None(vadreg', 0 .. 7) \/ moving
  <1>1. statCount' = IF again THEN STAT_COUNT
                     ELSE IF vadreg'[0] /\ count # 0 THEN count - 1 ELSE count
    BY DEF Frame, vad_decision, update_cntrl
  <1>2. statCount \in Nat /\ statCount <= 20 /\ plain \in Nat
    BY Tallies
  <1>3. count \in Nat /\ count <= 20
    BY <1>2 DEF CAD_MIN_STAT_COUNT
  <1>4. plain' = IF vadreg'[0] /\ ~moving /\ ~Tonal(p) /\ ~complexWarning' THEN plain + 1 ELSE 0
    BY DEF Frame, History
  <1>5. plain' > 0 => /\ plain' = plain + 1 /\ vadreg'[0]
                      /\ ~again /\ count = statCount
    <2>1. SUFFICES ASSUME plain' > 0
                   PROVE  /\ plain' = plain + 1 /\ vadreg'[0]
                          /\ ~again /\ count = statCount
      OBVIOUS
    <2>2. vadreg'[0] /\ ~moving /\ ~Tonal(p) /\ ~complexWarning'
      <3>1. CASE ~(vadreg'[0] /\ ~moving /\ ~Tonal(p) /\ ~complexWarning')
        <4>1. plain' = 0
          BY <1>4, <3>1
        <4> QED
          BY <4>1, <2>1
      <3> QED
        BY <3>1
    <2>3. ~None(vadreg', 0 .. 7)
      <3>1. 0 \in 0 .. 7
        OBVIOUS
      <3> QED
        BY <2>2, <3>1 DEF None
    <2> QED
      BY <2>2, <2>3, <1>4
  <1>6. plain' \in Nat
    BY <1>2, <1>4
  <1> HIDE DEF count, again
  <1>7. statCount' \in 0 .. STAT_COUNT
    <2>1. CASE again
      BY <1>1, <2>1 DEF STAT_COUNT
    <2>2. CASE ~again /\ vadreg'[0] /\ count # 0
      <3>1. statCount' = count - 1
        BY <1>1, <2>2
      <3> QED
        BY <1>3, <2>2, <3>1 DEF STAT_COUNT
    <2>3. CASE ~again /\ ~(vadreg'[0] /\ count # 0)
      <3>1. statCount' = count
        BY <1>1, <2>3
      <3> QED
        BY <1>3, <3>1 DEF STAT_COUNT
    <2> QED
      BY <2>1, <2>2, <2>3
  <1>8. plain' > 0 => statCount' = IF statCount = 0 THEN 0 ELSE statCount - 1
    <2>1. SUFFICES ASSUME plain' > 0
                   PROVE  statCount' = IF statCount = 0 THEN 0 ELSE statCount - 1
      OBVIOUS
    <2>2. vadreg'[0] /\ ~again /\ count = statCount
      BY <1>5, <2>1
    <2> QED
      BY <1>1, <2>2
  <1> QED
    BY <1>5, <1>6, <1>7, <1>8

\* Estimates and levels are integers.
LEMMA Integral ==
    /\ \A x \in NOISE_MIN .. NOISE_MAX : x \in Int
    /\ \A x \in BandLevels : x \in Int
  BY VadLimits DEF BandLevels

\* Every estimate keeps its limits, and rises when the update is forced.
LEMMA Estimates ==
    ASSUME VadTypeOK,
           NEW power, NEW lev, NEW loud, NEW moving, NEW tones, NEW best, NEW lags,
           Inputs(power, lev, loud, moving, tones, best, lags),
           Frame(power, lev, loud, moving, tones, best, lags)
    PROVE  /\ bckr' \in [Bands -> NOISE_MIN .. NOISE_MAX]
           /\ oldLevel' \in [Bands -> BandLevels]
           /\ statCount' = 0 /\ complexHang = 0 =>
                 \A b \in Bands : \/ oldLevel[b] < bckr[b]
                                  \/ bckr'[b] >= bckr[b] + 2
                                  \/ bckr'[b] = NOISE_MAX
  <1> DEFINE s == Speed(Pitch(power))
  <1>1. /\ bckr' = [b \in Bands |-> Updated(s, bckr[b], oldLevel[b])]
        /\ oldLevel' = lev
    BY DEF Frame, vad_decision, noise_estimate_update
  <1>2. /\ s.up \in {0, 491, 1638} /\ s.down \in {1638, 1867, 2097} /\ s.add \in {0, 2}
        /\ statCount' = 0 /\ complexHang = 0 => s.add = 2
    BY Speeds
  <1> HIDE DEF s
  <1>3. ASSUME NEW b \in Bands
        PROVE  /\ bckr[b] \in NOISE_MIN .. NOISE_MAX /\ oldLevel[b] \in BandLevels
               /\ Updated(s, bckr[b], oldLevel[b]) \in NOISE_MIN .. NOISE_MAX
               /\ s.add = 2 /\ oldLevel[b] >= bckr[b] =>
                      \/ Updated(s, bckr[b], oldLevel[b]) >= bckr[b] + 2
                      \/ Updated(s, bckr[b], oldLevel[b]) = NOISE_MAX
    <2>1. bckr[b] \in NOISE_MIN .. NOISE_MAX /\ oldLevel[b] \in BandLevels
      BY DEF VadTypeOK
    <2> QED
      BY <2>1, <1>2, UpdateLimits
  <1>4. bckr' \in [Bands -> NOISE_MIN .. NOISE_MAX]
    BY <1>1, <1>3
  <1>5. oldLevel' \in [Bands -> BandLevels]
    BY <1>1 DEF Inputs
  <1>6. ASSUME statCount' = 0, complexHang = 0, NEW b \in Bands, ~(oldLevel[b] < bckr[b])
        PROVE  bckr'[b] >= bckr[b] + 2 \/ bckr'[b] = NOISE_MAX
    <2>1. oldLevel[b] >= bckr[b]
      <3>1. bckr[b] \in NOISE_MIN .. NOISE_MAX /\ oldLevel[b] \in BandLevels
        BY <1>3
      <3>2. bckr[b] \in Int /\ oldLevel[b] \in Int
        BY <3>1, Integral
      <3>3. ~(oldLevel[b] < bckr[b])
        BY <1>6
      <3> QED
        BY <3>2, <3>3
    <2>2. bckr'[b] = Updated(s, bckr[b], oldLevel[b])
      BY <1>1
    <2> QED
      BY <2>1, <2>2, <1>2, <1>3, <1>6
  <1> QED
    BY <1>4, <1>5, <1>6

\* The counters of the complex signal and of the hangovers.
LEMMA Counters ==
    ASSUME VadTypeOK,
           NEW power, NEW lev, NEW loud, NEW moving, NEW tones, NEW best, NEW lags,
           Inputs(power, lev, loud, moving, tones, best, lags),
           Frame(power, lev, loud, moving, tones, best, lags)
    PROVE  /\ complexTimer' \in 0 .. MAX_16 /\ burstCount' \in 0 .. MAX_16
           /\ hangCount' \in 0 .. HANG_LEN_HIGH_NOISE
           /\ complexHang' \in 0 .. CVAD_HANG_LENGTH - 1
           /\ flag' \in BOOLEAN
  <1> DEFINE noisy    == NoiseLevel > HANG_NOISE_THR
             burstLen == IF noisy THEN BURST_LEN_HIGH_NOISE ELSE BURST_LEN_LOW_NOISE
             hangLen  == IF noisy THEN HANG_LEN_HIGH_NOISE ELSE HANG_LEN_LOW_NOISE
             hang     == IF complexTimer' > CVAD_HANG_LIMIT THEN CVAD_HANG_LENGTH ELSE complexHang
             burst    == IF burstCount = MAX_16 THEN MAX_16 ELSE burstCount + 1
             noise    == None(vadreg', 1 .. 10) /\ corr' > CVAD_THRESH_IN_NOISE
  <1>2. complexTimer' \in 0 .. MAX_16
    <2>1. complexTimer' = IF corr' > CVAD_THRESH_HANG
                          THEN IF complexTimer = MAX_16 THEN MAX_16 ELSE complexTimer + 1
                          ELSE 0
      BY DEF Frame, vad_decision, complex_vad
    <2>2. \/ complexTimer' = MAX_16 \/ complexTimer' = 0
          \/ complexTimer # MAX_16 /\ complexTimer' = complexTimer + 1
      BY <2>1
    <2> QED
      BY <2>2, Lengths, VadLimits
  <1>3. /\ hangLen \in Nat /\ hangLen <= 7
        /\ hang \in Nat /\ hang <= 250
        /\ burst \in Nat /\ burst <= MAX_16
    <2>1. hangLen \in Nat /\ hangLen <= 7
      BY DEF HANG_LEN_HIGH_NOISE, HANG_LEN_LOW_NOISE
    <2>2. hang \in Nat /\ hang <= 250
      BY Hangs DEF CVAD_HANG_LENGTH
    <2>3. burst \in Nat /\ burst <= MAX_16
      BY Lengths, VadLimits
    <2> QED
      BY <2>1, <2>2, <2>3
  <1>4. hangover_addition(power = "low")
    BY DEF Frame, vad_decision
  <1>5. vadreg'[0] \in BOOLEAN
    BY RegisterTypes DEF Inputs
  <1> DEFINE Stopped == /\ burstCount' = 0 /\ hangCount' = 0 /\ complexHang' = 0
                        /\ flag' = FALSE
             Complex == /\ hang # 0
                        /\ burstCount' = BURST_LEN_HIGH_NOISE /\ complexHang' = hang - 1
                        /\ flag' = TRUE /\ hangCount' = hangCount
             InNoise == /\ hang = 0 /\ complexHang' = complexHang /\ flag' = TRUE
                        /\ burstCount' = burstCount /\ hangCount' = hangCount
             Normal  == /\ hang = 0 /\ complexHang' = complexHang
                        /\ flag' = (vadreg'[0] \/ hangCount > 0)
                        /\ burstCount' = IF vadreg'[0] THEN burst ELSE 0
                        /\ hangCount' = IF vadreg'[0]
                               THEN IF burst >= burstLen THEN hangLen ELSE hangCount
                               ELSE IF hangCount > 0 THEN hangCount - 1 ELSE 0
  <1>6. Stopped \/ Complex \/ InNoise \/ Normal
    BY <1>4 DEF hangover_addition
  <1> HIDE DEF hangLen, burstLen, hang, burst
  <1>11. /\ complexTimer' \in 0 .. MAX_16 /\ burstCount \in 0 .. MAX_16
         /\ hangCount \in 0 .. HANG_LEN_HIGH_NOISE
         /\ complexHang \in 0 .. CVAD_HANG_LENGTH - 1
    BY <1>2 DEF VadTypeOK
  <1>7. CASE Stopped
    <2>1. 0 \in 0 .. MAX_16 /\ 0 \in 0 .. HANG_LEN_HIGH_NOISE /\ 0 \in 0 .. CVAD_HANG_LENGTH - 1
      BY VadLimits DEF HANG_LEN_HIGH_NOISE, CVAD_HANG_LENGTH
    <2> QED
      BY <1>7, <1>11, <2>1
  <1>8. CASE Complex
    <2>1. BURST_LEN_HIGH_NOISE \in 0 .. MAX_16
      BY VadLimits DEF BURST_LEN_HIGH_NOISE
    <2>2. hang - 1 \in 0 .. CVAD_HANG_LENGTH - 1
      BY <1>3, <1>8 DEF CVAD_HANG_LENGTH
    <2> QED
      BY <1>8, <1>11, <2>1, <2>2
  <1>9. CASE InNoise
    BY <1>9, <1>11
  <1>10. CASE Normal
    <2>1. burstCount' \in 0 .. MAX_16
      <3>1. burstCount' = burst \/ burstCount' = 0
        BY <1>10
      <3> QED
        BY <1>3, <3>1, VadLimits
    <2>2. hangCount' \in 0 .. HANG_LEN_HIGH_NOISE
      <3>1. \/ hangCount' = hangLen \/ hangCount' = hangCount \/ hangCount' = 0
            \/ hangCount > 0 /\ hangCount' = hangCount - 1
        BY <1>10
      <3> QED
        BY <1>3, <3>1, Hangs DEF HANG_LEN_HIGH_NOISE
    <2>3. complexHang' \in 0 .. CVAD_HANG_LENGTH - 1
      BY <1>10, <1>11
    <2>4. flag' \in BOOLEAN
      BY <1>5, <1>10
    <2> QED
      BY <1>2, <2>1, <2>2, <2>3, <2>4
  <1> QED
    BY <1>6, <1>7, <1>8, <1>9, <1>10

\* While there is nothing to hear, each frame takes one from the hangovers, and
\* the flag is up only when there was one to take.
LEMMA QuietStep ==
    ASSUME VadTypeOK,
           NEW power, NEW lev, NEW loud, NEW moving, NEW tones, NEW best, NEW lags,
           Inputs(power, lev, loud, moving, tones, best, lags),
           Frame(power, lev, loud, moving, tones, best, lags)
    PROVE  /\ quiet' \in Nat
           /\ quiet' > 0 =>
                 /\ quiet' = quiet + 1
                 /\ flag' => complexHang + hangCount > 0
                 /\ \/ complexHang' + hangCount' = 0
                    \/ complexHang' + hangCount' = complexHang + hangCount - 1
  <1>1. quiet' = IF vadreg'[0] \/ corr' > CVAD_THRESH_IN_NOISE THEN 0 ELSE quiet + 1
    BY DEF Frame, History
  <1>2. quiet \in Nat /\ hangCount \in Nat /\ complexHang \in Nat
    BY Tallies, Hangs, Zenon
  <1>3. quiet' \in Nat
    BY <1>1, <1>2
  <1>4. ASSUME quiet' > 0
        PROVE  /\ quiet' = quiet + 1
               /\ flag' => complexHang + hangCount > 0
               /\ \/ complexHang' + hangCount' = 0
                  \/ complexHang' + hangCount' = complexHang + hangCount - 1
    <2>1. ~vadreg'[0] /\ ~(corr' > CVAD_THRESH_IN_NOISE)
      <3>1. CASE vadreg'[0] \/ corr' > CVAD_THRESH_IN_NOISE
        <4>1. quiet' = 0
          BY <1>1, <3>1
        <4> QED
          BY <4>1, <1>4
      <3> QED
        BY <3>1
    <2>2. quiet' = quiet + 1
      BY <1>1, <2>1
    <2>3. complexTimer' = 0
      <3>1. corr' \in Int
        <4>1. complex_estimate_adapt(power = "low") /\ (power = "low") \in BOOLEAN
          BY DEF Frame, vad_decision
        <4>2. corr' \in CVAD_MIN_CORR .. MAX_16
          BY <4>1, CorrType
        <4> QED
          BY <4>2, VadLimits
      <3>2. ~(corr' > CVAD_THRESH_HANG)
        BY <2>1, <3>1 DEF CVAD_THRESH_IN_NOISE, CVAD_THRESH_HANG
      <3> QED
        BY <3>2 DEF Frame, vad_decision, complex_vad
    <2>4. \/ hangCount' = 0 /\ complexHang' = 0 /\ flag' = FALSE
          \/ complexHang # 0 /\ complexHang' = complexHang - 1 /\ hangCount' = hangCount
          \/ /\ complexHang = 0 /\ complexHang' = complexHang
             /\ flag' = (hangCount > 0)
             /\ hangCount' = IF hangCount > 0 THEN hangCount - 1 ELSE 0
      <3>1. hangover_addition(power = "low")
        BY DEF Frame, vad_decision
      <3>2. ~(complexTimer' > CVAD_HANG_LIMIT)
        BY <2>3 DEF CVAD_HANG_LIMIT
      <3> QED
        BY <2>1, <3>1, <3>2 DEF hangover_addition
    <2>5. complexHang' + hangCount' = 0 \/ complexHang' + hangCount' = complexHang + hangCount - 1
      <3>1. \/ hangCount' = 0 /\ complexHang' = 0
            \/ complexHang # 0 /\ complexHang' = complexHang - 1 /\ hangCount' = hangCount
            \/ /\ complexHang = 0 /\ complexHang' = complexHang
               /\ hangCount' = IF hangCount > 0 THEN hangCount - 1 ELSE 0
        BY <2>4
      <3> QED
        BY <1>2, <3>1, OneTaken
    <2>6. ASSUME flag' PROVE complexHang + hangCount > 0
      <3>1. complexHang # 0 \/ hangCount > 0
        BY <2>4, <2>6
      <3> QED
        BY <1>2, <3>1, SomeLeft
    <2> QED
      BY <2>2, <2>5, <2>6
  <1> QED
    BY <1>3, <1>4

-----------------------------------------------------------------------------
(* The inductive invariant.                                                  *)

\* What is left of the hangovers is what the quiet frames have not yet used up
\* (257 is CVAD_HANG_LENGTH + HANG_LEN_HIGH_NOISE).
HangoversEnd ==
    /\ quiet > 0 =>
         \/ complexHang + hangCount = 0
         \/ complexHang + hangCount + quiet < 257
    /\ flag => quiet < 257

\* The frames to go until the update is forced (20 is STAT_COUNT).
UpdateNears == plain > 0 => statCount = 0 \/ statCount + plain <= 20

VadIInv == VadTypeOK /\ HangoversEnd /\ UpdateNears

LEMMA InitInv == VadInit => VadIInv
  <1> SUFFICES ASSUME VadInit PROVE VadIInv
    OBVIOUS
  <1>1. VadTypeOK
    <2>1. NOISE_INIT \in NOISE_MIN .. NOISE_MAX /\ NOISE_INIT \in BandLevels
      BY DEF NOISE_INIT, NOISE_MIN, NOISE_MAX, BandLevels, MAX_16
    <2>2. /\ 0 \in 0 .. STAT_COUNT /\ 0 \in 0 .. MAX_16 /\ 0 \in 0 .. HANG_LEN_HIGH_NOISE
          /\ 0 \in 0 .. CVAD_HANG_LENGTH - 1 /\ 0 \in 0 .. 2 /\ 0 \in Nat
      BY VadLimits DEF STAT_COUNT, HANG_LEN_HIGH_NOISE, CVAD_HANG_LENGTH
    <2>3. CVAD_LOWPOW_RESET \in CVAD_MIN_CORR .. MAX_16 /\ CVAD_LOWPOW_RESET \in 0 .. MAX_16
      BY DEF CVAD_LOWPOW_RESET, CVAD_MIN_CORR, MAX_16
    <2>4. NoFlags \in [Bits -> BOOLEAN]
      BY DEF NoFlags
    <2> QED
      BY <2>1, <2>2, <2>3, <2>4 DEF VadInit, VadTypeOK
  <1>2. HangoversEnd /\ UpdateNears
    BY DEF VadInit, HangoversEnd, UpdateNears
  <1> QED
    BY <1>1, <1>2 DEF VadIInv

\* Every frame keeps the invariant.
LEMMA FrameInv ==
    ASSUME VadIInv,
           NEW power, NEW lev, NEW loud, NEW moving, NEW tones, NEW best, NEW lags,
           Inputs(power, lev, loud, moving, tones, best, lags),
           Frame(power, lev, loud, moving, tones, best, lags)
    PROVE  VadIInv'
  <1> USE DEF VadIInv
  <1>1. VadTypeOK'
    <2>1. bestCorr' \in 0 .. MAX_16 /\ lagCount' \in 0 .. 2
      BY DEF Frame, OpenLoop, Inputs
    <2>2. corr' \in CVAD_MIN_CORR .. MAX_16
      <3>1. complex_estimate_adapt(power = "low") /\ (power = "low") \in BOOLEAN
        BY DEF Frame, vad_decision
      <3> QED
        BY <3>1, CorrType
    <2> QED
      BY <2>1, <2>2, RegisterTypes, StatCount, Estimates, Counters, QuietStep DEF VadTypeOK
  <1>2. /\ complexHang \in Nat /\ complexHang <= 249 /\ hangCount \in Nat /\ hangCount <= 7
        /\ quiet \in Nat /\ statCount \in Nat /\ statCount <= 20 /\ plain \in Nat
    BY Tallies, Hangs, Zenon
  <1>5. PICK c1 \in Nat, h1 \in Nat, q1 \in Nat, s1 \in Nat, p1 \in Nat :
            /\ c1 = complexHang' /\ h1 = hangCount' /\ q1 = quiet'
            /\ s1 = statCount' /\ p1 = plain'
    <2>1. /\ complexHang' \in 0 .. CVAD_HANG_LENGTH - 1 /\ hangCount' \in 0 .. HANG_LEN_HIGH_NOISE
          /\ statCount' \in 0 .. STAT_COUNT /\ quiet' \in Nat /\ plain' \in Nat
      BY <1>1 DEF VadTypeOK
    <2>2. complexHang' \in Nat /\ hangCount' \in Nat /\ statCount' \in Nat
      BY <2>1 DEF CVAD_HANG_LENGTH, HANG_LEN_HIGH_NOISE, STAT_COUNT
    <2> QED
      BY <2>1, <2>2
  <1>3. HangoversEnd'
    <2>1. ASSUME q1 > 0
          PROVE  /\ q1 = quiet + 1
                 /\ flag' => complexHang + hangCount > 0
                 /\ c1 + h1 = 0 \/ c1 + h1 = complexHang + hangCount - 1
      BY <1>5, <2>1, QuietStep
    <2>2. quiet > 0 => complexHang + hangCount = 0 \/ complexHang + hangCount + quiet < 257
      BY DEF HangoversEnd
    <2>3. complexHang + hangCount = 0 \/ complexHang + hangCount + quiet < 257
      BY <1>2, <2>2
    <2>4. q1 > 0 => c1 + h1 = 0 \/ c1 + h1 + q1 < 257
      BY <1>2, <2>1, <2>3
    <2>5. flag' => q1 < 257
      <3>1. CASE q1 = 0
        BY <3>1
      <3>2. CASE q1 > 0
        <4>1. complexHang + hangCount > 0 => q1 < 257
          BY <1>2, <2>1, <2>3, <3>2
        <4> QED
          BY <2>1, <3>2, <4>1
      <3> QED
        BY <3>1, <3>2
    <2> QED
      BY <1>5, <2>4, <2>5 DEF HangoversEnd
  <1>4. UpdateNears'
    <2>1. p1 > 0 => p1 = plain + 1 /\ s1 = IF statCount = 0 THEN 0 ELSE statCount - 1
      BY <1>5, StatCount
    <2>2. plain > 0 => statCount = 0 \/ statCount + plain <= 20
      BY DEF UpdateNears
    <2>3. p1 > 0 => s1 = 0 \/ s1 + p1 <= 20
      BY <1>2, <2>1, <2>2, Nearer
    <2> QED
      BY <1>5, <2>3 DEF UpdateNears
  <1> QED
    BY <1>1, <1>3, <1>4

LEMMA NextInv == VadIInv /\ [VadNext]_vadVars => VadIInv'
  <1> SUFFICES ASSUME VadIInv, [VadNext]_vadVars PROVE VadIInv'
    OBVIOUS
  <1>1. CASE VadNext
    <2>1. PICK power \in Powers, lev \in [Bands -> BandLevels], loud \in BOOLEAN,
               moving \in BOOLEAN, tones \in [1 .. 2 -> BOOLEAN],
               best \in 0 .. MAX_16, lags \in 0 .. 2 :
               Frame(power, lev, loud, moving, tones, best, lags)
      BY <1>1 DEF VadNext
    <2>2. Inputs(power, lev, loud, moving, tones, best, lags)
      BY DEF Inputs
    <2> QED
      BY <2>1, <2>2, FrameInv
  <1>2. CASE UNCHANGED vadVars
    BY <1>2 DEF vadVars, registers, counters, VadIInv, VadTypeOK, HangoversEnd, UpdateNears
  <1> QED
    BY <1>1, <1>2

LEMMA VadInvariant == VadSpec => []VadIInv
  BY InitInv, NextInv, PTL DEF VadSpec

\* The variables of the detector keep their types for any signal; above all, the
\* estimates of the noise that vad_decision() divides by keep their limits.
THEOREM VadTypeCorrect == VadSpec => []VadTypeOK
  <1>1. VadIInv => VadTypeOK
    BY DEF VadIInv
  <1> QED
    BY <1>1, VadInvariant, PTL

\* The flag is down after at most 256 frames with nothing to hear, although the
\* hangover after speech waits for that of a complex signal.
THEOREM HangoversAreFinite == VadSpec => []QuietEnds
  <1>1. VadIInv => QuietEnds
    <2>1. CVAD_HANG_LENGTH + HANG_LEN_HIGH_NOISE = 257
      BY DEF CVAD_HANG_LENGTH, HANG_LEN_HIGH_NOISE
    <2> QED
      BY <2>1 DEF VadIInv, HangoversEnd, QuietEnds
  <1> QED
    BY <1>1, VadInvariant, PTL

\* A steady signal is not taken for speech for its level for ever: from the
\* twentieth such frame on the estimates of the noise rise towards it.
THEOREM NoSpeechDeadlock == VadSpec => NoDeadlock
  <1> DEFINE Rises == plain' >= STAT_COUNT /\ complexHang = 0 =>
                          \A b \in Bands : \/ oldLevel[b] < bckr[b]
                                           \/ bckr'[b] >= bckr[b] + 2
                                           \/ bckr'[b] = NOISE_MAX
  <1>1. VadIInv /\ VadIInv' /\ [VadNext]_vadVars => [Rises]_vadVars
    <2> SUFFICES ASSUME VadIInv, VadIInv', VadNext PROVE Rises
      BY DEF vadVars
    <2>1. PICK power \in Powers, lev \in [Bands -> BandLevels], loud \in BOOLEAN,
               moving \in BOOLEAN, tones \in [1 .. 2 -> BOOLEAN],
               best \in 0 .. MAX_16, lags \in 0 .. 2 :
               Frame(power, lev, loud, moving, tones, best, lags)
      BY DEF VadNext
    <2>2. Inputs(power, lev, loud, moving, tones, best, lags) /\ VadTypeOK
      BY DEF Inputs, VadIInv
    <2>3. plain' >= STAT_COUNT => statCount' = 0
      <3>1. plain' \in Nat /\ statCount' \in 0 .. STAT_COUNT
        BY DEF VadIInv, VadTypeOK
      <3>2. PICK n \in Nat, s \in Nat : n = plain' /\ s = statCount'
        BY <3>1 DEF STAT_COUNT
      <3>3. n > 0 => s = 0 \/ s + n <= 20
        BY <3>2 DEF VadIInv, UpdateNears
      <3>4. n >= 20 => s = 0
        BY <3>3, Forced
      <3>5. STAT_COUNT = 20
        BY DEF STAT_COUNT
      <3> QED
        BY <3>2, <3>4, <3>5
    <2> QED
      BY <2>1, <2>2, <2>3, Estimates
  <1> QED
    BY <1>1, VadInvariant, PTL DEF VadSpec, NoDeadlock

-----------------------------------------------------------------------------
(* AmrPitch: the lag codes for every mode, subframe, range and lag.          *)

\* The divisions by 3 and by 6 are exact where the codes use them.
LEMMA ThirdIsExact ==
    ASSUME NEW x \in 0 .. 520
    PROVE  Third(x) \in Int /\ 3 * Third(x) <= x /\ x <= 3 * Third(x) + 2
BY SMT DEF Third

LEMMA SixthIsExact ==
    ASSUME NEW x \in 0 .. 520
    PROVE  Sixth(x) \in Int /\ 6 * Sixth(x) <= x /\ x <= 6 * Sixth(x) + 5
BY SMT DEF Sixth

\* getRange keeps the range inside pitmin..pitmax, at its full width.
LEMMA RangeInside ==
    ASSUME NEW T0 \in Int, NEW low \in Int, NEW range \in Nat,
           NEW pitmin \in Int, NEW pitmax \in Int, pitmin + range <= pitmax
    PROVE  LET r == getRange(T0, low, range, pitmin, pitmax)
           IN  /\ r.min \in Int /\ r.max = r.min + range
               /\ pitmin <= r.min /\ r.max <= pitmax
BY SMT DEF getRange, Lesser, Greater

-----------------------------------------------------------------------------
(* The lags each code has to carry: every one the search may find.           *)

Shape3Absolute(p) ==
    \E T0 \in 19 .. 143, frac \in -1 .. 1 :
        /\ p = Lag(T0, frac)
        /\ T0 > 85 => frac = 0
        /\ T0 = 85 => frac < 1
        /\ T0 = 19 => frac = 1

Shape6Absolute(p) ==
    \E T0 \in 17 .. 143, frac \in -2 .. 3 :
        /\ p = Lag(T0, frac)
        /\ T0 > 94 => frac = 0
        /\ T0 = 17 => frac = 3

Shape3Four(p, c) ==
    \E T0 \in c - 5 .. c + 4, frac \in -1 .. 1 :
        /\ p = Lag(T0, frac)
        /\ T0 < c - 2 \/ T0 > c + 1 => frac = 0
        /\ T0 = c - 2 => frac # -1
        /\ T0 = c + 1 => frac # 1

Shape3Relative(p, min, max) ==
    \E T0 \in min - 1 .. max + 1, frac \in -1 .. 1 :
        /\ p = Lag(T0, frac)
        /\ T0 = min - 1 => frac = 1
        /\ T0 = max + 1 => frac = -1

Shape6Relative(p, min, max) ==
    \E T0 \in min - 1 .. max, frac \in -2 .. 3 :
        p = Lag(T0, frac) /\ (T0 = min - 1 => frac = 3)

-----------------------------------------------------------------------------
(* The five codes: what is decoded from an index is what was coded.          *)

LEMMA Code3Absolute ==
    ASSUME NEW p, Shape3Absolute(p)
    PROVE  LET index == Enc3Absolute(p.T0, p.frac)
           IN  index \in 0 .. 255 /\ Dec3Absolute(index) = p
<1>0. PICK T0 \in 19 .. 143, frac \in -1 .. 1 :
         /\ p = Lag(T0, frac)
         /\ T0 > 85 => frac = 0
         /\ T0 = 85 => frac < 1
         /\ T0 = 19 => frac = 1
  BY DEF Shape3Absolute
<1> SUFFICES LET index == Enc3Absolute(T0, frac)
             IN  index \in 0 .. 255 /\ Dec3Absolute(index) = Lag(T0, frac)
  BY <1>0 DEF Lag
<1>1. CASE T0 < 85 \/ (T0 = 85 /\ frac < 0)
  <2>1. Enc3Absolute(T0, frac) = 3 * T0 - 58 + frac
    BY <1>1, SMT DEF Enc3Absolute
  <2>2. 3 * T0 - 58 + frac \in 0 .. 196
    BY <1>0, <1>1, SMT
  <2>3. Third(3 * T0 - 58 + frac + 2) = T0 - 19
    BY <2>2, ThirdIsExact, SMT
  <2> QED
    BY <2>1, <2>2, <2>3, SMT DEF Dec3Absolute, Lag
<1>2. CASE T0 > 85 \/ (T0 = 85 /\ frac = 0)
  BY <1>0, <1>2, SMT DEF Enc3Absolute, Dec3Absolute, Lag
<1> QED
  BY <1>0, <1>1, <1>2, SMT

LEMMA Code3Relative ==
    ASSUME NEW t0_min \in Int, NEW range \in 0 .. 19, NEW p,
           Shape3Relative(p, t0_min, t0_min + range)
    PROVE  LET index == Enc3Relative(p.T0, p.frac, t0_min)
           IN  /\ index \in 0 .. 3 * range + 4
               /\ Dec3Relative(index, t0_min) = p
               /\ p.T0 \in t0_min - 1 .. t0_min + range + 1
<1>0. PICK T0 \in t0_min - 1 .. t0_min + range + 1, frac \in -1 .. 1 :
         /\ p = Lag(T0, frac)
         /\ T0 = t0_min - 1 => frac = 1
         /\ T0 = t0_min + range + 1 => frac = -1
  BY DEF Shape3Relative
<1> SUFFICES LET index == Enc3Relative(T0, frac, t0_min)
             IN  index \in 0 .. 3 * range + 4 /\ Dec3Relative(index, t0_min) = Lag(T0, frac)
  BY <1>0 DEF Lag
<1> DEFINE index == 3 * (T0 - t0_min) + 2 + frac
<1>1. Enc3Relative(T0, frac, t0_min) = index
  BY DEF Enc3Relative
<1>2. index \in 0 .. 3 * range + 4 /\ index + 2 \in 0 .. 520
  BY <1>0, SMT
<1>3. Third(index + 2) = T0 - t0_min + 1
  BY <1>2, ThirdIsExact, SMT
<1> QED
  BY <1>1, <1>2, <1>3, SMT DEF Dec3Relative, Lag

LEMMA Code3Four ==
    ASSUME NEW c \in Int, NEW p, Shape3Four(p, c)
    PROVE  LET index == Enc3Four(p.T0, p.frac, c)
           IN  /\ index \in 0 .. 15
               /\ Dec3Four(index, c) = p
               /\ p.T0 \in c - 5 .. c + 4
<1>0. PICK T0 \in c - 5 .. c + 4, frac \in -1 .. 1 :
         /\ p = Lag(T0, frac)
         /\ T0 < c - 2 \/ T0 > c + 1 => frac = 0
         /\ T0 = c - 2 => frac # -1
         /\ T0 = c + 1 => frac # 1
  BY DEF Shape3Four
<1> SUFFICES LET index == Enc3Four(T0, frac, c)
             IN  index \in 0 .. 15 /\ Dec3Four(index, c) = Lag(T0, frac)
  BY <1>0 DEF Lag
<1>1. CASE 3 * T0 + frac <= 3 * (c - 2)
  <2>1. Enc3Four(T0, frac, c) = T0 - c + 5
    BY <1>0, <1>1, SMT DEF Enc3Four
  <2> QED
    BY <1>0, <1>1, <2>1, SMT DEF Dec3Four, Lag
<1>2. CASE 3 * (c - 2) < 3 * T0 + frac /\ 3 * T0 + frac < 3 * (c + 1)
  <2> DEFINE index == 3 * (T0 - c + 2) + frac + 3
  <2>1. Enc3Four(T0, frac, c) = index
    BY <1>0, <1>2, SMT DEF Enc3Four
  <2>2. index \in 4 .. 11
    BY <1>0, <1>2, SMT
  <2>3. CASE index = 4
    <3>1. Third(index - 5) = T0 - c + 1
      BY <1>0, <1>2, <2>3, SMT DEF Third
    <3> QED
      BY <1>0, <2>1, <2>2, <3>1, SMT DEF Dec3Four, Lag
  <2>4. CASE index # 4
    <3>1. Third(index - 5) = T0 - c + 1
      BY <1>0, <1>2, <2>2, <2>4, ThirdIsExact, SMT
    <3> QED
      BY <1>0, <2>1, <2>2, <3>1, SMT DEF Dec3Four, Lag
  <2> QED
    BY <2>3, <2>4
<1>3. CASE 3 * T0 + frac >= 3 * (c + 1)
  <2>1. Enc3Four(T0, frac, c) = T0 - c + 11
    BY <1>0, <1>3, SMT DEF Enc3Four
  <2> QED
    BY <1>0, <1>3, <2>1, SMT DEF Dec3Four, Lag
<1> QED
  BY <1>0, <1>1, <1>2, <1>0, <1>3, SMT

LEMMA Code6Absolute ==
    ASSUME NEW p, Shape6Absolute(p)
    PROVE  LET index == Enc6Absolute(p.T0, p.frac)
           IN  index \in 0 .. 511 /\ Dec6Absolute(index) = p
<1>0. PICK T0 \in 17 .. 143, frac \in -2 .. 3 :
         /\ p = Lag(T0, frac)
         /\ T0 > 94 => frac = 0
         /\ T0 = 17 => frac = 3
  BY DEF Shape6Absolute
<1> SUFFICES LET index == Enc6Absolute(T0, frac)
             IN  index \in 0 .. 511 /\ Dec6Absolute(index) = Lag(T0, frac)
  BY <1>0 DEF Lag
<1>1. CASE T0 <= 94
  <2>1. Enc6Absolute(T0, frac) = 6 * T0 - 105 + frac
    BY <1>0, <1>1, SMT DEF Enc6Absolute
  <2>2. 6 * T0 - 105 + frac \in 0 .. 462
    BY <1>0, <1>1, SMT
  <2>3. Sixth(6 * T0 - 105 + frac + 5) = T0 - 17
    BY <2>2, SixthIsExact, SMT
  <2> QED
    BY <2>1, <2>2, <2>3, SMT DEF Dec6Absolute, Lag
<1>2. CASE T0 > 94
  BY <1>0, <1>2, SMT DEF Enc6Absolute, Dec6Absolute, Lag
<1> QED
  BY <1>0, <1>1, <1>2, SMT

LEMMA Code6Relative ==
    ASSUME NEW t0_min \in Int, NEW p, Shape6Relative(p, t0_min, t0_min + 9)
    PROVE  LET index == Enc6Relative(p.T0, p.frac, t0_min)
           IN  /\ index \in 0 .. 60
               /\ Dec6Relative(index, t0_min) = p
               /\ p.T0 \in t0_min - 1 .. t0_min + 9
<1>0. PICK T0 \in t0_min - 1 .. t0_min + 9, frac \in -2 .. 3 :
         p = Lag(T0, frac) /\ (T0 = t0_min - 1 => frac = 3)
  BY DEF Shape6Relative
<1> SUFFICES LET index == Enc6Relative(T0, frac, t0_min)
             IN  index \in 0 .. 60 /\ Dec6Relative(index, t0_min) = Lag(T0, frac)
  BY <1>0 DEF Lag
<1> DEFINE index == 6 * (T0 - t0_min) + 3 + frac
<1>1. Enc6Relative(T0, frac, t0_min) = index
  BY DEF Enc6Relative
<1>2. index \in 0 .. 60 /\ index + 5 \in 0 .. 520
  BY <1>0, SMT
<1>3. /\ Sixth(index + 5) \in Int
      /\ 6 * Sixth(index + 5) <= index + 5
      /\ index + 5 <= 6 * Sixth(index + 5) + 5
  BY <1>2, SixthIsExact
<1>4. Sixth(index + 5) = T0 - t0_min + 1
  BY <1>3, SMT
<1> QED
  BY <1>1, <1>2, <1>4, SMT DEF Dec6Relative, Lag

-----------------------------------------------------------------------------
(* What the search can find, by the way it is coded.                         *)

LEMMA FoundAbsolute ==
    ASSUME NEW m \in Modes, NEW s \in Subframes, ~delta(m, s),
           NEW T_op \in OpenLags, NEW prev \in Lags, NEW p,
           Found(m, s, T_op, prev, p)
    PROVE  IF flag3(m) THEN Shape3Absolute(p) ELSE Shape6Absolute(p)
<1> DEFINE r == SearchRange(m, s, T_op, prev)
<1>1. /\ r.min \in Int /\ r.max \in Int
      /\ pit_min(m) <= r.min /\ r.max <= PIT_MAX
  <2>1. r = getRange(T_op, delta_int_low(m), delta_int_range(m), pit_min(m), PIT_MAX)
    BY DEF SearchRange
  <2>2. /\ delta_int_low(m) \in Int /\ delta_int_range(m) \in Nat
        /\ pit_min(m) \in Int /\ PIT_MAX \in Int /\ T_op \in Int
        /\ pit_min(m) + delta_int_range(m) <= PIT_MAX
    BY SMT DEF delta_int_low, delta_int_range, pit_min, PIT_MAX, PIT_MIN,
               PIT_MIN_MR122, OpenLags
  <2> DEFINE q == getRange(T_op, delta_int_low(m), delta_int_range(m), pit_min(m), PIT_MAX)
  <2>3. /\ q.min \in Int /\ q.max = q.min + delta_int_range(m)
        /\ pit_min(m) <= q.min /\ q.max <= PIT_MAX
    BY <2>2, RangeInside, Zenon
  <2> HIDE DEF q
  <2>4. r = q
    BY <2>1 DEF q
  <2> QED
    BY <2>2, <2>3, <2>4, SMT
<1> HIDE DEF r
<1>0. PICK lag \in r.min .. r.max :
         \E frac \in Fractions(m, s, lag, prev, r) : p = searchFrac(m, lag, frac)
  BY DEF Found, r
<1>2. PICK frac \in Fractions(m, s, lag, prev, r) : p = searchFrac(m, lag, frac)
  BY <1>0
<1>3. CASE m # "MR122"
  <2>1. lag \in 20 .. 143
    BY <1>1, <1>3, SMT DEF pit_min, PIT_MIN, PIT_MAX
  <2>2. IF lag > 84 THEN frac = 0 ELSE frac \in -2 .. 2
    BY <1>2, <1>3, <2>1, SMT DEF Fractions, max_frac_lag, first_frac, last_frac, flag3
  <2>3. p = IF frac = -2 THEN Lag(lag - 1, 1)
            ELSE IF frac = 2 THEN Lag(lag + 1, -1) ELSE Lag(lag, frac)
    BY <1>2, <1>3, <2>1, <2>2, SMT DEF searchFrac, flag3
  <2>4. Shape3Absolute(p)
    BY <1>3, <2>1, <2>2, <2>3, SMT DEF Shape3Absolute
  <2> QED
    BY <1>3, <2>4 DEF flag3
<1>4. CASE m = "MR122"
  <2>1. lag \in 18 .. 143
    BY <1>1, <1>4, SMT DEF pit_min, PIT_MIN_MR122, PIT_MAX
  <2>2. IF lag > 94 THEN frac = 0 ELSE frac \in -3 .. 3
    BY <1>2, <1>4, <2>1, SMT DEF Fractions, max_frac_lag, first_frac, last_frac, flag3
  <2>3. p = IF frac = -3 THEN Lag(lag - 1, 3) ELSE Lag(lag, frac)
    BY <1>2, <1>4, <2>1, <2>2, SMT DEF searchFrac, flag3
  <2>4. Shape6Absolute(p)
    BY <1>4, <2>1, <2>2, <2>3, SMT DEF Shape6Absolute
  <2> QED
    BY <1>4, <2>4 DEF flag3
<1> QED
  BY <1>3, <1>4

LEMMA RelativeRange ==
    ASSUME NEW m \in Modes, NEW prev \in Lags
    PROVE  LET r == getRange(prev, delta_frc_low(m), delta_frc_range(m), pit_min(m), PIT_MAX)
           IN  /\ r.min \in Int /\ r.max = r.min + delta_frc_range(m)
               /\ pit_min(m) <= r.min /\ r.max <= PIT_MAX
<1>1. /\ delta_frc_low(m) \in Int /\ delta_frc_range(m) \in Nat
      /\ pit_min(m) \in Int /\ PIT_MAX \in Int /\ prev \in Int
      /\ pit_min(m) + delta_frc_range(m) <= PIT_MAX
  BY SMT DEF delta_frc_low, delta_frc_range, pit_min, PIT_MAX, PIT_MIN,
             PIT_MIN_MR122, Lags
<1> QED
  BY <1>1, RangeInside, Zenon

\* The centre of the 4-bit code is always the sixth lag of its range.
LEMMA CentreIsSixth ==
    ASSUME NEW prev \in Int, NEW r, r.min \in Int, r.max = r.min + 9
    PROVE  Centre(prev, r) = r.min + 5
BY SMT DEF Centre, Greater, Lesser

LEMMA FoundRelative ==
    ASSUME NEW m \in Modes, NEW s \in Subframes, delta(m, s),
           NEW T_op \in OpenLags, NEW prev \in Lags, NEW p,
           Found(m, s, T_op, prev, p)
    PROVE  LET r == DecoderRange(m, prev)
           IN  IF ~flag3(m) THEN Shape6Relative(p, r.min, r.max)
               ELSE IF flag4(m) THEN Shape3Four(p, r.min + 5)
               ELSE Shape3Relative(p, r.min, r.max)
<1> DEFINE r == DecoderRange(m, prev)
           c == r.min + 5
<1>1. r.min \in Int /\ r.max = r.min + delta_frc_range(m)
  BY RelativeRange DEF DecoderRange
<1>2. SearchRange(m, s, T_op, prev) = r
  BY DEF SearchRange, DecoderRange
<1> HIDE DEF r
<1>3. delta_frc_range(m) = IF m = "MR795" THEN 19 ELSE 9
  BY DEF delta_frc_range
<1>0. PICK lag \in r.min .. r.max :
         \E frac \in Fractions(m, s, lag, prev, r) : p = searchFrac(m, lag, frac)
  BY <1>2 DEF Found
<1>4. PICK frac \in Fractions(m, s, lag, prev, r) : p = searchFrac(m, lag, frac)
  BY <1>0
<1>5. lag \in Int /\ r.max \in Int /\ r.min <= lag /\ lag <= r.max
  BY <1>1, <1>3, <1>4, SMT
<1>6. CASE flag3(m) /\ flag4(m)
  <2>1. r.max = r.min + 9
    BY <1>1, <1>3, <1>6, SMT DEF flag4
  <2>2. Centre(prev, r) = c
    BY <1>1, <2>1, CentreIsSixth, SMT DEF Lags, PIT_MIN_MR122, PIT_MAX
  <2>3. frac \in NearFractions(lag, c)
    BY <1>4, <1>6, <2>2, SMT DEF Fractions
  <2>4. frac \in -2 .. 2
        /\ (lag < c - 2 \/ lag > c + 1 => frac = 0)
        /\ (lag = c - 2 => frac >= 0) /\ (lag = c + 1 => frac <= 0)
    BY <1>1, <1>5, <2>3, SMT DEF NearFractions
  <2>5. p = IF frac = -2 THEN Lag(lag - 1, 1)
            ELSE IF frac = 2 THEN Lag(lag + 1, -1) ELSE Lag(lag, frac)
    BY <1>4, <1>6, <2>4, SMT DEF searchFrac
  <2>6. Shape3Four(p, c)
    BY <1>1, <1>5, <2>1, <2>4, <2>5, SMT DEF Shape3Four
  <2> QED
    BY <1>6, <2>6 DEF r
<1>7. CASE flag3(m) /\ ~flag4(m)
  <2>1. frac \in -2 .. 2
    BY <1>4, <1>7, SMT DEF Fractions, first_frac, last_frac
  <2>2. p = IF frac = -2 THEN Lag(lag - 1, 1)
            ELSE IF frac = 2 THEN Lag(lag + 1, -1) ELSE Lag(lag, frac)
    BY <1>4, <1>7, <2>1, SMT DEF searchFrac
  <2>3. Shape3Relative(p, r.min, r.max)
    BY <1>1, <1>5, <2>1, <2>2, SMT DEF Shape3Relative
  <2> QED
    BY <1>7, <2>3 DEF r
<1>8. CASE m = "MR122"
  <2>1. ~flag3(m) /\ ~flag4(m)
    BY <1>8, SMT DEF flag3, flag4
  <2>2. frac \in -3 .. 3
    BY <1>4, <2>1, SMT DEF Fractions, first_frac, last_frac
  <2>3. p = IF frac = -3 THEN Lag(lag - 1, 3) ELSE Lag(lag, frac)
    BY <1>4, <2>1, <2>2, SMT DEF searchFrac
  <2>4. Shape6Relative(p, r.min, r.max)
    BY <1>1, <1>5, <2>2, <2>3, SMT DEF Shape6Relative
  <2> QED
    BY <2>1, <2>4 DEF r
<1> QED
  BY <1>6, <1>7, <1>8 DEF flag3

-----------------------------------------------------------------------------
(* The theorems.                                                             *)

\* Every lag and fraction the search of the encoder may find (Pitch_fr) fits
\* the bits of its parameter, is never one of the indices that the decoder of
\* MR122 takes for an error, and is decoded to itself (Enc_lag3/6, Dec_lag3/6):
\* in the subframes coded against the lag before, from the same lag before.
THEOREM LagRoundTrip ==
    ASSUME NEW m \in Modes, NEW s \in Subframes, NEW T_op \in OpenLags,
           NEW prev \in Lags, NEW old, NEW p, Found(m, s, T_op, prev, p)
    PROVE  /\ Fits(m, s, T_op, prev, p)
           /\ Decodes(m, s, T_op, prev, old, p)
           /\ p.T0 \in Lags
<1> DEFINE index == Index(m, s, p, T_op, prev)
           r     == DecoderRange(m, prev)
<1>0. SUFFICES /\ index \in 0 .. Indices(m, s) - 1
               /\ (delta(m, s) => old = prev) => Decoded(m, s, index, old) = p
               /\ m = "MR122" /\ delta(m, s) => index < 61
               /\ p.T0 \in Lags
  <2>1. Indices(m, s) \in Int
    BY DEF Indices
  <2>2. index \in Int /\ (m = "MR122" /\ delta(m, s) => ~(index >= 61))
    BY <1>0, <2>1, SMT
  <2> QED
    BY <1>0, <2>2 DEF Fits, Decodes, DecoderLag
<1>1. CASE ~delta(m, s) /\ flag3(m)
  <2>1. Shape3Absolute(p)
    BY <1>1, FoundAbsolute
  <2>2. index = Enc3Absolute(p.T0, p.frac)
    BY <1>1 DEF Index
  <2>3. index \in 0 .. 255 /\ Dec3Absolute(index) = p
    BY <2>1, <2>2, Code3Absolute
  <2>4. Decoded(m, s, index, old) = p /\ Indices(m, s) = 256
    BY <1>1, <2>3 DEF Decoded, Indices, flag3
  <2>5. p.T0 \in Lags
    BY <2>1, SMT DEF Shape3Absolute, Lag, Lags, PIT_MIN_MR122, PIT_MAX
  <2> QED
    BY <1>1, <2>3, <2>4, <2>5, SMT
<1>2. CASE ~delta(m, s) /\ ~flag3(m)
  <2>1. Shape6Absolute(p)
    BY <1>2, FoundAbsolute
  <2>2. index = Enc6Absolute(p.T0, p.frac)
    BY <1>2 DEF Index
  <2>3. index \in 0 .. 511 /\ Dec6Absolute(index) = p
    BY <2>1, <2>2, Code6Absolute
  <2>4. Decoded(m, s, index, old) = p /\ Indices(m, s) = 512
    BY <1>2, <2>3 DEF Decoded, Indices, flag3
  <2>5. p.T0 \in Lags
    BY <2>1, SMT DEF Shape6Absolute, Lag, Lags, PIT_MIN_MR122, PIT_MAX
  <2> QED
    BY <1>2, <2>3, <2>4, <2>5, SMT
<1>3. CASE delta(m, s)
  <2>1. SearchRange(m, s, T_op, prev) = r
    BY <1>3 DEF SearchRange, DecoderRange
  <2>2. /\ r.min \in Int /\ r.max = r.min + delta_frc_range(m)
        /\ pit_min(m) <= r.min /\ r.max <= PIT_MAX
    BY RelativeRange, Zenon DEF DecoderRange
  <2>3. IF ~flag3(m) THEN Shape6Relative(p, r.min, r.max)
        ELSE IF flag4(m) THEN Shape3Four(p, r.min + 5)
        ELSE Shape3Relative(p, r.min, r.max)
    BY <1>3, FoundRelative, Zenon
  <2>4. old = prev => DecoderRange(m, old) = r
    OBVIOUS
  <2> HIDE DEF r
  <2>5. CASE flag3(m) /\ flag4(m)
    <3> DEFINE c == r.min + 5
    <3>1. Shape3Four(p, c)
      BY <2>3, <2>5
    <3>2. delta_frc_range(m) = 9 /\ pit_min(m) = 20
      BY <2>5, SMT DEF delta_frc_range, flag4, pit_min, PIT_MIN
    <3>3. Centre(prev, r) = c
      BY <2>2, <3>2, CentreIsSixth, SMT DEF Lags, PIT_MIN_MR122, PIT_MAX
    <3>4. index = Enc3Four(p.T0, p.frac, c)
      BY <1>3, <2>1, <2>5, <3>3 DEF Index
    <3>5. c \in Int
      BY <2>2, SMT
    <3> HIDE DEF c, index
    <3>6. index \in 0 .. 15 /\ Dec3Four(index, c) = p /\ p.T0 \in c - 5 .. c + 4
      BY <3>1, <3>4, <3>5, Code3Four
    <3>7. old = prev => Decoded(m, s, index, old) = p
      BY <1>3, <2>4, <2>5, <3>3, <3>6 DEF Decoded
    <3>8. Indices(m, s) = 16 /\ m # "MR122"
      BY <1>3, <2>5 DEF Indices, flag3
    <3>9. p.T0 \in Lags
      BY <2>2, <3>2, <3>6, SMT DEF Lags, PIT_MIN_MR122, PIT_MAX, c
    <3> QED
      BY <1>3, <3>6, <3>7, <3>8, <3>9, SMT DEF index
  <2>6. CASE flag3(m) /\ ~flag4(m)
    <3>1. m # "MR122" /\ Indices(m, s) = IF m = "MR795" THEN 64 ELSE 32
      BY <1>3, <2>6, SMT DEF Indices, flag3, flag4, Modes
    <3>2. delta_frc_range(m) = IF m = "MR795" THEN 19 ELSE 9
      BY DEF delta_frc_range
    <3>3. delta_frc_range(m) \in 0 .. 19
      BY <3>2, SMT
    <3>4. Shape3Relative(p, r.min, r.min + delta_frc_range(m))
      BY <2>2, <2>3, <2>6
    <3>5. index = Enc3Relative(p.T0, p.frac, r.min)
      BY <1>3, <2>1, <2>6 DEF Index
    <3> HIDE DEF index
    <3>6. /\ index \in 0 .. 3 * delta_frc_range(m) + 4
          /\ Dec3Relative(index, r.min) = p
          /\ p.T0 \in r.min - 1 .. r.min + delta_frc_range(m) + 1
      BY <2>2, <3>3, <3>4, <3>5, Code3Relative
    <3>7. old = prev => Decoded(m, s, index, old) = p
      BY <1>3, <2>4, <2>6, <3>6 DEF Decoded
    <3>8. index \in 0 .. Indices(m, s) - 1
      BY <3>1, <3>2, <3>6, SMT
    <3>9. p.T0 \in Lags
      BY <2>2, <3>1, <3>2, <3>6, SMT
         DEF Lags, PIT_MIN_MR122, PIT_MIN, PIT_MAX, pit_min
    <3> QED
      BY <1>3, <3>1, <3>7, <3>8, <3>9, SMT DEF index
  <2>7. CASE ~flag3(m)
    <3>1. /\ ~flag4(m) /\ delta_frc_range(m) = 9 /\ pit_min(m) = 18
          /\ Indices(m, s) = 64
      BY <1>3, <2>7, SMT DEF flag3, flag4, delta_frc_range, pit_min, PIT_MIN_MR122, Indices
    <3>2. Shape6Relative(p, r.min, r.min + 9)
      BY <2>2, <2>3, <2>7, <3>1
    <3>3. index = Enc6Relative(p.T0, p.frac, r.min)
      BY <1>3, <2>1, <2>7 DEF Index
    <3> HIDE DEF index
    <3>4. /\ index \in 0 .. 60
          /\ Dec6Relative(index, r.min) = p
          /\ p.T0 \in r.min - 1 .. r.min + 9
      BY <2>2, <3>2, <3>3, Code6Relative
    <3>5. old = prev => Decoded(m, s, index, old) = p
      BY <1>3, <2>4, <2>7, <3>4 DEF Decoded
    <3>6. p.T0 \in Lags
      BY <2>2, <3>1, <3>4, SMT DEF Lags, PIT_MIN_MR122, PIT_MAX
    <3> QED
      BY <1>3, <3>1, <3>4, <3>5, <3>6, SMT DEF index
  <2> QED
    BY <2>5, <2>6, <2>7
<1> QED
  BY <1>1, <1>2, <1>3

\* The decoder follows a whole good frame, whatever lag the frames before it
\* left it with: the first subframe of a frame is always coded absolutely, so
\* lost frames leave no trace in the lags (Decoder_amr, old_T0).
THEOREM FrameFollowed ==
    ASSUME NEW m \in Modes, NEW T_op \in [Subframes -> OpenLags],
           NEW prev \in Lags, NEW old,
           NEW p, NEW got,
           \A s \in Subframes :
              /\ Found(m, s, T_op[s], IF s = 0 THEN prev ELSE p[s - 1].T0, p[s])
              /\ got[s] = DecoderLag(m, s, FALSE,
                    Index(m, s, p[s], T_op[s], IF s = 0 THEN prev ELSE p[s - 1].T0),
                    IF s = 0 THEN old ELSE got[s - 1].T0, FALSE)
    PROVE  \A s \in Subframes : got[s] = p[s] /\ p[s].T0 \in Lags
<1> DEFINE before(s) == IF s = 0 THEN prev ELSE p[s - 1].T0
           kept(s) == IF s = 0 THEN old ELSE got[s - 1].T0
<1>1. ASSUME NEW s \in Subframes, before(s) \in Lags, delta(m, s) => kept(s) = before(s)
      PROVE  got[s] = p[s] /\ p[s].T0 \in Lags
  <2>1. Found(m, s, T_op[s], before(s), p[s]) /\ T_op[s] \in OpenLags
    OBVIOUS
  <2>2. got[s] = DecoderLag(m, s, FALSE, Index(m, s, p[s], T_op[s], before(s)), kept(s), FALSE)
    OBVIOUS
  <2> HIDE DEF before, kept
  <2>3. Decodes(m, s, T_op[s], before(s), kept(s), p[s]) /\ p[s].T0 \in Lags
    BY <1>1, <2>1, LagRoundTrip
  <2> QED
    BY <1>1, <2>2, <2>3 DEF Decodes
<1>2. ~delta(m, 0)
  BY SMT DEF delta
<1>3. got[0] = p[0] /\ p[0].T0 \in Lags
  BY <1>1, <1>2 DEF Subframes
<1>4. got[1] = p[1] /\ p[1].T0 \in Lags
  <2>1. before(1) = p[0].T0 /\ kept(1) = got[0].T0 /\ 1 \in Subframes
    BY SMT DEF Subframes
  <2> QED
    BY <1>1, <1>3, <2>1
<1>5. got[2] = p[2] /\ p[2].T0 \in Lags
  <2>1. before(2) = p[1].T0 /\ kept(2) = got[1].T0 /\ 2 \in Subframes
    BY SMT DEF Subframes
  <2> QED
    BY <1>1, <1>4, <2>1
<1>6. got[3] = p[3] /\ p[3].T0 \in Lags
  <2>1. before(3) = p[2].T0 /\ kept(3) = got[2].T0 /\ 3 \in Subframes
    BY SMT DEF Subframes
  <2> QED
    BY <1>1, <1>5, <2>1
<1>7. \A s \in Subframes : s = 0 \/ s = 1 \/ s = 2 \/ s = 3
  BY SMT DEF Subframes
<1> QED
  BY <1>3, <1>4, <1>5, <1>6, <1>7

\* Whatever index a bad frame holds, the lag stays in its range and the
\* interpolation of the decoder reads inside the history it keeps
\* (Decoder_amr, Pred_lt_3or6, old_exc).
THEOREM HistoryInside ==
    ASSUME NEW m \in Modes, NEW s \in Subframes, NEW bad \in BOOLEAN,
           NEW noisy \in BOOLEAN, NEW old \in Lags,
           NEW index \in 0 .. Indices(m, s) - 1
    PROVE  /\ DecoderLag(m, s, bad, index, old, noisy).T0 \in Lags
           /\ Inside(m, s, bad, index, old, noisy)
<1> DEFINE p == Decoded(m, s, index, old)
           r == DecoderRange(m, old)
<1>1. /\ r.min \in Int /\ r.max = r.min + delta_frc_range(m)
      /\ pit_min(m) <= r.min /\ r.max <= PIT_MAX
  BY RelativeRange, Zenon DEF DecoderRange
<1> HIDE DEF r
<1>2. /\ delta_frc_range(m) = IF m = "MR795" THEN 19 ELSE 9
      /\ pit_min(m) = IF m = "MR122" THEN 18 ELSE 20
  BY DEF delta_frc_range, pit_min, PIT_MIN, PIT_MIN_MR122
<1> DEFINE T0 == Decoded(m, s, index, old).T0
<1>3. ~(~flag3(m) /\ delta(m, s) /\ index >= 61) => T0 \in Lags
  <2> SUFFICES ASSUME ~(~flag3(m) /\ delta(m, s) /\ index >= 61) PROVE T0 \in Lags
    OBVIOUS
  <2>1. CASE ~delta(m, s) /\ flag3(m)
    <3>1. index \in 0 .. 255 /\ index + 2 \in 0 .. 520
      BY <2>1, SMT DEF Indices, flag3
    <3>2. Third(index + 2) \in Int /\ 3 * Third(index + 2) <= index + 2
          /\ index + 2 <= 3 * Third(index + 2) + 2
      BY <3>1, ThirdIsExact
    <3>3. T0 = Dec3Absolute(index).T0
      BY <2>1 DEF Decoded
    <3> QED
      BY <3>1, <3>2, <3>3, SMT DEF Dec3Absolute, Lag, Lags, PIT_MIN_MR122, PIT_MAX
  <2>2. CASE ~delta(m, s) /\ ~flag3(m)
    <3>1. index \in 0 .. 511 /\ index + 5 \in 0 .. 520
      BY <2>2, SMT DEF Indices, flag3
    <3>2. Sixth(index + 5) \in Int /\ 6 * Sixth(index + 5) <= index + 5
          /\ index + 5 <= 6 * Sixth(index + 5) + 5
      BY <3>1, SixthIsExact
    <3>3. T0 = Dec6Absolute(index).T0
      BY <2>2 DEF Decoded
    <3> QED
      BY <3>1, <3>2, <3>3, SMT DEF Dec6Absolute, Lag, Lags, PIT_MIN_MR122, PIT_MAX
  <2>3. CASE delta(m, s) /\ flag3(m) /\ flag4(m)
    <3>1. index \in 0 .. 15 /\ delta_frc_range(m) = 9 /\ pit_min(m) = 20
      BY <1>2, <2>3, SMT DEF Indices, flag3, flag4
    <3>2. Centre(old, r) = r.min + 5
      BY <1>1, <3>1, CentreIsSixth, SMT DEF Lags, PIT_MIN_MR122, PIT_MAX
    <3>3. T0 = Dec3Four(index, r.min + 5).T0
      BY <2>3, <3>2 DEF Decoded, r
    <3>4. index >= 4 /\ index < 12 => Third(index - 5) \in -1 .. 2
      BY <3>1, SMT DEF Third
    <3> QED
      BY <1>1, <3>1, <3>3, <3>4, SMT DEF Dec3Four, Lag, Lags, PIT_MIN_MR122, PIT_MAX
  <2>4. CASE delta(m, s) /\ flag3(m) /\ ~flag4(m)
    <3>1. index \in 0 .. (IF m = "MR795" THEN 63 ELSE 31) /\ index + 2 \in 0 .. 520
      BY <2>4, SMT DEF Indices, flag3, flag4, Modes
    <3>2. Third(index + 2) \in Int /\ 3 * Third(index + 2) <= index + 2
          /\ index + 2 <= 3 * Third(index + 2) + 2
      BY <3>1, ThirdIsExact
    <3>3. T0 = Dec3Relative(index, r.min).T0
      BY <2>4 DEF Decoded, r
    <3>4. pit_min(m) = 20
      BY <1>2, <2>4 DEF flag3
    <3> QED
      BY <1>1, <1>2, <3>1, <3>2, <3>3, <3>4, SMT
         DEF Dec3Relative, Lag, Lags, PIT_MIN_MR122, PIT_MAX
  <2>5. CASE delta(m, s) /\ ~flag3(m)
    <3>1. index \in 0 .. 60 /\ index + 5 \in 0 .. 520
      BY <2>5, SMT DEF Indices, flag3, flag4
    <3>2. Sixth(index + 5) \in Int /\ 6 * Sixth(index + 5) <= index + 5
          /\ index + 5 <= 6 * Sixth(index + 5) + 5
      BY <3>1, SixthIsExact
    <3>3. T0 = Dec6Relative(index, r.min).T0
      BY <2>5 DEF Decoded, r
    <3>4. pit_min(m) = 18 /\ delta_frc_range(m) = 9
      BY <1>2, <2>5, SMT DEF flag3
    <3> QED
      BY <1>1, <3>1, <3>2, <3>3, <3>4, SMT
         DEF Dec6Relative, Lag, Lags, PIT_MIN_MR122, PIT_MAX
  <2> QED
    BY <2>1, <2>2, <2>3, <2>4, <2>5
<1> DEFINE q == DecoderLag(m, s, bad, index, old, noisy)
<1>4. q.T0 \in Lags
  <2>1. CASE bad \/ (m = "MR122" /\ delta(m, s) /\ index >= 61)
    <3>1. q = Concealed(m, s, index, old, noisy)
      BY <2>1 DEF DecoderLag
    <3> HIDE DEF T0
    <3>2. CASE m = "MR122"
      BY <3>1, <3>2 DEF Concealed, Lag
    <3>3. CASE m # "MR122" /\ noisy /\ m \in {"MR475", "MR515", "MR59"}
      <4>1. q.T0 = Decoded(m, s, index, old).T0
        BY <3>1, <3>3 DEF Concealed, Lag
      <4> QED
        BY <1>3, <3>3, <4>1 DEF T0, flag3
    <3>4. CASE m # "MR122" /\ ~(noisy /\ m \in {"MR475", "MR515", "MR59"})
      <4>1. q.T0 = IF old < PIT_MAX THEN old + 1 ELSE old
        BY <3>1, <3>4 DEF Concealed, Lag
      <4> QED
        BY <4>1, SMT DEF Lags, PIT_MIN_MR122, PIT_MAX
    <3> QED
      BY <3>2, <3>3, <3>4
  <2>2. CASE ~(bad \/ (m = "MR122" /\ delta(m, s) /\ index >= 61))
    BY <1>3, <2>2 DEF DecoderLag, flag3
  <2> QED
    BY <2>1, <2>2
<1>5. Reach(q) = q.T0 + Bool(q.frac > 0) + 9
  BY <1>4, SMT DEF Reach, L_INTER10, L_INTERPOL, Lags, Bool, PIT_MIN_MR122, PIT_MAX
<1>6. Reach(q) <= PIT_MAX + L_INTERPOL
  BY <1>4, <1>5, SMT DEF Lags, Bool, PIT_MIN_MR122, PIT_MAX, L_INTERPOL
<1> QED
  BY <1>4, <1>6 DEF Inside

-----------------------------------------------------------------------------
(* AmrCodebook: for every choice of the search, the indices fit the bits of  *)
(* the mode (bitno_tab.cpp) and the decoder places the very pulses the       *)
(* encoder chose; and whatever bits arrive, it writes inside the subframe.   *)

(* A position is five times its cell plus its track.                         *)
LEMMA CellOf ==
    \A i \in Positions :
        Cell(i) \in 0 .. 7 /\ Track(i) \in 0 .. 4 /\ i = 5 * Cell(i) + Track(i)
  BY SMT DEF Positions, L_CODE, Cell, Track

(* The two Gray tables are inverse to each other.                            *)
LEMMA GrayInverse ==
    \A i \in 0 .. 7 : gray(i) \in 0 .. 7 /\ dgray(i) \in 0 .. 7 /\ dgray(gray(i)) = i
<1>1. ASSUME NEW i \in 0 .. 7
      PROVE  gray(i) \in 0 .. 7 /\ dgray(i) \in 0 .. 7 /\ dgray(gray(i)) = i
  <2>1. i \in {0, 1, 2, 3, 4, 5, 6, 7}
    BY <1>1, SMT
  <2> QED
    BY <2>1, SMT DEF gray, dgray
<1> QED
  BY <1>1

(* Two signs come out of a sign word of two bits as they went in.            *)
LEMMA TwoSigns ==
    ASSUME NEW p \in Pulses, NEW q \in Pulses
    PROVE  LET sign == SignBit(p, 1) + SignBit(q, 2)
           IN  sign \in 0 .. 3 /\ IsNeg(sign, 1) = p.neg /\ IsNeg(sign, 2) = q.neg
<1>1. p.neg \in BOOLEAN /\ q.neg \in BOOLEAN
  BY DEF Pulses
<1> QED
  BY <1>1, SMT DEF SignBit, IsNeg

-----------------------------------------------------------------------------
(* The small codebooks                                                       *)

(* MR475, MR515: the decoder places the two pulses of the encoder; the index *)
(* takes the seven bits of the mode (build_code and decode_2i40_9bits).      *)
THEOREM RoundTrip9 ==
    ASSUME NEW s \in 0 .. 3, NEW p \in Pulses, NEW q \in Pulses, Chosen9(s, p, q)
    PROVE  /\ Index9(s, p, q) \in 0 .. 127
           /\ decode_2i40_9bits(s, Sign9(p, q), Index9(s, p, q)) = {p, q}
<1>1. /\ Cell(p.at) \in 0 .. 7 /\ p.at = 5 * Cell(p.at) + Track(p.at)
      /\ Cell(q.at) \in 0 .. 7 /\ q.at = 5 * Cell(q.at) + Track(q.at)
      /\ p = Pulse(p.at, p.neg) /\ q = Pulse(q.at, q.neg)
  BY CellOf DEF Pulses, Pulse
<1>2. PICK t \in 0 .. 1 : /\ Track(p.at) = startPos(2 * s + 8 * t)
                          /\ Track(q.at) = startPos(2 * s + 8 * t + 1)
  BY DEF Chosen9
<1>3. /\ startPos(2 * s + 8 * t) \in 0 .. 4
      /\ startPos(2 * s + 8 * t + 1) \in 0 .. 4
      /\ startPos(2 * s + 8 * t) # startPos(2 * s + 8 * t + 1)
      /\ trackTable(5 * s + startPos(2 * s + 8 * t)) # 0 <=> t = 1
  <2>1. s \in {0, 1, 2, 3} /\ t \in {0, 1}
    BY SMT
  <2> QED
    BY <2>1, SMT DEF startPos, trackTable
<1>4. Index9(s, p, q) = Cell(p.at) + 64 * t + 8 * Cell(q.at)
  BY <1>1, <1>2, <1>3, SMT DEF Index9
<1>5. /\ Index9(s, p, q) \in 0 .. 127
      /\ Index9(s, p, q) % 8 = Cell(p.at)
      /\ (Index9(s, p, q) \div 8) % 8 = Cell(q.at)
      /\ 2 * s + 8 * ((Index9(s, p, q) \div 64) % 2) = 2 * s + 8 * t
  BY <1>1, <1>4, SMT
<1>6. p.at # q.at
  BY <1>1, <1>2, <1>3, SMT
<1>7. /\ Cell(p.at) * 5 + startPos(2 * s + 8 * t) = p.at
      /\ Cell(q.at) * 5 + startPos(2 * s + 8 * t + 1) = q.at
  BY <1>1, <1>2, <1>3, SMT
<1>8. IsNeg(Sign9(p, q), 1) = p.neg /\ IsNeg(Sign9(p, q), 2) = q.neg
  BY TwoSigns, Zenon DEF Sign9
<1>9. decode_2i40_9bits(s, Sign9(p, q), Index9(s, p, q))
        = Placed(Pulse(p.at, p.neg), Pulse(q.at, q.neg))
  BY <1>5, <1>7, <1>8, Zenon DEF decode_2i40_9bits
<1> QED
  BY <1>1, <1>5, <1>6, <1>9, Zenon DEF Placed, Pulse

(* The four fields of the index of MR59 do not touch.                        *)
Word11(i, a, k, c) == i + 2 * a + 16 * k + 64 * c

Unpacks11(n, i, a, k, c) ==
    n % 2 = i /\ (n \div 2) % 8 = a /\ (n \div 16) % 4 = k /\ (n \div 64) % 8 = c

LEMMA Fields11 ==
    \A a, c \in 0 .. 7 : \A i \in 0 .. 1 : \A k \in 0 .. 3 :
        Unpacks11(Word11(i, a, k, c), i, a, k, c)
<1> TAKE a, c \in 0 .. 7
<1> TAKE i \in 0 .. 1
<1> TAKE k \in 0 .. 3
<1> DEFINE n == Word11(i, a, k, c)
<1>1. n % 2 = i
  <2>1. n = i + 2 * (a + 8 * k + 32 * c)
    BY SMT DEF Word11
  <2> QED
    BY <2>1, SMT
<1>2. (n \div 2) % 8 = a
  <2>1. n \div 2 = a + 8 * (k + 4 * c)
    BY SMT DEF Word11
  <2> QED
    BY <2>1, SMT
<1>3. (n \div 16) % 4 = k
  <2>1. n \div 16 = k + 4 * c
    BY SMT DEF Word11
  <2> QED
    BY <2>1, SMT
<1>4. (n \div 64) % 8 = c
  <2>1. n \div 64 = c
    BY SMT DEF Word11
  <2> QED
    BY <2>1, SMT
<1> QED
  BY <1>1, <1>2, <1>3, <1>4, SMT DEF Unpacks11

(* MR59: the decoder places the pulses of the encoder, two or one, and the   *)
(* index takes nine bits (build_code and decode_2i40_11bits).                *)
THEOREM RoundTrip11 ==
    ASSUME NEW p \in Pulses, NEW q \in Pulses, Chosen11(p, q), Agree(p, q)
    PROVE  /\ Index11(p, q) \in 0 .. 511
           /\ decode_2i40_11bits(Sign11(p, q), Index11(p, q)) = {p, q}
<1> DEFINE n  == Index11(p, q)
           j  == (n \div 16) % 4
           at == ((n \div 2) % 8) * 5 + 2 * (n % 2) + 1
           bt == ((n \div 64) % 8) * 5 + (IF j = 3 THEN 4 ELSE j)
<1>1. /\ Cell(p.at) \in 0 .. 7 /\ p.at = 5 * Cell(p.at) + Track(p.at)
      /\ Cell(q.at) \in 0 .. 7 /\ q.at = 5 * Cell(q.at) + Track(q.at)
      /\ p = Pulse(p.at, p.neg) /\ q = Pulse(q.at, q.neg)
  BY CellOf DEF Pulses, Pulse
<1>2. n \in 0 .. 511 /\ at = p.at /\ bt = q.at
  <2>1. PICK i \in 0 .. 1 : Track(p.at) = 2 * i + 1
    BY SMT DEF Chosen11
  <2>2. PICK k \in 0 .. 3 : Track(q.at) = IF k = 3 THEN 4 ELSE k
    BY SMT DEF Chosen11
  <2>3. n = Word11(i, Cell(p.at), k, Cell(q.at))
    BY <1>1, <2>1, <2>2, SMT DEF Index11, Word11
  <2>4. n \in 0 .. 511
    BY <1>1, <2>3, SMT DEF Word11
  <2> HIDE DEF n
  <2>5. Unpacks11(n, i, Cell(p.at), k, Cell(q.at))
    <3>1. Cell(p.at) \in 0 .. 7 /\ Cell(q.at) \in 0 .. 7
      BY <1>1
    <3>2. Unpacks11(Word11(i, Cell(p.at), k, Cell(q.at)), i, Cell(p.at), k, Cell(q.at))
      BY <3>1, Fields11, Zenon
    <3> QED
      BY <2>3, <3>2, Zenon
  <2>6. n % 2 = i /\ (n \div 2) % 8 = Cell(p.at) /\ j = k /\ (n \div 64) % 8 = Cell(q.at)
    BY <2>5, Zenon DEF Unpacks11
  <2>7. Cell(p.at) * 5 + 2 * i + 1 = p.at
    BY <1>1, <2>1, SMT
  <2>8. Cell(q.at) * 5 + (IF k = 3 THEN 4 ELSE k) = q.at
    BY <1>1, <2>2, SMT
  <2> QED
    BY <2>4, <2>6, <2>7, <2>8, Zenon
<1>3. IsNeg(Sign11(p, q), 1) = p.neg /\ IsNeg(Sign11(p, q), 2) = q.neg
  BY TwoSigns, Zenon DEF Sign11
<1>4. decode_2i40_11bits(Sign11(p, q), n)
        = Placed(Pulse(p.at, p.neg), Pulse(q.at, q.neg))
  BY <1>2, <1>3, Zenon DEF decode_2i40_11bits
<1>5. p.at = q.at => p = q
  BY <1>1 DEF Agree
<1> QED
  BY <1>1, <1>2, <1>4, <1>5, Zenon DEF Placed, Pulse

(* The indices of eleven and of thirteen bits.                               *)
Bits11 == 0 .. 2047
Bits13 == 0 .. 8 * 1024 - 1

(* The five fields of the index of MR67 do not touch.                        *)
Word14(a, b, i, c, j) == a + 16 * b + 8 * i + 256 * c + 128 * j

Unpacks14(n, a, b, i, c, j) ==
    /\ n \in Bits11
    /\ n % 8 = a /\ (n \div 8) % 2 = i /\ (n \div 16) % 8 = b
    /\ (n \div 128) % 2 = j /\ (n \div 256) % 8 = c

LEMMA Fields14 ==
    \A a, b, c \in 0 .. 7 : \A i, j \in 0 .. 1 :
        Unpacks14(Word14(a, b, i, c, j), a, b, i, c, j)
<1> TAKE a, b, c \in 0 .. 7
<1> TAKE i, j \in 0 .. 1
<1> DEFINE n == Word14(a, b, i, c, j)
<1>1. n \in Bits11
  BY SMT DEF Word14, Bits11
<1>2. n % 8 = a
  <2>1. n = a + 8 * (i + 2 * b + 16 * j + 32 * c)
    BY SMT DEF Word14
  <2> QED
    BY <2>1, SMT
<1>3. (n \div 8) % 2 = i
  <2>1. n \div 8 = i + 2 * (b + 8 * j + 16 * c)
    BY SMT DEF Word14
  <2> QED
    BY <2>1, SMT
<1>4. (n \div 16) % 8 = b
  <2>1. n \div 16 = b + 8 * (j + 2 * c)
    BY SMT DEF Word14
  <2> QED
    BY <2>1, SMT
<1>5. (n \div 128) % 2 = j
  <2>1. n \div 128 = j + 2 * c
    BY SMT DEF Word14
  <2> QED
    BY <2>1, SMT
<1>6. (n \div 256) % 8 = c
  <2>1. n \div 256 = c
    BY SMT DEF Word14
  <2> QED
    BY <2>1, SMT
<1> QED
  BY <1>1, <1>2, <1>3, <1>4, <1>5, <1>6, SMT DEF Unpacks14

(* MR67: the decoder places the three pulses of the encoder; the index takes *)
(* eleven bits (build_code and decode_3i40_14bits).                          *)
THEOREM RoundTrip14 ==
    ASSUME NEW p \in Pulses, NEW q \in Pulses, NEW r \in Pulses, Chosen14(p, q, r)
    PROVE  /\ Index14(p, q, r) \in Bits11
           /\ decode_3i40_14bits(Sign14(p, q, r), Index14(p, q, r)) = {p, q, r}
<1> DEFINE n == Index14(p, q, r)
<1>1. /\ Cell(p.at) \in 0 .. 7 /\ p.at = 5 * Cell(p.at) + Track(p.at)
      /\ Cell(q.at) \in 0 .. 7 /\ q.at = 5 * Cell(q.at) + Track(q.at)
      /\ Cell(r.at) \in 0 .. 7 /\ r.at = 5 * Cell(r.at) + Track(r.at)
      /\ p = Pulse(p.at, p.neg) /\ q = Pulse(q.at, q.neg) /\ r = Pulse(r.at, r.neg)
  BY CellOf DEF Pulses, Pulse
<1>2. PICK i \in 0 .. 1, j \in 0 .. 1 : /\ Track(q.at) = 2 * i + 1
                                         /\ Track(r.at) = 2 * j + 2
                                         /\ n = Word14(Cell(p.at), Cell(q.at), i, Cell(r.at), j)
  <2>1. PICK i \in 0 .. 1 : Track(q.at) = 2 * i + 1
    BY SMT DEF Chosen14
  <2>2. PICK j \in 0 .. 1 : Track(r.at) = 2 * j + 2
    BY SMT DEF Chosen14
  <2>3. n = Word14(Cell(p.at), Cell(q.at), i, Cell(r.at), j)
    BY <1>1, <2>1, <2>2, SMT DEF Index14, Word14
  <2> QED
    BY <2>1, <2>2, <2>3
<1> HIDE DEF n
<1>6. /\ n \in Bits11
      /\ n % 8 = Cell(p.at) /\ (n \div 8) % 2 = i /\ (n \div 16) % 8 = Cell(q.at)
      /\ (n \div 128) % 2 = j /\ (n \div 256) % 8 = Cell(r.at)
  <2>1. Cell(p.at) \in 0 .. 7 /\ Cell(q.at) \in 0 .. 7 /\ Cell(r.at) \in 0 .. 7
    BY <1>1
  <2> QED
    <3>1. Unpacks14(Word14(Cell(p.at), Cell(q.at), i, Cell(r.at), j),
                    Cell(p.at), Cell(q.at), i, Cell(r.at), j)
      BY <2>1, Fields14, Zenon
    <3>2. Unpacks14(n, Cell(p.at), Cell(q.at), i, Cell(r.at), j)
      BY <1>2, <3>1, Zenon
    <3> QED
      BY <3>2, Zenon DEF Unpacks14
<1>7. /\ (n % 8) * 5 = p.at
      /\ ((n \div 16) % 8) * 5 + 2 * ((n \div 8) % 2) + 1 = q.at
      /\ ((n \div 256) % 8) * 5 + 2 * ((n \div 128) % 2) + 2 = r.at
  <2>1. Track(p.at) = 0
    BY DEF Chosen14
  <2>2. /\ Cell(p.at) * 5 = p.at
        /\ Cell(q.at) * 5 + 2 * i + 1 = q.at
        /\ Cell(r.at) * 5 + 2 * j + 2 = r.at
    BY <1>1, <1>2, <2>1, SMT
  <2> QED
    BY <1>6, <2>2, Zenon
<1>3. /\ IsNeg(Sign14(p, q, r), 1) = p.neg
      /\ IsNeg(Sign14(p, q, r), 2) = q.neg
      /\ IsNeg(Sign14(p, q, r), 4) = r.neg
  <2>1. p.neg \in BOOLEAN /\ q.neg \in BOOLEAN /\ r.neg \in BOOLEAN
    BY DEF Pulses
  <2> QED
    BY <2>1, SMT DEF SignBit, IsNeg, Sign14
<1>4. decode_3i40_14bits(Sign14(p, q, r), n)
        = {Pulse(p.at, p.neg), Pulse(q.at, q.neg), Pulse(r.at, r.neg)}
  BY <1>7, <1>3, SMT DEF decode_3i40_14bits
<1>5. {Pulse(p.at, p.neg), Pulse(q.at, q.neg), Pulse(r.at, r.neg)} = {p, q, r}
  BY <1>1, Zenon
<1> QED
  BY <1>4, <1>5, <1>6, Zenon DEF n

(* The five fields of the index of MR74 and MR795 do not touch.              *)
Word17(a, b, c, d, e) == a + 8 * b + 64 * c + 1024 * d + 512 * e

Unpacks17(n, a, b, c, d, e) ==
    /\ n \in Bits13
    /\ n % 8 = a /\ (n \div 8) % 8 = b /\ (n \div 64) % 8 = c
    /\ (n \div 1024) % 8 = d /\ (n \div 512) % 2 = e

LEMMA Fields17 ==
    \A a, b, c, d \in 0 .. 7 : \A e \in 0 .. 1 :
        Unpacks17(Word17(a, b, c, d, e), a, b, c, d, e)
<1> TAKE a, b, c, d \in 0 .. 7
<1> TAKE e \in 0 .. 1
<1> DEFINE n == Word17(a, b, c, d, e)
<1>1. n \in Bits13
  <2>1. n \in Int /\ 0 <= n
    BY SMT DEF Word17
  <2>2. n < 8 * 1024
    BY SMT DEF Word17
  <2> HIDE DEF n
  <2> QED
    BY <2>1, <2>2, SMT DEF Bits13
<1>6. n % 8 = a
  <2>1. n = a + 8 * (b + 8 * c + 128 * d + 64 * e)
    BY SMT DEF Word17
  <2> QED
    BY <2>1, SMT
<1>2. (n \div 8) % 8 = b
  <2>1. n \div 8 = b + 8 * (c + 16 * d + 8 * e)
    BY SMT DEF Word17
  <2> QED
    BY <2>1, SMT
<1>3. (n \div 64) % 8 = c
  <2>1. n \div 64 = c + 8 * (2 * d + e)
    BY SMT DEF Word17
  <2> QED
    BY <2>1, SMT
<1>4. (n \div 1024) % 8 = d
  <2>1. n \div 1024 = d
    BY SMT DEF Word17
  <2> QED
    BY <2>1, SMT
<1>5. (n \div 512) % 2 = e
  <2>1. n \div 512 = 2 * d + e
    BY SMT DEF Word17
  <2> QED
    BY <2>1, SMT
<1> QED
  BY <1>1, <1>2, <1>3, <1>4, <1>5, <1>6, SMT DEF Unpacks17

(* MR74, MR795: the decoder places the four pulses of the encoder, through   *)
(* the Gray tables; the index takes thirteen bits (build_code and            *)
(* decode_4i40_17bits).                                                      *)
THEOREM RoundTrip17 ==
    ASSUME NEW p \in Pulses, NEW q \in Pulses, NEW r \in Pulses, NEW u \in Pulses,
           Chosen17(p, q, r, u)
    PROVE  /\ Index17(p, q, r, u) \in Bits13
           /\ decode_4i40_17bits(Sign17(p, q, r, u), Index17(p, q, r, u)) = {p, q, r, u}
<1> DEFINE n == Index17(p, q, r, u)
           b == IF Track(u.at) = 4 THEN 1 ELSE 0
<1>1. /\ Cell(p.at) \in 0 .. 7 /\ p.at = 5 * Cell(p.at) + Track(p.at)
      /\ Cell(q.at) \in 0 .. 7 /\ q.at = 5 * Cell(q.at) + Track(q.at)
      /\ Cell(r.at) \in 0 .. 7 /\ r.at = 5 * Cell(r.at) + Track(r.at)
      /\ Cell(u.at) \in 0 .. 7 /\ u.at = 5 * Cell(u.at) + Track(u.at)
      /\ p = Pulse(p.at, p.neg) /\ q = Pulse(q.at, q.neg)
      /\ r = Pulse(r.at, r.neg) /\ u = Pulse(u.at, u.neg)
  BY CellOf DEF Pulses, Pulse
<1>2. /\ gray(Cell(p.at)) \in 0 .. 7 /\ dgray(gray(Cell(p.at))) = Cell(p.at)
      /\ gray(Cell(q.at)) \in 0 .. 7 /\ dgray(gray(Cell(q.at))) = Cell(q.at)
      /\ gray(Cell(r.at)) \in 0 .. 7 /\ dgray(gray(Cell(r.at))) = Cell(r.at)
      /\ gray(Cell(u.at)) \in 0 .. 7 /\ dgray(gray(Cell(u.at))) = Cell(u.at)
  BY <1>1, GrayInverse
<1>3. /\ n \in Bits13
      /\ n % 8 = gray(Cell(p.at))
      /\ (n \div 8) % 8 = gray(Cell(q.at))
      /\ (n \div 64) % 8 = gray(Cell(r.at))
      /\ (n \div 1024) % 8 = gray(Cell(u.at))
      /\ (n \div 512) % 2 = b
  <2> DEFINE m == Word17(gray(Cell(p.at)), gray(Cell(q.at)), gray(Cell(r.at)),
                         gray(Cell(u.at)), b)
  <2>1. n = m
    BY <1>2, SMT DEF Index17, Word17
  <2>2. b \in 0 .. 1
    OBVIOUS
  <2> HIDE DEF n, b
  <2>3. Unpacks17(m, gray(Cell(p.at)), gray(Cell(q.at)), gray(Cell(r.at)),
                  gray(Cell(u.at)), b)
    BY <1>2, <2>2, Fields17, Zenon
  <2> HIDE DEF m
  <2> QED
    BY <2>1, <2>3, SMT DEF Unpacks17
<1>4. /\ Cell(p.at) * 5 = p.at /\ Cell(q.at) * 5 + 1 = q.at
      /\ Cell(r.at) * 5 + 2 = r.at /\ Cell(u.at) * 5 + 3 + b = u.at
  BY <1>1, SMT DEF Chosen17
<1>5. /\ IsNeg(Sign17(p, q, r, u), 1) = p.neg
      /\ IsNeg(Sign17(p, q, r, u), 2) = q.neg
      /\ IsNeg(Sign17(p, q, r, u), 4) = r.neg
      /\ IsNeg(Sign17(p, q, r, u), 8) = u.neg
  <2>1. p.neg \in BOOLEAN /\ q.neg \in BOOLEAN /\ r.neg \in BOOLEAN /\ u.neg \in BOOLEAN
    BY DEF Pulses
  <2> QED
    BY <2>1, SMT DEF SignBit, IsNeg, Sign17
<1>8. n \in Bits13
  BY <1>3, Zenon
<1> HIDE DEF n, b
<1>6. decode_4i40_17bits(Sign17(p, q, r, u), n)
        = {Pulse(p.at, p.neg), Pulse(q.at, q.neg), Pulse(r.at, r.neg), Pulse(u.at, u.neg)}
  <2>1. /\ dgray(n % 8) * 5 = p.at
        /\ dgray((n \div 8) % 8) * 5 + 1 = q.at
        /\ dgray((n \div 64) % 8) * 5 + 2 = r.at
        /\ dgray((n \div 1024) % 8) * 5 + 3 + ((n \div 512) % 2) = u.at
    BY <1>2, <1>3, <1>4, SMT
  <2> QED
    BY <2>1, <1>5, SMT DEF decode_4i40_17bits
<1>7. {Pulse(p.at, p.neg), Pulse(q.at, q.neg), Pulse(r.at, r.neg), Pulse(u.at, u.neg)}
        = {p, q, r, u}
  BY <1>1, Zenon
<1> QED
  BY <1>6, <1>7, <1>8, Zenon DEF n

-----------------------------------------------------------------------------
(* Two pulses on a track                                                     *)

(* The decoder finds both signs from the sign of the first pulse and the     *)
(* order of the two.                                                         *)
LEMMA OrderTellsSign ==
    ASSUME NEW p \in Pulses, NEW q \in Pulses, Agree(p, q)
    PROVE  Together(First(p, q).at, Second(p, q).at, First(p, q).neg) = {p, q}
<1>1. /\ p.at \in Int /\ p.neg \in BOOLEAN /\ p = Pulse(p.at, p.neg)
      /\ q.at \in Int /\ q.neg \in BOOLEAN /\ q = Pulse(q.at, q.neg)
  BY DEF Pulses, Pulse, Positions
<1> DEFINE a == First(p, q)
           b == Second(p, q)
<1>2. {a, b} = {p, q}
  BY DEF First, Second
<1>3. b.at < a.at <=> p.neg # q.neg
  BY <1>1, SMT DEF First, Second, GoesFirst, Agree
<1>4. b.neg = (IF b.at < a.at THEN ~a.neg ELSE a.neg)
  <2>1. a.neg \in BOOLEAN /\ b.neg \in BOOLEAN /\ (a.neg # b.neg <=> p.neg # q.neg)
    BY <1>1, <1>2, Zenon DEF First, Second
  <2> QED
    BY <1>3, <2>1
<1>5. a = Pulse(a.at, a.neg) /\ b = Pulse(b.at, b.neg)
  BY <1>1, Zenon DEF First, Second
<1> HIDE DEF a, b
<1>6. Together(a.at, b.at, a.neg) = {Pulse(a.at, a.neg), Pulse(b.at, b.neg)}
  BY <1>4, Zenon DEF Together
<1> QED
  BY <1>2, <1>5, <1>6, Zenon DEF a, b

(* MR122: the decoder places the two pulses of each track; the first index   *)
(* takes four bits, the second three (build_code, q_p, dec_10i40_35bits).    *)
THEOREM RoundTrip35 ==
    ASSUME NEW p \in Pulses, NEW q \in Pulses, Track(p.at) = Track(q.at), Agree(p, q)
    PROVE  /\ Index35(p, q)[1] \in 0 .. 15 /\ Index35(p, q)[2] \in 0 .. 7
           /\ dec_10i40_35bits(Track(p.at), Index35(p, q)[1], Index35(p, q)[2]) = {p, q}
<1> DEFINE a == First(p, q)
           b == Second(p, q)
           x == Index35(p, q)[1]
           y == Index35(p, q)[2]
<1>1. /\ a \in Pulses /\ b \in Pulses
      /\ Track(a.at) = Track(p.at) /\ Track(b.at) = Track(p.at)
  BY Zenon DEF First, Second
<1>2. /\ Cell(a.at) \in 0 .. 7 /\ a.at = 5 * Cell(a.at) + Track(p.at)
      /\ Cell(b.at) \in 0 .. 7 /\ b.at = 5 * Cell(b.at) + Track(p.at)
      /\ a.neg \in BOOLEAN /\ Track(p.at) \in 0 .. 4
  BY <1>1, CellOf DEF Pulses
<1>3. /\ gray(Cell(a.at)) \in 0 .. 7 /\ dgray(gray(Cell(a.at))) = Cell(a.at)
      /\ gray(Cell(b.at)) \in 0 .. 7 /\ dgray(gray(Cell(b.at))) = Cell(b.at)
  BY <1>2, GrayInverse
<1>4. /\ x = gray(Cell(a.at)) + (IF a.neg THEN 8 ELSE 0)
      /\ y = gray(Cell(b.at))
  BY DEF Index35
<1> HIDE DEF a, b, x, y
<1>5. /\ x \in 0 .. 15 /\ y \in 0 .. 7
      /\ x % 8 = gray(Cell(a.at)) /\ y % 8 = gray(Cell(b.at))
      /\ ((x \div 8) % 2 = 1) = a.neg
  BY <1>2, <1>3, <1>4, SMT
<1>6. /\ dgray(x % 8) * 5 + Track(p.at) = a.at
      /\ dgray(y % 8) * 5 + Track(p.at) = b.at
  <2>1. dgray(x % 8) = Cell(a.at) /\ dgray(y % 8) = Cell(b.at)
    BY <1>3, <1>5, Zenon
  <2> HIDE DEF dgray
  <2> QED
    BY <1>2, <2>1, SMT
<1>7. dec_10i40_35bits(Track(p.at), x, y) = Together(a.at, b.at, a.neg)
  BY <1>5, <1>6, Zenon DEF dec_10i40_35bits
<1>8. Together(a.at, b.at, a.neg) = {p, q}
  BY OrderTellsSign, Zenon DEF a, b
<1> QED
  BY <1>5, <1>7, <1>8, Zenon DEF x, y

(* A half and a parity make a position of ten.                               *)
LEMMA Halves ==
    \A a \in 0 .. 9 : a \div 2 \in 0 .. 4 /\ a % 2 \in 0 .. 1 /\ a = 2 * (a \div 2) + (a % 2)
  BY SMT

(* Three numbers below five are the digits of a number below 125.            *)
LEMMA Digits ==
    \A a, b, c \in 0 .. 4 :
        LET m == a + 5 * b + 25 * c
        IN  /\ m \in 0 .. 124
            /\ (m * 1311) \div 32768 = c
            /\ ((m - 25 * c) * 6554) \div 32768 = b
  BY SMT

(* compress10 takes ten bits and decompress10 undoes it.                     *)
Undone10(a, b, c) ==
    /\ compress10(a, b, c) \in 0 .. 1023
    /\ decompress10(compress10(a, b, c)) = <<a, b, c>>

LEMMA Compress10 == \A a, b, c \in 0 .. 9 : Undone10(a, b, c)
<1> TAKE a, b, c \in 0 .. 9
<1> DEFINE m == (a \div 2) + 5 * (b \div 2) + 25 * (c \div 2)
           l == (a % 2) + 2 * (b % 2) + 4 * (c % 2)
           n == compress10(a, b, c)
<1>1. /\ a \div 2 \in 0 .. 4 /\ a % 2 \in 0 .. 1 /\ a = 2 * (a \div 2) + (a % 2)
      /\ b \div 2 \in 0 .. 4 /\ b % 2 \in 0 .. 1 /\ b = 2 * (b \div 2) + (b % 2)
      /\ c \div 2 \in 0 .. 4 /\ c % 2 \in 0 .. 1 /\ c = 2 * (c \div 2) + (c % 2)
  BY Halves
<1>2. /\ m \in 0 .. 124
      /\ (m * 1311) \div 32768 = c \div 2
      /\ ((m - 25 * (c \div 2)) * 6554) \div 32768 = b \div 2
  BY <1>1, Digits
<1>3. /\ l \in 0 .. 7 /\ l % 2 = a % 2
      /\ (l \div 2) % 2 = b % 2 /\ l \div 4 = c % 2
  BY <1>1, SMT
<1>4. n = 8 * m + l
  BY <1>1, SMT DEF compress10
<1>5. m - 25 * (c \div 2) - 5 * (b \div 2) = a \div 2
  BY <1>1, SMT
<1> HIDE DEF m, l, n
<1>6. n \in 0 .. 1023 /\ n \div 8 = m /\ n % 8 = l
  BY <1>2, <1>3, <1>4, SMT
<1>7. ~(n \div 8 > 124)
  BY <1>2, <1>6, SMT
<1>8. decompress10(n) = <<2 * (m - 25 * (c \div 2) - 5 * (b \div 2)) + (l % 2),
                          2 * (b \div 2) + ((l \div 2) % 2), (l \div 4) + 2 * (c \div 2)>>
  BY <1>2, <1>6, <1>7, SMT DEF decompress10
<1>9. decompress10(n) = <<a, b, c>>
  BY <1>1, <1>3, <1>5, <1>8, SMT
<1> QED
  BY <1>6, <1>9, SMT DEF n, Undone10

(* A number below 25 survives in five bits, spread evenly.                   *)
LEMMA Spread ==
    \A w \in 0 .. 24 :
        LET v == ((32 * w + 12) * 1311) \div 32768
        IN  v \in 0 .. 31 /\ (25 * v + 12) \div 32 = w
  BY SMT

LEMMA DigitPair ==
    \A half, low \in 0 .. 4 : /\ 5 * half + low \in 0 .. 24
                              /\ ((5 * half + low) * 6554) \div 32768 = half
  BY SMT

(* CompressLast takes seven bits and DecompressLast undoes it.               *)
LEMMA CompressedLast ==
    \A a, b \in 0 .. 9 : /\ CompressLast(a, b) \in 0 .. 127
                         /\ DecompressLast(CompressLast(a, b)) = <<a, b>>
<1> TAKE a, b \in 0 .. 9
<1> DEFINE half == b \div 2
           low  == IF half % 2 = 1 THEN 4 - (a \div 2) ELSE a \div 2
           w    == 5 * half + low
           v    == ((32 * w + 12) * 1311) \div 32768
           l    == (a % 2) + 2 * (b % 2)
           n    == CompressLast(a, b)
<1>1. /\ a \div 2 \in 0 .. 4 /\ a % 2 \in 0 .. 1 /\ a = 2 * (a \div 2) + (a % 2)
      /\ half \in 0 .. 4 /\ b % 2 \in 0 .. 1 /\ b = 2 * half + (b % 2)
  BY Halves
<1>2. low \in 0 .. 4 /\ (IF half % 2 = 1 THEN 4 - low ELSE low) = a \div 2
  BY <1>1, SMT
<1>3. w \in 0 .. 24 /\ (w * 6554) \div 32768 = half /\ w - 5 * half = low
  <2> HIDE DEF half, low
  <2>1. w \in 0 .. 24 /\ (w * 6554) \div 32768 = half
    BY <1>1, <1>2, DigitPair
  <2> QED
    BY <1>1, <1>2, <2>1, SMT
<1>4. v \in 0 .. 31 /\ (25 * v + 12) \div 32 = w
  <2> HIDE DEF w
  <2> QED
    BY <1>3, Spread
<1>5. l \in 0 .. 3 /\ l % 2 = a % 2 /\ l \div 2 = b % 2
  BY <1>1, SMT
<1>6. n = 4 * v + l
  <2>1. n = 4 * v + (a % 2) + 2 * (b % 2)
    BY DEF CompressLast
  <2> HIDE DEF v
  <2> QED
    BY <1>1, <1>4, <2>1, SMT
<1> HIDE DEF v, l, n
<1>7. n \in 0 .. 127 /\ n \div 4 = v /\ n % 4 = l /\ n % 2 = l % 2
  BY <1>4, <1>5, <1>6, SMT
<1> HIDE DEF w, low, half
<1>8. DecompressLast(n)
        = <<2 * (IF half % 2 = 1 THEN 4 - low ELSE low) + (n % 2), 2 * half + (l \div 2)>>
  <2>1. (25 * (n \div 4) + 12) \div 32 = w /\ n % 4 = l
    BY <1>4, <1>7, SMT
  <2>2. (w * 6554) \div 32768 = half /\ w - 5 * half = low
    BY <1>3, SMT
  <2> QED
    BY <2>1, <2>2, SMT DEF DecompressLast
<1>9. DecompressLast(n) = <<a, b>>
  BY <1>1, <1>2, <1>5, <1>7, <1>8, SMT
<1> QED
  BY <1>7, <1>9, Zenon DEF n

(* The pulses of the four tracks of MR102, two on each.                      *)
OnTracks31(p, q) ==
    /\ p \in [0 .. 3 -> Pulses] /\ q \in [0 .. 3 -> Pulses]
    /\ \A t \in 0 .. 3 : p[t].at % 4 = t /\ q[t].at % 4 = t /\ Agree(p[t], q[t])

(* MR102: the decoder places the two pulses of every track; the three        *)
(* indices take ten, ten and seven bits (build_code, compress_code,          *)
(* decompress_code, dec_8i40_31bits).                                        *)
THEOREM RoundTrip31 ==
    ASSUME NEW p, NEW q, OnTracks31(p, q), NEW n, n = compress_code(p, q)
    PROVE  /\ n[1] \in 0 .. 1023 /\ n[2] \in 0 .. 1023 /\ n[3] \in 0 .. 127
           /\ \A t \in 0 .. 3 :
                 dec_8i40_31bits(SentSign(p, q, t), n, t) = {p[t], q[t]}
<1> DEFINE a(t) == First(p[t], q[t])
           b(t) == Second(p[t], q[t])
           one(t) == a(t).at \div 4
           two(t) == b(t).at \div 4
<1>1. ASSUME NEW t \in 0 .. 3
      PROVE  /\ one(t) \in 0 .. 9 /\ 4 * one(t) + t = a(t).at
             /\ two(t) \in 0 .. 9 /\ 4 * two(t) + t = b(t).at
             /\ Together(4 * one(t) + t, 4 * two(t) + t, a(t).neg) = {p[t], q[t]}
  <2>1. /\ p[t] \in Pulses /\ q[t] \in Pulses
        /\ p[t].at % 4 = t /\ q[t].at % 4 = t /\ Agree(p[t], q[t])
    BY <1>1 DEF OnTracks31
  <2>2. a(t) \in Pulses /\ b(t) \in Pulses /\ a(t).at % 4 = t /\ b(t).at % 4 = t
    BY <2>1, Zenon DEF First, Second
  <2>3. a(t).at \in 0 .. 39 /\ b(t).at \in 0 .. 39
    BY <2>2 DEF Pulses, Positions, L_CODE
  <2>4. /\ one(t) \in 0 .. 9 /\ 4 * one(t) + t = a(t).at
        /\ two(t) \in 0 .. 9 /\ 4 * two(t) + t = b(t).at
    <3>1. \A x \in 0 .. 39 : x % 4 = t => x \div 4 \in 0 .. 9 /\ 4 * (x \div 4) + t = x
      BY <1>1, SMT
    <3> QED
      BY <2>2, <2>3, <3>1, Zenon
  <2>5. Together(a(t).at, b(t).at, a(t).neg) = {p[t], q[t]}
    BY <2>1, OrderTellsSign, Zenon
  <2> QED
    BY <2>4, <2>5, Zenon
<1>2. \A t \in 0 .. 3 : one(t) \in 0 .. 9 /\ two(t) \in 0 .. 9
  BY <1>1
<1>3. n = <<compress10(one(0), two(0), one(1)), compress10(one(2), two(2), two(1)),
            CompressLast(one(3), two(3))>>
  BY Zenon DEF compress_code
<1> HIDE DEF one, two
<1>4. /\ one(0) \in 0 .. 9 /\ one(1) \in 0 .. 9 /\ one(2) \in 0 .. 9 /\ one(3) \in 0 .. 9
      /\ two(0) \in 0 .. 9 /\ two(1) \in 0 .. 9 /\ two(2) \in 0 .. 9 /\ two(3) \in 0 .. 9
  BY <1>2
<1>5. /\ n[1] = compress10(one(0), two(0), one(1))
      /\ n[2] = compress10(one(2), two(2), two(1))
      /\ n[3] = CompressLast(one(3), two(3))
  BY <1>3
<1>7. Undone10(one(0), two(0), one(1)) /\ Undone10(one(2), two(2), two(1))
  BY <1>4, Compress10, Zenon
<1>8. n[1] \in 0 .. 1023 /\ decompress10(n[1]) = <<one(0), two(0), one(1)>>
  BY <1>5, <1>7, SMT DEF Undone10
<1>9. n[2] \in 0 .. 1023 /\ decompress10(n[2]) = <<one(2), two(2), two(1)>>
  BY <1>5, <1>7, SMT DEF Undone10
<1>10. n[3] \in 0 .. 127 /\ DecompressLast(n[3]) = <<one(3), two(3)>>
  <2>1. /\ CompressLast(one(3), two(3)) \in 0 .. 127
        /\ DecompressLast(CompressLast(one(3), two(3))) = <<one(3), two(3)>>
    BY <1>4, CompressedLast, Zenon
  <2> QED
    BY <1>5, <2>1, Zenon
<1>11. /\ decompress10(n[1]) = <<one(0), two(0), one(1)>>
       /\ decompress10(n[2]) = <<one(2), two(2), two(1)>>
       /\ DecompressLast(n[3]) = <<one(3), two(3)>>
  BY <1>8, <1>9, <1>10, Zenon
<1>6. ASSUME NEW t \in 0 .. 3
      PROVE  dec_8i40_31bits(SentSign(p, q, t), n, t) = {p[t], q[t]}
  <2>1. dec_8i40_31bits(SentSign(p, q, t), n, t)
          = {x \in Together(4 * one(t) + t, 4 * two(t) + t, SentSign(p, q, t)) :
                x.at < L_CODE}
    <3>1. t \in {0, 1, 2, 3}
      BY <1>6
    <3> QED
      BY <1>11, <3>1 DEF dec_8i40_31bits, Decompressed
  <2>2. SentSign(p, q, t) = a(t).neg
    BY DEF SentSign
  <2>3. Together(4 * one(t) + t, 4 * two(t) + t, a(t).neg) = {p[t], q[t]}
    BY <1>1, <1>6 DEF one, two
  <2>4. p[t].at < L_CODE /\ q[t].at < L_CODE
    BY <1>6 DEF OnTracks31, Pulses, Positions, L_CODE
  <2> QED
    BY <2>1, <2>2, <2>3, <2>4, Zenon
<1> QED
  BY <1>6, <1>8, <1>9, <1>10

-----------------------------------------------------------------------------
(* Whatever arrives                                                          *)

LEMMA DgrayRange == \A x \in Nat : dgray(x % 8) \in 0 .. 7
<1> TAKE x \in Nat
<1>1. x % 8 \in 0 .. 7
  BY SMT
<1> QED
  BY <1>1, GrayInverse

(* A seventh bit beyond 124 is cut, so any ten bits are three numbers below   *)
(* ten (decompress10).                                                       *)
Digit == 0 .. 9

ThreeDigits(d) == \E a, b, c \in Digit : d = <<a, b, c>>

LEMMA Decompress10Range == \A n \in Nat : ThreeDigits(decompress10(n))
<1> TAKE n \in Nat
<1> DEFINE m == IF n \div 8 > 124 THEN 124 ELSE n \div 8
           c == (m * 1311) \div 32768
           i == m - 25 * c
           b == (i * 6554) \div 32768
<1>1. m \in 0 .. 124
  BY SMT
<1>2. c \in 0 .. 4 /\ i \in 0 .. 24
  <2> HIDE DEF m
  <2> QED
    BY <1>1, SMT
<1>3. b \in 0 .. 4 /\ i - 5 * b \in 0 .. 4
  <2> HIDE DEF i
  <2> QED
    BY <1>2, SMT
<1>4. /\ (n % 8) % 2 \in 0 .. 1 /\ ((n % 8) \div 2) % 2 \in 0 .. 1
      /\ (n % 8) \div 4 \in 0 .. 1
  BY SMT
<1>5. decompress10(n) = <<2 * (i - 5 * b) + ((n % 8) % 2), 2 * b + (((n % 8) \div 2) % 2),
                          ((n % 8) \div 4) + 2 * c>>
  BY DEF decompress10
<1> HIDE DEF b, c, i, m
<1>6. /\ 2 * (i - 5 * b) + ((n % 8) % 2) \in Digit
      /\ 2 * b + (((n % 8) \div 2) % 2) \in Digit
      /\ ((n % 8) \div 4) + 2 * c \in Digit
  BY <1>2, <1>3, <1>4, SMT DEF Digit
<1> QED
  BY <1>5, <1>6, Zenon DEF ThreeDigits

(* Any seven bits are two numbers below ten (decompress_code).               *)
TwoDigits(d) == \E a, b \in Digit : d = <<a, b>>

LEMMA DecompressLastRange == \A n \in 0 .. 127 : TwoDigits(DecompressLast(n))
<1> TAKE n \in 0 .. 127
<1> DEFINE m    == (25 * (n \div 4) + 12) \div 32
           half == (m * 6554) \div 32768
           low  == m - 5 * half
           l    == IF half % 2 = 1 THEN 4 - low ELSE low
<1>1. m \in 0 .. 24
  BY SMT
<1>2. half \in 0 .. 4 /\ low \in 0 .. 4
  <2> HIDE DEF m
  <2> QED
    BY <1>1, SMT
<1>3. l \in 0 .. 4
  <2> HIDE DEF half, low
  <2> QED
    BY <1>2, SMT
<1>4. n % 2 \in 0 .. 1 /\ (n % 4) \div 2 \in 0 .. 1
  BY SMT
<1>5. DecompressLast(n) = <<2 * l + (n % 2), 2 * half + ((n % 4) \div 2)>>
  BY DEF DecompressLast
<1> HIDE DEF half, l
<1>6. 2 * l + (n % 2) \in Digit /\ 2 * half + ((n % 4) \div 2) \in Digit
  BY <1>2, <1>3, <1>4, SMT DEF Digit
<1> QED
  BY <1>5, <1>6, Zenon DEF TwoDigits

(* For every sign and index the decoders place all pulses inside the forty   *)
(* positions of the subframe: they write to cod without a check of their own *)
(* (decode_2i40_9bits, _11bits, decode_3i40_14bits, decode_4i40_17bits,      *)
(* dec_10i40_35bits).  dec_8i40_31bits has a check; it finds nothing to drop *)
(* in the two indices of ten bits and the one of seven that can arrive.      *)
THEOREM WritesInside ==
    ASSUME NEW sign \in Nat, NEW n \in Nat, NEW k \in Nat
    PROVE  /\ \A s \in 0 .. 3 : decode_2i40_9bits(s, sign, n) \subseteq Pulses
           /\ decode_2i40_11bits(sign, n) \subseteq Pulses
           /\ decode_3i40_14bits(sign, n) \subseteq Pulses
           /\ decode_4i40_17bits(sign, n) \subseteq Pulses
           /\ \A track \in 0 .. 4 : dec_10i40_35bits(track, n, k) \subseteq Pulses
           /\ \A u, v \in 0 .. 1023, w \in 0 .. 127, t \in 0 .. 3, neg \in BOOLEAN :
                  /\ Decompressed(neg, <<u, v, w>>, t) \subseteq Pulses
                  /\ dec_8i40_31bits(neg, <<u, v, w>>, t) = Decompressed(neg, <<u, v, w>>, t)
<1>1. \A i, neg : i \in 0 .. 39 /\ neg \in BOOLEAN => Pulse(i, neg) \in Pulses
  BY DEF Pulse, Pulses, Positions, L_CODE
<1>2. \A bit : IsNeg(sign, bit) \in BOOLEAN
  BY DEF IsNeg
<1>9. \A x, y \in Pulses : Placed(x, y) \subseteq Pulses
  BY DEF Placed
<1>10. ASSUME NEW x \in 0 .. 39, NEW y \in 0 .. 39, NEW neg \in BOOLEAN
       PROVE  Together(x, y, neg) \subseteq Pulses
  <2>1. Pulse(x, neg) \in Pulses
    BY <1>1, <1>10
  <2>2. Pulse(y, neg) \in Pulses /\ Pulse(y, ~neg) \in Pulses
    <3>1. (~neg) \in BOOLEAN
      OBVIOUS
    <3> QED
      BY <1>1, <1>10, <3>1
  <2> QED
    BY <2>1, <2>2, Zenon DEF Together
<1>3. \A s \in 0 .. 3 : decode_2i40_9bits(s, sign, n) \subseteq Pulses
  <2> TAKE s \in 0 .. 3
  <2> DEFINE j == 2 * s + 8 * ((n \div 64) % 2)
  <2>1. j \in 0 .. 14
    BY SMT
  <2>2. startPos(j) \in 0 .. 4 /\ startPos(j + 1) \in 0 .. 4
    <3>1. j \in {0, 1, 2, 3, 4, 5, 6, 7, 8, 9, 10, 11, 12, 13, 14}
      BY <2>1, SMT
    <3> HIDE DEF j
    <3> QED
      BY <3>1, SMT DEF startPos
  <2> HIDE DEF j
  <2>3. /\ (n % 8) * 5 + startPos(j) \in 0 .. 39
        /\ ((n \div 8) % 8) * 5 + startPos(j + 1) \in 0 .. 39
    BY <2>2, SMT
  <2> QED
    <3>1. /\ Pulse((n % 8) * 5 + startPos(j), IsNeg(sign, 1)) \in Pulses
          /\ Pulse(((n \div 8) % 8) * 5 + startPos(j + 1), IsNeg(sign, 2)) \in Pulses
      BY <1>1, <1>2, <2>3, Zenon
    <3> QED
      BY <1>9, <3>1, Zenon DEF decode_2i40_9bits, j
<1>4. decode_2i40_11bits(sign, n) \subseteq Pulses
  <2> DEFINE j == (n \div 16) % 4
  <2>1. /\ ((n \div 2) % 8) * 5 + 2 * (n % 2) + 1 \in 0 .. 39
        /\ ((n \div 64) % 8) * 5 + (IF j = 3 THEN 4 ELSE j) \in 0 .. 39
    BY SMT
  <2> QED
    <3>1. /\ Pulse(((n \div 2) % 8) * 5 + 2 * (n % 2) + 1, IsNeg(sign, 1)) \in Pulses
          /\ Pulse(((n \div 64) % 8) * 5 + (IF j = 3 THEN 4 ELSE j), IsNeg(sign, 2))
                 \in Pulses
      BY <1>1, <1>2, <2>1, Zenon
    <3> QED
      BY <1>9, <3>1, Zenon DEF decode_2i40_11bits, j
<1>5. decode_3i40_14bits(sign, n) \subseteq Pulses
  <2>1. /\ (n % 8) * 5 \in 0 .. 39
        /\ ((n \div 16) % 8) * 5 + 2 * ((n \div 8) % 2) + 1 \in 0 .. 39
        /\ ((n \div 256) % 8) * 5 + 2 * ((n \div 128) % 2) + 2 \in 0 .. 39
    BY SMT
  <2> QED
    BY <1>1, <1>2, <2>1, SMT DEF decode_3i40_14bits
<1>6. decode_4i40_17bits(sign, n) \subseteq Pulses
  <2>1. /\ dgray(n % 8) \in 0 .. 7 /\ dgray((n \div 8) % 8) \in 0 .. 7
        /\ dgray((n \div 64) % 8) \in 0 .. 7 /\ dgray((n \div 1024) % 8) \in 0 .. 7
    <3>1. n \div 8 \in Nat /\ n \div 64 \in Nat /\ n \div 1024 \in Nat
      BY SMT
    <3> QED
      BY <3>1, DgrayRange
  <2>2. /\ dgray(n % 8) * 5 \in 0 .. 39
        /\ dgray((n \div 8) % 8) * 5 + 1 \in 0 .. 39
        /\ dgray((n \div 64) % 8) * 5 + 2 \in 0 .. 39
        /\ dgray((n \div 1024) % 8) * 5 + 3 + ((n \div 512) % 2) \in 0 .. 39
    BY <2>1, SMT
  <2> QED
    BY <1>1, <1>2, <2>2, SMT DEF decode_4i40_17bits
<1>7. \A track \in 0 .. 4 : dec_10i40_35bits(track, n, k) \subseteq Pulses
  <2> TAKE track \in 0 .. 4
  <2>1. /\ dgray(n % 8) * 5 + track \in 0 .. 39
        /\ dgray(k % 8) * 5 + track \in 0 .. 39
    <3>1. dgray(n % 8) \in 0 .. 7 /\ dgray(k % 8) \in 0 .. 7
      BY DgrayRange
    <3> HIDE DEF dgray
    <3> QED
      BY <3>1, SMT
  <2>2. ((n \div 8) % 2 = 1) \in BOOLEAN
    OBVIOUS
  <2> QED
    BY <1>10, <2>1, <2>2, Zenon DEF dec_10i40_35bits
<1>8. ASSUME NEW u \in 0 .. 1023, NEW v \in 0 .. 1023, NEW w \in 0 .. 127,
             NEW t \in 0 .. 3, NEW neg \in BOOLEAN
      PROVE  /\ Decompressed(neg, <<u, v, w>>, t) \subseteq Pulses
             /\ dec_8i40_31bits(neg, <<u, v, w>>, t) = Decompressed(neg, <<u, v, w>>, t)
  <2>1. u \in Nat /\ v \in Nat
    BY SMT
  <2>2. PICK a1, a2, a3 \in Digit : decompress10(u) = <<a1, a2, a3>>
    <3>1. ThreeDigits(decompress10(u))
      BY ONLY <2>1, Decompress10Range, Zenon
    <3> QED
      BY ONLY <3>1, Zenon DEF ThreeDigits
  <2>3. PICK b1, b2, b3 \in Digit : decompress10(v) = <<b1, b2, b3>>
    <3>1. ThreeDigits(decompress10(v))
      BY ONLY <2>1, Decompress10Range, Zenon
    <3> QED
      BY ONLY <3>1, Zenon DEF ThreeDigits
  <2>4. PICK c1, c2 \in Digit : DecompressLast(w) = <<c1, c2>>
    <3>1. TwoDigits(DecompressLast(w))
      BY DecompressLastRange, Zenon
    <3> QED
      BY ONLY <3>1, Zenon DEF TwoDigits
  <2> DEFINE one == IF t = 0 THEN a1 ELSE IF t = 1 THEN a3 ELSE IF t = 2 THEN b1 ELSE c1
             two == IF t = 0 THEN a2 ELSE IF t = 1 THEN b3 ELSE IF t = 2 THEN b2 ELSE c2
  <2>5. Decompressed(neg, <<u, v, w>>, t) = Together(4 * one + t, 4 * two + t, neg)
    <3> HIDE DEF Together
    <3>1. CASE t = 0
      BY <2>2, <2>3, <2>4, <3>1 DEF Decompressed
    <3>2. CASE t = 1
      BY <2>2, <2>3, <2>4, <3>2 DEF Decompressed
    <3>3. CASE t = 2
      BY <2>2, <2>3, <2>4, <3>3 DEF Decompressed
    <3>4. CASE t = 3
      BY <2>2, <2>3, <2>4, <3>4 DEF Decompressed
    <3>5. t = 0 \/ t = 1 \/ t = 2 \/ t = 3
      BY SMT
    <3> QED
      BY ONLY <3>1, <3>2, <3>3, <3>4, <3>5, Zenon
  <2>6. one \in Digit /\ two \in Digit
    BY ONLY <2>2, <2>3, <2>4, Zenon
  <2> HIDE DEF one, two
  <2>7. 4 * one + t \in 0 .. 39 /\ 4 * two + t \in 0 .. 39
    BY <2>6, SMT DEF Digit
  <2>8. Decompressed(neg, <<u, v, w>>, t) \subseteq Pulses
    <3> DEFINE x == 4 * one + t
               y == 4 * two + t
    <3>1. Decompressed(neg, <<u, v, w>>, t) = Together(x, y, neg)
      BY <2>5
    <3>2. x \in 0 .. 39 /\ y \in 0 .. 39
      BY <2>7
    <3> HIDE DEF x, y
    <3>3. Together(x, y, neg) \subseteq Pulses
      BY <1>10, <3>2
    <3> QED
      BY <3>1, <3>3
  <2>9. \A x \in Pulses : x.at < L_CODE
    BY DEF Pulses, Positions, L_CODE
  <2> QED
    BY <2>8, <2>9, Zenon DEF dec_8i40_31bits
<1> QED
  BY <1>3, <1>4, <1>5, <1>6, <1>7, <1>8

-----------------------------------------------------------------------------
(* AmrFrame: what is packed into a frame is what is unpacked from it, for    *)
(* every frame type, whatever the parameters.                                *)

LEMMA PowersOfTwo ==
    ASSUME NEW k \in 0 .. 12
    PROVE  Pow2(k) \in Nat \ {0} /\ Pow2(k + 1) = 2 * Pow2(k)
<1>1. k \in {0, 1, 2, 3, 4, 5, 6, 7, 8, 9, 10, 11, 12}
  BY SMT
<1> QED
  BY <1>1, SMT DEF Pow2

LEMMA PowerRange == \A k \in 0 .. 13 : Pow2(k) \in Nat \ {0}
<1> TAKE k \in 0 .. 13
<1>1. k \in 0 .. 12 \/ k = 13
  BY SMT
<1>2. Pow2(13) = 8192
  BY SMT DEF Pow2
<1> QED
  BY <1>1, <1>2, PowersOfTwo, SMT

LEMMA Halving ==
    ASSUME NEW v \in Nat,
           NEW a \in {1, 2, 4, 8, 16, 32, 64, 128, 256, 512, 1024, 2048, 4096}
    PROVE  v \div a = 2 * (v \div (2 * a)) + ((v \div a) % 2)
<1>1. /\ v \div 1 = 2 * (v \div 2) + ((v \div 1) % 2)
      /\ v \div 2 = 2 * (v \div 4) + ((v \div 2) % 2)
      /\ v \div 4 = 2 * (v \div 8) + ((v \div 4) % 2)
      /\ v \div 8 = 2 * (v \div 16) + ((v \div 8) % 2)
      /\ v \div 16 = 2 * (v \div 32) + ((v \div 16) % 2)
  BY SMT
<1>2. /\ v \div 32 = 2 * (v \div 64) + ((v \div 32) % 2)
      /\ v \div 64 = 2 * (v \div 128) + ((v \div 64) % 2)
      /\ v \div 128 = 2 * (v \div 256) + ((v \div 128) % 2)
      /\ v \div 256 = 2 * (v \div 512) + ((v \div 256) % 2)
  BY SMT
<1>3. /\ v \div 512 = 2 * (v \div 1024) + ((v \div 512) % 2)
      /\ v \div 1024 = 2 * (v \div 2048) + ((v \div 1024) % 2)
      /\ v \div 2048 = 2 * (v \div 4096) + ((v \div 2048) % 2)
      /\ v \div 4096 = 2 * (v \div 8192) + ((v \div 4096) % 2)
  BY SMT
<1>4. CASE a = 1
  BY <1>1, <1>4, SMT
<1>5. CASE a = 2
  BY <1>1, <1>5, SMT
<1>6. CASE a = 4
  BY <1>1, <1>6, SMT
<1>7. CASE a = 8
  BY <1>1, <1>7, SMT
<1>8. CASE a = 16
  BY <1>1, <1>8, SMT
<1>9. CASE a = 32
  BY <1>2, <1>9, SMT
<1>10. CASE a = 64
  BY <1>2, <1>10, SMT
<1>11. CASE a = 128
  BY <1>2, <1>11, SMT
<1>12. CASE a = 256
  BY <1>2, <1>12, SMT
<1>13. CASE a = 512
  BY <1>3, <1>13, SMT
<1>14. CASE a = 1024
  BY <1>3, <1>14, SMT
<1>15. CASE a = 2048
  BY <1>3, <1>15, SMT
<1>16. CASE a = 4096
  BY <1>3, <1>16, SMT
<1> QED
  BY <1>4, <1>5, <1>6, <1>7, <1>8, <1>9, <1>10, <1>11, <1>12, <1>13, <1>14, <1>15, <1>16

\* One bit more of a number.
LEMMA OneBit ==
    ASSUME NEW v \in Nat, NEW k \in 0 .. 12
    PROVE  v \div Pow2(k) = 2 * (v \div Pow2(k + 1)) + ((v \div Pow2(k)) % 2)
<1>1. k \in {0, 1, 2, 3, 4, 5, 6, 7, 8, 9, 10, 11, 12}
  BY SMT
<1>2. Pow2(k) \in {1, 2, 4, 8, 16, 32, 64, 128, 256, 512, 1024, 2048, 4096}
  BY <1>1, SMT DEF Pow2
<1>3. Pow2(k + 1) = 2 * Pow2(k)
  BY PowersOfTwo
<1> QED
  BY <1>2, <1>3, Halving

\* The recursion of Bin2int exists for the bits of a number: its values are
\* the number's leading bits.
LEMMA ValuesDefined ==
    ASSUME NEW no \in 1 .. 13, NEW v \in Nat, v < Pow2(no)
    PROVE  LET bit == Int2bin(v, no)
           IN  Values(no, bit) =
                 [i \in 0 .. no |-> IF i = 0 THEN 0
                                    ELSE 2 * Values(no, bit)[i - 1] + bit[i - 1]]
<1> DEFINE bit == Int2bin(v, no)
           Lead == [i \in 0 .. no |-> v \div Pow2(no - i)]
           Rec(f) == [i \in 0 .. no |-> IF i = 0 THEN 0 ELSE 2 * f[i - 1] + bit[i - 1]]
<1>1. Lead[0] = 0
  <2>1. Pow2(no) \in Nat \ {0}
    BY PowerRange
  <2>2. v \div Pow2(no) = 0
    BY <2>1, SMT
  <2> QED
    BY <2>2, SMT
<1>2. ASSUME NEW i \in 1 .. no
      PROVE  Lead[i] = 2 * Lead[i - 1] + bit[i - 1]
  <2>1. no - i \in 0 .. 12 /\ no - (i - 1) = (no - i) + 1 /\ i - 1 \in 0 .. no - 1
    BY SMT
  <2>2. bit[i - 1] = (v \div Pow2(no - i)) % 2
    <3>1. no - 1 - (i - 1) = no - i
      BY SMT
    <3> QED
      BY <2>1, <3>1 DEF Int2bin
  <2>3. Lead[i] = v \div Pow2(no - i) /\ Lead[i - 1] = v \div Pow2((no - i) + 1)
    BY <2>1, SMT
  <2>4. v \div Pow2(no - i)
          = 2 * (v \div Pow2((no - i) + 1)) + ((v \div Pow2(no - i)) % 2)
    BY <2>1, OneBit, Zenon
  <2> QED
    BY <2>2, <2>3, <2>4, Zenon
<1>3. Lead = Rec(Lead)
  <2>1. \A i \in 0 .. no :
          Lead[i] = IF i = 0 THEN 0 ELSE 2 * Lead[i - 1] + bit[i - 1]
    <3> TAKE i \in 0 .. no
    <3>1. CASE i = 0
      BY <3>1, <1>1
    <3>2. CASE i # 0
      <4>1. i \in 1 .. no
        BY <3>2, SMT
      <4> QED
        BY <3>2, <4>1, <1>2
    <3> QED
      BY <3>1, <3>2
  <2>2. Lead = [i \in 0 .. no |-> Lead[i]]
    OBVIOUS
  <2> HIDE DEF Lead, bit
  <2> QED
    BY <2>1, <2>2
<1>4. \E f : f = Rec(f)
  BY <1>3
<1>5. Values(no, bit) = CHOOSE f : f = Rec(f)
  BY DEF Values
<1>6. Values(no, bit) = Rec(Values(no, bit))
  BY <1>4, <1>5
<1> QED
  BY <1>6

\* A number of up to 13 bits comes back (Int2bin, Bin2int).
THEOREM IntRoundTrip ==
    ASSUME NEW no \in 1 .. 13, NEW v \in Nat, v < Pow2(no)
    PROVE  Bin2int(no, Int2bin(v, no)) = v
<1> DEFINE bit == Int2bin(v, no)
           V == Values(no, bit)
           Is(i) == i <= no => V[i] = v \div Pow2(no - i)
<1>1. V = [i \in 0 .. no |-> IF i = 0 THEN 0 ELSE 2 * V[i - 1] + bit[i - 1]]
  BY ValuesDefined
<1>2. Is(0)
  <2>1. Pow2(no) \in Nat \ {0}
    BY PowerRange
  <2>2. V[0] = 0
    BY <1>1, SMT
  <2>3. v \div Pow2(no) = 0
    BY <2>1, SMT
  <2> HIDE DEF V
  <2> QED
    BY <2>2, <2>3, SMT
<1>3. ASSUME NEW i \in 0 .. 12, Is(i)
      PROVE  Is(i + 1)
  <2> SUFFICES ASSUME i + 1 <= no
               PROVE  V[i + 1] = v \div Pow2(no - (i + 1))
    OBVIOUS
  <2>1. /\ i + 1 \in 0 .. no /\ i + 1 # 0 /\ (i + 1) - 1 = i /\ i \in 0 .. no - 1
        /\ no - (i + 1) \in 0 .. 12 /\ no - i = (no - (i + 1)) + 1
        /\ no - 1 - i = no - (i + 1)
    BY SMT
  <2>2. V[i + 1] = 2 * V[i] + bit[i]
    BY <1>1, <2>1
  <2>3. bit[i] = (v \div Pow2(no - (i + 1))) % 2
    BY <2>1 DEF Int2bin
  <2>4. V[i] = v \div Pow2((no - (i + 1)) + 1)
    BY <1>3, <2>1, SMT
  <2>5. v \div Pow2(no - (i + 1))
          = 2 * (v \div Pow2((no - (i + 1)) + 1)) + ((v \div Pow2(no - (i + 1))) % 2)
    BY <2>1, OneBit, Zenon
  <2> HIDE DEF V
  <2> QED
    BY <2>2, <2>3, <2>4, <2>5, Zenon
<1> HIDE DEF Is
<1>4. Is(1) /\ Is(2) /\ Is(3) /\ Is(4)
  BY <1>2, <1>3, SMT
<1>5. Is(5) /\ Is(6) /\ Is(7) /\ Is(8)
  BY <1>4, <1>3, SMT
<1>6. Is(9) /\ Is(10) /\ Is(11) /\ Is(12) /\ Is(13)
  BY <1>5, <1>3, SMT
<1>7. Is(no)
  <2>1. no \in {1, 2, 3, 4, 5, 6, 7, 8, 9, 10, 11, 12, 13}
    BY SMT
  <2> QED
    BY <2>1, <1>4, <1>5, <1>6
<1>8. v \div Pow2(no - no) = v
  <2>1. Pow2(0) = 1
    BY SMT DEF Pow2
  <2> QED
    BY <2>1, SMT
<1> QED
  BY <1>7, <1>8, SMT DEF Is, Bin2int

-----------------------------------------------------------------------------
(* Parameters and their bits.                                                *)

LEMMA NumOfBits ==
    /\ \A t \in SpeechTypes : numOfBits(t) \in 95 .. 244
    /\ numOfBits(AMR_SID) = 39
    /\ numOfBits(AMR_NO_DATA) = 0
<1>1. \A t \in SpeechTypes : numOfBits(t) \in 95 .. 244
  <2> TAKE t \in SpeechTypes
  <2>1. t \in {0, 1, 2, 3, 4, 5, 6, 7}
    BY SMT DEF SpeechTypes
  <2> QED
    BY <2>1, SMT DEF numOfBits
<1> QED
  BY <1>1, SMT DEF numOfBits, AMR_SID, AMR_NO_DATA

\* The parameters of mode m end before this bit.
Limit(m) == IF m = AMR_SID THEN 35 ELSE numOfBits(m)

LEMMA LimitRange ==
    ASSUME NEW m \in SpeechTypes \cup {AMR_SID}
    PROVE  Limit(m) \in 35 .. MAX_SERIAL_SIZE /\ Limit(m) <= numOfBits(m)
<1>1. CASE m = AMR_SID
  BY <1>1, NumOfBits, SMT DEF Limit, MAX_SERIAL_SIZE
<1>2. CASE m \in SpeechTypes /\ m # AMR_SID
  <2>1. numOfBits(m) \in 95 .. 244
    BY <1>2, NumOfBits
  <2>2. Limit(m) = numOfBits(m)
    BY <1>2 DEF Limit
  <2> QED
    BY <2>1, <2>2, SMT DEF MAX_SERIAL_SIZE
<1> QED
  BY <1>1, <1>2

LEMMA Apart ==
    ASSUME NEW s \in Nat, NEW w \in 1 .. 13, NEW r \in Nat, NEW x \in 1 .. 13,
           NEW p \in s .. s + w - 1, p \in r .. r + x - 1
    PROVE  ~ (s + w <= r) /\ ~ (r + x <= s)
BY SMT

LEMMA Within ==
    ASSUME NEW s \in Nat, NEW w \in 1 .. 13, NEW limit \in 35 .. MAX_SERIAL_SIZE,
           s + w <= limit, NEW k \in 0 .. w - 1
    PROVE  /\ s + k \in 0 .. limit - 1 /\ s + k \in 0 .. MAX_SERIAL_SIZE - 1
           /\ s + k \in s .. s + w - 1 /\ (s + k) - s = k
BY SMT DEF MAX_SERIAL_SIZE

\* What is known of a parameter's place.
LEMMA Places ==
    ASSUME NEW m \in SpeechTypes \cup {AMR_SID}, NEW i \in 1 .. Len(bitno[m])
    PROVE  /\ bitno[m][i] \in 1 .. 13 /\ Len(bitno[m]) \in Nat
           /\ Start(m)[i] \in Nat
           /\ Start(m)[i] + bitno[m][i] <= Limit(m)
           /\ Limit(m) \in 35 .. MAX_SERIAL_SIZE /\ Limit(m) <= numOfBits(m)
           /\ \A j \in 1 .. Len(bitno[m]) : j > i => Start(m)[i] + bitno[m][i] <= Start(m)[j]
<1>1. bitno[m] \in Seq(1 .. 13)
  BY BitnoAssumption
<1>2. bitno[m][i] \in 1 .. 13 /\ Len(bitno[m]) \in Nat
  BY <1>1
<1>3. Start(m)[i] \in Nat /\ Start(m)[i] + bitno[m][i] <= Limit(m)
  BY BitnoAssumption DEF Limit
<1>4. Limit(m) \in 35 .. MAX_SERIAL_SIZE /\ Limit(m) <= numOfBits(m)
  BY LimitRange
<1>5. ASSUME NEW j \in 1 .. Len(bitno[m]), j > i
      PROVE  Start(m)[i] + bitno[m][i] <= Start(m)[j]
  <2>1. j \in i + 1 .. Len(bitno[m])
    BY <1>2, <1>5, SMT
  <2> QED
    BY <2>1, BitnoAssumption
<1> QED
  BY <1>2, <1>3, <1>4, <1>5

\* A bit has one owner.
LEMMA OneOwner ==
    ASSUME NEW m \in SpeechTypes \cup {AMR_SID}, NEW i \in 1 .. Len(bitno[m]),
           NEW p \in Start(m)[i] .. Start(m)[i] + bitno[m][i] - 1
    PROVE  Owner(m, p) = i
<1> DEFINE Owns(j) == p \in Start(m)[j] .. Start(m)[j] + bitno[m][j] - 1
<1>1. ASSUME NEW j \in 1 .. Len(bitno[m]), Owns(j)
      PROVE  j = i
  <2>1. /\ Start(m)[i] \in Nat /\ bitno[m][i] \in 1 .. 13
        /\ Start(m)[j] \in Nat /\ bitno[m][j] \in 1 .. 13
        /\ j > i => Start(m)[i] + bitno[m][i] <= Start(m)[j]
        /\ i > j => Start(m)[j] + bitno[m][j] <= Start(m)[i]
    BY Places
  <2>2. ~ (j > i) /\ ~ (i > j)
    BY <1>1, <2>1, Apart
  <2>3. i \in Int /\ j \in Int
    BY SMT
  <2> QED
    BY <2>2, <2>3, SMT
<1>2. Owns(i)
  OBVIOUS
<1> QED
  BY <1>1, <1>2 DEF Owner

\* Whoever gets the bits below the limit gets the parameters (Prm2bits, Bits2prm).
LEMMA ParameterRoundTrip ==
    ASSUME NEW m \in SpeechTypes \cup {AMR_SID}, NEW prm \in Parameters(m), NEW old,
           NEW got, \A p \in 0 .. Limit(m) - 1 : got[p] = Prm2bits(m, prm, old)[p]
    PROVE  Bits2prm(m, got) = prm
<1>1. ASSUME NEW i \in 1 .. Len(bitno[m])
      PROVE  Bin2int(bitno[m][i], [k \in 0 .. bitno[m][i] - 1 |-> got[Start(m)[i] + k]])
               = prm[i]
  <2> DEFINE w == bitno[m][i]
             s == Start(m)[i]
  <2>1. w \in 1 .. 13 /\ s \in Nat /\ s + w <= Limit(m) /\ Limit(m) \in 35 .. MAX_SERIAL_SIZE
    BY Places
  <2>2. prm[i] \in Nat /\ prm[i] < Pow2(w)
    BY DEF Parameters
  <2>3. ASSUME NEW k \in 0 .. w - 1
        PROVE  got[s + k] = Int2bin(prm[i], w)[k]
    <3>1. /\ s + k \in 0 .. Limit(m) - 1 /\ s + k \in 0 .. MAX_SERIAL_SIZE - 1
          /\ s + k \in s .. s + w - 1 /\ (s + k) - s = k
      BY <2>1, Within
    <3>2. Owner(m, s + k) = i
      BY <3>1, OneOwner
    <3>3. Prm2bits(m, prm, old)[s + k] = Int2bin(prm[i], w)[k]
      BY <3>1, <3>2 DEF Prm2bits
    <3> QED
      BY <3>1, <3>3
  <2>4. [k \in 0 .. w - 1 |-> got[s + k]] = Int2bin(prm[i], w)
    BY <2>3 DEF Int2bin
  <2> QED
    BY <2>1, <2>2, <2>4, IntRoundTrip
<1>2. prm = [i \in 1 .. Len(bitno[m]) |-> prm[i]]
  BY DEF Parameters
<1> QED
  BY <1>1, <1>2 DEF Bits2prm

-----------------------------------------------------------------------------
(* The order of the bits and the octets.                                     *)

\* A bit of a frame is sent once.
LEMMA NthOnce ==
    ASSUME NEW t \in SpeechTypes \cup {AMR_SID}, NEW p \in 0 .. numOfBits(t) - 1
    PROVE  /\ \E i \in 0 .. numOfBits(t) - 1 : Nth(t, i) = p
           /\ \A i, j \in 0 .. numOfBits(t) - 1 : Nth(t, i) = Nth(t, j) => i = j
<1>1. CASE t \in SpeechTypes
  <2>1. t < AMR_SID
    BY <1>1, SMT DEF SpeechTypes, AMR_SID
  <2>2. \A i : Nth(t, i) = reorderBits[t][i]
    BY <2>1 DEF Nth
  <2>3. /\ \A i, j \in 0 .. numOfBits(t) - 1 : reorderBits[t][i] = reorderBits[t][j] => i = j
        /\ \E i \in 0 .. numOfBits(t) - 1 : reorderBits[t][i] = p
    BY <1>1, ReorderAssumption
  <2> QED
    BY <2>2, <2>3
<1>2. CASE t = AMR_SID
  <2>1. ~ (t < AMR_SID)
    BY <1>2, SMT DEF AMR_SID
  <2>2. \A i : Nth(t, i) = i
    BY <2>1 DEF Nth
  <2> QED
    BY <2>2
<1> QED
  BY <1>1, <1>2

LEMMA Sizes ==
    ASSUME NEW t \in SpeechTypes \cup {AMR_SID}
    PROVE  numOfBits(t) \in 39 .. 244
<1>1. CASE t = AMR_SID
  BY <1>1, NumOfBits, SMT
<1>2. CASE t \in SpeechTypes
  <2>1. numOfBits(t) \in 95 .. 244
    BY <1>2, NumOfBits
  <2> QED
    BY <2>1, SMT
<1> QED
  BY <1>1, <1>2

LEMMA OctetOfBit ==
    ASSUME NEW n \in 39 .. 244, NEW i \in 0 .. n - 1
    PROVE  /\ i \div 8 \in 0 .. Rounds(n - 7) /\ 7 - (i % 8) \in 0 .. 7
           /\ i \div 8 < Rounds(n - 7) \/ 7 - (7 - (i % 8)) < BitsLeft(n)
           /\ 8 * (i \div 8) + 7 - (7 - (i % 8)) = i
<1>1. Rounds(n - 7) = n \div 8 /\ BitsLeft(n) = n % 8
  BY SMT DEF Rounds, BitsLeft
<1>2. /\ i = 8 * (i \div 8) + (i % 8) /\ i % 8 \in 0 .. 7 /\ i \div 8 \in Nat
      /\ n = 8 * (n \div 8) + (n % 8) /\ n % 8 \in 0 .. 7 /\ n \div 8 \in Nat
  BY SMT
<1> QED
  BY <1>1, <1>2, SMT

\* In the IETF and WMF formats every bit of the frame comes back to its place.
LEMMA WmfBits ==
    ASSUME NEW t \in SpeechTypes \cup {AMR_SID}, NEW bits,
           NEW p \in 0 .. numOfBits(t) - 1
    PROVE  wmf_to_ets(t, WmfOctets(t, bits))[p] = bits[p]
<1> DEFINE n == numOfBits(t)
           i == CHOOSE i \in 0 .. n - 1 : Nth(t, i) = p
<1>1. i \in 0 .. n - 1 /\ Nth(t, i) = p
  BY NthOnce
<1>2. wmf_to_ets(t, WmfOctets(t, bits))[p] = WmfOctets(t, bits)[i \div 8][7 - (i % 8)]
  BY DEF wmf_to_ets
<1>3. n \in 39 .. 244
  BY Sizes
<1> HIDE DEF i
<1>4. WmfOctets(t, bits)[i \div 8][7 - (i % 8)]
        = bits[Nth(t, 8 * (i \div 8) + 7 - (7 - (i % 8)))]
  <2>1. /\ i \div 8 \in 0 .. Rounds(n - 7) /\ 7 - (i % 8) \in 0 .. 7
        /\ i \div 8 < Rounds(n - 7) \/ 7 - (7 - (i % 8)) < BitsLeft(n)
    BY <1>1, <1>3, OctetOfBit
  <2> QED
    BY <2>1, Zenon DEF WmfOctets
<1>5. 8 * (i \div 8) + 7 - (7 - (i % 8)) = i
  BY <1>1, <1>3, OctetOfBit
<1> QED
  BY <1>1, <1>2, <1>4, <1>5

LEMMA If2Sizes ==
    ASSUME NEW t \in SpeechTypes \cup {AMR_SID}
    PROVE  /\ If2Whole(t) = ((numOfBits(t) + 4) \div 8) - 1
           /\ t \in SpeechTypes => If2Bits(t) = numOfBits(t)
           /\ If2Bits(t) \in numOfBits(t) .. 244
           /\ t # AMR_NO_DATA
<1>1. CASE t \in SpeechTypes
  <2>1. t \in {0, 1, 2, 3, 4, 5, 6, 7}
    BY <1>1, SMT DEF SpeechTypes
  <2>2. numOfBits(t) \in 95 .. 244 /\ t < AMR_SID /\ t # AMR_NO_DATA
    BY <1>1, <2>1, NumOfBits, SMT DEF AMR_SID, AMR_NO_DATA
  <2>3. If2Whole(t) = ((numOfBits(t) + 4) \div 8) - 1
    BY <2>2, SMT DEF If2Whole, Rounds
  <2>4. numCompressedBytes(t) # 0 /\ numOfBits(t) <= 4 + 8 * (numCompressedBytes(t) - 1)
    BY <2>1, SMT DEF numCompressedBytes, numOfBits
  <2>5. If2Bits(t) = numOfBits(t)
    <3>1. numCompressedBytes(t) \in Nat
      BY <2>1, SMT DEF numCompressedBytes
    <3> QED
      BY <2>2, <2>4, <3>1, SMT DEF If2Bits
  <2> QED
    BY <2>2, <2>3, <2>5, SMT
<1>2. CASE t = AMR_SID
  <2>1. t = 8 /\ t # AMR_NO_DATA
    BY <1>2, SMT DEF AMR_SID, AMR_NO_DATA
  <2>2. numOfBits(t) = 39 /\ numCompressedBytes(t) = 6 /\ ~ (t < AMR_SID)
    BY <2>1, SMT DEF numOfBits, numCompressedBytes, AMR_SID
  <2>3. If2Whole(t) = 4 /\ If2Bits(t) = 44 /\ t \notin SpeechTypes
    BY <2>1, <2>2, SMT DEF If2Whole, If2Bits, SpeechTypes
  <2> QED
    BY <2>1, <2>2, <2>3, SMT
<1> QED
  BY <1>1, <1>2

LEMMA If2OctetOfBit ==
    ASSUME NEW n \in 39 .. 244, NEW i \in 0 .. n - 1,
           NEW whole, whole = ((n + 4) \div 8) - 1,
           NEW last, last = IF BitsLeft(4 + n) # 0 THEN whole + 1 ELSE whole
    PROVE  /\ (i + 4) \div 8 \in 0 .. last /\ (i + 4) % 8 \in 0 .. 7
           /\ ~ ((i + 4) \div 8 = 0 /\ (i + 4) % 8 < 4)
           /\ (i + 4) \div 8 <= whole \/ (i + 4) % 8 < BitsLeft(4 + n)
           /\ 8 * ((i + 4) \div 8) + ((i + 4) % 8) - 4 = i
<1>1. BitsLeft(4 + n) = (n + 4) % 8
  BY SMT DEF BitsLeft
<1>2. /\ i + 4 = 8 * ((i + 4) \div 8) + ((i + 4) % 8)
      /\ (i + 4) % 8 \in 0 .. 7 /\ (i + 4) \div 8 \in Nat
      /\ n + 4 = 8 * ((n + 4) \div 8) + ((n + 4) % 8)
      /\ (n + 4) % 8 \in 0 .. 7 /\ (n + 4) \div 8 \in Nat
  BY SMT
<1> QED
  BY <1>1, <1>2, SMT

\* The same in the IF2 format.
LEMMA If2BitsArrive ==
    ASSUME NEW t \in SpeechTypes \cup {AMR_SID}, NEW bits,
           NEW p \in 0 .. numOfBits(t) - 1
    PROVE  if2_to_ets(t, ets_to_if2(t, bits))[p] = bits[p]
<1> DEFINE n == numOfBits(t)
           i == CHOOSE i \in 0 .. If2Bits(t) - 1 : Nth(t, i) = p
<1>1. n \in 39 .. 244 /\ If2Bits(t) \in n .. 244 /\ If2Whole(t) = ((n + 4) \div 8) - 1
  BY Sizes, If2Sizes
<1>2. p \in 0 .. If2Bits(t) - 1
  BY <1>1, SMT
<1>3. i \in 0 .. n - 1 /\ Nth(t, i) = p
  <2>1. CASE t \in SpeechTypes
    <3>1. If2Bits(t) = n
      BY <2>1, If2Sizes
    <3> QED
      BY <3>1, NthOnce
  <2>2. CASE t = AMR_SID
    <3>1. ~ (t < AMR_SID)
      BY <2>2, SMT DEF AMR_SID
    <3>2. \A j : Nth(t, j) = j
      BY <3>1 DEF Nth
    <3> QED
      BY <1>2, <3>2
  <2> QED
    BY <2>1, <2>2
<1>4. if2_to_ets(t, ets_to_if2(t, bits))[p]
        = ets_to_if2(t, bits)[(i + 4) \div 8][(i + 4) % 8]
  BY <1>2 DEF if2_to_ets
<1> HIDE DEF i
<1>5. /\ (i + 4) \div 8 \in 0 .. If2Last(t) /\ (i + 4) % 8 \in 0 .. 7
      /\ ~ ((i + 4) \div 8 = 0 /\ (i + 4) % 8 < 4)
      /\ (i + 4) \div 8 <= If2Whole(t) \/ (i + 4) % 8 < BitsLeft(4 + n)
      /\ 8 * ((i + 4) \div 8) + ((i + 4) % 8) - 4 = i
  BY <1>1, <1>3, If2OctetOfBit DEF If2Last
<1>6. ets_to_if2(t, bits)[(i + 4) \div 8][(i + 4) % 8]
        = bits[Nth(t, 8 * ((i + 4) \div 8) + ((i + 4) % 8) - 4)]
  <2>1. t # AMR_NO_DATA
    BY If2Sizes
  <2> QED
    BY <1>5, <2>1, Zenon DEF ets_to_if2
<1> QED
  BY <1>3, <1>4, <1>5, <1>6

-----------------------------------------------------------------------------
(* The results.                                                              *)

\* A SID as AMREncode completes it.
Completed(t, bits, update, mode) ==
    IF t = AMR_SID THEN SidBits(bits, update, mode) ELSE bits

\* The parameters of every frame arrive, in each format, whatever the bits held
\* before and whatever the SID's type and mode, which take no bit of theirs
\* (Prm2bits, AMREncode and ets_to_*; AMRDecode and Bits2prm).
THEOREM ParametersArrive ==
    ASSUME NEW t \in SpeechTypes \cup {AMR_SID}, NEW prm \in Parameters(t), NEW old,
           NEW update \in BOOLEAN, NEW mode \in SpeechTypes
    PROVE  LET bits == Completed(t, Prm2bits(t, prm, old), update, mode)
           IN  /\ Bits2prm(t, wmf_to_ets(t, ets_to_ietf(t, bits).octets)) = prm
               /\ Bits2prm(t, wmf_to_ets(t, ets_to_wmf(t, bits).octets)) = prm
               /\ Bits2prm(t, if2_to_ets(t, ets_to_if2(t, bits))) = prm
<1> DEFINE sent == Prm2bits(t, prm, old)
           bits == Completed(t, sent, update, mode)
<1>1. ASSUME NEW p \in 0 .. Limit(t) - 1
      PROVE  p \in 0 .. numOfBits(t) - 1 /\ bits[p] = sent[p]
  <2>1. Limit(t) \in 35 .. MAX_SERIAL_SIZE /\ Limit(t) <= numOfBits(t) /\ numOfBits(t) \in 39 .. 244
    BY LimitRange, Sizes
  <2>2. p \in 0 .. numOfBits(t) - 1 /\ p \in 0 .. MAX_SERIAL_SIZE - 1
    BY <2>1, SMT DEF MAX_SERIAL_SIZE
  <2>3. CASE t = AMR_SID
    <3>1. p \in 0 .. 34
      BY <2>3 DEF Limit
    <3>2. p # TxTypeBit /\ p \notin TxModeBit .. TxModeBit + 2
      BY <3>1, SMT DEF TxTypeBit, TxModeBit
    <3>3. p \in DOMAIN sent
      BY <2>2 DEF Prm2bits
    <3> HIDE DEF sent
    <3> QED
      BY <2>2, <2>3, <3>2, <3>3 DEF Completed, SidBits
  <2>4. CASE t # AMR_SID
    BY <2>2, <2>4 DEF Completed
  <2> QED
    BY <2>3, <2>4
<1> HIDE DEF bits
<1>2. \A p \in 0 .. Limit(t) - 1 : wmf_to_ets(t, WmfOctets(t, bits))[p] = sent[p]
  BY <1>1, WmfBits
<1>3. \A p \in 0 .. Limit(t) - 1 : if2_to_ets(t, ets_to_if2(t, bits))[p] = sent[p]
  BY <1>1, If2BitsArrive
<1>4. /\ Bits2prm(t, wmf_to_ets(t, WmfOctets(t, bits))) = prm
      /\ Bits2prm(t, if2_to_ets(t, ets_to_if2(t, bits))) = prm
  BY <1>2, <1>3, ParameterRoundTrip
<1>5. /\ ets_to_ietf(t, bits).octets = WmfOctets(t, bits)
      /\ ets_to_wmf(t, bits).octets = WmfOctets(t, bits)
  BY DEF ets_to_ietf, ets_to_wmf
<1> QED
  BY <1>4, <1>5 DEF bits

\* The three bits of a mode.
LEMMA ModeBits ==
    \A mode \in SpeechTypes :
        mode = ((mode \div Pow2(0)) % 2) + 2 * ((mode \div Pow2(1)) % 2)
                 + 4 * ((mode \div Pow2(2)) % 2)
<1>1. Pow2(0) = 1 /\ Pow2(1) = 2 /\ Pow2(2) = 4
  BY SMT DEF Pow2
<1>2. \A mode \in 0 .. 7 :
        mode = ((mode \div 1) % 2) + 2 * ((mode \div 2) % 2) + 4 * ((mode \div 4) % 2)
  BY SMT
<1> QED
  BY <1>1, <1>2 DEF SpeechTypes

\* The decoder learns the type of a SID and the mode of the pause from the bits
\* behind the noise parameters, in each format (AMREncode, AMRDecode).
THEOREM SidArrives ==
    ASSUME NEW bits, DOMAIN bits = 0 .. MAX_SERIAL_SIZE - 1,
           NEW update \in BOOLEAN, NEW mode \in SpeechTypes
    PROVE  LET sent == SidBits(bits, update, mode)
               wmf == wmf_to_ets(AMR_SID, WmfOctets(AMR_SID, sent))
               if2 == if2_to_ets(AMR_SID, ets_to_if2(AMR_SID, sent))
           IN  /\ SidMode(wmf) = mode /\ (SidUpdate(wmf) <=> update)
               /\ SidMode(if2) = mode /\ (SidUpdate(if2) <=> update)
<1> DEFINE sent == SidBits(bits, update, mode)
           wmf == wmf_to_ets(AMR_SID, WmfOctets(AMR_SID, sent))
           if2 == if2_to_ets(AMR_SID, ets_to_if2(AMR_SID, sent))
<1>1. /\ {35, 36, 37, 38} \subseteq 0 .. numOfBits(AMR_SID) - 1
      /\ {35, 36, 37, 38} \subseteq DOMAIN bits
  BY NumOfBits, SMT DEF MAX_SERIAL_SIZE
<1>2. /\ sent[35] = IF update THEN 1 ELSE 0
      /\ sent[36] = (mode \div Pow2(0)) % 2
      /\ sent[37] = (mode \div Pow2(1)) % 2
      /\ sent[38] = (mode \div Pow2(2)) % 2
  <2>1. /\ TxTypeBit = 35 /\ 36 # 35 /\ 37 # 35 /\ 38 # 35
        /\ {36, 37, 38} \subseteq TxModeBit .. TxModeBit + 2
        /\ 36 - TxModeBit = 0 /\ 37 - TxModeBit = 1 /\ 38 - TxModeBit = 2
    BY SMT DEF TxTypeBit, TxModeBit
  <2> QED
    BY <1>1, <2>1 DEF SidBits
<1> HIDE DEF sent
<1>3. \A p \in {35, 36, 37, 38} : wmf[p] = sent[p] /\ if2[p] = sent[p]
  BY <1>1, WmfBits, If2BitsArrive
<1> HIDE DEF wmf, if2
<1>4. /\ TxTypeBit = 35 /\ TxModeBit = 36 /\ TxModeBit + 1 = 37 /\ TxModeBit + 2 = 38
  BY SMT DEF TxTypeBit, TxModeBit
<1>5. SidMode(wmf) = mode /\ SidMode(if2) = mode
  <2>1. /\ SidMode(wmf) = sent[36] + 2 * sent[37] + 4 * sent[38]
        /\ SidMode(if2) = sent[36] + 2 * sent[37] + 4 * sent[38]
    BY <1>3, <1>4 DEF SidMode
  <2> QED
    BY <1>2, <2>1, ModeBits
<1>6. (SidUpdate(wmf) <=> update) /\ (SidUpdate(if2) <=> update)
  BY <1>2, <1>3, <1>4, SMT DEF SidUpdate
<1> QED
  BY <1>5, <1>6 DEF wmf, if2, sent

\* The decoder learns the type of every frame from its IETF header, which the
\* encoder also marks as good (Encoder_Interface_Encode, Decoder_Interface_Decode).
THEOREM TypeArrives ==
    ASSUME NEW t \in FrameTypes, NEW bits
    PROVE  HeaderType(Marked(ets_to_ietf(t, bits))) = t
<1> DEFINE frame == ets_to_ietf(t, bits)
<1>1. frame = [header |-> (8 * t) % 256, octets |-> WmfOctets(t, bits)]
  BY DEF ets_to_ietf
<1>2. (8 * t) % 256 = 8 * t /\ ((8 * t) \div 4) % 2 = 0
  BY SMT DEF FrameTypes
<1>3. Marked(frame).header = 8 * t + 4
  BY <1>1, <1>2 DEF Marked
<1>4. ((8 * t + 4) \div 8) % 16 = t
  BY SMT DEF FrameTypes
<1> QED
  BY <1>3, <1>4 DEF HeaderType

\* The encoder counts the octets it fills, the decoder skips as many, and takes
\* no more bits out of them than its buffer holds (the tables of
\* enc_output_format_tab.cpp and dec_input_format_tab.cpp, numCompressedBytes).
THEOREM FrameLength ==
    /\ \A t \in SpeechTypes \cup {AMR_SID} :
        /\ WmfEncBytesPerFrame(t) = 2 + Rounds(numOfBits(t) - 7)
        /\ If2EncBytesPerFrame(t) = 1 + If2Last(t)
    /\ \A t \in SentTypes :
        /\ WmfEncBytesPerFrame(t) = 1 + WmfDecBytesPerFrame(t)
        /\ If2EncBytesPerFrame(t) = If2DecBytesPerFrame(t)
        /\ If2DecBytesPerFrame(t) = numCompressedBytes(t)
    /\ \A t \in FrameTypes :
        numOfBits(t) <= MAX_SERIAL_SIZE /\ If2Bits(t) <= MAX_SERIAL_SIZE
<1>1. \A t \in SpeechTypes \cup {AMR_SID} :
        /\ WmfEncBytesPerFrame(t) = 2 + Rounds(numOfBits(t) - 7)
        /\ If2EncBytesPerFrame(t) = 1 + If2Last(t)
  <2> TAKE t \in SpeechTypes \cup {AMR_SID}
  <2>1. t \in {0, 1, 2, 3, 4, 5, 6, 7, 8}
    BY SMT DEF SpeechTypes, AMR_SID
  <2>2. numOfBits(t) \in 39 .. 244 /\ If2Whole(t) = ((numOfBits(t) + 4) \div 8) - 1
    BY Sizes, If2Sizes
  <2>3. /\ Rounds(numOfBits(t) - 7) = numOfBits(t) \div 8
        /\ BitsLeft(4 + numOfBits(t)) = (4 + numOfBits(t)) % 8
    BY <2>2, SMT DEF Rounds, BitsLeft
  <2>4. WmfEncBytesPerFrame(t) = 2 + (numOfBits(t) \div 8)
    BY <2>1, SMT DEF WmfEncBytesPerFrame, numOfBits
  <2>5. If2EncBytesPerFrame(t)
          = ((numOfBits(t) + 4) \div 8) + (IF (4 + numOfBits(t)) % 8 # 0 THEN 1 ELSE 0)
    BY <2>1, SMT DEF If2EncBytesPerFrame, numOfBits
  <2> QED
    BY <2>2, <2>3, <2>4, <2>5, SMT DEF If2Last
<1>2. ASSUME NEW t \in SentTypes
      PROVE  /\ WmfEncBytesPerFrame(t) = 1 + WmfDecBytesPerFrame(t)
             /\ If2EncBytesPerFrame(t) = If2DecBytesPerFrame(t)
             /\ If2DecBytesPerFrame(t) = numCompressedBytes(t)
  <2>1. t \in {0, 1, 2, 3, 4, 5, 6, 7, 8, 15}
    BY SMT DEF SentTypes, SpeechTypes, AMR_SID, AMR_NO_DATA
  <2> QED
    BY <2>1, SMT DEF WmfEncBytesPerFrame, WmfDecBytesPerFrame, If2EncBytesPerFrame,
                     If2DecBytesPerFrame, numCompressedBytes
<1>3. ASSUME NEW t \in FrameTypes
      PROVE  numOfBits(t) <= MAX_SERIAL_SIZE /\ If2Bits(t) <= MAX_SERIAL_SIZE
  <2>1. t \in {0, 1, 2, 3, 4, 5, 6, 7, 8, 9, 10, 11, 12, 13, 14, 15}
    BY SMT DEF FrameTypes
  <2>2. numOfBits(t) \in 0 .. 244 /\ numCompressedBytes(t) \in 0 .. 31
    BY <2>1, SMT DEF numOfBits, numCompressedBytes
  <2>3. numCompressedBytes(t) = 31 => t = 7
    BY <2>1, SMT DEF numCompressedBytes
  <2>4. CASE numCompressedBytes(t) = 31
    <3>1. t < AMR_SID /\ numOfBits(t) = 244
      BY <2>3, <2>4, SMT DEF AMR_SID, numOfBits
    <3> QED
      BY <2>4, <3>1, SMT DEF If2Bits, MAX_SERIAL_SIZE
  <2>5. CASE numCompressedBytes(t) # 31
    BY <2>2, <2>5, SMT DEF If2Bits, MAX_SERIAL_SIZE
  <2> QED
    BY <2>4, <2>5
<1> QED
  BY <1>1, <1>2, <1>3
=============================================================================
