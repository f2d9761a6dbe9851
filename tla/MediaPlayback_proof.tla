------------------------ MODULE MediaPlayback_proof ------------------------
(* For any voices, any number of clicks and any schedule of the platform:    *)
(* the types, the marks of the list, the wifi lock and the audio focus.      *)
(*                                                                           *)
(* None of the three invariants is inductive alone.  What sounds is marked   *)
(* because only the event of its own preparation starts a player:            *)
(* StatusMatches and EventMatches tie the status ManagedMediaPlayer believes *)
(* in, the state of the native player and the one event on its way to each   *)
(* other, Granted the wifi lock to the clicks, and Marked extends the mark   *)
(* to all of an item's life.                                                 *)
EXTENDS MediaPlayback, TLAPS

Record == [status: Statuses, native: Natives,
           event: {"none", "prepared", "completed", "error"},
           cur: Items \cup {none}, wifi: 0 .. MaxPlays, registered: BOOLEAN]

FocusMessage == [to: Managers \cup {none},
                 what: {"GAIN", "LOSS", "LOSS_TRANSIENT", "LOSS_TRANSIENT_CAN_DUCK"}]

\* What ManagedMediaPlayer believes, what the platform's player does, and the
\* event the UI thread has not seen yet.
StatusMatches(r) ==
    /\ r.status \in {"null", "IDLE"} => r.native = "idle"
    /\ r.status = "INITIALIZED" => r.native \in {"preparing", "prepared", "failed"}
    /\ r.status = "STARTED" => r.native \in {"started", "completed", "failed"}
    /\ r.status = "PAUSED" => r.native \in {"paused", "completed"}
    /\ r.status = "COMPLETED" => r.native \in {"completed", "stopped"}
    /\ r.status = "STOPPED" => r.native = "stopped"

EventMatches(r) ==
    /\ r.native \in {"idle", "preparing", "started", "paused"} => r.event = "none"
    /\ r.event = "prepared" => r.native \in {"prepared", "stopped"}
    /\ r.event = "completed" => r.native \in {"completed", "stopped"}
    /\ r.event = "error" => r.native = "failed"

\* Every acquisition of the wifi lock was asked for by a click of its own.
Granted(r, n) ==
    r.wifi + (IF r.native = "preparing" \/ r.event = "prepared" THEN 1 ELSE 0) <= n

Alive == {"preparing", "prepared", "started", "paused"}

Marked ==
    /\ shown \subseteq {player["net"].cur}
    /\ player["net"].native \in Alive => player["net"].cur \in shown

Sound(r) == r.native = "started" => r.wifi > 0

Quiet == {"PAUSED", "STOPPED", "null"}

GoodRecord(r, n) ==
    /\ r \in Record
    /\ StatusMatches(r)
    /\ EventMatches(r)
    /\ Granted(r, n)
    /\ Sound(r)

\* The inductive invariant, in the parts the steps below go through.
IInv ==
    /\ player \in [Managers -> Record]
    /\ \A m \in Managers : GoodRecord(player[m], plays)
    /\ \A m \in Managers : player[m].status \in Quiet => owner # m
    /\ Marked
    /\ owner \in Managers \cup {none}
    /\ call \in BOOLEAN
    /\ shown \subseteq Items
    /\ queue \in Seq(FocusMessage)
    /\ plays \in 0 .. MaxPlays

-----------------------------------------------------------------------------
(* The parts of a step                                                       *)

LEMMA UnusedGood ==
    ASSUME NEW n \in 0 .. MaxPlays, NEW i \in Items \cup {none}
    PROVE  GoodRecord(Unused(i), n)
<1> DEFINE u == Unused(i)
<1>2. 0 \in 0 .. MaxPlays /\ 0 <= n
  BY MediaAssumption, SMT
<1>3. u \in Record
  BY <1>2, SMT DEF Unused, Record, Statuses, Natives
<1>4. StatusMatches(u) /\ EventMatches(u) /\ Sound(u)
  BY SMT DEF Unused, StatusMatches, EventMatches, Sound
<1>5. Granted(u, n)
  BY <1>2, MediaAssumption, SMT DEF Unused, Granted
<1> QED
  BY <1>3, <1>4, <1>5 DEF GoodRecord

LEMMA CrashSafe ==
    ASSUME IInv, Crash, UNCHANGED <<call, plays>>
    PROVE  IInv'
<1>1. \A m \in Managers : player'[m] = Unused(none)
  BY DEF Crash
<1>2. \A m \in Managers : GoodRecord(player'[m], plays')
  BY <1>1, UnusedGood DEF IInv
<1>3. player' \in [Managers -> Record]
  BY <1>2, SMT DEF Crash, GoodRecord
<1>4. /\ \A m \in Managers : player'[m].status \in Quiet => owner' # m
      /\ owner' \in Managers \cup {none}
  BY MediaAssumption, SMT DEF Crash, Managers
<1>5. Marked'
  BY SMT DEF Crash, Marked, Alive, Unused, Managers
<1> QED
  BY <1>2, <1>3, <1>4, <1>5, SMT DEF IInv, Crash

LEMMA Dropping ==
    ASSUME NEW m \in Managers, queue \in Seq(FocusMessage)
    PROVE  Dropped(m) \in Seq(FocusMessage)
<1>1. /\ DOMAIN queue = 1 .. Len(queue)
      /\ Len(queue) \in Nat
      /\ \A k \in DOMAIN queue : queue[k] \in FocusMessage
  BY SMT
<1>2. \A k \in DOMAIN queue : Dropped(m)[k] \in FocusMessage
  BY <1>1, SMT DEF Dropped, FocusMessage
<1>3. Dropped(m) \in [1 .. Len(queue) -> FocusMessage]
  BY <1>1, <1>2, SMT DEF Dropped
<1> QED
  BY <1>1, <1>3, SMT

LEMMA Types ==
    ASSUME IInv
    PROVE  /\ \A m \in Managers : player[m] \in Record
           /\ plays \in Nat
BY MediaAssumption, SMT DEF IInv

\* A step that gives one manager another good record.
LEMMA OneRecord ==
    ASSUME IInv, NEW m \in Managers, NEW r,
           player' = [player EXCEPT ![m] = r],
           plays' \in Nat, plays' >= plays,
           GoodRecord(r, plays')
    PROVE  /\ player' \in [Managers -> Record]
           /\ player'[m] = r
           /\ \A k \in Managers \ {m} : player'[k] = player[k]
           /\ \A k \in Managers : GoodRecord(player'[k], plays')
<1>1. player \in [Managers -> Record] /\ r \in Record
  BY DEF IInv, GoodRecord
<1>2. /\ player' \in [Managers -> Record]
      /\ player'[m] = r
      /\ \A k \in Managers \ {m} : player'[k] = player[k]
  BY <1>1
<1>3. ASSUME NEW k \in Managers, k # m
      PROVE  GoodRecord(player'[k], plays')
  <2>1. player'[k] = player[k] /\ GoodRecord(player[k], plays)
    BY <1>2, <1>3 DEF IInv
  <2>2. player[k].wifi \in Nat /\ plays \in Nat
    BY Types, SMT DEF Record
  <2>3. Granted(player[k], plays')
    BY <2>1, <2>2, SMT DEF GoodRecord, Granted
  <2> QED
    BY <2>1, <2>3 DEF GoodRecord
<1> QED
  BY <1>2, <1>3

\* What is known of a manager before a step.
LEMMA Known ==
    ASSUME IInv, NEW m \in Managers
    PROVE  /\ player \in [Managers -> Record] /\ player[m] \in Record
           /\ player[m].status \in Statuses /\ player[m].native \in Natives
           /\ player[m].event \in {"none", "prepared", "completed", "error"}
           /\ player[m].cur \in Items \cup {none}
           /\ player[m].wifi \in 0 .. MaxPlays /\ player[m].wifi \in Nat
           /\ player[m].registered \in BOOLEAN
           /\ StatusMatches(player[m]) /\ EventMatches(player[m])
           /\ Granted(player[m], plays) /\ Sound(player[m])
           /\ plays \in 0 .. MaxPlays /\ plays \in Nat /\ plays <= MaxPlays
           /\ MaxPlays \in Nat
<1>1. player \in [Managers -> Record] /\ GoodRecord(player[m], plays) /\ plays \in 0 .. MaxPlays
  BY DEF IInv
<1>2. /\ player[m] \in Record
      /\ StatusMatches(player[m]) /\ EventMatches(player[m])
      /\ Granted(player[m], plays) /\ Sound(player[m])
  BY <1>1 DEF GoodRecord
<1>3. /\ player[m].status \in Statuses /\ player[m].native \in Natives
      /\ player[m].event \in {"none", "prepared", "completed", "error"}
      /\ player[m].cur \in Items \cup {none}
      /\ player[m].wifi \in 0 .. MaxPlays
      /\ player[m].registered \in BOOLEAN
  BY <1>2 DEF Record
<1> QED
  BY <1>1, <1>2, <1>3, MediaAssumption, SMT

\* A record is good when its fields are.
LEMMA GoodFields ==
    ASSUME NEW s \in Statuses, NEW v \in Natives,
           NEW e \in {"none", "prepared", "completed", "error"},
           NEW c \in Items \cup {none}, NEW w \in 0 .. MaxPlays, NEW g \in BOOLEAN,
           NEW n \in Nat,
           s \in {"null", "IDLE"} => v = "idle",
           s = "INITIALIZED" => v \in {"preparing", "prepared", "failed"},
           s = "STARTED" => v \in {"started", "completed", "failed"},
           s = "PAUSED" => v \in {"paused", "completed"},
           s = "COMPLETED" => v \in {"completed", "stopped"},
           s = "STOPPED" => v = "stopped",
           v \in {"idle", "preparing", "started", "paused"} => e = "none",
           e = "prepared" => v \in {"prepared", "stopped"},
           e = "completed" => v \in {"completed", "stopped"},
           e = "error" => v = "failed",
           w <= n, v = "preparing" \/ e = "prepared" => w + 1 <= n,
           v = "started" => w > 0
    PROVE  GoodRecord([status |-> s, native |-> v, event |-> e, cur |-> c,
                       wifi |-> w, registered |-> g], n)
<1> DEFINE r == [status |-> s, native |-> v, event |-> e, cur |-> c,
                 wifi |-> w, registered |-> g]
<1>1. r \in Record
  BY DEF Record
<1>2. /\ r.status = s /\ r.native = v /\ r.event = e /\ r.wifi = w
  OBVIOUS
<1> HIDE DEF r
<1>3. StatusMatches(r)
  BY <1>2, SMT DEF StatusMatches
<1>4. EventMatches(r)
  BY <1>2, SMT DEF EventMatches
<1>5. Sound(r) /\ Granted(r, n)
  BY <1>2, SMT DEF Sound, Granted
<1> QED
  BY <1>1, <1>3, <1>4, <1>5 DEF GoodRecord, r

\* The same, in three parts that a proof establishes one at a time.
FieldTypes(s, v, e, c, w, g) ==
    /\ s \in Statuses /\ v \in Natives /\ e \in {"none", "prepared", "completed", "error"}
    /\ c \in Items \cup {none} /\ w \in 0 .. MaxPlays /\ g \in BOOLEAN

FieldsMatch(s, v, e) ==
    /\ (s \in {"null", "IDLE"} => v = "idle")
    /\ (s = "INITIALIZED" => v \in {"preparing", "prepared", "failed"})
    /\ (s = "STARTED" => v \in {"started", "completed", "failed"})
    /\ (s = "PAUSED" => v \in {"paused", "completed"})
    /\ (s = "COMPLETED" => v \in {"completed", "stopped"})
    /\ (s = "STOPPED" => v = "stopped")
    /\ (v \in {"idle", "preparing", "started", "paused"} => e = "none")
    /\ (e = "prepared" => v \in {"prepared", "stopped"})
    /\ (e = "completed" => v \in {"completed", "stopped"})
    /\ (e = "error" => v = "failed")

FieldsGranted(v, e, w, n) ==
    /\ n \in Nat /\ w <= n
    /\ (v = "preparing" \/ e = "prepared" => w + 1 <= n)
    /\ (v = "started" => w > 0)

LEMMA FieldsGood ==
    ASSUME NEW s, NEW v, NEW e, NEW c, NEW w, NEW g, NEW n,
           FieldTypes(s, v, e, c, w, g), FieldsMatch(s, v, e), FieldsGranted(v, e, w, n)
    PROVE  GoodRecord([status |-> s, native |-> v, event |-> e, cur |-> c,
                       wifi |-> w, registered |-> g], n)
<1> DEFINE r == [status |-> s, native |-> v, event |-> e, cur |-> c,
                 wifi |-> w, registered |-> g]
<1>1. r \in Record
  BY Zenon DEF Record, FieldTypes
<1>2. r.status = s /\ r.native = v /\ r.event = e /\ r.wifi = w
  OBVIOUS
<1> HIDE DEF r
<1>3. StatusMatches(r)
  BY <1>2, SMT DEF StatusMatches, FieldsMatch
<1>4. EventMatches(r)
  BY <1>2, SMT DEF EventMatches, FieldsMatch
<1>5. Sound(r) /\ Granted(r, n)
  BY <1>2, SMT DEF Sound, Granted, FieldsGranted, FieldTypes
<1> QED
  BY <1>1, <1>3, <1>4, <1>5 DEF GoodRecord, r

-----------------------------------------------------------------------------
(* One lemma per action                                                      *)

LEMMA PlaySafe ==
    ASSUME IInv, NEW m \in Managers, NEW i \in Items, Play(m, i)
    PROVE  IInv'
<1>0. /\ plays' = plays + 1 /\ plays' \in 0 .. MaxPlays
      /\ plays' \in Nat /\ plays' >= plays
      /\ UNCHANGED <<owner, call, queue>>
  BY Known, SMT DEF Play
<1>1. PICK r \in Record : r = player[m]
  BY Known
<1>2. /\ player \in [Managers -> Record]
      /\ r.cur \in Items \cup {none} /\ r.wifi \in 0 .. MaxPlays
      /\ r.registered \in BOOLEAN /\ r.wifi <= plays /\ r.wifi + 1 <= plays'
  BY <1>0, <1>1, Known, SMT DEF Granted
<1>3. CASE Prepare(m, i)
  <2> DEFINE q == [status |-> "INITIALIZED", native |-> "preparing", event |-> "none",
                   cur |-> i, wifi |-> r.wifi, registered |-> r.registered]
  <2>1. PICK p : p = [r EXCEPT !.status = "INITIALIZED", !.native = "preparing",
                               !.event = "none", !.cur = i]
    OBVIOUS
  <2>2. p = q
    BY <2>1, Zenon DEF Record
  <2>3. player' = [player EXCEPT ![m] = p]
    BY <1>1, <1>2, <1>3, <2>1, Zenon DEF Prepare
  <2>a. "INITIALIZED" \in Statuses /\ "preparing" \in Natives
    BY DEF Statuses, Natives
  <2>b. GoodRecord(q, plays')
    BY <1>0, <1>2, <2>a, GoodFields
  <2>4. /\ player' \in [Managers -> Record]
        /\ player'[m] = q
        /\ \A k \in Managers \ {m} : player'[k] = player[k]
        /\ \A k \in Managers : GoodRecord(player'[k], plays')
    BY <1>0, <2>2, <2>3, <2>b, OneRecord
  <2>5. \A k \in Managers : player'[k].status \in Quiet => owner' # k
    BY <1>0, <2>4, SMT DEF IInv, Quiet
  <2>6. Marked' /\ shown' \subseteq Items
    <3>1. CASE m = "net"
      BY <1>3, <2>4, <3>1, SMT DEF Prepare, Marked, IInv
    <3>2. CASE m # "net"
      BY <1>3, <2>4, <3>2, SMT DEF Prepare, Marked, IInv, Managers
    <3> QED
      BY <3>1, <3>2
  <2> QED
    BY <1>0, <2>4, <2>5, <2>6 DEF IInv
<1>4. CASE /\ player' = [player EXCEPT ![m].status = "IDLE", ![m].native = "idle",
                                       ![m].event = "none"]
           /\ UNCHANGED shown
  <2> DEFINE q == [status |-> "IDLE", native |-> "idle", event |-> "none",
                   cur |-> r.cur, wifi |-> r.wifi, registered |-> r.registered]
  <2>1. PICK p : p = [r EXCEPT !.status = "IDLE", !.native = "idle", !.event = "none"]
    OBVIOUS
  <2>2. p = q
    BY <2>1, Zenon DEF Record
  <2>3. player' = [player EXCEPT ![m] = p]
    BY <1>1, <1>2, <1>4, <2>1, Zenon
  <2>a. "IDLE" \in Statuses /\ "idle" \in Natives
    BY DEF Statuses, Natives
  <2>b. GoodRecord(q, plays')
    BY <1>0, <1>2, <2>a, GoodFields
  <2>4. /\ player' \in [Managers -> Record]
        /\ player'[m] = q
        /\ \A k \in Managers \ {m} : player'[k] = player[k]
        /\ \A k \in Managers : GoodRecord(player'[k], plays')
    BY <1>0, <2>2, <2>3, <2>b, OneRecord
  <2>5. \A k \in Managers : player'[k].status \in Quiet => owner' # k
    BY <1>0, <2>4, SMT DEF IInv, Quiet
  <2>6. Marked'
    BY <1>1, <1>4, <2>4, SMT DEF Marked, IInv, Managers, Alive
  <2> QED
    BY <1>0, <1>4, <2>4, <2>5, <2>6 DEF IInv
<1> QED
  BY <1>3, <1>4 DEF Play

LEMMA StopSafe ==
    ASSUME IInv, NEW m \in Managers, NEW others \in SUBSET Managers, NEW q \in Seq(FocusMessage),
           Stop(m, others, q), UNCHANGED <<call, plays>>
    PROVE  IInv'
<1> DEFINE active == player[m].status \in Stoppable
           gone   == IF active THEN others \cup {m} ELSE others
           stops  == {"prepared", "started", "paused", "completed", "stopped"}
<1>1. CASE active /\ player[m].native \notin stops
  BY <1>1, CrashSafe, Zenon DEF Stop
<1>2. CASE ~(active /\ player[m].native \notin stops)
  <2>1. /\ player' = [k \in Managers |->
               [player[k] EXCEPT
                  !.status = IF k = m /\ active THEN "STOPPED" ELSE @,
                  !.native = IF k = m /\ active THEN "stopped" ELSE @,
                  !.cur = IF k = m THEN none ELSE @,
                  !.registered = @ /\ k \notin gone]]
        /\ owner' = IF owner \in gone THEN none ELSE owner
        /\ shown' = IF m = "net" THEN shown \ {player[m].cur} ELSE shown
        /\ queue' = q
    BY <1>2, Zenon DEF Stop, Abandon
  <2> DEFINE new(k, r) ==
         [status |-> IF k = m /\ active THEN "STOPPED" ELSE r.status,
          native |-> IF k = m /\ active THEN "stopped" ELSE r.native,
          event |-> r.event,
          cur |-> IF k = m THEN none ELSE r.cur,
          wifi |-> r.wifi,
          registered |-> r.registered /\ k \notin gone]
  <2>2. active \in BOOLEAN
    BY DEF Stoppable
  <2>3. ASSUME NEW k \in Managers, NEW r \in Record, r = player[k]
        PROVE  player'[k] = new(k, r)
    <3>1. PICK p : p = [r EXCEPT
                  !.status = IF k = m /\ active THEN "STOPPED" ELSE @,
                  !.native = IF k = m /\ active THEN "stopped" ELSE @,
                  !.cur = IF k = m THEN none ELSE @,
                  !.registered = @ /\ k \notin gone]
      OBVIOUS
    <3>2. player'[k] = p
      BY <2>1, <2>3, <3>1, Zenon
    <3> HIDE DEF active, gone
    <3>3. p = new(k, r)
      BY <3>1, Zenon DEF Record
    <3> QED
      BY <3>2, <3>3
  <2>4. ASSUME NEW k \in Managers, NEW r \in Record, r = player[k]
        PROVE  GoodRecord(new(k, r), plays')
    <3> DEFINE s == IF k = m /\ active THEN "STOPPED" ELSE r.status
               v == IF k = m /\ active THEN "stopped" ELSE r.native
               c == IF k = m THEN none ELSE r.cur
               g == r.registered /\ k \notin gone
    <3>1. /\ r.status \in Statuses /\ r.native \in Natives
          /\ r.event \in {"none", "prepared", "completed", "error"}
          /\ r.cur \in Items \cup {none} /\ r.wifi \in 0 .. MaxPlays
          /\ r.registered \in BOOLEAN
          /\ StatusMatches(r) /\ EventMatches(r) /\ Granted(r, plays) /\ Sound(r)
          /\ plays' \in Nat /\ plays' = plays /\ plays \in Nat /\ r.wifi \in Nat
      BY <2>4, Known
    <3>2. k = m /\ active => r.native \in stops
      BY <1>2, <2>4
    <3>3. s \in Statuses /\ v \in Natives /\ c \in Items \cup {none} /\ g \in BOOLEAN
      BY <3>1 DEF Statuses, Natives
    <3>4. /\ r.wifi <= plays'
          /\ v = "preparing" \/ r.event = "prepared" => r.wifi + 1 <= plays'
      <4> HIDE DEF active
      <4> QED
        BY <3>1, SMT DEF Granted
    <3>5. v = "started" => r.wifi > 0
      BY <3>1, SMT DEF Sound
    <3>6. /\ s \in {"null", "IDLE"} => v = "idle"
          /\ s = "INITIALIZED" => v \in {"preparing", "prepared", "failed"}
          /\ s = "STARTED" => v \in {"started", "completed", "failed"}
          /\ s = "PAUSED" => v \in {"paused", "completed"}
          /\ s = "COMPLETED" => v \in {"completed", "stopped"}
          /\ s = "STOPPED" => v = "stopped"
      <4> HIDE DEF active
      <4> QED
        BY <3>1, SMT DEF StatusMatches
    <3>7. /\ v \in {"idle", "preparing", "started", "paused"} => r.event = "none"
          /\ r.event = "prepared" => v \in {"prepared", "stopped"}
          /\ r.event = "completed" => v \in {"completed", "stopped"}
          /\ r.event = "error" => v = "failed"
      <4> HIDE DEF active
      <4> QED
        BY <3>1, <3>2, SMT DEF EventMatches
    <3> HIDE DEF s, v, c, g
    <3>8. GoodRecord([status |-> s, native |-> v, event |-> r.event, cur |-> c,
                      wifi |-> r.wifi, registered |-> g], plays')
      <4>1. FieldTypes(s, v, r.event, c, r.wifi, g)
        BY <3>1, <3>3, Zenon DEF FieldTypes
      <4>2. FieldsMatch(s, v, r.event)
        BY <3>6, <3>7 DEF FieldsMatch
      <4>3. FieldsGranted(v, r.event, r.wifi, plays')
        BY <3>1, <3>4, <3>5 DEF FieldsGranted
      <4> QED
        BY <4>1, <4>2, <4>3, FieldsGood, Zenon
    <3> QED
      BY <3>8 DEF s, v, c, g
  <2>5. /\ player' \in [Managers -> Record]
        /\ \A k \in Managers : GoodRecord(player'[k], plays')
        /\ \A k \in Managers : player'[k] = new(k, player[k])
    <3>1. \A k \in Managers : player[k] \in Record
      BY Known
    <3>2. \A k \in Managers : player'[k] = new(k, player[k])
      BY <2>3, <3>1
    <3>3. \A k \in Managers : GoodRecord(player'[k], plays')
      BY <2>4, <3>1, <3>2
    <3>4. \A k \in Managers : player'[k] \in Record
      BY <3>3 DEF GoodRecord
    <3>5. \E F : player' = [k \in Managers |-> F[k]]
      <4> WITNESS player'
      <4> QED
        BY <2>1, Zenon
    <3> QED
      BY <3>2, <3>3, <3>4, <3>5
  <2>6. owner' \in Managers \cup {none} /\ owner' \in {none, owner} /\ owner' \notin gone
    <3>1. none \notin gone
      BY MediaAssumption
    <3> HIDE DEF gone
    <3> QED
      BY <2>1, <3>1 DEF IInv
  <2>7. \A k \in Managers : player'[k].status \in Quiet => owner' # k
    <3> SUFFICES ASSUME NEW k \in Managers, player'[k].status \in Quiet
                 PROVE  owner' # k
      OBVIOUS
    <3>1. CASE k = m /\ active
      BY <2>6, <3>1
    <3>2. CASE ~(k = m /\ active)
      <4>1. player[k].status \in Quiet
        BY <2>5, <3>2
      <4> QED
        BY <2>6, <4>1, MediaAssumption DEF IInv
    <3> QED
      BY <3>1, <3>2
  <2>8. Marked' /\ shown' \subseteq Items
    <3>1. "net" \in Managers
      BY DEF Managers
    <3>2. CASE m = "net"
      <4>1. shown' = {}
        BY <2>1, <3>2 DEF IInv, Marked
      <4>2. player'["net"].native \notin Alive
        <5>1. CASE active
          BY <2>5, <3>1, <3>2, <5>1 DEF Alive
        <5>2. CASE ~active
          <6>1. player["net"].status \in {"null", "IDLE", "STOPPED"}
            BY <3>1, <3>2, <5>2, Known DEF Statuses, Stoppable
          <6>2. player["net"].native \in {"idle", "stopped"}
            BY <3>1, <6>1, Known DEF StatusMatches
          <6>3. player'["net"].native = player["net"].native
            BY <2>5, <3>1, <5>2
          <6> QED
            BY <6>2, <6>3 DEF Alive
        <5> QED
          BY <5>1, <5>2
      <4> QED
        BY <4>1, <4>2 DEF Marked
    <3>3. CASE m # "net"
      <4>1. /\ player'["net"].cur = player["net"].cur
            /\ player'["net"].native = player["net"].native
            /\ shown' = shown
        <5> HIDE DEF active, gone
        <5>1. player'["net"] = new("net", player["net"])
          BY <2>5, <3>1
        <5>2. player'["net"].cur = player["net"].cur
          BY <3>3, <5>1
        <5>3. player'["net"].native = player["net"].native
          BY <3>3, <5>1
        <5> QED
          BY <2>1, <3>3, <5>2, <5>3
      <4> QED
        BY <4>1 DEF Marked, IInv
    <3> QED
      BY <3>2, <3>3
  <2> QED
    BY <2>1, <2>5, <2>6, <2>7, <2>8 DEF IInv
<1> QED
  BY <1>1, <1>2

LEMMA StartSafe ==
    ASSUME IInv, NEW m \in Managers, player[m].event = "prepared", Start(m),
           UNCHANGED <<call, plays>>
    PROVE  IInv'
<1>1. PICK r \in Record : r = player[m]
  BY Known
<1>2. /\ player \in [Managers -> Record]
      /\ r.cur \in Items \cup {none} /\ r.wifi \in Nat /\ r.wifi + 1 <= plays
      /\ r.wifi + 1 \in 0 .. MaxPlays /\ r.wifi + 1 > 0
      /\ r.native \in {"prepared", "stopped"}
      /\ plays' = plays /\ plays' \in Nat /\ plays' >= plays
  <2>1. /\ player \in [Managers -> Record]
        /\ r.cur \in Items \cup {none} /\ r.wifi \in Nat
        /\ Granted(r, plays) /\ EventMatches(r) /\ r.event = "prepared"
        /\ plays \in Nat /\ MaxPlays \in Nat /\ plays <= MaxPlays
    BY <1>1, Known
  <2>2. r.wifi + 1 <= plays
    BY <2>1, SMT DEF Granted
  <2> QED
    BY <2>1, <2>2, SMT DEF EventMatches
<1>3. CASE r.native = "stopped"
  BY <1>1, <1>3, CrashSafe DEF Start
<1>4. CASE r.native = "prepared"
  <2> DEFINE q == [status |-> "STARTED", native |-> "started", event |-> "none",
                   cur |-> r.cur, wifi |-> r.wifi + 1, registered |-> TRUE]
  <2>0. /\ Request(m)
        /\ player' = [player EXCEPT ![m].status = "STARTED", ![m].native = "started",
                                    ![m].event = "none", ![m].wifi = @ + 1,
                                    ![m].registered = TRUE]
        /\ UNCHANGED shown
    BY <1>1, <1>4 DEF Start
  <2>1. PICK p : p = [r EXCEPT !.status = "STARTED", !.native = "started",
                               !.event = "none", !.wifi = @ + 1, !.registered = TRUE]
    OBVIOUS
  <2>2. p = q
    BY <2>1, Zenon DEF Record
  <2>3. player' = [player EXCEPT ![m] = p]
    BY <1>1, <1>2, <2>0, <2>1, Zenon
  <2>4. "STARTED" \in Statuses /\ "started" \in Natives
    BY DEF Statuses, Natives
  <2>5. r.wifi + 1 <= plays'
    BY <1>2
  <2>6. GoodRecord(q, plays')
    <3>1. FieldTypes("STARTED", "started", "none", r.cur, r.wifi + 1, TRUE)
      BY <1>2, <2>4 DEF FieldTypes
    <3>2. FieldsMatch("STARTED", "started", "none")
      BY DEF FieldsMatch
    <3>3. FieldsGranted("started", "none", r.wifi + 1, plays')
      BY <1>2, <2>5 DEF FieldsGranted
    <3> QED
      BY <3>1, <3>2, <3>3, FieldsGood, Zenon
  <2>7. /\ player' \in [Managers -> Record]
        /\ player'[m] = q
        /\ \A k \in Managers \ {m} : player'[k] = player[k]
        /\ \A k \in Managers : GoodRecord(player'[k], plays')
    BY <1>2, <2>2, <2>3, <2>6, OneRecord
  <2>8. owner' \in Managers \cup {none} /\ owner' \in {owner, m}
    BY <2>0 DEF Request, IInv
  <2>9. \A k \in Managers : player'[k].status \in Quiet => owner' # k
    <3> SUFFICES ASSUME NEW k \in Managers, player'[k].status \in Quiet
                 PROVE  owner' # k
      OBVIOUS
    <3>1. k # m
      BY <2>7 DEF Quiet
    <3> QED
      BY <2>7, <2>8, <3>1 DEF IInv
  <2>10. Marked'
    <3>1. player'["net"].cur = player["net"].cur
      BY <1>1, <2>7 DEF Managers
    <3>2. player'["net"].native \in Alive => player["net"].native \in Alive
      BY <1>1, <1>4, <2>7 DEF Managers, Alive
    <3> QED
      BY <2>0, <3>1, <3>2 DEF Marked, IInv
  <2>11. queue' \in Seq(FocusMessage)
    <3>1. CASE owner \in {none, m} \/ call
      BY <2>0, <3>1 DEF Request, IInv
    <3>2. CASE ~(owner \in {none, m} \/ call)
      <4>1. owner \in Managers \cup {none} /\ queue \in Seq(FocusMessage)
        BY DEF IInv
      <4>2. [to |-> owner, what |-> "LOSS"] \in FocusMessage
        BY <4>1 DEF FocusMessage
      <4>3. queue' = Append(queue, [to |-> owner, what |-> "LOSS"])
        BY <2>0, <3>2 DEF Request
      <4> QED
        BY <4>1, <4>2, <4>3
    <3> QED
      BY <3>1, <3>2
  <2> QED
    BY <1>2, <2>0, <2>7, <2>8, <2>9, <2>10, <2>11 DEF IInv
<1> QED
  BY <1>2, <1>3, <1>4

LEMMA CompletedSafe ==
    ASSUME IInv, NEW m \in Managers, player[m].event = "completed", Completed(m),
           UNCHANGED <<call, plays>>
    PROVE  IInv'
<1>1. PICK r \in Record : r = player[m]
  BY Known
<1>2. /\ player \in [Managers -> Record]
      /\ r.cur \in Items \cup {none} /\ r.wifi \in 0 .. MaxPlays /\ r.registered \in BOOLEAN
      /\ r.wifi <= plays /\ r.native \in {"completed", "stopped"} /\ r.native \in Natives
      /\ plays' = plays /\ plays' \in Nat /\ plays' >= plays
  <2>1. /\ player \in [Managers -> Record] /\ r.native \in Natives
        /\ r.cur \in Items \cup {none} /\ r.wifi \in 0 .. MaxPlays /\ r.wifi \in Nat
        /\ r.registered \in BOOLEAN
        /\ Granted(r, plays) /\ EventMatches(r) /\ r.event = "completed"
        /\ plays \in Nat
    BY <1>1, Known
  <2> QED
    BY <2>1, SMT DEF EventMatches, Granted
<1> DEFINE q == [status |-> "COMPLETED", native |-> r.native, event |-> "none",
                 cur |-> r.cur, wifi |-> r.wifi, registered |-> r.registered]
<1>3. PICK p : p = [r EXCEPT !.status = "COMPLETED", !.event = "none"]
  OBVIOUS
<1>4. p = q
  BY <1>3, Zenon DEF Record
<1>5. player' = [player EXCEPT ![m] = p]
  BY <1>1, <1>2, <1>3, Zenon DEF Completed
<1>6. "COMPLETED" \in Statuses
  BY DEF Statuses
<1>7. /\ r.native \notin {"idle", "preparing", "started", "paused"}
      /\ r.wifi <= plays'
  BY <1>2
<1>8. GoodRecord(q, plays')
  BY <1>2, <1>6, <1>7, GoodFields
<1>9. /\ player' \in [Managers -> Record]
      /\ player'[m] = q
      /\ \A k \in Managers \ {m} : player'[k] = player[k]
      /\ \A k \in Managers : GoodRecord(player'[k], plays')
  BY <1>2, <1>4, <1>5, <1>8, OneRecord
<1>10. \A k \in Managers : player'[k].status \in Quiet => owner' # k
  <2> SUFFICES ASSUME NEW k \in Managers, player'[k].status \in Quiet
               PROVE  owner' # k
    OBVIOUS
  <2>1. k # m
    BY <1>9 DEF Quiet
  <2> QED
    BY <1>9, <2>1 DEF IInv, Completed
<1>11. Marked' /\ shown' \subseteq Items
  <2>1. CASE m = "net"
    BY <1>1, <1>2, <1>9, <2>1 DEF Completed, Marked, IInv, Alive
  <2>2. CASE m # "net"
    BY <1>9, <2>2 DEF Completed, Marked, IInv, Managers
  <2> QED
    BY <2>1, <2>2
<1> QED
  BY <1>2, <1>9, <1>10, <1>11 DEF IInv, Completed

LEMMA ReleaseSafe ==
    ASSUME IInv, NEW m \in Managers, Release(m), UNCHANGED <<call, plays>>
    PROVE  IInv'
<1>1. /\ player \in [Managers -> Record] /\ player[m].cur \in Items \cup {none}
      /\ plays \in 0 .. MaxPlays /\ plays' = plays /\ plays' \in Nat /\ plays' >= plays
  BY Known, SMT
<1> DEFINE q == Unused(player[m].cur)
<1>2. player' = [player EXCEPT ![m] = q]
  BY DEF Release
<1>3. GoodRecord(q, plays')
  BY <1>1, UnusedGood
<1>4. /\ player' \in [Managers -> Record]
      /\ player'[m] = q
      /\ \A k \in Managers \ {m} : player'[k] = player[k]
      /\ \A k \in Managers : GoodRecord(player'[k], plays')
  <2> HIDE DEF q
  <2> QED
    BY <1>1, <1>2, <1>3, OneRecord
<1>5. owner' \in Managers \cup {none} /\ owner' \in {none, owner} /\ owner' # m
  BY MediaAssumption DEF Release, Abandon, IInv
<1>6. \A k \in Managers : player'[k].status \in Quiet => owner' # k
  <2> SUFFICES ASSUME NEW k \in Managers \ {m}, player'[k].status \in Quiet
               PROVE  owner' # k
    BY <1>5
  <2> QED
    BY <1>4, <1>5, MediaAssumption DEF IInv
<1>7. Marked' /\ shown' \subseteq Items
  <2>1. CASE m = "net"
    BY <1>4, <2>1 DEF Release, Marked, IInv, Alive, Unused
  <2>2. CASE m # "net"
    BY <1>4, <2>2 DEF Release, Marked, IInv, Managers
  <2> QED
    BY <2>1, <2>2
<1>8. queue' \in Seq(FocusMessage)
  BY Dropping DEF Release, IInv
<1> QED
  BY <1>1, <1>4, <1>5, <1>6, <1>7, <1>8 DEF IInv

LEMMA PauseSafe ==
    ASSUME IInv, NEW q \in Seq(FocusMessage), Pause(q), UNCHANGED <<call, plays>>
    PROVE  IInv'
<1>0. "net" \in Managers
  BY DEF Managers
<1>1. PICK r \in Record : r = player["net"]
  BY <1>0, Known
<1>2. /\ player \in [Managers -> Record]
      /\ r.cur \in Items \cup {none} /\ r.wifi \in 0 .. MaxPlays /\ r.wifi \in Nat
      /\ r.native \in Natives /\ r.event \in {"none", "prepared", "completed", "error"}
      /\ StatusMatches(r) /\ EventMatches(r) /\ Granted(r, plays)
      /\ plays' = plays /\ plays' \in Nat /\ plays' >= plays
  BY <1>0, <1>1, Known
<1>3. CASE r.status # "STARTED"
  <2>1. queue' = q /\ UNCHANGED <<player, owner, shown>>
    BY <1>1, <1>3 DEF Pause
  <2> QED
    BY <1>2, <2>1 DEF IInv, Marked
<1>4. CASE r.status = "STARTED" /\ r.native = "failed"
  BY <1>1, <1>4, CrashSafe DEF Pause
<1>5. CASE r.status = "STARTED" /\ r.native # "failed"
  <2> DEFINE v == IF r.native = "started" THEN "paused" ELSE r.native
             w == Released(r.wifi)
             p == [status |-> "PAUSED", native |-> v, event |-> r.event,
                   cur |-> r.cur, wifi |-> w, registered |-> FALSE]
  <2>0. /\ player' = [player EXCEPT
               !["net"].status = "PAUSED",
               !["net"].native = IF @ = "started" THEN "paused" ELSE @,
               !["net"].wifi = Released(@),
               !["net"].registered = FALSE]
        /\ owner' = (IF owner \in {"net"} THEN none ELSE owner)
        /\ queue' = q /\ UNCHANGED shown
    BY <1>1, <1>5, Zenon DEF Pause, Abandon
  <2>1. PICK x : x = [r EXCEPT !.status = "PAUSED",
                               !.native = IF @ = "started" THEN "paused" ELSE @,
                               !.wifi = Released(@), !.registered = FALSE]
    OBVIOUS
  <2>2. x = p
    BY <2>1, Zenon DEF Record
  <2>3. player' = [player EXCEPT !["net"] = x]
    BY <1>1, <1>2, <2>0, <2>1, Zenon
  <2>4. /\ w \in 0 .. MaxPlays /\ w <= r.wifi /\ w \in Nat
        /\ r.native \in {"started", "completed"} /\ v \in {"paused", "completed"}
        /\ v \in Natives /\ "PAUSED" \in Statuses
        /\ r.event # "prepared" /\ r.event # "error"
        /\ (r.event = "completed" => v = "completed")
        /\ (v = "paused" => r.event = "none")
    <3>1. w \in 0 .. MaxPlays /\ w <= r.wifi /\ w \in Nat
      BY <1>2, MediaAssumption, SMT DEF Released
    <3>2. r.native \in {"started", "completed"}
      BY <1>2, <1>5 DEF StatusMatches
    <3>3. v \in {"paused", "completed"} /\ (v = "paused" => r.native = "started")
      BY <3>2
    <3>4. /\ r.event # "prepared" /\ r.event # "error"
          /\ (r.event = "completed" => r.native = "completed")
          /\ (r.native = "started" => r.event = "none")
      BY <1>2, <3>2 DEF EventMatches
    <3>5. "paused" \in Natives /\ "completed" \in Natives /\ "PAUSED" \in Statuses
      BY DEF Natives, Statuses
    <3>6. r.event = "completed" => v = "completed"
      BY <3>4
    <3> QED
      BY <3>1, <3>2, <3>3, <3>4, <3>5, <3>6
  <2>5. w <= plays'
    BY <1>2, <2>4, SMT DEF Granted
  <2>6. GoodRecord(p, plays')
    <3> HIDE DEF v, w
    <3>1. FieldTypes("PAUSED", v, r.event, r.cur, w, FALSE)
      BY <1>2, <2>4, Zenon DEF FieldTypes
    <3>2. FieldsMatch("PAUSED", v, r.event)
      BY <2>4 DEF FieldsMatch
    <3>3. FieldsGranted(v, r.event, w, plays')
      BY <1>2, <2>4, <2>5 DEF FieldsGranted
    <3> QED
      BY <3>1, <3>2, <3>3, FieldsGood, Zenon
  <2>7. /\ player' \in [Managers -> Record]
        /\ player'["net"] = p
        /\ \A k \in Managers \ {"net"} : player'[k] = player[k]
        /\ \A k \in Managers : GoodRecord(player'[k], plays')
    <3> HIDE DEF p
    <3> QED
      BY <1>0, <1>2, <2>2, <2>3, <2>6, OneRecord
  <2>8. /\ owner' \in Managers \cup {none} /\ owner' \in {none, owner}
        /\ owner' # "net"
    BY <1>0, <2>0, MediaAssumption DEF IInv
  <2>9. \A k \in Managers : player'[k].status \in Quiet => owner' # k
    <3> SUFFICES ASSUME NEW k \in Managers \ {"net"}, player'[k].status \in Quiet
                 PROVE  owner' # k
      BY <2>8
    <3> QED
      BY <2>7, <2>8, MediaAssumption DEF IInv
  <2>10. Marked'
    <3>1. player'["net"].cur = player["net"].cur
      BY <1>1, <2>7
    <3>2. player'["net"].native \in Alive => player["net"].native \in Alive
      BY <1>1, <2>4, <2>7 DEF Alive
    <3> QED
      BY <2>0, <3>1, <3>2 DEF Marked, IInv
  <2> QED
    BY <1>2, <2>0, <2>7, <2>8, <2>9, <2>10 DEF IInv
<1> QED
  BY <1>3, <1>4, <1>5

LEMMA NativeStepSafe ==
    ASSUME IInv, NEW m \in Managers, NativeStep(m)
    PROVE  IInv'
<1>1. PICK r \in Record : r = player[m]
  BY Known
<1>2. PICK s \in NativeSteps :
         /\ r.native = s[1]
         /\ player' = [player EXCEPT ![m].native = s[2], ![m].event = s[3]]
  BY <1>1 DEF NativeStep
<1>3. UNCHANGED <<owner, call, shown, queue, plays>>
  BY DEF NativeStep
<1>4. /\ player \in [Managers -> Record]
      /\ r.status \in Statuses /\ r.registered \in BOOLEAN
      /\ r.cur \in Items \cup {none} /\ r.wifi \in 0 .. MaxPlays /\ r.wifi \in Nat
      /\ StatusMatches(r) /\ EventMatches(r) /\ Granted(r, plays)
      /\ plays' = plays /\ plays' \in Nat /\ plays' >= plays
  BY <1>1, <1>3, Known
<1> DEFINE q == [status |-> r.status, native |-> s[2], event |-> s[3],
                 cur |-> r.cur, wifi |-> r.wifi, registered |-> r.registered]
<1>5. PICK p : p = [r EXCEPT !.native = s[2], !.event = s[3]]
  OBVIOUS
<1>6. p = q
  BY <1>5, Zenon DEF Record
<1>7. player' = [player EXCEPT ![m] = p]
  BY <1>1, <1>2, <1>4, <1>5, Zenon
<1>8. \/ s[1] = "preparing" /\ s[2] = "prepared" /\ s[3] = "prepared"
      \/ s[1] = "preparing" /\ s[2] = "failed" /\ s[3] = "error"
      \/ s[1] = "started" /\ s[2] = "completed" /\ s[3] = "completed"
      \/ s[1] = "started" /\ s[2] = "failed" /\ s[3] = "error"
  BY DEF NativeSteps
<1>9. /\ s[1] \in {"preparing", "started"}
      /\ s[2] \in Natives /\ s[2] \in {"prepared", "failed", "completed"}
      /\ s[3] \in {"none", "prepared", "completed", "error"}
      /\ (s[3] = "prepared" => s[1] = "preparing" /\ s[2] = "prepared")
      /\ (s[3] = "completed" => s[2] = "completed")
      /\ (s[3] = "error" => s[2] = "failed")
      /\ (s[1] = "preparing" => s[2] \in {"prepared", "failed"})
      /\ (s[1] = "started" => s[2] \in {"completed", "failed"})
  BY <1>8, Zenon DEF Natives
<1>10. /\ (r.status = "INITIALIZED" => s[1] = "preparing")
       /\ (r.status = "STARTED" => s[1] = "started")
       /\ r.status \notin {"null", "IDLE", "PAUSED", "COMPLETED", "STOPPED"}
       /\ r.wifi <= plays' /\ (s[1] = "preparing" => r.wifi + 1 <= plays')
  BY <1>2, <1>4, <1>9, SMT DEF StatusMatches, Granted
<1>11. GoodRecord(q, plays')
  <2> DEFINE t == r.status
             v == s[2]
             e == s[3]
             w == r.wifi
             c == r.cur
             g == r.registered
  <2>1. /\ t \in Statuses /\ v \in Natives /\ c \in Items \cup {none} /\ w \in 0 .. MaxPlays
        /\ g \in BOOLEAN /\ e \in {"none", "prepared", "completed", "error"}
        /\ plays' \in Nat
    BY <1>4, <1>9
  <2>2. FieldTypes(t, v, e, c, w, g)
    BY <2>1, Zenon DEF FieldTypes
  <2>3. FieldsMatch(t, v, e)
    BY <1>9, <1>10 DEF FieldsMatch
  <2>5. FieldsGranted(v, e, w, plays')
    BY <1>9, <1>10, <2>1 DEF FieldsGranted
  <2> HIDE DEF t, v, e, w, c, g
  <2>4. GoodRecord([status |-> t, native |-> v, event |-> e, cur |-> c,
                    wifi |-> w, registered |-> g], plays')
    BY <2>2, <2>3, <2>5, FieldsGood, Zenon
  <2> QED
    BY <2>4 DEF t, v, e, w, c, g
<1>12. /\ player' \in [Managers -> Record]
       /\ player'[m] = q
       /\ \A k \in Managers \ {m} : player'[k] = player[k]
       /\ \A k \in Managers : GoodRecord(player'[k], plays')
  <2> HIDE DEF q
  <2> QED
    BY <1>4, <1>6, <1>7, <1>11, OneRecord
<1>13. \A k \in Managers : /\ player'[k].status = player[k].status
                            /\ player'[k].cur = player[k].cur
                            /\ (player'[k].native \in Alive => player[k].native \in Alive)
  <2> SUFFICES ASSUME NEW k \in Managers
               PROVE  /\ player'[k].status = player[k].status
                      /\ player'[k].cur = player[k].cur
                      /\ (player'[k].native \in Alive => player[k].native \in Alive)
    OBVIOUS
  <2>1. CASE k = m
    BY <1>1, <1>2, <1>9, <1>12, <2>1 DEF Alive
  <2>2. CASE k # m
    BY <1>12, <2>2
  <2> QED
    BY <2>1, <2>2
<1>14. Marked'
  BY <1>3, <1>13 DEF Marked, IInv, Managers
<1> QED
  BY <1>3, <1>4, <1>12, <1>13, <1>14 DEF IInv

LEMMA FocusSafe ==
    ASSUME IInv, HandleFocus
    PROVE  IInv'
<1> DEFINE msg == Head(queue)
<1>1. /\ msg \in FocusMessage
      /\ Tail(queue) \in Seq(FocusMessage)
      /\ UNCHANGED <<call, plays>>
  BY DEF HandleFocus, IInv
<1>2. CASE Listens(msg.to)
  <2>1. /\ OnAudioFocusChange(msg.to, msg.what, Tail(queue))
        /\ msg.to \in Managers
    BY <1>1, <1>2 DEF HandleFocus, Listens, FocusMessage
  <2>2. CASE msg.what = "LOSS"
    <3>1. Stop("net", {msg.to}, Tail(queue))
      BY <2>1, <2>2 DEF OnAudioFocusChange
    <3> HIDE DEF msg
    <3> QED
      BY <1>1, <2>1, <3>1, StopSafe DEF Managers
  <2>3. CASE msg.what = "LOSS_TRANSIENT"
    <3>1. Pause(Tail(queue))
      BY <2>1, <2>3 DEF OnAudioFocusChange
    <3> QED
      BY <1>1, <3>1, PauseSafe
  <2>4. CASE msg.what \in {"GAIN", "LOSS_TRANSIENT_CAN_DUCK"}
    <3>1. Crash
      BY <2>1, <2>4 DEF OnAudioFocusChange
    <3> QED
      BY <1>1, <3>1, CrashSafe
  <2> QED
    BY <1>1, <2>2, <2>3, <2>4 DEF FocusMessage
<1>3. CASE ~Listens(msg.to)
  <2>1. queue' = Tail(queue) /\ UNCHANGED <<player, owner, shown>>
    BY <1>3 DEF HandleFocus
  <2> QED
    BY <1>1, <2>1 DEF IInv, Marked
<1> QED
  BY <1>2, <1>3

\* A step of the platform changes the focus and its messages, nothing else.
LEMMA PlatformSafe ==
    ASSUME IInv, CallBegins \/ CallEnds \/ Notification \/ OtherApplication
    PROVE  IInv'
<1>1. /\ UNCHANGED <<player, shown, plays>>
      /\ call' \in BOOLEAN /\ owner' \in {none, owner}
      /\ \E w \in {"GAIN", "LOSS", "LOSS_TRANSIENT", "LOSS_TRANSIENT_CAN_DUCK"} : TellOwner(w)
  BY DEF CallBegins, CallEnds, Notification, OtherApplication, IInv
<1>2. queue' \in Seq(FocusMessage)
  <2>1. PICK w \in {"GAIN", "LOSS", "LOSS_TRANSIENT", "LOSS_TRANSIENT_CAN_DUCK"} : TellOwner(w)
    BY <1>1
  <2>2. CASE owner = none
    BY <2>1, <2>2 DEF TellOwner, IInv
  <2>3. CASE owner # none
    <3>1. [to |-> owner, what |-> w] \in FocusMessage
      BY DEF FocusMessage, IInv
    <3> QED
      BY <2>1, <2>3, <3>1 DEF TellOwner, IInv
  <2> QED
    BY <2>2, <2>3
<1> QED
  BY <1>1, <1>2, MediaAssumption DEF IInv, Marked

-----------------------------------------------------------------------------
(* The invariant                                                             *)

LEMMA Initially == Init => IInv
<1> SUFFICES ASSUME Init PROVE IInv
  OBVIOUS
<1>1. \A m \in Managers : player[m] = Unused(none)
  BY DEF Init
<1>2. plays \in 0 .. MaxPlays
  BY MediaAssumption DEF Init
<1>3. \A m \in Managers : GoodRecord(player[m], plays)
  BY <1>1, <1>2, UnusedGood
<1>4. player \in [Managers -> Record]
  BY <1>3 DEF Init, GoodRecord
<1>5. owner = none /\ call = FALSE /\ shown = {} /\ queue = <<>>
  BY DEF Init
<1>6. Marked
  BY <1>1, <1>5 DEF Marked, Alive, Unused, Managers
<1>7. \A m \in Managers : player[m].status \in Quiet => owner # m
  BY <1>5, MediaAssumption
<1>8. owner \in Managers \cup {none} /\ call \in BOOLEAN /\ shown \subseteq Items
  BY <1>5
<1>9. queue \in Seq(FocusMessage)
  BY <1>5
<1> QED
  BY <1>2, <1>3, <1>4, <1>6, <1>7, <1>8, <1>9 DEF IInv

LEMMA Inductive == IInv /\ [Next]_vars => IInv'
<1> SUFFICES ASSUME IInv, [Next]_vars PROVE IInv'
  OBVIOUS
<1>1. ASSUME ClickPlay PROVE IInv'
  BY <1>1, PlaySafe DEF ClickPlay, Managers
<1>2. ASSUME NEW m \in Managers, ClickStop(m) PROVE IInv'
  <2>1. queue \in Seq(FocusMessage) /\ {} \in SUBSET Managers
    BY DEF IInv
  <2>2. Stop(m, {}, queue) /\ UNCHANGED <<call, plays>>
    BY <1>2 DEF ClickStop
  <2> QED
    BY <2>1, <2>2, StopSafe
<1>3. ASSUME NEW m \in Managers, HandleEvent(m) PROVE IInv'
  BY <1>3, StartSafe, CompletedSafe, ReleaseSafe DEF HandleEvent
<1>4. CASE UNCHANGED vars
  BY <1>4 DEF vars, IInv, Marked
<1> QED
  BY <1>1, <1>2, <1>3, <1>4, FocusSafe, NativeStepSafe, PlatformSafe DEF Next

LEMMA Always == Spec => []IInv
BY Initially, Inductive, PTL DEF Spec

-----------------------------------------------------------------------------
(* What follows from it                                                      *)

\* Every record, message and counter keeps its type: the status of a manager
\* (ManagedMediaPlayer.Status), the holds of its wifi lock, never more than
\* there were clicks on play, and the messages of the audio focus.
THEOREM MediaTypeCorrect == Spec => []TypeOK
<1>1. IInv => TypeOK
  BY DEF IInv, TypeOK, Record, FocusMessage
<1> QED
  BY <1>1, Always, PTL

\* Through every click, callback, focus change and exception the list marks no
\* voice but the current one, and marks that one while it sounds (isPlay of
\* currentMusicEntity in NetMediaPlayManager and the list's callbacks).
THEOREM MarkFollows == Spec => []ShownIsCurrent
<1>1. IInv => ShownIsCurrent
  BY DEF IInv, ShownIsCurrent, Marked, Alive
<1> QED
  BY <1>1, Always, PTL

\* What sounds holds the wifi lock, although pause() releases one hold of
\* several and stop() none; what is paused, stopped or released has abandoned
\* the audio focus (start, pause, stop and release of the managers).
THEOREM MediaResources == Spec => []ResourcesFollow
<1>1. IInv => ResourcesFollow
  BY DEF IInv, ResourcesFollow, GoodRecord, Sound, Quiet
<1> QED
  BY <1>1, Always, PTL

=============================================================================
