--------------------------- MODULE SendVoice_proof ---------------------------
(* Proofs about SendVoice, for every set of voices and effects and any       *)
(* number of recordings, previews, sends and lives of the activity: its      *)
(* types, that a mark has a thread that takes it back, and that a send which *)
(* was left alone sends what was confirmed.                                  *)
EXTENDS SendVoice, TLAPS

-----------------------------------------------------------------------------
(* The types of the records, and what their items are at each point.         *)

LocalAts == {"new", "saving", "render", "saved"}
NetAts   == {"download", "write", "convert", "ffmpeg"}
Ats      == Over \cup LocalAts \cup NetAts \cup {"encode", "encoded", "broken"}
Playing  == {"new", "created", "polls", "ended"}

AllJobs == [at: Ats, kind: {"net", "local"}, item: Items \cup Effects \cup {none},
            want: Contents, src: Contents, got: Missing .. Full,
            size: {-1, 0, Full}, screen: 1 .. MaxScreens, alone: BOOLEAN]

\* A send of the voice changer has an effect, one of the list a voice.
Fits(at, item) == (at \in LocalAts => item \in Effects) /\ (at \in NetAts => item \in Items)

Jobs == {j \in AllJobs : Fits(j.at, j.item)}

Threads == {t \in [at: {"none", "done"} \cup Playing, item: Entities \cup {none}] :
               t.at \in Playing => t.item \in Entities}

Engines == [plays: BOOLEAN, out: 0 .. MaxSends, holds: Contents]
Downs   == [by: 0 .. MaxSends, length: Missing .. Full]
Rows    == [item: Items \cup {none}, size: {-1, 0, Full}]

Types ==
    /\ file \in [Names -> Contents]
    /\ down \in [Items -> Downs] /\ row \in Rows
    /\ engine \in Engines
    /\ thread \in [Previews -> Threads]
    /\ marked \subseteq Entities /\ current \in Entities \cup {none}
    /\ job \in [Sends -> Jobs]
    /\ screen \in 1 .. MaxScreens /\ page \in {"local", "other"}
    /\ dialog \in 0 .. MaxSends /\ main \in 0 .. MaxSends /\ ffmpeg \in 0 .. MaxSends
    /\ used \in [records: 0 .. MaxRecords, plays: 0 .. MaxPlays, sends: 0 .. MaxSends]

LEMMA Bounds ==
    /\ MaxRecords \in Nat /\ MaxPlays \in Nat /\ MaxSends \in Nat
    /\ MaxScreens \in Nat /\ MaxScreens >= 1
    /\ \A n \in Sends : n \in 0 .. MaxSends /\ n # 0
  BY SendAssumption DEF Sends

LEMMA ContentType ==
    ASSUME NEW v \in Voices \cup {none}, NEW e \in Effects \cup {none}, NEW all \in BOOLEAN,
           NEW n \in 0 .. MaxSends
    PROVE  /\ Content(v, e, all, n) \in Contents
           /\ Nothing \in Contents /\ Garbled(n) \in Contents /\ Garbled(n).by = n
  BY Bounds DEF Content, Contents, Nothing, Garbled

LEMMA ItemContent ==
    ASSUME NEW i \in Items, NEW all \in BOOLEAN, NEW n \in 0 .. MaxSends
    PROVE  Content(i, none, all, n) \in Contents
  BY DEF Content, Contents, Voices

LEMMA NothingType == Nothing \in Contents
  BY Bounds DEF Content, Contents, Nothing

LEMMA GarbledType == ASSUME NEW n \in Sends PROVE Garbled(n) \in Contents /\ Garbled(n).by = n
  BY Bounds DEF Content, Contents, Garbled

LEMMA JobFields ==
    ASSUME NEW j \in Jobs
    PROVE  /\ j.at \in Ats /\ j.kind \in {"net", "local"} /\ j.item \in Items \cup Effects \cup {none}
           /\ j.want \in Contents /\ j.src \in Contents /\ j.got \in Missing .. Full
           /\ j.size \in {-1, 0, Full} /\ j.screen \in 1 .. MaxScreens /\ j.alone \in BOOLEAN
           /\ Fits(j.at, j.item)
  BY DEF Jobs, AllJobs

\* A send moves on.
LEMMA Moved ==
    ASSUME NEW j \in Jobs, NEW w \in Ats, Fits(w, j.item)
    PROVE  LET k == [j EXCEPT !.at = w]
           IN /\ k \in Jobs /\ k.at = w
              /\ k.kind = j.kind /\ k.item = j.item /\ k.want = j.want /\ k.src = j.src
              /\ k.got = j.got /\ k.alone = j.alone
  BY DEF Jobs, AllJobs

LEMMA NoSendType ==
    /\ NoSend \in Jobs /\ ~NoSend.alone /\ NoSend.at = "none" /\ NoSend.got = 0
    /\ NoSend.item = none
<1>1. Nothing \in Contents
  BY NothingType
<1>2. Fits("none", none)
  BY DEF Fits, LocalAts, NetAts
<1> QED
  BY <1>1, <1>2, Bounds DEF NoSend, Jobs, AllJobs, Ats, Over, Missing, Full

LEMMA EndedType ==
    ASSUME NEW w \in Over
    PROVE  Ended(w) \in Jobs /\ Ended(w).at = w /\ ~Ended(w).alone
<1>1. Fits(w, none) /\ w \in Ats
  BY DEF Fits, LocalAts, NetAts, Over, Ats
<1> QED
  BY <1>1, NoSendType, Moved DEF Ended

\* A send that is no longer alone.
LEMMA DisturbedType ==
    ASSUME NEW j \in Jobs
    PROVE  LET k == [j EXCEPT !.alone = FALSE]
           IN k \in Jobs /\ k.at = j.at /\ k.item = j.item /\ ~k.alone
  BY DEF Jobs, AllJobs

-----------------------------------------------------------------------------
(* What the operators of the module do to the sends.                         *)

LEMMA AtEffect ==
    ASSUME Types, NEW n \in Sends, NEW w \in Ats, Fits(w, job[n].item), At(n, w)
    PROVE  /\ job' \in [Sends -> Jobs]
           /\ job'[n].at = w /\ job'[n].kind = job[n].kind /\ job'[n].item = job[n].item
           /\ job'[n].want = job[n].want /\ job'[n].src = job[n].src /\ job'[n].got = job[n].got
           /\ job'[n].alone = job[n].alone
           /\ \A m \in Sends : m # n => job'[m] = job[m]
<1>1. job' = [job EXCEPT ![n] = [job[n] EXCEPT !.at = w]]
  BY DEF At
<1>2. job[n] \in Jobs /\ job \in [Sends -> Jobs]
  BY DEF Types
<1> QED
  BY <1>1, <1>2, Moved

LEMMA FinishEffect ==
    ASSUME Types, NEW n \in Sends, NEW w \in Over, Finish(n, w)
    PROVE  /\ job' \in [Sends -> Jobs]
           /\ job'[n].at = w /\ ~job'[n].alone
           /\ \A m \in Sends : m # n => job'[m] = job[m]
<1>1. job' = [job EXCEPT ![n] = Ended(w)] /\ job \in [Sends -> Jobs]
  BY DEF Finish, Types
<1> QED
  BY <1>1, EndedType

LEMMA DisturbedEffect ==
    ASSUME Types, NEW ns \in SUBSET Sends, NEW d, d = Disturbed(ns)
    PROVE  /\ d \in [Sends -> Jobs]
           /\ \A n \in Sends : /\ d[n].at = job[n].at
                               /\ n \in ns => ~d[n].alone
                               /\ n \notin ns => d[n] = job[n]
<1>1. d = [n \in Sends |-> IF n \in ns THEN [job[n] EXCEPT !.alone = FALSE] ELSE job[n]]
  BY DEF Disturbed
<1>2. ASSUME NEW n \in Sends
      PROVE  /\ d[n] \in Jobs /\ d[n].at = job[n].at
             /\ n \in ns => ~d[n].alone
             /\ n \notin ns => d[n] = job[n]
  <2>1. job[n] \in Jobs
    BY DEF Types
  <2> QED
    BY <1>1, <2>1, DisturbedType
<1> QED
  BY <1>1, <1>2

\* A crash ends every send that was under way, and tells of none that is sent.
LEMMA CrashEffect ==
    ASSUME Types, NEW sent \in SUBSET Sends, CrashAfter(sent)
    PROVE  /\ job' \in [Sends -> Jobs]
           /\ \A n \in Sends :
                 /\ n \in sent => /\ job'[n].at = "sent" /\ job'[n].want = job[n].want
                                  /\ job'[n].alone = job[n].alone
                 /\ n \notin sent /\ n \in Begun => job'[n].at = "lost" /\ ~job'[n].alone
                 /\ n \notin sent /\ n \notin Begun => job'[n] = job[n]
<1>1. job' = [n \in Sends |->
                IF n \in sent THEN [job[n] EXCEPT !.at = "sent"]
                ELSE IF n \in Begun THEN Ended("lost") ELSE job[n]]
  BY DEF CrashAfter
<1>2. ASSUME NEW n \in Sends
      PROVE  /\ job'[n] \in Jobs
             /\ n \in sent => /\ job'[n].at = "sent" /\ job'[n].want = job[n].want
                              /\ job'[n].alone = job[n].alone
             /\ n \notin sent /\ n \in Begun => job'[n].at = "lost" /\ ~job'[n].alone
             /\ n \notin sent /\ n \notin Begun => job'[n] = job[n]
  <2>1. job[n] \in Jobs
    BY DEF Types
  <2>2. "sent" \in Ats /\ Fits("sent", job[n].item) /\ "lost" \in Over
    BY DEF Ats, Over, Fits, LocalAts, NetAts
  <2>3. CASE n \in sent
    <3>1. job'[n] = [job[n] EXCEPT !.at = "sent"]
      BY <1>1, <2>3
    <3> QED
      BY <2>1, <2>2, <2>3, <3>1, Moved
  <2>4. CASE n \notin sent /\ n \in Begun
    BY <1>1, <2>2, <2>4, EndedType
  <2>5. CASE n \notin sent /\ n \notin Begun
    BY <1>1, <2>1, <2>5
  <2> QED
    BY <2>3, <2>4, <2>5
<1> QED
  BY <1>1, <1>2

\* An encoder that meets another spoils what both make.
LEMMA EncodeEffect ==
    ASSUME Types, NEW n \in Sends, NEW f \in Contents, Encode(n, f)
    PROVE  /\ job' \in [Sends -> Jobs]
           /\ job'[n].at = "encode" /\ job'[n].want = job[n].want /\ job'[n].alone = job[n].alone
           /\ Encoding = {} => job'[n].src = f /\ \A m \in Sends : m # n => job'[m] = job[m]
           /\ \A m \in Sends : m # n => job'[m].at = job[m].at /\ job'[m].alone = job[m].alone
<1>1. job' = [m \in Sends |->
                IF m = n THEN [job[m] EXCEPT !.at = "encode",
                                             !.src = IF Encoding = {} THEN f ELSE Garbled(n)]
                ELSE IF m \in Encoding THEN [job[m] EXCEPT !.src = Garbled(m)] ELSE job[m]]
  BY DEF Encode
<1>2. ASSUME NEW j \in Jobs, NEW c \in Contents
      PROVE  /\ [j EXCEPT !.src = c] \in Jobs /\ [j EXCEPT !.src = c].at = j.at
             /\ [j EXCEPT !.src = c].alone = j.alone
  BY DEF Jobs, AllJobs
<1>3. PICK c \in Contents : /\ c = IF Encoding = {} THEN f ELSE Garbled(n)
                            /\ Encoding = {} => c = f
  BY GarbledType
<1>4. /\ job'[n] \in Jobs /\ job'[n].at = "encode" /\ job'[n].want = job[n].want
      /\ job'[n].alone = job[n].alone /\ job'[n].src = c
  <2>1. job'[n] = [job[n] EXCEPT !.at = "encode", !.src = c] /\ job[n] \in Jobs
    BY <1>1, <1>3 DEF Types
  <2>2. Fits("encode", job[n].item) /\ "encode" \in Ats
    BY DEF Fits, LocalAts, NetAts, Ats
  <2> QED
    BY <2>1, <2>2 DEF Jobs, AllJobs
<1>5. ASSUME NEW m \in Sends, m # n
      PROVE  /\ job'[m] \in Jobs /\ job'[m].at = job[m].at /\ job'[m].alone = job[m].alone
             /\ Encoding = {} => job'[m] = job[m]
  <2>1. job[m] \in Jobs /\ Garbled(m) \in Contents
    BY GarbledType DEF Types
  <2>2. CASE m \in Encoding
    <3>1. job'[m] = [job[m] EXCEPT !.src = Garbled(m)]
      BY <1>1, <1>5, <2>2
    <3> QED
      BY <1>2, <2>1, <2>2, <3>1
  <2>3. CASE m \notin Encoding
    BY <1>1, <1>5, <2>1, <2>3
  <2> QED
    BY <2>2, <2>3
<1>6. job' \in [Sends -> Jobs]
  BY <1>1, <1>4, <1>5
<1> QED
  BY <1>3, <1>4, <1>5, <1>6

\* A confirmed send is the next one, and no other is left alone with it.
LEMMA ConfirmEffect ==
    ASSUME Types, NEW kind \in {"net", "local"}, NEW item \in Items \cup Effects,
           NEW want \in Contents, NEW w \in Ats, Fits(w, item), Confirm(kind, item, want, w),
           NEW n, n = used.sends + 1
    PROVE  /\ n \in Sends /\ job' \in [Sends -> Jobs]
           /\ job'[n].at = w /\ job'[n].item = item /\ job'[n].want = want /\ job'[n].got = 0
           /\ job'[n].alone => /\ Begun = {}
                               /\ \A p \in Previews : thread[p].at \notin {"new", "created"}
           /\ \A m \in Sends : m # n => job'[m].at = job[m].at /\ ~job'[m].alone
           /\ dialog' = n /\ used' = [used EXCEPT !.sends = n]
<1>1. PICK b \in BOOLEAN :
         /\ b <=> /\ Begun = {}
                  /\ \A p \in Previews : thread[p].at \notin {"new", "created"}
         /\ job' = [Disturbed(Sends) EXCEPT ![n] =
                      [NoSend EXCEPT !.at = w, !.kind = kind, !.item = item, !.want = want,
                                     !.screen = screen, !.alone = b]]
  BY Zenon DEF Confirm
<1>2. n \in Sends
  BY Bounds DEF Confirm, Types, Sends
<1>3. screen \in 1 .. MaxScreens
  BY DEF Types
<1>4. PICK j \in Jobs : /\ job' = [Disturbed(Sends) EXCEPT ![n] = j]
                        /\ j.at = w /\ j.item = item /\ j.want = want /\ j.got = 0
                        /\ j.alone <=> b
  <2> DEFINE j == [NoSend EXCEPT !.at = w, !.kind = kind, !.item = item, !.want = want,
                                 !.screen = screen, !.alone = b]
  <2>1. /\ j \in Jobs /\ j.at = w /\ j.item = item /\ j.want = want /\ j.got = NoSend.got
        /\ j.alone = b
    BY <1>3, NoSendType DEF Jobs, AllJobs
  <2> QED
    BY <1>1, <2>1, NoSendType
<1>5. /\ Disturbed(Sends) \in [Sends -> Jobs]
      /\ \A m \in Sends : Disturbed(Sends)[m].at = job[m].at /\ ~Disturbed(Sends)[m].alone
  BY DisturbedEffect
<1>6. /\ job' \in [Sends -> Jobs] /\ job'[n] = j
      /\ \A m \in Sends : m # n => job'[m] = Disturbed(Sends)[m]
  BY <1>2, <1>4, <1>5
<1>7. dialog' = n /\ used' = [used EXCEPT !.sends = n]
  BY DEF Confirm
<1> QED
  BY <1>1, <1>2, <1>4, <1>5, <1>6, <1>7

-----------------------------------------------------------------------------
(* What they do to the engine and the files.                                 *)

LEMMA ByType ==
    ASSUME NEW c \in Contents, NEW n \in 0 .. MaxSends
    PROVE  LET d == [c EXCEPT !.by = n]
           IN d \in Contents /\ d.by = n /\ Same(d, c)
  BY DEF Contents, Same

LEMMA EffectType ==
    ASSUME NEW c \in Contents, NEW e \in Effects \cup {none}
    PROVE  LET d == [c EXCEPT !.effect = e]
           IN d \in Contents /\ d.voice = c.voice /\ d.whole = c.whole /\ d.effect = e
  BY DEF Contents

LEMMA EngineType ==
    ASSUME Types
    PROVE  /\ engine \in Engines
           /\ engine.plays \in BOOLEAN /\ engine.out \in 0 .. MaxSends /\ engine.holds \in Contents
           /\ Closed \in Engines
  BY NothingType, Bounds DEF Types, Engines, Closed

\* The engine stops, and holds c.
LEMMA StopEffect ==
    ASSUME Types, NEW c \in Contents, engine' = [engine EXCEPT !.plays = FALSE, !.holds = c]
    PROVE  engine' \in Engines /\ ~engine'.plays /\ engine'.out = engine.out /\ engine'.holds = c
  BY EngineType DEF Engines

\* The engine sounds, if it holds something, with effect e.
LEMMA PlayEffect ==
    ASSUME Types, NEW e \in Effects,
           engine' = [engine EXCEPT !.plays = engine.holds # Nothing, !.holds.effect = e]
    PROVE  /\ engine' \in Engines /\ engine'.out = engine.out
           /\ engine'.plays <=> engine.holds # Nothing
           /\ engine'.holds.voice = engine.holds.voice /\ engine'.holds.whole = engine.holds.whole
           /\ engine'.holds.effect = e
<1>1. PICK b \in BOOLEAN : /\ b <=> engine.holds # Nothing
                           /\ engine' = [engine EXCEPT !.plays = b, !.holds.effect = e]
  BY Zenon
<1>2. engine \in Engines /\ engine.holds \in Contents
  BY EngineType
<1>3. PICK c \in Contents : /\ c = [engine.holds EXCEPT !.effect = e]
                            /\ c.voice = engine.holds.voice /\ c.whole = engine.holds.whole
                            /\ c.effect = e
  BY <1>2, EffectType
<1>4. engine' = [engine EXCEPT !.plays = b, !.holds = c]
  BY <1>1, <1>3
<1>5. engine' \in Engines /\ engine'.plays = b /\ engine'.out = engine.out /\ engine'.holds = c
  BY <1>2, <1>4 DEF Engines
<1> QED
  BY <1>1, <1>3, <1>5

\* What the engine did is in its file when it ends.
LEMMA SoundEffect ==
    ASSUME Types, SoundEnds
    PROVE  /\ engine.plays /\ ~engine'.plays /\ engine' \in Engines
           /\ engine'.out = engine.out /\ engine'.holds = engine.holds
           /\ file' \in [Names -> Contents]
           /\ file'["wav"] = file["wav"] /\ file'["amr"] = file["amr"]
           /\ file'["new"].by = file["new"].by
           /\ engine.out = 0 => file' = file
           /\ engine.out # 0 /\ file["new"].by = engine.out => Same(file'["new"], engine.holds)
<1>1. engine.plays /\ engine' = [engine EXCEPT !.plays = FALSE]
  BY DEF SoundEnds
<1>2. /\ ~engine'.plays /\ engine' \in Engines
      /\ engine'.out = engine.out /\ engine'.holds = engine.holds
  BY <1>1, EngineType DEF Engines
<1>3. file \in [Names -> Contents] /\ Names = {"wav", "new", "amr"}
  BY DEF Types, Names
<1>4. CASE engine.out # 0 /\ file["new"].by = engine.out
  <2>1. file' = [file EXCEPT !["new"] = [engine.holds EXCEPT !.by = engine.out]]
    BY <1>4 DEF SoundEnds
  <2>2. PICK c \in Contents : /\ c = [engine.holds EXCEPT !.by = engine.out]
                              /\ c.by = engine.out /\ Same(c, engine.holds)
    BY EngineType, ByType
  <2> QED
    BY <1>1, <1>2, <1>3, <1>4, <2>1, <2>2
<1>5. CASE ~(engine.out # 0 /\ file["new"].by = engine.out)
  <2>1. file' = file
    BY <1>5 DEF SoundEnds
  <2> QED
    BY <1>1, <1>2, <1>3, <1>5, <2>1
<1> QED
  BY <1>4, <1>5

LEMMA CrashTypes ==
    ASSUME Types, NEW sent \in SUBSET Sends, CrashAfter(sent)
    PROVE  Types'
<1>1. job' \in [Sends -> Jobs]
  BY CrashEffect
<1>2. thread' \in [Previews -> Threads]
  <2>1. PreviewOver \in Threads
    BY DEF PreviewOver, Threads, Playing
  <2> QED
    BY <2>1 DEF CrashAfter, Types
<1>3. engine' \in Engines
  BY EngineType DEF CrashAfter
<1>4. /\ marked' = {} /\ current' = none /\ page' = "other"
      /\ dialog' = 0 /\ main' = 0 /\ ffmpeg' = 0
      /\ UNCHANGED <<file, down, row, screen, used>>
  BY DEF CrashAfter
<1> QED
  BY <1>1, <1>2, <1>3, <1>4, Bounds DEF Types

LEMMA OrphanTypes ==
    ASSUME Types, NEW n \in Sends, Orphan(n)
    PROVE  Types'
<1>1. CASE Crash
  BY <1>1, CrashTypes DEF Crash
<1>2. CASE Finish(n, "dropped") /\ UNCHANGED <<file, net, sound, screen, page, dialog, main, used>>
  <2>1. job' \in [Sends -> Jobs]
    BY <1>2, FinishEffect DEF Over
  <2> QED
    BY <1>2, <2>1 DEF Types, net, sound
<1> QED
  BY <1>1, <1>2 DEF Orphan

-----------------------------------------------------------------------------
(* Every step keeps the types.                                               *)

LEMMA FileType ==
    ASSUME Types, NEW f \in Names, NEW c \in Contents, file' = [file EXCEPT ![f] = c]
    PROVE  /\ file' \in [Names -> Contents] /\ file'[f] = c
           /\ \A g \in Names : g # f => file'[g] = file[g]
  BY DEF Types

LEMMA ThreadType ==
    ASSUME NEW t \in Threads, t.at \in Playing, NEW w \in {"created", "polls", "ended"}
    PROVE  LET s == [t EXCEPT !.at = w]
           IN s \in Threads /\ s.at = w /\ s.item = t.item
  BY DEF Threads, Playing

LEMMA OverType == PreviewOver \in Threads /\ PreviewOver.at = "done"
  BY DEF PreviewOver, Threads, Playing

Uses == [records: 0 .. MaxRecords, plays: 0 .. MaxPlays, sends: 0 .. MaxSends]

LEMMA UsedType ==
    ASSUME Types
    PROVE  /\ used.records < MaxRecords =>
                  /\ used.records + 1 \in 1 .. MaxRecords
                  /\ [used EXCEPT !.records = used.records + 1] \in Uses
           /\ used.plays < MaxPlays =>
                  /\ used.plays + 1 \in 1 .. MaxPlays
                  /\ [used EXCEPT !.plays = used.plays + 1] \in Uses
           /\ used.sends < MaxSends => [used EXCEPT !.sends = used.sends + 1] \in Uses
<1>1. used \in Uses
  BY DEF Types, Uses
<1>2. /\ used.records < MaxRecords => used.records + 1 \in 1 .. MaxRecords
      /\ used.plays < MaxPlays => used.plays + 1 \in 1 .. MaxPlays
      /\ used.sends < MaxSends => used.sends + 1 \in 1 .. MaxSends
  BY <1>1, Bounds DEF Uses
<1> QED
  BY <1>1, <1>2, Bounds DEF Uses

LEMMA UserTypes ==
    ASSUME Types,
           \/ Record \/ Turn \/ Destroy
           \/ \E e \in Effects : ClickPlay(e) \/ ConfirmLocal(e)
           \/ \E i \in Items : ConfirmNet(i)
    PROVE  Types'
<1> USE DEF net, sound
<1>0. Begun \in SUBSET Sends /\ Names = {"wav", "new", "amr"} /\ file["wav"] \in Contents
  BY DEF Begun, Names, Types
<1>1. CASE Record
  <2>1. used.records + 1 \in 1 .. MaxRecords /\ [used EXCEPT !.records = @ + 1] \in Uses
    BY <1>1, UsedType DEF Record
  <2>2. Content(used.records + 1, none, TRUE, 0) \in Contents
    BY <2>1, Bounds DEF Content, Contents, Voices
  <2>3. file' \in [Names -> Contents]
    BY <1>0, <1>1, <2>2, FileType DEF Record
  <2>4. job' \in [Sends -> Jobs]
    BY <1>0, <1>1, DisturbedEffect DEF Record
  <2>5. UNCHANGED <<net, sound, screen, page, dialog, main>> /\ used' = [used EXCEPT !.records = @ + 1]
    BY <1>1 DEF Record
  <2> QED
    BY <2>1, <2>3, <2>4, <2>5 DEF Types, Uses
<1>2. CASE Turn
  <2>1. page' \in {"local", "other"} /\ UNCHANGED <<file, net, thread, current, screen, dialog, main, used>>
    BY <1>2 DEF Turn
  <2>2. engine' \in Engines
    <3>1. engine' = engine \/ engine' = [engine EXCEPT !.plays = FALSE, !.holds = Nothing]
      BY <1>2 DEF Turn, End
    <3> QED
      BY <3>1, EngineType, StopEffect, NothingType
  <2>3. marked' \subseteq Entities
    BY <1>2 DEF Turn, Types
  <2>4. job' \in [Sends -> Jobs]
    <3>1. job' = job \/ job' = Disturbed(Begun)
      BY <1>2 DEF Turn
    <3> QED
      BY <1>0, <3>1, DisturbedEffect DEF Types
  <2> QED
    BY <2>1, <2>2, <2>3, <2>4 DEF Types
<1>3. CASE Destroy
  BY <1>3, Bounds DEF Destroy, Types
<1>4. ASSUME NEW e \in Effects, ClickPlay(e) PROVE Types'
  <2>1. /\ <<screen, e>> \in Entities /\ used.plays + 1 \in Previews
        /\ [used EXCEPT !.plays = @ + 1] \in Uses
    <3>1. screen \in 1 .. MaxScreens
      BY DEF Types
    <3> QED
      BY <1>4, <3>1, UsedType DEF ClickPlay, Entities, Previews
  <2>2. thread' \in [Previews -> Threads]
    <3>1. [at |-> "new", item |-> <<screen, e>>] \in Threads
      BY <2>1 DEF Threads, Playing
    <3> QED
      BY <1>4, <3>1 DEF ClickPlay, Types
  <2>3. engine' \in Engines
    BY <1>4, StopEffect, NothingType DEF ClickPlay, End
  <2>4. job' \in [Sends -> Jobs]
    BY <1>0, <1>4, DisturbedEffect DEF ClickPlay
  <2>5. marked' \subseteq Entities /\ current' = <<screen, e>>
    BY <1>4, <2>1 DEF ClickPlay, Types
  <2>6. UNCHANGED <<file, net, screen, page, dialog, main>> /\ used' = [used EXCEPT !.plays = @ + 1]
    BY <1>4 DEF ClickPlay
  <2> QED
    BY <2>1, <2>2, <2>3, <2>4, <2>5, <2>6 DEF Types, Uses
<1>5. ASSUME NEW e \in Effects, ConfirmLocal(e) PROVE Types'
  <2> DEFINE w == file["wav"]
  <2>1. Content(w.voice, e, w.whole, 0) \in Contents
    <3>1. /\ w.voice \in Voices \cup {none} /\ w.whole \in BOOLEAN
          /\ e \in Effects \cup {none} /\ 0 \in 0 .. MaxSends
      BY <1>0, Bounds DEF Contents
    <3> HIDE DEF w
    <3> QED
      BY <3>1, ContentType
  <2>2. Fits("new", e) /\ "new" \in Ats
    BY DEF Fits, Ats, LocalAts, NetAts
  <2>3. Confirm("local", e, Content(w.voice, e, w.whole, 0), "new")
    BY <1>5 DEF ConfirmLocal
  <2> HIDE DEF w
  <2>4. /\ used.sends + 1 \in Sends /\ job' \in [Sends -> Jobs]
        /\ dialog' = used.sends + 1 /\ used' = [used EXCEPT !.sends = used.sends + 1]
    BY <2>1, <2>2, <2>3, ConfirmEffect
  <2>5. engine' \in Engines
    BY <1>5, StopEffect, NothingType DEF ConfirmLocal, End
  <2>6. marked' \subseteq marked /\ UNCHANGED <<file, net, thread, current, screen, page, main>>
    BY <1>5 DEF ConfirmLocal
  <2>7. dialog' \in 0 .. MaxSends /\ used' \in
           [records: 0 .. MaxRecords, plays: 0 .. MaxPlays, sends: 0 .. MaxSends]
    BY <2>4, Bounds DEF Types
  <2> QED
    BY <2>4, <2>5, <2>6, <2>7 DEF Types
<1>6. ASSUME NEW i \in Items, ConfirmNet(i) PROVE Types'
  <2>1. PICK w \in {"convert", "download"} : Confirm("net", i, Content(i, none, TRUE, 0), w)
    <3> DEFINE cached == row.item = i /\ down[i].length # Missing /\ down[i].length = row.size
    <3>1. Confirm("net", i, Content(i, none, TRUE, 0), IF cached THEN "convert" ELSE "download")
      BY <1>6, Zenon DEF ConfirmNet
    <3> HIDE DEF cached
    <3>2. CASE cached
      <4>1. (IF cached THEN "convert" ELSE "download") = "convert"
        BY <3>2
      <4> QED
        BY <3>1, <4>1, Zenon
    <3>3. CASE ~cached
      <4>1. (IF cached THEN "convert" ELSE "download") = "download"
        BY <3>3
      <4> QED
        BY <3>1, <4>1, Zenon
    <3> QED
      BY <3>2, <3>3
  <2>2. Fits(w, i) /\ w \in Ats
    BY <2>1 DEF Fits, Ats, LocalAts, NetAts
  <2>3. Content(i, none, TRUE, 0) \in Contents
    BY Bounds DEF Content, Contents, Voices
  <2>4. /\ used.sends + 1 \in Sends /\ job' \in [Sends -> Jobs]
        /\ dialog' = used.sends + 1 /\ used' = [used EXCEPT !.sends = used.sends + 1]
    BY <2>1, <2>2, <2>3, ConfirmEffect
  <2>5. down' \in [Items -> Downs]
    <3>1. [by |-> 0, length |-> Missing] \in Downs
      BY Bounds DEF Downs, Missing, Full
    <3>2. down' = down \/ down' = [down EXCEPT ![i] = [by |-> 0, length |-> Missing]]
      BY <1>6 DEF ConfirmNet
    <3> QED
      BY <3>1, <3>2 DEF Types
  <2>6. UNCHANGED <<file, row, ffmpeg, sound, screen, page, main>>
    BY <1>6 DEF ConfirmNet
  <2>7. dialog' \in 0 .. MaxSends /\ used' \in
           [records: 0 .. MaxRecords, plays: 0 .. MaxPlays, sends: 0 .. MaxSends]
    BY <2>4, Bounds DEF Types
  <2> QED
    BY <2>4, <2>5, <2>6, <2>7 DEF Types
<1> QED
  BY <1>1, <1>2, <1>3, <1>4, <1>5, <1>6

LEMMA PreviewTypes ==
    ASSUME Types, NEW p \in Previews, Preview(p)
    PROVE  Types'
<1> USE DEF net
<1>1. thread \in [Previews -> Threads] /\ thread[p] \in Threads /\ thread[p].item \in Entities \cup {none}
  BY DEF Types, Threads
<1>2. CASE PreviewCreate(p)
  <2>1. thread' = [thread EXCEPT ![p] = [thread[p] EXCEPT !.at = "created"]] /\ thread[p].at = "new"
    BY <1>2 DEF PreviewCreate
  <2>2. thread' \in [Previews -> Threads]
    BY <1>1, <2>1, ThreadType DEF Playing
  <2>3. engine' \in Engines
    BY <1>2, StopEffect DEF PreviewCreate, Types, Names
  <2> QED
    BY <1>2, <2>2, <2>3 DEF PreviewCreate, Types
<1>3. CASE PreviewPlay(p)
  <2>1. thread' = [thread EXCEPT ![p] = [thread[p] EXCEPT !.at = "polls"]] /\ thread[p].at = "created"
    BY <1>3 DEF PreviewPlay
  <2>2. thread' \in [Previews -> Threads]
    BY <1>1, <2>1, ThreadType DEF Playing
  <2>3. thread[p].item[2] \in Effects
    BY <1>1, <2>1 DEF Threads, Playing, Entities
  <2>4. engine' \in Engines
    BY <1>3, <2>3, PlayEffect DEF PreviewPlay
  <2> QED
    BY <1>3, <2>2, <2>4 DEF PreviewPlay, Types
<1>4. CASE Poll(p)
  <2>1. thread' \in [Previews -> Threads]
    <3>1. \/ thread' = [thread EXCEPT ![p] = PreviewOver]
          \/ thread' = [thread EXCEPT ![p] = [thread[p] EXCEPT !.at = "ended"]]
      BY <1>4 DEF Poll
    <3>2. thread[p].at = "polls"
      BY <1>4 DEF Poll
    <3> QED
      BY <1>1, <3>1, <3>2, OverType, ThreadType DEF Playing
  <2>2. UNCHANGED <<file, net, engine, marked, current, job, screen, page, dialog, main, used>>
    BY <1>4 DEF Poll
  <2> QED
    BY <2>1, <2>2 DEF Types
<1>5. CASE Told(p)
  <2>1. thread' \in [Previews -> Threads]
    BY <1>1, <1>5, OverType DEF Told
  <2>2. /\ marked' \subseteq marked
        /\ UNCHANGED <<file, net, engine, current, job, screen, page, dialog, main, used>>
    BY <1>5 DEF Told
  <2> QED
    BY <2>1, <2>2 DEF Types
<1> QED
  BY <1>2, <1>3, <1>4, <1>5 DEF Preview

\* A received length and a version of it, for the job of a download.
LEMMA GotType ==
    ASSUME NEW j \in Jobs, NEW g \in Missing .. Full
    PROVE  LET k == [j EXCEPT !.got = g]
           IN k \in Jobs /\ k.got = g /\ k.at = j.at /\ k.item = j.item /\ k.want = j.want
              /\ k.alone = j.alone
  BY DEF Jobs, AllJobs

LEMMA SizeType ==
    ASSUME NEW j \in Jobs, NEW s \in {Full, -1}
    PROVE  LET k == [j EXCEPT !.size = s]
           IN k \in Jobs /\ k.got = j.got /\ k.at = j.at /\ k.item = j.item /\ k.want = j.want
              /\ k.alone = j.alone
  BY DEF Jobs, AllJobs

LEMMA DownType ==
    ASSUME Types, NEW i \in Items, NEW d \in Downs, down' = down \/ down' = [down EXCEPT ![i] = d]
    PROVE  down' \in [Items -> Downs]
  BY DEF Types

LEMMA LocalTypes ==
    ASSUME Types, NEW n \in Sends,
           SaveBegin(n) \/ SavePlay(n) \/ SaveDone(n) \/ EncodeLocal(n)
    PROVE  Types'
<1> USE DEF net, sound
<1>0. /\ job[n] \in Jobs /\ n \in 0 .. MaxSends /\ Garbled(n) \in Contents
      /\ Names = {"wav", "new", "amr"} /\ \A f \in Names : file[f] \in Contents
  BY GarbledType, Bounds DEF Types, Names
<1>1. CASE SaveBegin(n)
  <2>1. CASE Orphan(n)
    BY <2>1, OrphanTypes
  <2>2. CASE ~Orphan(n)
    <3>1. /\ job[n].at = "new" /\ At(n, "saving")
          /\ file' = [file EXCEPT !["new"] = Garbled(n)]
          /\ engine' = [plays |-> FALSE, out |-> n, holds |-> file["wav"]]
          /\ UNCHANGED <<net, thread, marked, current, screen, page, dialog, main, used>>
      BY <1>1, <2>2 DEF SaveBegin
    <3>2. "saving" \in Ats /\ Fits("saving", job[n].item)
      BY <1>0, <3>1, JobFields DEF Ats, Fits, LocalAts, NetAts
    <3>3. job' \in [Sends -> Jobs]
      BY <3>1, <3>2, AtEffect
    <3>4. file' \in [Names -> Contents]
      BY <1>0, <3>1, FileType
    <3>5. engine' \in Engines
      BY <1>0, <3>1 DEF Engines
    <3> QED
      BY <3>1, <3>3, <3>4, <3>5 DEF Types
  <2> QED
    BY <2>1, <2>2
<1>2. CASE SavePlay(n)
  <2>1. job[n].at = "saving" /\ At(n, "render")
    BY <1>2 DEF SavePlay
  <2>2. "render" \in Ats /\ Fits("render", job[n].item) /\ job[n].item \in Effects
    BY <1>0, <2>1, JobFields DEF Ats, Fits, LocalAts, NetAts
  <2>3. job' \in [Sends -> Jobs]
    BY <2>1, <2>2, AtEffect
  <2>4. engine' \in Engines
    BY <1>2, <2>2, PlayEffect DEF SavePlay
  <2> QED
    BY <1>2, <2>3, <2>4 DEF SavePlay, Types
<1>3. CASE SaveDone(n)
  <2>1. job[n].at = "render" /\ At(n, "saved")
    BY <1>3 DEF SaveDone
  <2>2. "saved" \in Ats /\ Fits("saved", job[n].item)
    BY <1>0, <2>1, JobFields DEF Ats, Fits, LocalAts, NetAts
  <2>3. job' \in [Sends -> Jobs]
    BY <2>1, <2>2, AtEffect
  <2>4. engine' \in Engines
    BY <1>3, EngineType, Bounds DEF SaveDone, Engines
  <2> QED
    BY <1>3, <2>3, <2>4 DEF SaveDone, Types
<1>4. CASE EncodeLocal(n)
  <2>1. CASE Orphan(n)
    BY <2>1, OrphanTypes
  <2>2. CASE ~Orphan(n)
    <3>1. /\ Encode(n, file["new"])
          /\ file' = [file EXCEPT !["amr"] = Garbled(n)]
          /\ UNCHANGED <<net, sound, screen, page, dialog, main, used>>
      BY <1>4, <2>2 DEF EncodeLocal
    <3>2. job' \in [Sends -> Jobs]
      BY <1>0, <3>1, EncodeEffect
    <3>3. file' \in [Names -> Contents]
      BY <1>0, <3>1, FileType
    <3> QED
      BY <3>1, <3>2, <3>3 DEF Types
  <2> QED
    BY <2>1, <2>2
<1> QED
  BY <1>1, <1>2, <1>3, <1>4

LEMMA EndTypes ==
    ASSUME Types, NEW n \in Sends,
           EncodeEnd(n) \/ EncodeFails(n) \/ Deliver(n) \/ Failed(n) \/ HostReads(n)
    PROVE  Types'
<1> USE DEF net, sound
<1>0. /\ job[n] \in Jobs /\ n \in 0 .. MaxSends /\ job[n].src \in Contents
      /\ Names = {"wav", "new", "amr"} /\ \A f \in Names : file[f] \in Contents
  BY JobFields, Bounds DEF Types, Names
<1>1. /\ {"encoded", "broken", "sent"} \subseteq Ats
      /\ {"read", "dropped", "failed"} \subseteq Over
      /\ \A w \in {"encoded", "broken", "sent"} : Fits(w, job[n].item)
  BY DEF Ats, Over, Fits, LocalAts, NetAts
<1>2. CASE EncodeEnd(n)
  <2>1. CASE Crash
    BY <2>1, CrashTypes DEF Crash
  <2>2. CASE ~Crash
    <3>1. /\ At(n, "encoded")
          /\ file' = file \/ file' = [file EXCEPT !["amr"] = [job[n].src EXCEPT !.by = n]]
          /\ main' \in {main, 0}
          /\ UNCHANGED <<net, sound, screen, page, dialog, used>>
      BY <1>2, <2>2 DEF EncodeEnd
    <3>2. job' \in [Sends -> Jobs]
      BY <1>1, <3>1, AtEffect
    <3>3. file' \in [Names -> Contents]
      <4>1. [job[n].src EXCEPT !.by = n] \in Contents
        BY <1>0, ByType
      <4> QED
        BY <1>0, <3>1, <4>1, FileType DEF Types
    <3> QED
      BY <3>1, <3>2, <3>3, Bounds DEF Types
  <2> QED
    BY <2>1, <2>2
<1>3. CASE EncodeFails(n)
  <2>1. CASE Orphan(n)
    BY <2>1, OrphanTypes
  <2>2. CASE ~Orphan(n)
    <3>1. /\ At(n, "broken") /\ main' \in {main, 0}
          /\ UNCHANGED <<file, net, sound, screen, page, dialog, used>>
      BY <1>3, <2>2 DEF EncodeFails
    <3>2. job' \in [Sends -> Jobs]
      BY <1>1, <3>1, AtEffect
    <3> QED
      BY <3>1, <3>2, Bounds DEF Types
  <2> QED
    BY <2>1, <2>2
<1>4. CASE Deliver(n)
  <2>1. CASE CrashAfter({n})
    BY <2>1, CrashTypes
  <2>2. CASE ~CrashAfter({n})
    <3>1. /\ At(n, "sent") \/ Finish(n, "dropped")
          /\ dialog' \in {dialog, 0}
          /\ UNCHANGED <<file, net, sound, screen, page, main, used>>
      BY <1>4, <2>2 DEF Deliver, CloseDialog
    <3>2. job' \in [Sends -> Jobs]
      BY <1>1, <3>1, AtEffect, FinishEffect
    <3> QED
      BY <3>1, <3>2, Bounds DEF Types
  <2> QED
    BY <2>1, <2>2
<1>5. CASE Failed(n)
  <2>1. /\ Finish(n, "dropped") \/ Finish(n, "failed")
        /\ dialog' \in {dialog, 0}
        /\ UNCHANGED <<file, net, sound, screen, page, main, used>>
    BY <1>5 DEF Failed, CloseDialog
  <2>2. job' \in [Sends -> Jobs]
    BY <1>1, <2>1, FinishEffect
  <2> QED
    BY <2>1, <2>2, Bounds DEF Types
<1>6. CASE HostReads(n)
  <2>1. job' \in [Sends -> Jobs]
    BY <1>1, <1>6, FinishEffect DEF HostReads
  <2> QED
    BY <1>6, <2>1 DEF HostReads, Types
<1> QED
  BY <1>2, <1>3, <1>4, <1>5, <1>6

LEMMA NetTypes ==
    ASSUME Types, NEW n \in Sends,
           \/ DownloadStart(n) \/ DownloadMore(n) \/ Progress(n) \/ DownloadDone(n)
           \/ DownloadFails(n) \/ Convert(n) \/ FfmpegDone(n) \/ FfmpegFails(n)
    PROVE  Types'
<1> USE DEF net, sound
<1> DEFINE i == job[n].item
<1>0. /\ job[n] \in Jobs /\ job \in [Sends -> Jobs] /\ n \in 0 .. MaxSends /\ Garbled(n) \in Contents
      /\ Nothing \in Contents /\ file \in [Names -> Contents] /\ Names = {"wav", "new", "amr"}
      /\ job[n].at \in NetAts => i \in Items
      /\ job[n].got \in Missing .. Full /\ job[n].size \in {-1, 0, Full}
  BY GarbledType, NothingType, JobFields, Bounds DEF Types, Names, Fits
<1>1. /\ NetAts \cup {"broken"} \subseteq Ats /\ {"failed", "dropped"} \subseteq Over
      /\ i \in Items => \A w \in NetAts \cup {"broken"} : Fits(w, i)
  BY DEF Ats, Over, Fits, LocalAts, NetAts
<1> HIDE DEF i
<1>2. CASE DownloadStart(n)
  <2>1. /\ At(n, "write") /\ job[n].at = "download"
        /\ down' = [down EXCEPT ![i] = [by |-> n, length |-> 0]]
        /\ UNCHANGED <<file, row, ffmpeg, sound, screen, page, dialog, main, used>>
    BY <1>2 DEF DownloadStart, i
  <2>2. i \in Items
    BY <1>0, <2>1 DEF NetAts
  <2>3. job' \in [Sends -> Jobs]
    BY <1>1, <2>1, <2>2, AtEffect DEF NetAts, i
  <2>4. [by |-> n, length |-> 0] \in Downs
    BY <1>0 DEF Downs, Missing, Full
  <2>5. down' \in [Items -> Downs]
    BY <2>1, <2>2, <2>4, DownType
  <2> QED
    BY <2>1, <2>3, <2>5 DEF Types
<1>3. CASE DownloadMore(n)
  <2>1. /\ job[n].at = "write" /\ job[n].got + 1 \in Missing .. Full
        /\ job' = [job EXCEPT ![n] = [job[n] EXCEPT !.got = job[n].got + 1]]
        /\ down' = down \/ down' = [down EXCEPT ![i] = [down[i] EXCEPT !.length = job[n].got + 1]]
        /\ UNCHANGED <<file, row, ffmpeg, sound, screen, page, dialog, main, used>>
    BY <1>0, <1>3 DEF DownloadMore, i, Missing, Full
  <2>2. i \in Items /\ down[i] \in Downs
    BY <1>0, <2>1 DEF NetAts, Types
  <2>3. job' \in [Sends -> Jobs]
    BY <1>0, <2>1, GotType
  <2>4. [down[i] EXCEPT !.length = job[n].got + 1] \in Downs
    BY <2>1, <2>2 DEF Downs
  <2>5. down' \in [Items -> Downs]
    BY <2>1, <2>2, <2>4, DownType
  <2> QED
    BY <2>1, <2>3, <2>5 DEF Types
<1>4. CASE Progress(n)
  <2>1. PICK s \in {Full, -1} : job' = [job EXCEPT ![n] = [job[n] EXCEPT !.size = s]]
    BY <1>4 DEF Progress
  <2>2. job' \in [Sends -> Jobs]
    BY <1>0, <2>1, SizeType
  <2>3. UNCHANGED <<file, net, sound, screen, page, dialog, main, used>>
    BY <1>4 DEF Progress
  <2> QED
    BY <2>2, <2>3 DEF Types
<1>5. CASE DownloadDone(n)
  <2>1. /\ job[n].at = "write"
        /\ \/ Finish(n, "dropped") /\ UNCHANGED row
           \/ At(n, "convert") /\ row' = [item |-> i, size |-> job[n].size]
        /\ UNCHANGED <<file, down, ffmpeg, sound, screen, page, dialog, main, used>>
    BY <1>5 DEF DownloadDone, i
  <2>2. i \in Items
    BY <1>0, <2>1 DEF NetAts
  <2>3. job' \in [Sends -> Jobs]
    BY <1>1, <2>1, <2>2, AtEffect, FinishEffect DEF NetAts, i
  <2>4. row' \in Rows
    BY <1>0, <2>1, <2>2 DEF Rows, Types
  <2> QED
    BY <2>1, <2>3, <2>4 DEF Types
<1>6. CASE DownloadFails(n)
  <2>1. CASE Orphan(n)
    BY <2>1, OrphanTypes
  <2>2. CASE ~Orphan(n)
    <3>1. /\ Finish(n, "failed") /\ dialog' \in {dialog, 0}
          /\ UNCHANGED <<file, net, sound, screen, page, main, used>>
      BY <1>6, <2>2 DEF DownloadFails, CloseDialog
    <3>2. job' \in [Sends -> Jobs]
      BY <1>1, <3>1, FinishEffect
    <3> QED
      BY <3>1, <3>2, Bounds DEF Types
  <2> QED
    BY <2>1, <2>2
<1>7. CASE Convert(n)
  <2>1. PICK w \in {"ffmpeg", "broken"}, c \in {Content(i, none, FALSE, n), Nothing} :
           /\ job[n].at = "convert"
           /\ job' = [job EXCEPT ![n] = [[job[n] EXCEPT !.at = w] EXCEPT !.got = down[i].length]]
           /\ file' = [file EXCEPT !["amr"] = Nothing, !["wav"] = c]
           /\ ffmpeg' \in {n, ffmpeg}
           /\ UNCHANGED <<down, row, sound, screen, page, dialog, main, used>>
    BY <1>7 DEF Convert, i
  <2>2. i \in Items /\ down[i].length \in Missing .. Full
    BY <1>0, <2>1 DEF NetAts, Types, Downs
  <2>3. job' \in [Sends -> Jobs]
    <3>1. [job[n] EXCEPT !.at = w] \in Jobs
      BY <1>0, <1>1, <2>2, Moved DEF NetAts, i
    <3> QED
      BY <1>0, <2>1, <2>2, <3>1, GotType
  <2>4. file' \in [Names -> Contents]
    <3>1. c \in Contents
      <4>1. Content(i, none, FALSE, n) \in Contents
        BY <1>0, <2>2 DEF Content, Contents, Voices
      <4> QED
        BY <1>0, <2>1, <4>1
    <3> QED
      BY <1>0, <2>1, <3>1
  <2> QED
    BY <1>0, <2>1, <2>3, <2>4 DEF Types
<1>8. CASE FfmpegDone(n)
  <2>1. PICK w : /\ w = IF file["wav"].by = n
                        THEN Content(job[n].item, none, job[n].got = Full, n) ELSE file["wav"]
                 /\ job[n].at = "ffmpeg"
                 /\ file' = [file EXCEPT !["wav"] = w, !["amr"] = Garbled(n)]
                 /\ Encode(n, w)
                 /\ main' = n /\ ffmpeg' = 0
                 /\ UNCHANGED <<down, row, sound, screen, page, dialog, used>>
    BY <1>8, Zenon DEF FfmpegDone
  <2>2. w \in Contents
    <3>1. PICK b \in BOOLEAN : w = Content(i, none, b, n) \/ w = file["wav"]
      BY <2>1, Zenon DEF i
    <3>2. i \in Items
      BY <1>0, <2>1 DEF NetAts
    <3> QED
      BY <1>0, <3>1, <3>2, ItemContent
  <2>3. job' \in [Sends -> Jobs]
    BY <2>1, <2>2, EncodeEffect
  <2>4. file' \in [Names -> Contents]
    BY <1>0, <2>1, <2>2
  <2> QED
    BY <1>0, <2>1, <2>3, <2>4, Bounds DEF Types
<1>9. CASE FfmpegFails(n)
  BY <1>9, CrashTypes DEF FfmpegFails, Crash
<1> QED
  BY <1>2, <1>3, <1>4, <1>5, <1>6, <1>7, <1>8, <1>9

LEMMA NextTypes ==
    ASSUME Types, [Next]_vars
    PROVE  Types'
<1>1. CASE SoundEnds
  <2>1. engine' \in Engines /\ file' \in [Names -> Contents]
    BY <1>1, SoundEffect
  <2> QED
    BY <1>1, <2>1 DEF SoundEnds, Types, net
<1>2. CASE UNCHANGED vars
  BY <1>2 DEF vars, net, sound, Types
<1>3. ASSUME NEW n \in Sends, Send(n) \/ HostReads(n) PROVE Types'
  BY <1>3, LocalTypes, NetTypes, EndTypes DEF Send
<1> QED
  BY <1>1, <1>2, <1>3, UserTypes, PreviewTypes DEF Next

-----------------------------------------------------------------------------
(* The marks.                                                                *)

\* A preview that was not clicked yet has no thread, so that the next click
\* takes no thread from a mark.
Unused == \A p \in Previews : p > used.plays => thread[p].at = "none"

\* A send takes no part in the previews, unless the process ends.
LEMMA SendEffect ==
    ASSUME NEW n \in Sends, Send(n) \/ HostReads(n)
    PROVE  \/ CrashAfter({}) \/ CrashAfter({n})
           \/ UNCHANGED <<thread, marked, current, used>>
<1> USE DEF net, sound, Orphan, Crash
<1>1. CASE SaveBegin(n) \/ SavePlay(n) \/ SaveDone(n) \/ EncodeLocal(n)
  BY <1>1 DEF SaveBegin, SavePlay, SaveDone, EncodeLocal
<1>2. CASE DownloadStart(n) \/ DownloadMore(n) \/ Progress(n) \/ DownloadDone(n) \/ DownloadFails(n)
  BY <1>2 DEF DownloadStart, DownloadMore, Progress, DownloadDone, DownloadFails
<1>3. CASE Convert(n) \/ FfmpegDone(n) \/ FfmpegFails(n)
  BY <1>3 DEF Convert, FfmpegDone, FfmpegFails
<1>4. CASE EncodeEnd(n) \/ EncodeFails(n) \/ Deliver(n) \/ Failed(n) \/ HostReads(n)
  BY <1>4 DEF EncodeEnd, EncodeFails, Deliver, Failed, HostReads
<1> QED
  BY <1>1, <1>2, <1>3, <1>4 DEF Send

LEMMA NextMarks ==
    ASSUME Types, Unused, MarkHasThread, [Next]_vars
    PROVE  Unused' /\ MarkHasThread'
<1> USE DEF net, sound
<1>0. /\ used.plays \in 0 .. MaxPlays /\ thread \in [Previews -> Threads]
      /\ Previews = 1 .. MaxPlays /\ MaxPlays \in Nat
  BY Bounds DEF Types, Previews
<1>1. ASSUME thread' = thread, marked' \subseteq marked, used'.plays = used.plays
      PROVE  Unused' /\ MarkHasThread'
  BY <1>1 DEF Unused, MarkHasThread
<1>2. CASE Record \/ Turn \/ Destroy \/ SoundEnds \/ UNCHANGED vars
  <2>1. CASE Record
    <3>1. used'.plays = used.plays
      BY <2>1 DEF Record, Types
    <3> QED
      BY <1>1, <2>1, <3>1 DEF Record
  <2>2. CASE Turn \/ Destroy \/ SoundEnds \/ UNCHANGED vars
    <3>1. thread' = thread /\ marked' \subseteq marked /\ used' = used
      BY <2>2 DEF Turn, Destroy, SoundEnds, vars
    <3> QED
      BY <1>1, <3>1
  <2> QED
    BY <1>2, <2>1, <2>2
<1>3. ASSUME NEW e \in Effects, ClickPlay(e) PROVE Unused' /\ MarkHasThread'
  <2> DEFINE q == used.plays + 1
  <2>1. /\ thread' = [thread EXCEPT ![q] = [at |-> "new", item |-> <<screen, e>>]]
        /\ marked' = (marked \cup {<<screen, e>>}) \ {current}
        /\ q \in Previews
    BY <1>0, <1>3 DEF ClickPlay
  <2>2. used'.plays = q
    BY <1>3 DEF ClickPlay, Types
  <2>3. thread[q].at = "none"
    BY <1>0, <2>1 DEF Unused
  <2>4. thread'[q] = [at |-> "new", item |-> <<screen, e>>] /\ \A p \in Previews \ {q} : thread'[p] = thread[p]
    BY <1>0, <2>1
  <2>5. Unused'
    BY <1>0, <2>2, <2>4 DEF Unused
  <2> HIDE DEF q
  <2>6. ASSUME NEW x \in marked'
        PROVE  \E p \in Previews : thread'[p].item = x /\ thread'[p].at \in Playing
    <3>1. CASE x = <<screen, e>>
      BY <2>1, <2>4, <3>1 DEF Playing
    <3>2. CASE x \in marked
      <4>1. PICK p \in Previews : thread[p].item = x /\ thread[p].at \in Playing
        BY <3>2 DEF MarkHasThread, Playing
      <4>2. p # q
        BY <2>3, <4>1 DEF Playing
      <4> QED
        BY <2>4, <4>1, <4>2
    <3> QED
      BY <2>1, <3>1, <3>2
  <2> QED
    BY <2>5, <2>6 DEF MarkHasThread, Playing
<1>4. ASSUME NEW e \in Effects, ConfirmLocal(e) PROVE Unused' /\ MarkHasThread'
  <2>1. used' = [used EXCEPT !.sends = used.sends + 1] /\ thread' = thread /\ marked' \subseteq marked
    BY <1>4 DEF ConfirmLocal, Confirm
  <2>2. used'.plays = used.plays
    BY <2>1 DEF Types
  <2> QED
    BY <1>1, <2>1, <2>2
<1>5. ASSUME NEW i \in Items, ConfirmNet(i) PROVE Unused' /\ MarkHasThread'
  <2>1. used' = [used EXCEPT !.sends = used.sends + 1] /\ thread' = thread /\ marked' \subseteq marked
    BY <1>5 DEF ConfirmNet, Confirm
  <2>2. used'.plays = used.plays
    BY <2>1 DEF Types
  <2> QED
    BY <1>1, <2>1, <2>2
<1>6. ASSUME NEW S, CrashAfter(S) PROVE Unused' /\ MarkHasThread'
  BY <1>6 DEF CrashAfter, Unused, MarkHasThread
<1>7. ASSUME NEW n \in Sends, Send(n) \/ HostReads(n) PROVE Unused' /\ MarkHasThread'
  <2>1. CASE UNCHANGED <<thread, marked, used>>
    BY <1>1, <2>1
  <2> QED
    BY <1>6, <1>7, <2>1, SendEffect
<1>8. ASSUME NEW p \in Previews, Preview(p) PROVE Unused' /\ MarkHasThread'
  <2>1. used' = used /\ marked' \subseteq marked /\ thread[p].at \in Playing
    BY <1>8 DEF Preview, PreviewCreate, PreviewPlay, Poll, Told, Playing
  <2>2. \A q \in Previews \ {p} : thread'[q] = thread[q]
    BY <1>0, <1>8 DEF Preview, PreviewCreate, PreviewPlay, Poll, Told
  <2>3. Unused'
    <3>1. ~(p > used.plays)
      BY <2>1 DEF Unused, Playing
    <3> QED
      BY <2>1, <2>2, <3>1 DEF Unused
  <2>4. thread[p].item \in marked' => thread'[p].item = thread[p].item /\ thread'[p].at \in Playing
    <3>1. ASSUME NEW t \in Threads, t.at \in Playing, NEW w \in {"created", "polls", "ended"}
          PROVE  [t EXCEPT !.at = w].item = t.item /\ [t EXCEPT !.at = w].at \in Playing
      BY <3>1, ThreadType DEF Playing
    <3>2. CASE \E w \in {"created", "polls", "ended"} :
                  thread' = [thread EXCEPT ![p] = [thread[p] EXCEPT !.at = w]]
      BY <1>0, <2>1, <3>1, <3>2
    <3>3. CASE Poll(p) /\ thread[p].item \notin marked
      BY <2>1, <3>3
    <3>4. CASE Told(p)
      BY <3>4 DEF Told
    <3> QED
      BY <1>8, <3>2, <3>3, <3>4 DEF Preview, PreviewCreate, PreviewPlay, Poll
  <2>5. ASSUME NEW x \in marked'
        PROVE  \E q \in Previews : thread'[q].item = x /\ thread'[q].at \in Playing
    <3>1. PICK q \in Previews : thread[q].item = x /\ thread[q].at \in Playing
      BY <2>1, <2>5 DEF MarkHasThread, Playing
    <3> QED
      BY <2>2, <2>4, <2>5, <3>1
  <2> QED
    BY <2>3, <2>5 DEF MarkHasThread, Playing
<1> QED
  BY <1>2, <1>3, <1>4, <1>5, <1>7, <1>8 DEF Next

-----------------------------------------------------------------------------
(* A send that is left alone.                                                *)

\* What is true of the files and the engine at each point of such a send.
Stage(n) ==
    LET j == job[n]
        w == job[n].want
    IN /\ j.at \in {"new", "saving", "render"} => j.item = w.effect
       /\ j.at = "new" => /\ file["wav"] # Nothing
                          /\ file["wav"].voice = w.voice /\ file["wav"].whole = w.whole
       /\ j.at = "saving" => /\ engine.out = n /\ file["new"].by = n
                             /\ ~engine.plays /\ engine.holds # Nothing
                             /\ engine.holds.voice = w.voice /\ engine.holds.whole = w.whole
       /\ j.at = "render" => /\ engine.out = n /\ file["new"].by = n
                             /\ engine.plays => Same(engine.holds, w)
                             /\ ~engine.plays => Same(file["new"], w)
       /\ j.at = "saved" => engine.out = 0 /\ Same(file["new"], w)
       /\ j.at \in NetAts => w.voice = j.item /\ w.effect = none /\ w.whole = TRUE
       /\ j.at = "download" => j.got = 0
       /\ j.at = "write" => down[j.item].by = n /\ down[j.item].length = j.got
       /\ j.at = "convert" => down[j.item].length \in {Missing, 0, Full}
       /\ j.at = "ffmpeg" => file["wav"].by = n /\ j.got \in {Missing, 0, Full}
       /\ j.at = "encode" => file["amr"].by = n /\ Same(j.src, w)
       /\ j.at \in {"encoded", "sent"} => Same(file["amr"], w)

\* No other send is under way or alone, and no preview starts.
Lone(n) ==
    job[n].alone =>
        /\ \A m \in Sends : m \in Begun \/ job[m].alone => m = n
        /\ n \in Begun => \A p \in Previews : thread[p].at \notin {"new", "created"}
        /\ Stage(n)

Alone == \A n \in Sends : Lone(n)

\* Stage speaks of the job, the files, the downloads and the engine only.
LEMMA StageKept ==
    ASSUME NEW n \in Sends, Stage(n), job'[n] = job[n], UNCHANGED <<file, down, engine>>
    PROVE  Stage(n)'
  BY DEF Stage, Same

\* Once it is sent only the file to send matters.
LEMMA SentKept ==
    ASSUME NEW n \in Sends, Stage(n), job'[n] = job[n], n \notin Begun, file'["amr"] = file["amr"]
    PROVE  Stage(n)'
  BY DEF Stage, Same, Begun, Over, NetAts

LEMMA PreviewAlone ==
    ASSUME Types, Alone, NEW p \in Previews, Preview(p)
    PROVE  Alone'
<1>1. /\ UNCHANGED <<file, down, job>>
      /\ thread \in [Previews -> Threads] /\ \A q \in Previews \ {p} : thread'[q] = thread[q]
  BY DEF Preview, PreviewCreate, PreviewPlay, Poll, Told, net, Types
<1>2. ASSUME NEW n \in Sends, job'[n].alone PROVE Lone(n)'
  <2>1. job'[n] = job[n] /\ Begun' = Begun /\ job[n].alone /\ Lone(n)
    BY <1>1, <1>2 DEF Begun, Alone
  <2>2. CASE n \in Begun
    <3>1. thread[p].at \notin {"new", "created"}
      BY <2>1, <2>2 DEF Lone
    <3>2. Poll(p) \/ Told(p)
      BY <3>1 DEF Preview, PreviewCreate, PreviewPlay
    <3>3. engine' = engine /\ thread'[p].at \notin {"new", "created"}
      BY <1>1, <3>1, <3>2 DEF Poll, Told, PreviewOver, Threads
    <3> QED
      BY <1>1, <2>1, <3>3, StageKept DEF Lone
  <2>3. CASE n \notin Begun
    BY <1>1, <2>1, <2>3, SentKept DEF Lone
  <2> QED
    BY <2>2, <2>3
<1> QED
  BY <1>2 DEF Alone, Lone

LEMMA SoundAlone ==
    ASSUME Types, Alone, SoundEnds
    PROVE  Alone'
<1>1. UNCHANGED <<net, thread, job>>
  BY DEF SoundEnds
<1>2. ASSUME NEW n \in Sends, job'[n].alone PROVE Lone(n)'
  <2>1. Begun' = Begun /\ Lone(n) /\ job'[n] = job[n] /\ down' = down /\ job[n].alone
    BY <1>1, <1>2 DEF Begun, Alone, net
  <2>2. Stage(n)
    BY <1>1, <1>2, <2>1 DEF Lone
  <2>3. /\ engine.plays /\ ~engine'.plays
        /\ engine'.out = engine.out /\ engine'.holds = engine.holds
        /\ file'["wav"] = file["wav"] /\ file'["amr"] = file["amr"]
        /\ file'["new"].by = file["new"].by
        /\ engine.out = 0 => file' = file
        /\ engine.out # 0 /\ file["new"].by = engine.out => Same(file'["new"], engine.holds)
    BY SoundEffect
  <2>4. n # 0
    BY Bounds
  <2>5. Stage(n)'
    BY <2>1, <2>2, <2>3, <2>4 DEF Stage, Same
  <2> QED
    BY <1>1, <2>1, <2>5 DEF Lone
<1> QED
  BY <1>2 DEF Alone, Lone

LEMMA UserAlone ==
    ASSUME Types, Alone,
           \/ Record \/ Turn \/ Destroy
           \/ \E e \in Effects : ClickPlay(e) \/ ConfirmLocal(e)
           \/ \E i \in Items : ConfirmNet(i)
    PROVE  Alone'
<1>0. Begun \in SUBSET Sends /\ Names = {"wav", "new", "amr"} /\ file \in [Names -> Contents]
  BY DEF Begun, Names, Types
<1>1. ASSUME job' = Disturbed(Begun), file'["amr"] = file["amr"] PROVE Alone'
  <2>1. ASSUME NEW n \in Sends, job'[n].alone PROVE Lone(n)'
    <3>1. /\ \A m \in Sends : job'[m].at = job[m].at /\ (job'[m].alone => job'[m] = job[m])
          /\ n \notin Begun
      BY <1>0, <1>1, <2>1, DisturbedEffect
    <3>2. Begun' = Begun
      BY <3>1 DEF Begun
    <3>3. Lone(n) /\ job'[n] = job[n]
      BY <2>1, <3>1 DEF Alone
    <3>4. Stage(n)'
      BY <1>1, <2>1, <3>1, <3>3, SentKept DEF Lone
    <3> QED
      BY <2>1, <3>1, <3>2, <3>3, <3>4 DEF Lone
  <2> QED
    BY <2>1 DEF Alone, Lone
<1>2. ASSUME UNCHANGED <<job, file, down, engine, thread>> PROVE Alone'
  <2>1. Begun' = Begun
    BY <1>2 DEF Begun
  <2> QED
    BY <1>2, <2>1, StageKept DEF Alone, Lone
<1>3. CASE Record
  BY <1>0, <1>1, <1>3 DEF Record
<1>4. CASE Turn
  BY <1>1, <1>2, <1>4 DEF Turn, net
<1>5. CASE Destroy
  BY <1>2, <1>5 DEF Destroy, net, sound
<1>6. ASSUME NEW e \in Effects, ClickPlay(e) PROVE Alone'
  BY <1>1, <1>6 DEF ClickPlay
<1>7. ASSUME NEW n \in Sends, NEW w \in Ats, job'[n].at = w, w \notin Over, UNCHANGED thread,
             job'[n].alone => /\ Begun = {} /\ Stage(n)'
                              /\ \A p \in Previews : thread[p].at \notin {"new", "created"},
             \A m \in Sends : m # n => job'[m].at = job[m].at /\ ~job'[m].alone
      PROVE  Alone'
  <2>1. ASSUME Begun = {}, NEW m \in Sends, m \in Begun' PROVE m = n
    BY <1>7, <2>1 DEF Begun
  <2> QED
    BY <1>7, <2>1 DEF Alone, Lone
<1>8. ASSUME NEW e \in Effects, ConfirmLocal(e) PROVE Alone'
  <2>1. PICK v \in Contents : v = file["wav"]
    BY <1>0
  <2>2. PICK want \in Contents : /\ want = Content(v.voice, e, v.whole, 0)
                                 /\ want.voice = v.voice /\ want.whole = v.whole /\ want.effect = e
    <3>1. v.voice \in Voices \cup {none} /\ v.whole \in BOOLEAN /\ 0 \in 0 .. MaxSends
      BY Bounds DEF Contents
    <3>2. Content(v.voice, e, v.whole, 0) \in Contents
      BY <3>1, ContentType
    <3> QED
      BY <3>2 DEF Content
  <2>3. Confirm("local", e, want, "new") /\ file' = file /\ thread' = thread /\ v # Nothing
    BY <1>8, <2>1, <2>2 DEF ConfirmLocal
  <2>4. Fits("new", e) /\ "new" \in Ats /\ "new" \notin Over
    BY DEF Fits, Ats, LocalAts, NetAts, Over
  <2>5. PICK n \in Sends :
        /\ job'[n].at = "new" /\ job'[n].item = e /\ job'[n].want = want
        /\ job'[n].alone => /\ Begun = {}
                            /\ \A p \in Previews : thread[p].at \notin {"new", "created"}
        /\ \A m \in Sends : m # n => job'[m].at = job[m].at /\ ~job'[m].alone
    BY <2>3, <2>4, ConfirmEffect
  <2>6. Stage(n)'
    BY <2>1, <2>2, <2>3, <2>5 DEF Stage, NetAts
  <2> QED
    BY <1>7, <2>3, <2>4, <2>5, <2>6
<1>9. ASSUME NEW i \in Items, ConfirmNet(i) PROVE Alone'
  <2>0. PICK want \in Contents : /\ want = Content(i, none, TRUE, 0)
                                 /\ want.voice = i /\ want.whole = TRUE /\ want.effect = none
    <3>1. 0 \in 0 .. MaxSends /\ TRUE \in BOOLEAN
      BY Bounds
    <3>2. Content(i, none, TRUE, 0) \in Contents
      BY <3>1, ItemContent
    <3>3. /\ Content(i, none, TRUE, 0).voice = i /\ Content(i, none, TRUE, 0).whole = TRUE
          /\ Content(i, none, TRUE, 0).effect = none
      BY DEF Content
    <3> QED
      BY <3>2, <3>3, Zenon
  <2> DEFINE cached == row.item = i /\ down[i].length # Missing /\ down[i].length = row.size
  <2>1. /\ Confirm("net", i, want, IF cached THEN "convert" ELSE "download")
        /\ thread' = thread /\ (cached => down' = down)
    BY <1>9, <2>0, Zenon DEF ConfirmNet, sound
  <2>2. cached => down[i].length \in {0, Full}
    BY DEF Types, Rows, Missing, Full
  <2>3. ASSUME NEW w \in {"convert", "download"} PROVE Fits(w, i) /\ w \in Ats /\ w \notin Over
    BY DEF Fits, Ats, LocalAts, NetAts, Over
  <2> HIDE DEF cached
  <2>5. ASSUME NEW w \in {"convert", "download"}, Confirm("net", i, want, w),
               w = "convert" => cached
        PROVE  Alone'
    <3>1. PICK n \in Sends :
          /\ job'[n].at = w /\ job'[n].item = i /\ job'[n].want = want /\ job'[n].got = 0
          /\ job'[n].alone => /\ Begun = {}
                              /\ \A p \in Previews : thread[p].at \notin {"new", "created"}
          /\ \A m \in Sends : m # n => job'[m].at = job[m].at /\ ~job'[m].alone
      BY <2>3, <2>5, ConfirmEffect
    <3>2. Stage(n)'
      BY <2>0, <2>1, <2>2, <2>5, <3>1 DEF Stage, NetAts
    <3> QED
      BY <1>7, <2>1, <2>3, <3>1, <3>2
  <2>6. CASE cached
    <3>1. (IF cached THEN "convert" ELSE "download") = "convert"
      BY <2>6
    <3>2. Confirm("net", i, want, "convert")
      BY <2>1, <3>1, Zenon
    <3> QED
      BY <2>5, <2>6, <3>2
  <2>7. CASE ~cached
    <3>1. (IF cached THEN "convert" ELSE "download") = "download"
      BY <2>7
    <3>2. Confirm("net", i, want, "download")
      BY <2>1, <3>1, Zenon
    <3> QED
      BY <2>5, <3>2
  <2> QED
    BY <2>6, <2>7
<1> QED
  BY <1>3, <1>4, <1>5, <1>6, <1>8, <1>9

LEMMA SendAlone ==
    ASSUME Types, Alone, NEW n \in Sends, Send(n)
    PROVE  Alone'
<1> USE DEF net, sound
<1>0. n \in Begun
  BY DEF Send, SaveBegin, SavePlay, SaveDone, EncodeLocal, DownloadStart, DownloadMore, Progress,
         DownloadDone, DownloadFails, Convert, FfmpegDone, FfmpegFails, EncodeEnd, EncodeFails,
         Deliver, Failed, Begun, Over
<1>1. /\ job[n] \in Jobs /\ job \in [Sends -> Jobs] /\ n \in 0 .. MaxSends /\ n # 0
      /\ Garbled(n) \in Contents /\ Garbled(n).by = n
      /\ file \in [Names -> Contents] /\ Names = {"wav", "new", "amr"}
      /\ job[n].at \in NetAts => job[n].item \in Items
      /\ job[n].at \in LocalAts => job[n].item \in Effects
      /\ job[n].src \in Contents /\ job[n].want \in Contents
  BY GarbledType, JobFields, Bounds DEF Types, Names, Fits
<1>2. ASSUME job[n].alone
      PROVE  Stage(n) /\ \A m \in Sends : m \in Begun \/ job[m].alone => m = n
  BY <1>2 DEF Alone, Lone
\* No other send can be alone while this one is under way, so that only this
\* one's stage matters.
<1>3. ASSUME \A m \in Sends \ {n} : /\ job'[m].alone => job[m].alone
                                    /\ job'[m].at = job[m].at \/ job'[m].at \in Over,
             \A p \in Previews : thread'[p].at \in {"new", "created"} =>
                                     thread[p].at \in {"new", "created"},
             job'[n].alone => job[n].alone /\ Stage(n)'
      PROVE  Alone'
  <2>1. \A m \in Sends : job'[m].alone => m = n
    BY <1>0, <1>3 DEF Alone, Lone
  <2>2. \A m \in Sends : m \in Begun' => m \in Begun \/ m = n
    BY <1>3 DEF Begun
  <2> QED
    BY <1>0, <1>2, <1>3, <2>1, <2>2 DEF Alone, Lone
<1>4. ASSUME UNCHANGED thread, \A m \in Sends : m # n => job'[m] = job[m],
             job'[n].alone => job[n].alone,
             job[n].alone => Stage(n)'
      PROVE  Alone'
  BY <1>3, <1>4
<1>5. ASSUME NEW w \in Over, Finish(n, w), UNCHANGED thread PROVE Alone'
  <2>1. ~job'[n].alone /\ \A m \in Sends : m # n => job'[m] = job[m]
    BY <1>5, FinishEffect
  <2> QED
    BY <1>3, <1>5, <2>1
<1>6. ASSUME NEW S \in SUBSET {n}, CrashAfter(S), job'[n].alone => job[n].alone /\ Stage(n)' PROVE Alone'
  <2>1. \A p \in Previews : thread'[p].at \in {"new", "created"} => FALSE
    <3>1. \A p \in Previews : thread'[p] = IF thread[p].at = "none" THEN thread[p] ELSE PreviewOver
      BY <1>6 DEF CrashAfter
    <3> QED
      BY <3>1 DEF PreviewOver
  <2>2. \A m \in Sends \ {n} : job'[m] = job[m] \/ (job'[m].at = "lost" /\ ~job'[m].alone)
    BY <1>6, CrashEffect
  <2> QED
    BY <1>3, <1>6, <2>1, <2>2 DEF Over
<1>7. ASSUME Crash PROVE Alone'
  <2>1. CrashAfter({}) /\ ~job'[n].alone
    BY <1>0, <1>7, CrashEffect DEF Crash
  <2> QED
    BY <1>6, <2>1
<1>8. ASSUME Orphan(n) PROVE Alone'
  BY <1>5, <1>7, <1>8 DEF Orphan, Over
<1>9. CASE SaveBegin(n) /\ ~Orphan(n)
  <2>1. /\ job[n].at = "new" /\ At(n, "saving")
        /\ file' = [file EXCEPT !["new"] = Garbled(n)]
        /\ engine' = [plays |-> FALSE, out |-> n, holds |-> file["wav"]]
        /\ thread' = thread
    BY <1>9 DEF SaveBegin
  <2>2. "saving" \in Ats /\ Fits("saving", job[n].item)
    BY <1>1, <2>1 DEF Ats, Fits, LocalAts, NetAts
  <2>3. /\ job'[n].at = "saving" /\ job'[n].item = job[n].item /\ job'[n].want = job[n].want
        /\ job'[n].alone = job[n].alone /\ \A m \in Sends : m # n => job'[m] = job[m]
    BY <2>1, <2>2, AtEffect
  <2>4. file'["new"] = Garbled(n)
    BY <1>1, <2>1
  <2>5. ~engine'.plays /\ engine'.out = n /\ engine'.holds = file["wav"]
    BY <2>1
  <2>6. job[n].alone => Stage(n)'
    BY <1>1, <1>2, <2>1, <2>3, <2>4, <2>5 DEF Stage, NetAts
  <2> QED
    BY <1>4, <2>1, <2>3, <2>6
<1>10. CASE SavePlay(n)
  <2>1. /\ job[n].at = "saving" /\ At(n, "render")
        /\ engine' = [engine EXCEPT !.plays = engine.holds # Nothing, !.holds.effect = job[n].item]
        /\ file' = file /\ thread' = thread
    BY <1>10 DEF SavePlay
  <2>2. "render" \in Ats /\ Fits("render", job[n].item) /\ job[n].item \in Effects
    BY <1>1, <2>1 DEF Ats, Fits, LocalAts, NetAts
  <2>3. /\ job'[n].at = "render" /\ job'[n].item = job[n].item /\ job'[n].want = job[n].want
        /\ job'[n].alone = job[n].alone /\ \A m \in Sends : m # n => job'[m] = job[m]
    BY <2>1, <2>2, AtEffect
  <2>4. /\ engine'.out = engine.out /\ (engine'.plays <=> engine.holds # Nothing)
        /\ engine'.holds.voice = engine.holds.voice /\ engine'.holds.whole = engine.holds.whole
        /\ engine'.holds.effect = job[n].item
    BY <2>1, <2>2, PlayEffect
  <2>5. job[n].alone => Stage(n)'
    BY <1>2, <2>1, <2>3, <2>4 DEF Stage, NetAts, Same
  <2> QED
    BY <1>4, <2>1, <2>3, <2>5
<1>11. CASE SaveDone(n)
  <2>1. /\ job[n].at = "render" /\ ~engine.plays /\ At(n, "saved")
        /\ engine' = [engine EXCEPT !.out = 0] /\ file' = file /\ thread' = thread
    BY <1>11 DEF SaveDone
  <2>2. "saved" \in Ats /\ Fits("saved", job[n].item)
    BY <1>1, <2>1 DEF Ats, Fits, LocalAts, NetAts
  <2>3. /\ job'[n].at = "saved" /\ job'[n].item = job[n].item /\ job'[n].want = job[n].want
        /\ job'[n].alone = job[n].alone /\ \A m \in Sends : m # n => job'[m] = job[m]
    BY <2>1, <2>2, AtEffect
  <2>4. engine'.out = 0
    BY <2>1, EngineType DEF Engines
  <2>5. job[n].alone => Stage(n)'
    BY <1>2, <2>1, <2>3, <2>4 DEF Stage, NetAts, Same
  <2> QED
    BY <1>4, <2>1, <2>3, <2>5
<1>12. ASSUME NEW f \in Contents, Encode(n, f), job[n].at # "encode", thread' = thread,
              file'["amr"].by = n, job[n].alone => Same(f, job[n].want)
       PROVE  Alone'
  <2>1. /\ job'[n].at = "encode" /\ job'[n].want = job[n].want /\ job'[n].alone = job[n].alone
        /\ Encoding = {} => job'[n].src = f
        /\ \A m \in Sends : m # n => job'[m].at = job[m].at /\ job'[m].alone = job[m].alone
    BY <1>12, EncodeEffect
  <2>2. job[n].alone => Encoding = {}
    BY <1>2, <1>12 DEF Encoding, Begun, Over
  <2>3. job[n].alone => Stage(n)'
    BY <1>12, <2>1, <2>2 DEF Stage, NetAts, Same
  <2> QED
    BY <1>3, <1>12, <2>1, <2>3
<1>13. CASE EncodeLocal(n) /\ ~Orphan(n)
  <2>1. /\ job[n].at = "saved" /\ Encode(n, file["new"]) /\ thread' = thread
        /\ file' = [file EXCEPT !["amr"] = Garbled(n)]
    BY <1>13 DEF EncodeLocal
  <2>2. file["new"] \in Contents /\ file'["amr"].by = n
    BY <1>1, <2>1
  <2>3. job[n].alone => Same(file["new"], job[n].want)
    BY <1>2, <2>1 DEF Stage
  <2> QED
    BY <1>12, <2>1, <2>2, <2>3

<1>14. CASE DownloadStart(n)
  <2>1. /\ job[n].at = "download" /\ At(n, "write") /\ thread' = thread
        /\ down' = [down EXCEPT ![job[n].item] = [by |-> n, length |-> 0]]
    BY <1>14 DEF DownloadStart
  <2>2. "write" \in Ats /\ Fits("write", job[n].item) /\ job[n].item \in Items
    BY <1>1, <2>1 DEF Ats, Fits, LocalAts, NetAts
  <2>3. /\ job'[n].at = "write" /\ job'[n].item = job[n].item /\ job'[n].want = job[n].want
        /\ job'[n].got = job[n].got
        /\ job'[n].alone = job[n].alone /\ \A m \in Sends : m # n => job'[m] = job[m]
    BY <2>1, <2>2, AtEffect
  <2>4. down'[job[n].item].by = n /\ down'[job[n].item].length = 0
    BY <2>1, <2>2 DEF Types
  <2>5. job[n].alone => Stage(n)'
    BY <1>2, <2>1, <2>3, <2>4 DEF Stage, NetAts
  <2> QED
    BY <1>4, <2>1, <2>3, <2>5
<1>15. CASE DownloadMore(n)
  <2>1. /\ job[n].at = "write" /\ thread' = thread
        /\ job' = [job EXCEPT ![n] = [job[n] EXCEPT !.got = job[n].got + 1]]
        /\ down[job[n].item].by = n =>
               down' = [down EXCEPT ![job[n].item] = [down[job[n].item] EXCEPT !.length = job[n].got + 1]]
    BY <1>15 DEF DownloadMore
  <2>2. job[n].got + 1 \in Missing .. Full
    BY <1>1, <1>15, JobFields DEF DownloadMore, Missing, Full
  <2>3. /\ job'[n].at = "write" /\ job'[n].item = job[n].item /\ job'[n].want = job[n].want
        /\ job'[n].got = job[n].got + 1
        /\ job'[n].alone = job[n].alone /\ \A m \in Sends : m # n => job'[m] = job[m]
    BY <1>1, <2>1, <2>2, GotType
  <2>4. job[n].item \in Items /\ down \in [Items -> Downs] /\ down[job[n].item] \in Downs
    BY <1>1, <2>1 DEF NetAts, Types
  <2>5. down[job[n].item].by = n =>
           down'[job[n].item].by = n /\ down'[job[n].item].length = job[n].got + 1
    BY <2>1, <2>4 DEF Downs
  <2>6. job[n].alone => Stage(n)'
    BY <1>2, <2>1, <2>3, <2>5 DEF Stage, NetAts
  <2> QED
    BY <1>4, <2>1, <2>3, <2>6
<1>16. CASE Progress(n)
  <2>1. PICK s \in {Full, -1} : job' = [job EXCEPT ![n] = [job[n] EXCEPT !.size = s]]
    BY <1>16 DEF Progress
  <2>2. job[n].at = "write" /\ thread' = thread /\ down' = down
    BY <1>16 DEF Progress
  <2>3. /\ job'[n].at = "write" /\ job'[n].item = job[n].item /\ job'[n].want = job[n].want
        /\ job'[n].got = job[n].got
        /\ job'[n].alone = job[n].alone /\ \A m \in Sends : m # n => job'[m] = job[m]
    BY <1>1, <2>1, <2>2, SizeType
  <2>4. job[n].alone => Stage(n)'
    BY <1>2, <2>2, <2>3 DEF Stage, NetAts
  <2> QED
    BY <1>4, <2>2, <2>3, <2>4
<1>17. CASE DownloadDone(n)
  <2>1. /\ job[n].at = "write" /\ job[n].got = Full /\ thread' = thread /\ down' = down
        /\ Finish(n, "dropped") \/ At(n, "convert")
    BY <1>17 DEF DownloadDone
  <2>2. CASE Finish(n, "dropped")
    BY <1>5, <2>1, <2>2 DEF Over
  <2>3. CASE At(n, "convert")
    <3>1. "convert" \in Ats /\ Fits("convert", job[n].item)
      BY <1>1, <2>1 DEF Ats, Fits, LocalAts, NetAts
    <3>2. /\ job'[n].at = "convert" /\ job'[n].item = job[n].item /\ job'[n].want = job[n].want
          /\ job'[n].alone = job[n].alone /\ \A m \in Sends : m # n => job'[m] = job[m]
      BY <2>3, <3>1, AtEffect
    <3>3. job[n].alone => Stage(n)'
      BY <1>2, <2>1, <3>2 DEF Stage, NetAts
    <3> QED
      BY <1>4, <2>1, <3>2, <3>3
  <2> QED
    BY <2>1, <2>2, <2>3
<1>18. CASE DownloadFails(n)
  <2>1. Orphan(n) \/ (Finish(n, "failed") /\ thread' = thread)
    BY <1>18 DEF DownloadFails
  <2> QED
    BY <1>5, <1>8, <2>1 DEF Over
<1>19. CASE Convert(n)
  <2>1. PICK w \in {"ffmpeg", "broken"}, c \in {Content(job[n].item, none, FALSE, n), Nothing} :
           /\ job[n].at = "convert" /\ thread' = thread
           /\ job' = [job EXCEPT ![n] = [[job[n] EXCEPT !.at = w] EXCEPT !.got = down[job[n].item].length]]
           /\ file' = [file EXCEPT !["amr"] = Nothing, !["wav"] = c]
           /\ w = "ffmpeg" => c.by = n
    <3>1. Content(job[n].item, none, FALSE, n).by = n
      BY DEF Content
    <3>2. CASE ffmpeg = 0
      BY <1>19, <3>1, <3>2 DEF Convert
    <3>3. CASE ffmpeg # 0
      BY <1>19, <3>3 DEF Convert
    <3> QED
      BY <3>2, <3>3
  <2>2. job[n].item \in Items /\ down[job[n].item].length \in Missing .. Full
    BY <1>1, <2>1 DEF NetAts, Types, Downs
  <2>3. w \in Ats /\ Fits(w, job[n].item)
    BY <2>2 DEF Ats, Fits, LocalAts, NetAts
  <2>4. PICK j \in Jobs : /\ j = [job[n] EXCEPT !.at = w]
                          /\ j.at = w /\ j.item = job[n].item /\ j.want = job[n].want
                          /\ j.alone = job[n].alone
    <3>1. /\ [job[n] EXCEPT !.at = w] \in Jobs /\ [job[n] EXCEPT !.at = w].at = w
          /\ [job[n] EXCEPT !.at = w].item = job[n].item
          /\ [job[n] EXCEPT !.at = w].want = job[n].want
          /\ [job[n] EXCEPT !.at = w].alone = job[n].alone
      BY <1>1, <2>3, Moved
    <3> QED
      BY <3>1, Zenon
  <2>5. job' = [job EXCEPT ![n] = [j EXCEPT !.got = down[job[n].item].length]]
    BY <2>1, <2>4
  <2>6. /\ job'[n].at = w /\ job'[n].item = job[n].item /\ job'[n].want = job[n].want
        /\ job'[n].got = down[job[n].item].length
        /\ job'[n].alone = job[n].alone /\ \A m \in Sends : m # n => job'[m] = job[m]
    BY <1>1, <2>2, <2>4, <2>5, GotType
  <2>7. file'["wav"] = c
    BY <1>1, <2>1
  <2>8. job[n].alone => Stage(n)'
    BY <1>2, <2>1, <2>6, <2>7 DEF Stage, NetAts
  <2> QED
    BY <1>4, <2>1, <2>6, <2>8
<1>20. CASE FfmpegDone(n)
  <2>1. PICK c : /\ c = IF file["wav"].by = n
                        THEN Content(job[n].item, none, job[n].got = Full, n) ELSE file["wav"]
                 /\ job[n].at = "ffmpeg" /\ job[n].got > 0
                 /\ file' = [file EXCEPT !["wav"] = c, !["amr"] = Garbled(n)]
                 /\ Encode(n, c) /\ thread' = thread
    BY <1>20, Zenon DEF FfmpegDone
  <2>2. PICK b \in BOOLEAN : /\ b <=> job[n].got = Full
                             /\ file["wav"].by = n => c = Content(job[n].item, none, b, n)
                             /\ file["wav"].by # n => c = file["wav"]
    BY <2>1, Zenon
  <2>3. job[n].item \in Items
    BY <1>1, <2>1 DEF NetAts
  <2>4. c \in Contents
    BY <1>1, <2>2, <2>3, ItemContent
  <2>5. file'["amr"].by = n
    BY <1>1, <2>1
  <2>6. job[n].alone => Same(c, job[n].want)
    <3>1. SUFFICES ASSUME job[n].alone PROVE Same(c, job[n].want)
      OBVIOUS
    <3>2. job[n].at = "ffmpeg" /\ job[n].got > 0
      BY <1>20 DEF FfmpegDone
    <3>3. /\ file["wav"].by = n /\ job[n].got \in {Missing, 0, Full}
          /\ job[n].want.voice = job[n].item /\ job[n].want.effect = none
      BY <1>2, <3>1, <3>2 DEF Stage, NetAts
    <3>4. job[n].want.whole = TRUE
      BY <1>2, <3>1, <3>2 DEF Stage, NetAts
    <3>5. job[n].got = Full
      BY <3>2, <3>3 DEF Missing
    <3>6. b = TRUE
      BY <2>2, <3>5, Zenon
    <3>7. c = Content(job[n].item, none, b, n)
      BY <2>2, <3>3
    <3>8. c.voice = job[n].item /\ c.effect = none /\ c.whole = b
      BY <3>7 DEF Content
    <3> QED
      BY <3>3, <3>4, <3>6, <3>8 DEF Same
  <2> QED
    BY <1>12, <2>1, <2>4, <2>5, <2>6
<1>21. CASE FfmpegFails(n)
  BY <1>7, <1>21 DEF FfmpegFails
<1>22. CASE EncodeEnd(n) /\ ~Crash
  <2>1. /\ job[n].at = "encode" /\ At(n, "encoded") /\ thread' = thread
        /\ file["amr"].by = n => file' = [file EXCEPT !["amr"] = [job[n].src EXCEPT !.by = n]]
    BY <1>22 DEF EncodeEnd
  <2>2. "encoded" \in Ats /\ Fits("encoded", job[n].item)
    BY DEF Ats, Fits, LocalAts, NetAts
  <2>3. /\ job'[n].at = "encoded" /\ job'[n].want = job[n].want
        /\ job'[n].alone = job[n].alone /\ \A m \in Sends : m # n => job'[m] = job[m]
    BY <2>1, <2>2, AtEffect
  <2>4. PICK c \in Contents : c = [job[n].src EXCEPT !.by = n] /\ Same(c, job[n].src)
    BY <1>1, ByType
  <2>5. file["amr"].by = n => file'["amr"] = c
    BY <1>1, <2>1, <2>4
  <2>6. job[n].alone => Stage(n)'
    <3>1. SUFFICES ASSUME job[n].alone PROVE Stage(n)'
      OBVIOUS
    <3>2. file["amr"].by = n /\ Same(job[n].src, job[n].want)
      BY <1>2, <2>1, <3>1 DEF Stage
    <3>3. Same(file'["amr"], job'[n].want)
      BY <2>3, <2>4, <2>5, <3>2 DEF Same
    <3> QED
      BY <2>3, <3>3 DEF Stage, NetAts, Same
  <2> QED
    BY <1>4, <2>1, <2>3, <2>6
<1>23. CASE EncodeFails(n) /\ ~Orphan(n)
  <2>1. job[n].at = "encode" /\ At(n, "broken") /\ thread' = thread
    BY <1>23 DEF EncodeFails
  <2>2. "broken" \in Ats /\ Fits("broken", job[n].item)
    BY DEF Ats, Fits, LocalAts, NetAts
  <2>3. /\ job'[n].at = "broken" /\ job'[n].alone = job[n].alone
        /\ \A m \in Sends : m # n => job'[m] = job[m]
    BY <2>1, <2>2, AtEffect
  <2>4. job[n].alone => Stage(n)'
    BY <2>3 DEF Stage, NetAts
  <2> QED
    BY <1>4, <2>1, <2>3, <2>4
<1>24. CASE Deliver(n)
  <2>1. CASE CrashAfter({n})
    <3>1. /\ job'[n].at = "sent" /\ job'[n].want = job[n].want /\ job'[n].alone = job[n].alone
          /\ file' = file
      <4>1. {n} \in SUBSET Sends /\ n \in {n}
        OBVIOUS
      <4>2. file' = file
        BY <2>1 DEF CrashAfter
      <4> QED
        BY <2>1, <4>1, <4>2, CrashEffect
    <3>2. job[n].alone => Stage(n)'
      BY <1>2, <1>24, <3>1 DEF Deliver, Stage, NetAts, Same
    <3> QED
      BY <1>6, <2>1, <3>1, <3>2
  <2>2. CASE Finish(n, "dropped") /\ thread' = thread
    BY <1>5, <2>2 DEF Over
  <2>3. CASE At(n, "sent") /\ thread' = thread /\ file' = file
    <3>1. "sent" \in Ats /\ Fits("sent", job[n].item)
      BY DEF Ats, Over, Fits, LocalAts, NetAts
    <3>2. /\ job'[n].at = "sent" /\ job'[n].want = job[n].want
          /\ job'[n].alone = job[n].alone /\ \A m \in Sends : m # n => job'[m] = job[m]
      BY <2>3, <3>1, AtEffect
    <3>3. job[n].alone => Stage(n)'
      BY <1>2, <1>24, <2>3, <3>2 DEF Deliver, Stage, NetAts, Same
    <3> QED
      BY <1>4, <2>3, <3>2, <3>3
  <2> QED
    BY <1>24, <2>1, <2>2, <2>3 DEF Deliver
<1>25. CASE Failed(n)
  <2>1. Finish(n, "dropped") \/ Finish(n, "failed")
    BY <1>25 DEF Failed
  <2>2. thread' = thread
    BY <1>25 DEF Failed
  <2> QED
    BY <1>5, <2>1, <2>2 DEF Over
<1>26. CASE SaveBegin(n) \/ SavePlay(n) \/ SaveDone(n) \/ EncodeLocal(n)
  BY <1>8, <1>9, <1>10, <1>11, <1>13, <1>26
<1>27. CASE DownloadStart(n) \/ DownloadMore(n) \/ Progress(n) \/ DownloadDone(n) \/ DownloadFails(n)
  BY <1>14, <1>15, <1>16, <1>17, <1>18, <1>27
<1>28. CASE Convert(n) \/ FfmpegDone(n) \/ FfmpegFails(n)
  BY <1>19, <1>20, <1>21, <1>28
<1>29. CASE EncodeEnd(n) \/ EncodeFails(n) \/ Deliver(n) \/ Failed(n)
  BY <1>7, <1>8, <1>22, <1>23, <1>24, <1>25, <1>29
<1> QED
  BY <1>26, <1>27, <1>28, <1>29 DEF Send

\* Once the host has read it, a send is of no concern.
LEMMA HostAlone ==
    ASSUME Types, Alone, NEW n \in Sends, HostReads(n)
    PROVE  Alone'
<1>1. job[n].at = "sent" /\ Finish(n, "read") /\ UNCHANGED <<file, down, engine, thread>>
  BY DEF HostReads, net, sound
<1>2. job'[n].at = "read" /\ ~job'[n].alone /\ \A m \in Sends : m # n => job'[m] = job[m]
  BY <1>1, FinishEffect DEF Over
<1>3. Begun' = Begun
  BY <1>1, <1>2 DEF Begun, Over
<1> QED
  BY <1>1, <1>2, <1>3, StageKept DEF Alone, Lone

-----------------------------------------------------------------------------
(* The inductive invariant.                                                  *)

IInv == Types /\ Unused /\ MarkHasThread /\ Alone

LEMMA InitIInv == Init => IInv
<1> SUFFICES ASSUME Init PROVE IInv
  OBVIOUS
<1>1. Types
  <2>1. [by |-> 0, length |-> Missing] \in Downs /\ [item |-> none, size |-> 0] \in Rows
    BY Bounds DEF Downs, Rows, Missing, Full
  <2>2. [at |-> "none", item |-> none] \in Threads
    BY DEF Threads, Playing
  <2>3. Closed \in Engines
    BY NothingType, Bounds DEF Closed, Engines
  <2>4. screen \in 1 .. MaxScreens /\ used \in
           [records: 0 .. MaxRecords, plays: 0 .. MaxPlays, sends: 0 .. MaxSends]
    BY Bounds DEF Init
  <2> QED
    BY <2>1, <2>2, <2>3, <2>4, NothingType, NoSendType, Bounds DEF Init, Types
<1>2. Unused /\ MarkHasThread
  BY DEF Init, Unused, MarkHasThread
<1>3. Alone
  BY NoSendType DEF Init, Alone, Lone
<1> QED
  BY <1>1, <1>2, <1>3 DEF IInv

LEMMA NextIInv == IInv /\ [Next]_vars => IInv'
<1> SUFFICES ASSUME IInv, [Next]_vars PROVE IInv'
  OBVIOUS
<1>1. Types /\ Unused /\ MarkHasThread /\ Alone
  BY DEF IInv
<1>2. Types' /\ Unused' /\ MarkHasThread'
  BY <1>1, NextTypes, NextMarks
<1>3. Alone'
  <2>1. CASE UNCHANGED vars
    <3>1. Begun' = Begun /\ UNCHANGED <<job, file, down, engine, thread>>
      BY <2>1 DEF vars, net, sound, Begun
    <3> QED
      BY <1>1, <3>1, StageKept DEF Alone, Lone
  <2>2. CASE Next
    BY <1>1, <2>2, UserAlone, PreviewAlone, SoundAlone, SendAlone, HostAlone DEF Next
  <2> QED
    BY <2>1, <2>2
<1> QED
  BY <1>2, <1>3 DEF IInv

LEMMA TypesTypeOK == Types => TypeOK
<1> SUFFICES ASSUME Types PROVE TypeOK
  OBVIOUS
<1>1. job \in [Sends -> AllJobs]
  BY DEF Types, Jobs
<1>2. thread \in [Previews -> [at: {"none", "done"} \cup Playing, item: Entities \cup {none}]]
  BY DEF Types, Threads
<1>3. /\ AllJobs = [at: Over \cup {"new", "saving", "render", "saved", "download", "write",
                                   "convert", "ffmpeg", "encode", "encoded", "broken"},
                    kind: {"net", "local"}, item: Items \cup Effects \cup {none},
                    want: Contents, src: Contents, got: Missing .. Full,
                    size: {-1, 0, Full}, screen: 1 .. MaxScreens, alone: BOOLEAN]
      /\ {"none", "done"} \cup Playing = {"none", "new", "created", "polls", "ended", "done"}
  <2>1. Ats = Over \cup {"new", "saving", "render", "saved", "download", "write",
                         "convert", "ffmpeg", "encode", "encoded", "broken"}
    BY DEF Ats, LocalAts, NetAts
  <2> QED
    BY <2>1 DEF AllJobs, Playing
<1> QED
  BY <1>1, <1>2, <1>3 DEF Types, TypeOK, Engines, Downs, Rows

-----------------------------------------------------------------------------

LEMMA SpecIInv == Spec => []IInv
  BY InitIInv, NextIInv, PTL DEF Spec

\* Every file, download, thread, mark and send is one the module knows of,
\* whatever FMODService, the list and the host do in between.
THEOREM TypesKept == Spec => []TypeOK
<1>1. IInv => TypeOK
  BY TypesTypeOK DEF IInv
<1> QED
  BY <1>1, SpecIInv, PTL

\* Whoever is marked as playing (isPlay) has a preview that will take the mark
\* back or has sent the message that does, however many previews and sends end
\* each other's sound (playSound, end, onOk).
THEOREM MarksGo == Spec => []MarkHasThread
<1>1. IInv => MarkHasThread
  BY DEF IInv
<1> QED
  BY <1>1, SpecIInv, PTL

\* A send nobody came between broadcasts a tmp.amr that holds all of the voice
\* that was confirmed, with its effect, and still does when the host reads it,
\* although the engine, the encoder and the three files are shared unlocked.
THEOREM AloneSendsRight == Spec => []AloneIsRight
<1>1. IInv => AloneIsRight
  BY DEF IInv, Alone, Lone, Stage, AloneIsRight
<1> QED
  BY <1>1, SpecIInv, PTL

=============================================================================
