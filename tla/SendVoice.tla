------------------------------ MODULE SendVoice ------------------------------
(* From a voice to a message: the voice changer (LocalMusicFragment with     *)
(* FMODService) previews the recording with an effect and sends it; the list *)
(* (MusicInfoListFragment, MusicInfoPresenter, DownloadAPI, DecodeUtil)      *)
(* downloads a voice and sends it.  Both ways end in a broadcast that names  *)
(* tmp.amr, which the host application (MMReceiver) reads in its own time.   *)
(*                                                                           *)
(* What they share is not locked: one native sound engine, one native        *)
(* encoder and the files tmp.wav, new_tmp.wav and tmp.amr of one directory;  *)
(* tmp.wav is the recording and also where FFmpeg converts a voice to.  Only *)
(* the modal progress dialog keeps one send from another, and it goes with   *)
(* the activity, which a rotation replaces, while the work goes on.          *)
(*                                                                           *)
(* Threads: the UI thread, one io thread for each preview and each send, the *)
(* FFmpeg process.  An exception on the UI thread, or one that comes after   *)
(* its observer was disposed, ends the process.                              *)
EXTENDS Integers

CONSTANTS
    Items,        \* the voices of the list
    Effects,      \* the items of the voice changer
    none,         \* no voice, no effect, no item
    MaxRecords,   \* bound: recordings
    MaxPlays,     \* bound: previews
    MaxSends,     \* bound: confirmed sends
    MaxWork,      \* bound: previews and sends together
    MaxScreens    \* bound: lives of the activity

ASSUME SendAssumption ==
    /\ none \notin Items \cup Effects
    /\ {MaxRecords, MaxPlays, MaxSends, MaxWork} \subseteq Nat /\ MaxScreens \in Nat \ {0}

VARIABLES
    file,      \* file[f]: what tmp.wav, new_tmp.wav and tmp.amr hold
    down,      \* down[i]: the downloaded file of voice i
    row,       \* the row of the DownFile table
    engine,    \* the native sound engine
    thread,    \* thread[p]: the io thread of preview p
    marked,    \* the entities whose isPlay is set
    current,   \* FMODService.currentItem
    job,       \* job[n]: send n
    screen,    \* the life of the activity
    page,      \* the page of the voice changer, or another
    dialog,    \* the send whose progress dialog is up, 0 if none
    main,      \* the send whose encoding keeps the UI thread, 0 if none
    ffmpeg,    \* the send whose FFmpeg process runs, 0 if none
    used       \* recordings, previews and sends so far

sound == <<engine, thread, marked, current>>
net   == <<down, row, ffmpeg>>
vars  == <<file, net, sound, job, screen, page, dialog, main, used>>

Previews == 1 .. MaxPlays
Sends    == 1 .. MaxSends
Voices   == Items \cup (1 .. MaxRecords)
Entities == (1 .. MaxScreens) \X Effects
Names    == {"wav", "new", "amr"}

\* Whose voice with which effect, all of it or not, in the file send by made.
Content(v, e, all, n) == [voice |-> v, effect |-> e, whole |-> all, by |-> n]
Nothing == Content(none, none, FALSE, 0)
Garbled(n) == Content(none, none, FALSE, n)
Same(c, d) == c.voice = d.voice /\ c.effect = d.effect /\ c.whole = d.whole

\* The length of a file: missing, empty, a part, all of it.
Missing == -1
Full == 2

\* out: the send whose new_tmp.wav it renders to, 0 for the speaker.
Closed == [plays |-> FALSE, out |-> 0, holds |-> Nothing]
NoSend == [at |-> "none", kind |-> "net", item |-> none, want |-> Nothing, src |-> Nothing,
           got |-> 0, size |-> 0, screen |-> 1, alone |-> FALSE]

Init ==
    /\ file = [f \in Names |-> Nothing]
    /\ down = [i \in Items |-> [by |-> 0, length |-> Missing]]
    /\ row = [item |-> none, size |-> 0]
    /\ engine = Closed
    /\ thread = [p \in Previews |-> [at |-> "none", item |-> none]]
    /\ marked = {} /\ current = none
    /\ job = [n \in Sends |-> NoSend]
    /\ screen = 1 /\ page = "other" /\ dialog = 0 /\ main = 0 /\ ffmpeg = 0
    /\ used = [records |-> 0, plays |-> 0, sends |-> 0]

Over  == {"none", "sent", "read", "failed", "dropped", "lost"}
Begun == {n \in Sends : job[n].at \notin Over}

\* The activity that confirmed send n is gone, and its observer disposed (but
\* that of DecodeUtil, which nobody keeps).
Gone(n) == job[n].screen < screen

At(n, where) == job' = [job EXCEPT ![n].at = where]

\* A send that is over; what it knew is forgotten.
Ended(where) == [NoSend EXCEPT !.at = where]
Finish(n, where) == job' = [job EXCEPT ![n] = Ended(where)]

PreviewOver == [at |-> "done", item |-> none]

\* The process ends; the files, the row and what was broadcast stay.
CrashAfter(sent) ==
    /\ engine' = Closed
    /\ thread' = [p \in Previews |->
          IF thread[p].at = "none" THEN thread[p] ELSE PreviewOver]
    /\ marked' = {} /\ current' = none
    /\ job' = [n \in Sends |->
          IF n \in sent THEN [job[n] EXCEPT !.at = "sent"]
          ELSE IF n \in Begun THEN Ended("lost") ELSE job[n]]
    /\ page' = "other" /\ dialog' = 0 /\ main' = 0 /\ ffmpeg' = 0
    /\ UNCHANGED <<file, down, row, screen, used>>

Crash == CrashAfter({})

\* What becomes of an io thread whose observer was disposed: it finds out, or
\* throws (getContext() is null then), which RxJava cannot deliver.
Orphan(n) ==
    /\ Gone(n)
    /\ \/ Finish(n, "dropped") /\ UNCHANGED <<file, net, sound, screen, page, dialog, main, used>>
       \/ Crash

-----------------------------------------------------------------------------
(* The UI thread: what the user does, when no dialog is in the way           *)

Free == main = 0

\* What of the user's doings the sends in ns were not left alone with.
Disturbed(ns) ==
    [n \in Sends |-> IF n \in ns THEN [job[n] EXCEPT !.alone = FALSE] ELSE job[n]]

\* end() of FMODService.
End == engine' = [engine EXCEPT !.plays = FALSE, !.holds = Nothing]

\* The recording, whose own states are those of module VoiceRecorder.
Record ==
    /\ Free /\ dialog = 0 /\ page = "other" /\ used.records < MaxRecords
    /\ used' = [used EXCEPT !.records = @ + 1]
    /\ file' = [file EXCEPT !["wav"] = Content(used.records + 1, none, TRUE, 0)]
    /\ job' = Disturbed(Begun)
    /\ UNCHANGED <<net, sound, screen, page, dialog, main>>

\* setUserVisibleHint(): leaving the page ends what plays.
Turn ==
    /\ Free /\ dialog = 0
    /\ page' = IF page = "local" THEN "other" ELSE "local"
    /\ IF page = "local" /\ engine.plays
       THEN End /\ marked' = marked \ {current} /\ job' = Disturbed(Begun)
       ELSE UNCHANGED <<engine, marked, job>>
    /\ UNCHANGED <<file, net, thread, current, screen, dialog, main, used>>

\* onItemClick(): the flag is set first, then playSound() ends the item before,
\* which may be this one.
ClickPlay(e) ==
    /\ Free /\ dialog = 0 /\ page = "local"
    /\ used.plays < MaxPlays /\ used.plays + used.sends < MaxWork
    /\ file["wav"] # Nothing
    /\ used' = [used EXCEPT !.plays = @ + 1]
    /\ marked' = (marked \cup {<<screen, e>>}) \ {current}
    /\ End
    /\ current' = <<screen, e>>
    /\ thread' = [thread EXCEPT ![used.plays + 1] = [at |-> "new", item |-> <<screen, e>>]]
    /\ job' = Disturbed(Begun)
    /\ UNCHANGED <<file, net, screen, page, dialog, main>>

\* A confirmed send; it has everything to itself when nothing else is under way.
Confirm(kind, item, want, where) ==
    LET n == used.sends + 1
    IN  /\ Free /\ dialog = 0
        /\ used.sends < MaxSends /\ used.plays + used.sends < MaxWork
        /\ used' = [used EXCEPT !.sends = n]
        /\ dialog' = n
        /\ job' = [Disturbed(Sends) EXCEPT ![n] =
             [NoSend EXCEPT !.at = where, !.kind = kind, !.item = item, !.want = want,
                            !.screen = screen,
                            !.alone = /\ Begun = {}
                                      /\ \A p \in Previews : thread[p].at \notin {"new", "created"}]]

\* sendFile() of the voice changer.
ConfirmLocal(e) ==
    /\ page = "local" /\ file["wav"] # Nothing
    /\ Confirm("local", e, Content(file["wav"].voice, e, file["wav"].whole, 0), "new")
    /\ marked' = marked \ {current} /\ End
    /\ UNCHANGED <<file, net, thread, current, screen, page, main>>

\* downLoadAndSend() of the list: a file whose length is the recorded one is
\* taken as it is, any other is deleted and downloaded.
ConfirmNet(i) ==
    LET cached == row.item = i /\ down[i].length # Missing /\ down[i].length = row.size
    IN  /\ page = "other"
        /\ Confirm("net", i, Content(i, none, TRUE, 0), IF cached THEN "convert" ELSE "download")
        /\ down' = IF cached THEN down
                   ELSE [down EXCEPT ![i] = [by |-> 0, length |-> Missing]]
        /\ UNCHANGED <<file, row, ffmpeg, sound, screen, page, main>>

\* The activity is destroyed and made again; its dialog goes with it.
Destroy ==
    /\ Free /\ screen < MaxScreens
    /\ screen' = screen + 1
    /\ page' = "other" /\ dialog' = 0
    /\ UNCHANGED <<file, net, sound, job, main, used>>

-----------------------------------------------------------------------------
(* A preview                                                                 *)

\* create(): the engine starts anew with what is in tmp.wav.
PreviewCreate(p) ==
    /\ thread[p].at = "new"
    /\ thread' = [thread EXCEPT ![p].at = "created"]
    /\ engine' = [engine EXCEPT !.plays = FALSE, !.holds = file["wav"]]
    /\ UNCHANGED <<file, net, marked, current, job, screen, page, dialog, main, used>>

\* The effect, and cPlayPrepared(): nothing sounds if end() came in between.
PreviewPlay(p) ==
    /\ thread[p].at = "created"
    /\ thread' = [thread EXCEPT ![p].at = "polls"]
    /\ engine' = [engine EXCEPT !.plays = engine.holds # Nothing,
                                !.holds.effect = thread[p].item[2]]
    /\ UNCHANGED <<file, net, marked, current, job, screen, page, dialog, main, used>>

\* Mutant: the loop is left at the end before the position is told.
PollForgets(p) ==
    /\ thread[p].at = "polls"
    /\ ~engine.plays \/ thread[p].item \notin marked
    /\ thread' = [thread EXCEPT ![p] = PreviewOver]
    /\ UNCHANGED <<file, net, engine, marked, current, job, screen, page, dialog, main, used>>

\* The loop is left when the flag is gone, or at the end of the sound; before
\* that it tells the position.
Poll(p) ==
    /\ thread[p].at = "polls"
    /\ \/ thread[p].item \notin marked /\ thread' = [thread EXCEPT ![p] = PreviewOver]
       \/ /\ thread[p].item \in marked /\ ~engine.plays
          /\ thread' = [thread EXCEPT ![p].at = "ended"]
    /\ UNCHANGED <<file, net, engine, marked, current, job, screen, page, dialog, main, used>>

\* onOk(), on the UI thread, once for each message that is still on its way:
\* they share one record, which says the end by now.
Told(p) ==
    /\ Free /\ thread[p].at = "ended"
    /\ marked' = marked \ {thread[p].item}
    /\ \E t \in {thread[p], PreviewOver} : thread' = [thread EXCEPT ![p] = t]
    /\ UNCHANGED <<file, net, engine, current, job, screen, page, dialog, main, used>>

\* The engine comes to the end of its sound; what it rendered is in the file.
SoundEnds ==
    /\ engine.plays
    /\ engine' = [engine EXCEPT !.plays = FALSE]
    /\ file' = IF engine.out # 0 /\ file["new"].by = engine.out
               THEN [file EXCEPT !["new"] = [engine.holds EXCEPT !.by = engine.out]]
               ELSE file
    /\ UNCHANGED <<net, thread, marked, current, job, screen, page, dialog, main, used>>

-----------------------------------------------------------------------------
(* A send of the voice changer                                               *)

\* Up to cCreateSound(): the old file is deleted, the engine renders to a new one.
SaveBegin(n) ==
    /\ job[n].at = "new"
    /\ \/ /\ ~Gone(n)
          /\ file' = [file EXCEPT !["new"] = Garbled(n)]
          /\ engine' = [plays |-> FALSE, out |-> n, holds |-> file["wav"]]
          /\ At(n, "saving")
          /\ UNCHANGED <<net, thread, marked, current, screen, page, dialog, main, used>>
       \/ Orphan(n)

SavePlay(n) ==
    /\ job[n].at = "saving"
    /\ At(n, "render")
    /\ engine' = [engine EXCEPT !.plays = engine.holds # Nothing, !.holds.effect = job[n].item]
    /\ UNCHANGED <<file, net, thread, marked, current, screen, page, dialog, main, used>>

\* Mutant: the loop waits for nothing.
SaveEarly(n) ==
    /\ job[n].at = "render"
    /\ At(n, "saved")
    /\ engine' = [engine EXCEPT !.out = 0]
    /\ UNCHANGED <<file, net, thread, marked, current, screen, page, dialog, main, used>>

\* The loop over cIsPlaying() ends, and the speaker is the output again.
SaveDone(n) ==
    /\ job[n].at = "render" /\ ~engine.plays
    /\ At(n, "saved")
    /\ engine' = [engine EXCEPT !.out = 0]
    /\ UNCHANGED <<file, net, thread, marked, current, screen, page, dialog, main, used>>

-----------------------------------------------------------------------------
(* Wav2Arm.startAmr, on the io thread of a local send and on the UI thread   *)
(* for the list.  The encoder is one global state: two at a time spoil both, *)
(* or the first exit() takes it from under the other.                        *)

Encoding == {m \in Sends : job[m].at = "encode"}

\* Send n begins to encode what f holds.
Encode(n, f) ==
    job' = [m \in Sends |->
        IF m = n THEN [job[m] EXCEPT !.at = "encode",
                                     !.src = IF Encoding = {} THEN f ELSE Garbled(n)]
        ELSE IF m \in Encoding THEN [job[m] EXCEPT !.src = Garbled(m)] ELSE job[m]]

EncodeLocal(n) ==
    /\ job[n].at = "saved"
    /\ \/ /\ ~Gone(n)
          /\ file' = [file EXCEPT !["amr"] = Garbled(n)]
          /\ Encode(n, file["new"])
          /\ UNCHANGED <<net, sound, screen, page, dialog, main, used>>
       \/ Orphan(n)

\* The file is whole, unless another one has taken its name.
EncodeEnd(n) ==
    /\ job[n].at = "encode"
    /\ \/ /\ At(n, "encoded")
          /\ file' = IF file["amr"].by = n
                     THEN [file EXCEPT !["amr"] = [job[n].src EXCEPT !.by = n]] ELSE file
          /\ main' = IF main = n THEN 0 ELSE main
          /\ UNCHANGED <<net, sound, screen, page, dialog, used>>
       \/ Encoding # {n} /\ Crash

\* An I/O error, or no file to read.
EncodeFails(n) ==
    /\ job[n].at = "encode"
    /\ \/ /\ ~Gone(n) \/ job[n].kind = "net"
          /\ At(n, "broken")
          /\ main' = IF main = n THEN 0 ELSE main
          /\ UNCHANGED <<file, net, sound, screen, page, dialog, used>>
       \/ job[n].kind = "local" /\ Orphan(n)

CloseDialog(n) == dialog' = IF dialog = n THEN 0 ELSE dialog

\* onNext() of either observer: the dialog goes, the broadcast names tmp.amr.
\* Without its activity the list's observer throws after that.
Deliver(n) ==
    /\ Free /\ job[n].at = "encoded"
    /\ IF Gone(n)
       THEN IF job[n].kind = "net" THEN CrashAfter({n})
            ELSE /\ Finish(n, "dropped")
                 /\ UNCHANGED <<file, net, sound, screen, page, dialog, main, used>>
       ELSE /\ At(n, "sent") /\ CloseDialog(n)
            /\ UNCHANGED <<file, net, sound, screen, page, main, used>>

\* onError() of either observer.
Failed(n) ==
    /\ Free /\ job[n].at = "broken"
    /\ Finish(n, IF Gone(n) /\ job[n].kind = "local" THEN "dropped" ELSE "failed")
    /\ CloseDialog(n)
    /\ UNCHANGED <<file, net, sound, screen, page, main, used>>

\* onReceive() of the host application.
HostReads(n) ==
    /\ job[n].at = "sent"
    /\ Finish(n, "read")
    /\ UNCHANGED <<file, net, sound, screen, page, dialog, main, used>>

-----------------------------------------------------------------------------
(* A send of the list                                                        *)

\* writeFile(): the file is deleted and made again ...
DownloadStart(n) ==
    /\ job[n].at = "download"
    /\ At(n, "write")
    /\ down' = [down EXCEPT ![job[n].item] = [by |-> n, length |-> 0]]
    /\ UNCHANGED <<file, row, ffmpeg, sound, screen, page, dialog, main, used>>

\* Mutant: a download of a known length does not stop there.
DownloadOver(n) ==
    /\ job[n].at = "write"
    /\ job' = [job EXCEPT ![n].got = @ + 1]
    /\ down' = IF down[job[n].item].by = n
               THEN [down EXCEPT ![job[n].item].length = job[n].got + 1] ELSE down
    /\ UNCHANGED <<file, row, ffmpeg, sound, screen, page, dialog, main, used>>

\* ... and grows, whoever's name it has by then.
DownloadMore(n) ==
    /\ job[n].at = "write" /\ job[n].got < Full
    /\ job' = [job EXCEPT ![n].got = @ + 1]
    /\ down' = IF down[job[n].item].by = n
               THEN [down EXCEPT ![job[n].item].length = job[n].got + 1] ELSE down
    /\ UNCHANGED <<file, row, ffmpeg, sound, screen, page, dialog, main, used>>

\* update() of the listener with a sample of the progress, which a short
\* download does without; -1 is a length the server does not tell.
Progress(n) ==
    /\ Free /\ job[n].at = "write" /\ job[n].got > 0 /\ job[n].size = 0
    /\ \E s \in {Full, -1} : job' = [job EXCEPT ![n].size = s]
    /\ UNCHANGED <<file, net, sound, screen, page, dialog, main, used>>

\* onComplete(): every DownFile has the id 0, so there is one row.
DownloadDone(n) ==
    /\ Free /\ job[n].at = "write" /\ job[n].got = Full
    /\ IF Gone(n) THEN Finish(n, "dropped") /\ UNCHANGED row
       ELSE At(n, "convert") /\ row' = [item |-> job[n].item, size |-> job[n].size]
    /\ UNCHANGED <<file, down, ffmpeg, sound, screen, page, dialog, main, used>>

DownloadFails(n) ==
    /\ job[n].at \in {"download", "write"}
    /\ \/ /\ Free /\ ~Gone(n)
          /\ Finish(n, "failed") /\ CloseDialog(n)
          /\ UNCHANGED <<file, net, sound, screen, page, main, used>>
       \/ Orphan(n)

\* mp3ToAmr(): tmp.amr and tmp.wav are deleted; execute() refuses a second process.
Convert(n) ==
    LET i == job[n].item
    IN  /\ job[n].at = "convert"
        /\ file' = [file EXCEPT !["amr"] = Nothing,
                                !["wav"] = IF ffmpeg = 0 THEN Content(i, none, FALSE, n) ELSE Nothing]
        /\ ffmpeg' = IF ffmpeg = 0 THEN n ELSE ffmpeg
        /\ job' = [job EXCEPT ![n].at = IF ffmpeg = 0 THEN "ffmpeg" ELSE "broken",
                              ![n].got = down[i].length]
        /\ UNCHANGED <<down, row, sound, screen, page, dialog, main, used>>

\* onSuccess(), on the UI thread, which encodes as well.
FfmpegDone(n) ==
    LET wav == IF file["wav"].by = n THEN Content(job[n].item, none, job[n].got = Full, n)
               ELSE file["wav"]
    IN  /\ Free /\ job[n].at = "ffmpeg" /\ job[n].got > 0
        /\ file' = [file EXCEPT !["wav"] = wav, !["amr"] = Garbled(n)]
        /\ Encode(n, wav)
        /\ main' = n /\ ffmpeg' = 0
        /\ UNCHANGED <<down, row, sound, screen, page, dialog, used>>

\* Mutant: onFailure() tells nobody.
FfmpegQuiet(n) ==
    /\ Free /\ job[n].at = "ffmpeg"
    /\ At(n, "silent")
    /\ ffmpeg' = 0
    /\ UNCHANGED <<file, down, row, sound, screen, page, dialog, main, used>>

\* onFailure() throws, on the UI thread.
FfmpegFails(n) == Free /\ job[n].at = "ffmpeg" /\ Crash

-----------------------------------------------------------------------------

Preview(p) == PreviewCreate(p) \/ PreviewPlay(p) \/ Poll(p) \/ Told(p)

Send(n) ==
    \/ SaveBegin(n) \/ SavePlay(n) \/ SaveDone(n) \/ EncodeLocal(n)
    \/ DownloadStart(n) \/ DownloadMore(n) \/ Progress(n) \/ DownloadDone(n) \/ DownloadFails(n)
    \/ Convert(n) \/ FfmpegDone(n) \/ FfmpegFails(n)
    \/ EncodeEnd(n) \/ EncodeFails(n) \/ Deliver(n) \/ Failed(n)

Next ==
    \/ Record \/ Turn \/ Destroy
    \/ \E e \in Effects : ClickPlay(e) \/ ConfirmLocal(e)
    \/ \E i \in Items : ConfirmNet(i)
    \/ \E p \in Previews : Preview(p)
    \/ \E n \in Sends : Send(n) \/ HostReads(n)
    \/ SoundEnds

Spec == Init /\ [][Next]_vars

\* Threads and processes go on, network and sound come to an end.
FairSpec ==
    /\ Spec
    /\ \A p \in Previews : WF_vars(Preview(p))
    /\ \A n \in Sends : WF_vars(Send(n))
    /\ WF_vars(SoundEnds)

-----------------------------------------------------------------------------
(* Properties                                                                *)

Contents == [voice: Voices \cup {none}, effect: Effects \cup {none}, whole: BOOLEAN,
             by: 0 .. MaxSends]

TypeOK ==
    /\ file \in [Names -> Contents]
    /\ down \in [Items -> [by: 0 .. MaxSends, length: Missing .. Full]]
    /\ row \in [item: Items \cup {none}, size: {-1, 0, Full}]
    /\ engine \in [plays: BOOLEAN, out: 0 .. MaxSends, holds: Contents]
    /\ thread \in [Previews -> [at: {"none", "new", "created", "polls", "ended", "done"},
                                item: Entities \cup {none}]]
    /\ marked \subseteq Entities /\ current \in Entities \cup {none}
    /\ job \in [Sends -> [at: Over \cup {"new", "saving", "render", "saved", "download", "write",
                                         "convert", "ffmpeg", "encode", "encoded", "broken"},
                          kind: {"net", "local"}, item: Items \cup Effects \cup {none},
                          want: Contents, src: Contents, got: Missing .. Full,
                          size: {-1, 0, Full}, screen: 1 .. MaxScreens, alone: BOOLEAN]]
    /\ screen \in 1 .. MaxScreens /\ page \in {"local", "other"}
    /\ {dialog, main, ffmpeg} \subseteq 0 .. MaxSends
    /\ used \in [records: 0 .. MaxRecords, plays: 0 .. MaxPlays, sends: 0 .. MaxSends]

\* Whoever is marked as playing has a thread that will take the mark back, or
\* the message that does is on its way, whatever other previews and sends have
\* done to the engine and the flags (isPlay, playSound, end and onOk).
MarkHasThread ==
    \A x \in marked : \E p \in Previews :
        thread[p].item = x /\ thread[p].at \in {"new", "created", "polls", "ended"}

\* A send that nothing else came between, no other send up to the reading and
\* no doing of the user up to the broadcast, sends what was confirmed: all of
\* that voice with that effect (the files and the engine are shared).
AloneIsRight ==
    \A n \in Sends : job[n].at = "sent" /\ job[n].alone => Same(file["amr"], job[n].want)

\* Every confirmed send comes to an end, so that its dialog goes: sent, failed,
\* or lost with the process or the activity.
SendEnds == \A n \in Sends : n \in Begun ~> n \notin Begun

=============================================================================
