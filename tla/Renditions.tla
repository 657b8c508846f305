----------------------------- MODULE Renditions -----------------------------
(***************************************************************************)
(* A finished upload on its way to the player: the MP4 and the ladder cut  *)
(* into pieces, the ladder encoded, uploaded and recorded, the hooks and   *)
(* the plays that ask for AV1 renditions, and the workers that build them  *)
(* beside each other and list them in one master playlist.                 *)
(*                                                                         *)
(* A worker runs every FFmpeg through interruption.run in the thread that  *)
(* also handles SIGTERM; its program counter names the line it is at:      *)
(*   check     57  about to look at the stop flag                          *)
(*   starting  59  looked, the process not yet registered                  *)
(*   adding    61  holding _lock, registering the process                  *)
(*   running   64  waiting for the process                                 *)
(*   dropping  70  holding _lock, unregistering it; its outcome follows    *)
(*   stuck     42  the handler waits for the _lock its own thread holds    *)
(*   files, media  the rung's playlist, then its segments, are uploaded    *)
(*   waiting, read, write   for, and under, the master playlist's lock     *)
(***************************************************************************)
EXTENDS PieceCuts, MasterPlaylist

CONSTANTS
    Workers,            \* RQ workers on the ladder queue
    Videos,             \* what the prober may find: height, hdr, transfer, sound, rate
    Files,              \* frame timings: pts, origin, tb, end, base, average
    Encoded(_, _, _),   \* the segments an encoder writes: of a video, in "h264",
                        \* "aac" or the codec of a kind, at a height
    MAX_FPS, MAX_HEIGHT,
    CHUNK_SECONDS, PIECE_SECONDS, MIN_DURATION,
    AV1_POPULAR_VIEWS,
    MaxPlays,           \* bound on GETs of the master playlist
    MaxStops,           \* bound on SIGTERMs
    MaxCrashes,         \* bound on killed workers
    MaxTroubles,        \* bound on failing FFmpegs, uploads and queues
    NoOne               \* the master lock is free

ASSUME RenditionsAssumption ==
    /\ NoOne \notin Workers
    /\ {AV1_POPULAR_VIEWS, MaxPlays, MaxStops, MaxCrashes, MaxTroubles} \subseteq Nat
    /\ {MAX_FPS, CHUNK_SECONDS, PIECE_SECONDS} \subseteq Nat \ {0}
    /\ \A v \in Videos : v.height \in Nat \ {0} /\ v.rate \in Nat

\* The encoder of the renditions (external) ends a segment at a keyframe four
\* seconds after it began or later, or with the video, and holds what it writes
\* to -maxrate over a buffer of one second: the cap for as long as the segment
\* lasts and a second more.
ASSUME EncoderAssumption ==
    \A v \in Videos : \A kind \in KINDS : \A height \in ToSet(rungs_for(v.height)) :
        LET segments == Encoded(v, kind, height)
        IN  /\ segments \in Seq([tenths : Nat, kbits : Nat])
            /\ \A k \in DOMAIN segments :
                  /\ k < Len(segments) => segments[k].tenths >= SEGMENT_TENTHS
                  /\ 10 * segments[k].kbits
                        <= ceiling(kind, height) * (segments[k].tenths + 10)

VARIABLES
    video,      \* the source, as probed
    phase,      \* of the ladder job
    cut,        \* the pieces being encoded: file, timeline, rate and plan
    ladder,     \* the FFmpeg command whose output is being uploaded
    stored,     \* objects under the job's hls/ prefix, but for the master
    master,     \* the master playlist, <<>> until it is uploaded
    row,        \* the job's row still exists
    queue,      \* renditions waiting on the ladder queue
    plays,      \* the play counter in Redis
    build,      \* what each worker is doing
    stop,       \* each worker's _stop flag
    late,       \* encodes each worker let run after its stop
    lock,       \* the master playlist's lock: holder, and its age in minutes
    budget      \* stops, crashes and troubles left

ladderVars == <<video, phase, cut, ladder>>
playVars   == <<row, queue, plays>>
vars == <<ladderVars, stored, master, playVars, build, stop, late, lock, budget>>

NoCut    == [file |-> 0]
NoLadder == [maps |-> <<>>]
Idle     == [pc |-> "idle", what |-> "none", kind |-> "none", todo |-> <<>>, ok |-> TRUE,
             copy |-> <<>>, waited |-> 0]
Gone     == [Idle EXCEPT !.pc = "gone"]

\* Mutant: a lock that never expires on its own.
NoExpiry == 100

LOCK_TIMEOUT == 1           \* minutes until the lock expires on its own
BLOCKING_TIMEOUT == 5       \* minutes a builder waits for it

Init ==
    /\ video \in Videos
    /\ phase = "mp4"
    /\ cut = NoCut
    /\ ladder = NoLadder
    /\ stored = {}
    /\ master = <<>>
    /\ row = TRUE
    /\ queue = {}
    /\ plays = 0
    /\ build = [w \in Workers |-> Idle]
    /\ stop = [w \in Workers |-> FALSE]
    /\ late = [w \in Workers |-> 0]
    /\ lock = [by |-> NoOne, age |-> 0]
    /\ budget = [stops |-> MaxStops, crashes |-> MaxCrashes, troubles |-> MaxTroubles]

Spend(what) == budget[what] > 0 /\ budget' = [budget EXCEPT ![what] = @ - 1]

----------------------------------------------------------------------------
(* The ladder job.                                                          *)

Timeline(file) ==
    [ticks |-> read_frame_ticks(file.pts, file.origin), tb |-> file.tb,
     end |-> file.end - file.origin, rate |-> read_frame_rate(file.base, file.average)]

\* A short file is never cut, nor one whose frames cannot be read.
Cut(file, by) ==
    LET tl     == Timeline(file)
        rate   == OutputRate(tl, MAX_FPS)
        asked  == wants(tl.end \div tl.tb, MIN_DURATION) /\ tl.ticks # <<>> /\ rate[1] > 0
        starts == IF by = "mp4" THEN frame_starts(tl, CHUNK_SECONDS, rate)
                  ELSE segment_aligned_starts(tl, PIECE_SECONDS, rate)
    IN  [file |-> file, by |-> by, rate |-> rate,
         plan |-> IF asked THEN PlanOf(tl, starts, rate) ELSE NoPlan]

\* ChunkedMp4.encode: the MP4's pieces, or one run.
EncodeMp4 ==
    /\ phase = "mp4"
    /\ \E file \in Files : cut' = Cut(file, "mp4")
    /\ phase' = "ladder"
    /\ UNCHANGED <<video, ladder, stored, master, playVars, build, stop, late, lock, budget>>

\* LadderPieces.plan for the same file.
PlanLadder ==
    /\ phase = "ladder"
    /\ cut' = Cut(cut.file, "ladder")
    /\ phase' = "encode"
    /\ UNCHANGED <<video, ladder, stored, master, playVars, build, stop, late, lock, budget>>

\* HlsLadderBuilder.build as far as the files in its work directory.
EncodeLadder ==
    /\ phase = "encode"
    /\ LET command == build_ladder_command(variants_for(video.height, MAX_HEIGHT))
           encodes == LadderEncodes(command, video.height, video.sound)
       IN  /\ phase' = IF encodes THEN "upload" ELSE "failed"
           /\ ladder' = IF encodes THEN command ELSE NoLadder
    /\ cut' = NoCut
    /\ UNCHANGED <<video, stored, master, playVars, build, stop, late, lock, budget>>

ToUpload == {d \in ladder.dirs : <<"v", d>> \notin stored}

\* The master as written into the work directory: the rungs' rates measured,
\* and the frame rate the ladder is capped to, if the source's could be read.
LadderMaster ==
    LET heights == variants_for(video.height, MAX_HEIGHT)
        peaks   == [k \in DOMAIN heights |-> peak_rate(Encoded(video, "h264", heights[k]))]
    IN  label_frame_rates(write_master(heights, peaks, peak_rate(Encoded(video, "aac", 0))),
                          Min({MAX_FPS, video.rate}))

\* Mutant: the files sorted by name alone, the master before the rungs.
MasterByName ==
    /\ phase = "upload"
    /\ IF master = <<>>
       THEN master' = LadderMaster /\ UNCHANGED stored
       ELSE ToUpload # {} /\ stored' = stored \cup {<<"v", Min(ToUpload)>>} /\ UNCHANGED master
    /\ UNCHANGED <<ladderVars, playVars, build, stop, late, lock, budget>>

\* Its files are uploaded in the order of their names, the master last.
UploadLadder ==
    /\ phase = "upload" /\ master = <<>>
    /\ IF ToUpload # {}
       THEN stored' = stored \cup {<<"v", Min(ToUpload)>>} /\ UNCHANGED master
       ELSE master' = LadderMaster /\ UNCHANGED stored
    /\ UNCHANGED <<ladderVars, playVars, build, stop, late, lock, budget>>

LadderBreaks ==
    /\ phase = "upload"
    /\ Spend("troubles")
    /\ phase' = "failed"
    /\ ladder' = NoLadder
    /\ UNCHANGED <<video, cut, stored, master, playVars, build, stop, late, lock>>

\* The row says ready, with the master's key; the hooks come after.
RecordLadder ==
    /\ phase = "upload" /\ master # <<>>
    /\ phase' = "recorded"
    /\ ladder' = NoLadder
    /\ UNCHANGED <<video, cut, stored, master, playVars, build, stop, late, lock, budget>>

\* after_ladder.run: Keep HDR's hook queues; what a hook raises is logged.
RunHooks ==
    /\ phase = "recorded"
    /\ phase' = "ready"
    /\ \/ queue' = queue \cup {"hdr"} /\ UNCHANGED budget
       \/ Spend("troubles") /\ UNCHANGED queue
    /\ UNCHANGED <<video, cut, ladder, stored, master, row, plays, build, stop, late, lock>>

HasLadder == row /\ phase \in {"recorded", "ready"}

\* GET hls/master.m3u8: the play that reaches the threshold queues AV1, once;
\* Redis trouble costs the count, or the rendition.
Play ==
    /\ HasLadder /\ plays < MaxPlays
    /\ \/ /\ plays' = plays + 1
          /\ queue' = IF plays' = AV1_POPULAR_VIEWS THEN queue \cup {"av1"} ELSE queue
          /\ UNCHANGED budget
       \/ plays' \in {plays, plays + 1} /\ Spend("troubles") /\ UNCHANGED queue
    /\ UNCHANGED <<ladderVars, stored, master, row, build, stop, late, lock>>

\* The row deleted, and with it everything under its prefix.
DeleteVideo ==
    /\ row /\ phase = "ready"
    /\ row' = FALSE
    /\ stored' = {}
    /\ master' = <<>>
    /\ UNCHANGED <<ladderVars, queue, plays, build, stop, late, lock, budget>>

----------------------------------------------------------------------------
(* build_rendition.                                                         *)

Goto(w, pc) == build' = [build EXCEPT ![w].pc = pc]

\* The job is over, well or not: stop_on_sigterm clears the flag, and a
\* worker that was told to stop leaves.
Over(w) == IF stop[w] THEN Gone ELSE Idle
End(w) ==
    /\ build' = [build EXCEPT ![w] = Over(w)]
    /\ stop' = [stop EXCEPT ![w] = FALSE]

\* A queued rendition is taken; without a ladder, or with this kind already
\* in its master, there is nothing to do.  Otherwise the source is probed,
\* unless the row, the master or the source could not be read.
Begin(w) ==
    /\ build[w].pc = "idle"
    /\ \E kind \in queue :
          /\ queue' = queue \ {kind}
          /\ \/ /\ build' = IF HasLadder /\ ~\E k \in DOMAIN master : master[k].dir = kind
                            THEN [build EXCEPT ![w] = [Idle EXCEPT !.pc = "check",
                                                          !.what = "probe", !.kind = kind]]
                            ELSE build
                /\ UNCHANGED budget
             \/ Spend("troubles") /\ UNCHANGED build
    /\ UNCHANGED <<ladderVars, stored, master, row, plays, stop, late, lock>>

runVars == <<ladderVars, stored, master, playVars, lock>>

\* Mutant: the stop flag is not looked at.
StartRegardless(w) ==
    /\ build[w].pc = "check"
    /\ Goto(w, "starting")
    /\ UNCHANGED <<runVars, stop, late, budget>>

\* interruption.run: no new process once a stop is asked for.
CheckStop(w) ==
    /\ build[w].pc = "check"
    /\ IF stop[w] THEN End(w) ELSE Goto(w, "starting") /\ UNCHANGED stop
    /\ UNCHANGED <<runVars, late, budget>>

TakeLock(w) ==
    /\ build[w].pc = "starting"
    /\ Goto(w, "adding")
    /\ UNCHANGED <<runVars, stop, late, budget>>

Register(w) ==
    /\ build[w].pc = "adding"
    /\ Goto(w, "running")
    /\ late' = [late EXCEPT ![w] = @ + IF stop[w] THEN 1 ELSE 0]
    /\ UNCHANGED <<runVars, stop, budget>>

ProcessEnds(w) ==
    /\ build[w].pc = "running"
    /\ \/ build' = [build EXCEPT ![w].pc = "dropping", ![w].ok = TRUE] /\ UNCHANGED budget
       \/ build' = [build EXCEPT ![w].pc = "dropping", ![w].ok = FALSE] /\ Spend("troubles")
    /\ UNCHANGED <<runVars, stop, late>>

\* The process is unregistered and its outcome looked at: a failed one raises,
\* the probe decides the rungs, an encode is uploaded.
Unregister(w) ==
    /\ build[w].pc = "dropping"
    /\ LET b       == build[w]
           planned == plan_rendition(b.kind, video)
       IN  IF ~b.ok \/ (b.what = "probe" /\ ~planned)
           THEN End(w)
           ELSE /\ build' = [build EXCEPT ![w] =
                    IF b.what = "probe"
                    THEN [b EXCEPT !.pc = "check", !.what = "encode",
                                   !.todo = rungs_for(video.height)]
                    ELSE [b EXCEPT !.pc = "files"]]
                /\ UNCHANGED stop
    /\ UNCHANGED <<runVars, late, budget>>

\* The rung's files in the order of their names: index.m3u8 before the media.
UploadPlaylist(w) ==
    /\ build[w].pc = "files"
    /\ stored' = stored \cup {<<build[w].kind, Head(build[w].todo), "index">>}
    /\ Goto(w, "media")
    /\ UNCHANGED <<ladderVars, master, playVars, lock, stop, late, budget>>

UploadMedia(w) ==
    /\ build[w].pc = "media"
    /\ stored' = stored \cup {<<build[w].kind, Head(build[w].todo), "media">>}
    /\ LET left == Tail(build[w].todo)
       IN  build' = [build EXCEPT ![w].todo = left,
                                  ![w].pc = IF left = <<>> THEN "waiting" ELSE "check"]
    /\ UNCHANGED <<ladderVars, master, playVars, lock, stop, late, budget>>

\* Mutant: the builder's default lock, which keeps nobody out.
NoMasterLock(w) ==
    /\ build[w].pc = "waiting"
    /\ lock' = [by |-> w, age |-> 0]
    /\ build' = [build EXCEPT ![w].pc = "read", ![w].waited = 0]
    /\ UNCHANGED <<ladderVars, stored, master, playVars, stop, late, budget>>

\* One writer of the master at a time, across workers.
TakeMasterLock(w) ==
    /\ build[w].pc = "waiting" /\ lock.by = NoOne
    /\ lock' = [by |-> w, age |-> 0]
    /\ build' = [build EXCEPT ![w].pc = "read", ![w].waited = 0]
    /\ UNCHANGED <<ladderVars, stored, master, playVars, stop, late, budget>>

Release(w) == lock' = IF lock.by = w THEN [by |-> NoOne, age |-> 0] ELSE lock

\* The master as it is now, not as it was when the build began.
ReadMaster(w) ==
    /\ build[w].pc = "read"
    /\ IF master = <<>>
       THEN End(w) /\ Release(w)
       ELSE /\ build' = [build EXCEPT ![w].pc = "write", ![w].copy = master]
            /\ UNCHANGED <<stop, lock>>
    /\ UNCHANGED <<ladderVars, stored, master, playVars, late, budget>>

\* The rendition's entries join the copy, each with the peak that was measured
\* when its rung was encoded.
Extended(copy, kind) ==
    LET rungs == rungs_for(video.height)
    IN  WithRendition(copy, kind, rungs,
            [rung \in ToSet(rungs) |-> peak_bandwidth(Encoded(video, kind, rung))])

\* Mutant: the lock is not released after the upload.
WriteAndKeepLock(w) ==
    /\ build[w].pc = "write"
    /\ master' = Extended(build[w].copy, build[w].kind)
    /\ End(w)
    /\ UNCHANGED <<ladderVars, stored, playVars, lock, late, budget>>

WriteMaster(w) ==
    /\ build[w].pc = "write"
    /\ master' = Extended(build[w].copy, build[w].kind)
    /\ End(w) /\ Release(w)
    /\ UNCHANGED <<ladderVars, stored, playVars, late, budget>>

\* An upload, a download or RQ's time limit raises between two processes.
Raises(w) ==
    /\ build[w].pc \in {"files", "media", "waiting", "read", "write"}
    /\ Spend("troubles")
    /\ End(w) /\ Release(w)
    /\ UNCHANGED <<ladderVars, stored, master, playVars, late>>

----------------------------------------------------------------------------
(* Stops, crashes and time.                                                 *)

Building(w) == build[w].pc \notin {"idle", "gone"}

\* on_sigterm, run in the main thread between two of its steps: the flag is
\* set, then _lock is taken to end the registered process.
SigTerm(w) ==
    /\ Building(w) /\ ~stop[w] /\ build[w].pc # "stuck"
    /\ Spend("stops")
    /\ stop' = [stop EXCEPT ![w] = TRUE]
    /\ build' = CASE build[w].pc \in {"adding", "dropping"} ->
                        [build EXCEPT ![w].pc = "stuck"]
                  [] build[w].pc = "running" ->
                        [build EXCEPT ![w].pc = "dropping", ![w].ok = FALSE]
                  [] OTHER -> build
    /\ UNCHANGED <<runVars, late>>

\* The stuck handler is broken by RQ's job timeout, whose alarm raises in it.
AlarmBreaks(w) ==
    /\ build[w].pc = "stuck"
    /\ End(w)
    /\ UNCHANGED <<runVars, late, budget>>

Killed(w) ==
    /\ Building(w)
    /\ Spend("crashes")
    /\ build' = [build EXCEPT ![w] = [Gone EXCEPT !.kind = build[w].kind]]
    /\ UNCHANGED <<runVars, stop, late>>

\* A minute goes by over a dead holder's lock: it expires at LOCK_TIMEOUT, and
\* who has waited for BLOCKING_TIMEOUT raises.  A live holder needs seconds.
MinutePasses ==
    /\ lock.by # NoOne /\ build[lock.by].pc = "gone"
    /\ lock' = IF lock.age + 1 >= LOCK_TIMEOUT THEN [by |-> NoOne, age |-> 0]
               ELSE [lock EXCEPT !.age = Min({@ + 1, BLOCKING_TIMEOUT})]
    /\ build' = [w \in Workers |->
                    IF build[w].pc # "waiting" THEN build[w]
                    ELSE IF build[w].waited + 1 >= BLOCKING_TIMEOUT THEN Over(w)
                    ELSE [build[w] EXCEPT !.waited = @ + 1]]
    /\ UNCHANGED <<ladderVars, stored, master, playVars, stop, late, budget>>

Ladder ==
    \/ EncodeMp4 \/ PlanLadder \/ EncodeLadder \/ UploadLadder \/ RecordLadder
    \/ LadderBreaks \/ RunHooks

Step(w) ==
    \/ CheckStop(w) \/ TakeLock(w) \/ Register(w) \/ ProcessEnds(w) \/ Unregister(w)
    \/ UploadPlaylist(w) \/ UploadMedia(w)
    \/ TakeMasterLock(w) \/ ReadMaster(w) \/ WriteMaster(w) \/ AlarmBreaks(w)

Next ==
    \/ Ladder \/ Play \/ DeleteVideo \/ MinutePasses
    \/ \E w \in Workers : Begin(w) \/ Step(w) \/ Raises(w) \/ SigTerm(w) \/ Killed(w)

Fairness == WF_vars(MinutePasses) /\ \A w \in Workers : WF_vars(Step(w))

Spec == Init /\ [][Next]_vars /\ Fairness
----------------------------------------------------------------------------
(* Properties.                                                              *)

Pcs == {"idle", "gone", "check", "starting", "adding", "running", "dropping", "stuck",
        "files", "media", "waiting", "read", "write"}

\* Every variable has its type; only a builder that reads or writes the master
\* holds its lock, and its copy of the master lives from its read to its write
\* (RenditionBuilder.run).
TypeOK ==
    /\ video \in Videos
    /\ phase \in {"mp4", "ladder", "encode", "upload", "recorded", "ready", "failed"}
    /\ (cut = NoCut) <=> (phase \notin {"ladder", "encode"})
    /\ (ladder = NoLadder) <=> (phase # "upload")
    /\ stored \subseteq ({"v"} \X (0..9)) \cup (KINDS \X Nat \X {"index", "media"})
    /\ row \in BOOLEAN /\ queue \subseteq KINDS /\ plays \in 0..MaxPlays
    /\ \A w \in Workers :
          /\ build[w].pc \in Pcs
          /\ Building(w) => build[w].kind \in KINDS
          /\ (lock.by = w /\ build[w].pc # "gone") <=> (build[w].pc \in {"read", "write"})
          /\ (build[w].copy # <<>>) <=> (build[w].pc = "write")
          /\ build[w].waited \in 0..BLOCKING_TIMEOUT
    /\ stop \in [Workers -> BOOLEAN]
    /\ late \in [Workers -> Nat]
    /\ lock.by \in Workers \cup {NoOne} /\ lock.age \in 0..BLOCKING_TIMEOUT

\* Every output frame has a source frame that begins it.
NoGaps(tl, rate) ==
    \A t \in TickOf(tl, 1, rate)..TickOf(tl, Len(tl.ticks), rate) :
        \E i \in DOMAIN tl.ticks : TickOf(tl, i, rate) = t

\* However a long file's frames are timed, the pieces of its MP4 and of its
\* ladder, encoded apart and joined, show frame for frame what one encode
\* shows (frame_starts, segment_aligned_starts, piece_command); and where the
\* frames leave no gap, every ladder piece but the last is whole segments,
\* none of them a sliver, and the last is at least half a piece.
PiecesJoinAsOne ==
    cut # NoCut /\ cut.plan # NoPlan =>
        LET tl     == Timeline(cut.file)
            rate   == cut.rate
            plan   == cut.plan
            whole  == (SEGMENT_SECONDS * rate[1]) \div rate[2]
            count  == TickOf(tl, Len(tl.ticks), rate) - TickOf(tl, Last(plan.starts), rate)
        IN  /\ Joined(tl, plan, rate) = OneEncode(tl, rate)
            /\ cut.by = "ladder" /\ NoGaps(tl, rate) =>
                  /\ \A p \in 1..(Len(plan.starts) - 1) :
                        \A k \in DOMAIN Segments(plan.frames[p], rate) :
                            Segments(plan.frames[p], rate)[k] >= whole
                  /\ 2 * count >= PieceLength(PIECE_SECONDS, rate)

\* FFmpeg takes the command of every ladder, but for a silent source or one of
\* odd height below every rung: its split counts, labels and maps agree.  It
\* has a directory and a stream for every map and the audio, and each mapped
\* rung has the height the playlist lists it with, reached without ever scaling
\* up (_ladder_filter, build_ladder_command, write_master).
LadderIsWellFormed ==
    /\ phase = "failed" => \/ ~video.sound
                           \/ video.height < LADDER_HEIGHTS[1] /\ video.height % 2 = 1
                           \/ budget.troubles < MaxTroubles
    /\ phase = "upload" =>
        LET heights == variants_for(video.height, MAX_HEIGHT)
            listed  == LadderMaster
        IN  /\ Len(ladder.maps) + 1 = Len(ladder.streams)
            /\ {listed[k].n : k \in DOMAIN listed} = ladder.dirs
            /\ \A k \in DOMAIN ladder.maps :
                  LET passed == Passed(ladder.graph, video.height, ladder.maps[k].label)
                  IN  /\ Last(passed) = listed[k].height
                      /\ \A j \in 1..(Len(passed) - 1) : passed[j] >= passed[j + 1]

Stored(entry) ==
    IF entry.dir = "v" THEN <<"v", entry.n>> \in stored
    ELSE {<<entry.dir, entry.n, "index">>, <<entry.dir, entry.n, "media">>} \subseteq stored

\* A player is never sent to what is not there: whatever stops, crashes or
\* raises, every entry of a video's master playlist is a path the playback
\* route serves and all of its files are uploaded (hls.py:393, renditions.py:336).
MasterListsStored ==
    row => \A k \in DOMAIN master :
               Stored(master[k]) /\ safe_hls_path(master[k].dir, master[k].n)

\* Two builders of one video extend one master playlist: no upload of it drops
\* an entry another has listed (the lock and the second read in
\* RenditionBuilder.run).
NothingUnlisted ==
    [][row' => ToSet(master) \subseteq ToSet(master')]_vars

\* The master reads as a player needs it: HDR before AV1 before the ladder,
\* the ladder in its own order, nothing twice, one frame rate for every
\* picture; and a family that is listed is listed with all its rungs
\* (add_to_master, RenditionBuilder.run).
MasterReadsRight ==
    LET entry(k) == master[k]
        pictures == {k \in DOMAIN master : entry(k).height > 0}
        ofKind(x) == {k \in DOMAIN master : entry(k).dir = x}
    IN  /\ \A j, k \in DOMAIN master : j < k =>
              /\ rank(entry(j).dir) <= rank(entry(k).dir)
              /\ <<entry(j).dir, entry(j).n>> # <<entry(k).dir, entry(k).n>>
              /\ (entry(j).dir = "v" /\ entry(k).dir = "v") => entry(j).n < entry(k).n
        /\ \A j, k \in pictures : entry(j).rate = entry(k).rate
        /\ \A x \in KINDS : ofKind(x) # {} =>
              {entry(k).n : k \in ofKind(x)} = ToSet(rungs_for(video.height))

Listed(kind) == \E k \in DOMAIN master : master[k].dir = kind

\* hls.js's default first estimate, in kbps.
FIRST_ESTIMATE == 500

\* hls.js starts in a family whose cheapest entry fits its first estimate, or
\* is no dearer than the cheapest picture of the playlist.
StartsIn(kind) ==
    \E k \in DOMAIN master :
        /\ master[k].dir = kind
        /\ \/ master[k].peak <= FIRST_ESTIMATE
           \/ \A j \in DOMAIN master : master[j].height > 0 => master[k].peak <= master[j].peak

EndsWhole(kind) ==
    LET segments == Encoded(video, kind, Last(rungs_for(video.height)))
    IN  segments # <<>> /\ Last(segments).tenths >= SEGMENT_TENTHS

\* A player that can show a rendition starts in it however cheap the H.264
\* rungs are, where the measure is what START_CEILING reckons with ("worst
\* measured peak 1.25x the cap"): the bottom rung's last segment, which the
\* peak counts too, is as long as the others (ceiling, peak_bandwidth,
\* add_to_master).  With a shorter one the player may not.
WholeSegmentsStart == \A kind \in KINDS : Listed(kind) /\ EndsWhole(kind) => StartsIn(kind)

\* A worker told to stop lets at most one process run on: the one it was
\* starting when the signal came, between the check of the flag and the
\* registration of the process (interruption.run, request_stop).
AtMostOneLateEncode == \A w \in Workers : late[w] <= 1

BuildingKind(kind) == \E w \in Workers : Building(w) /\ build[w].kind = kind
AllStored(kind) == \A rung \in ToSet(rungs_for(video.height)) : <<kind, rung, "media">> \in stored
Excused(kind) ==
    \/ ~row
    \/ budget.troubles < MaxTroubles
    \/ \E w \in Workers : build[w].pc = "gone" /\ build[w].kind = kind

\* Every build ends, also one whose signal handler waits for its own thread's
\* lock; and one whose rungs are all uploaded ends listed in the master
\* playlist, also after another worker died holding the playlist's lock, unless
\* its own worker dies, something raises or the video is deleted (master_lock).
RenditionSettles ==
    \A kind \in KINDS :
        BuildingKind(kind) ~> (/\ ~BuildingKind(kind)
                               /\ AllStored(kind) => Listed(kind) \/ Excused(kind))
=============================================================================
