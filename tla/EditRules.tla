------------------------------ MODULE EditRules ------------------------------
(***************************************************************************)
(* What an edit request may ask of a video, and the FFmpeg command the     *)
(* worker makes of it: app/schemas/edit.py, app/services/media_rules.py,   *)
(* app/worker/validation.py, app/worker/edit_ops, app/worker/operations.py *)
(* and the MP4's own filters in app/worker/storage.py.                     *)
(*                                                                         *)
(* A request is a sequence of [operation, params] records, in the order    *)
(* the client listed them; Named(r) is the dictionary both sides make of   *)
(* it.  Times are in the unit of a file's duration, a speed factor and the *)
(* colour sliders in hundredths.  A side of a frame that is not known      *)
(* (None) is Unknown.  A refusal (MediaRuleError, ValueError) is the       *)
(* frame Refused.                                                          *)
(***************************************************************************)
EXTENDS Integers, Sequences, SequencesExt, SeqFilter

Unknown == 0
Frame(w, h) == [width |-> w, height |-> h]
Refused == Frame(-1, -1)

SCALE_HEIGHTS == {240, 360, 480, 720, 1080, 1440, 2160}

OPERATION_ORDER == <<"clip", "crop", "rotate", "flip", "downscale",
                     "upscale", "adjust", "preset", "speed", "convert">>

Position(name) == CHOOSE i \in DOMAIN OPERATION_ORDER : OPERATION_ORDER[i] = name

(* ordered: names in the order the worker applies them.                    *)
ordered(names) == Among(OPERATION_ORDER, names)

(* The operations registered with changes_picture.                         *)
ChangesPicture == {"rotate", "flip", "crop", "downscale", "upscale",
                   "adjust", "preset"}

-----------------------------------------------------------------------------
(* The request: app/schemas/edit.py.                                       *)

ADJUST_RANGES == [brightness |-> <<-30, 30>>, contrast |-> <<50, 200>>,
                  saturation |-> <<0, 300>>, gamma |-> <<50, 200>>]

(* The strict model of each operation's params.                            *)
ParamsAreValid(op, p) ==
    CASE op = "clip"      -> p.start >= 0 /\ p.end > p.start
      [] op = "crop"      -> p.x >= 0 /\ p.y >= 0 /\ p.w > 0 /\ p.h > 0
      [] op = "rotate"    -> p.degrees \in {90, 180, 270}
      [] op = "flip"      -> p.axis \in {"horizontal", "vertical"}
      [] op \in {"downscale", "upscale"} -> p.height > 0
      [] op = "adjust"    -> /\ DOMAIN p # {}
                             /\ \A n \in DOMAIN p :
                                   /\ p[n] >= ADJUST_RANGES[n][1]
                                   /\ p[n] <= ADJUST_RANGES[n][2]
      [] op = "preset"    -> p.name \in {"bw", "warm", "cool", "vintage", "vivid"}
      [] op = "speed"     -> p.factor \in {50, 75, 100, 125, 150, 175, 200}
      [] op = "convert"   -> p.format \in {"mkv", "mp3"}

Names(request) == {request[i].operation : i \in DOMAIN request}

(* EditRequest: what FastAPI accepts as a request and the worker accepts   *)
(* of a stored one (_request).                                             *)
IsEditRequest(request) ==
    /\ Len(request) \in 1..Len(OPERATION_ORDER)
    /\ \A i \in DOMAIN request :
          ParamsAreValid(request[i].operation, request[i].params)
    /\ \A i, j \in DOMAIN request :
          request[i].operation = request[j].operation => i = j
    /\ ~ {"downscale", "upscale"} \subseteq Names(request)

(* {name: params}: a later entry of the same name would win.               *)
Named(request) ==
    [n \in Names(request) |->
        request[Max({i \in DOMAIN request : request[i].operation = n})].params]

(* convert's format, "mp4" when there is no convert.                       *)
OutputFormat(ops) ==
    IF "convert" \in DOMAIN ops THEN ops["convert"].format ELSE "mp4"

-----------------------------------------------------------------------------
(* The rules the API and the worker share: app/services/media_rules.py.    *)

(* check_scale                                                             *)
ScaleAllowed(operation, target, inputHeight) ==
    /\ target \in SCALE_HEIGHTS
    /\ inputHeight # Unknown =>
          /\ operation = "downscale" => target < inputHeight
          /\ operation = "upscale" => target > inputHeight

(* Mutant: the editor offers the height the video already has.             *)
ScaleOptionsWithItself(inputHeight) ==
    [downscale |-> {h \in SCALE_HEIGHTS : h <= inputHeight},
     upscale   |-> {h \in SCALE_HEIGHTS : h > inputHeight}]

(* scale_options: what the editor offers for a video this tall.            *)
ScaleOptions(inputHeight) ==
    IF inputHeight = Unknown
    THEN [downscale |-> {}, upscale |-> {}]
    ELSE [downscale |-> {h \in SCALE_HEIGHTS : h < inputHeight},
          upscale   |-> {h \in SCALE_HEIGHTS : h > inputHeight}]

(* Python's round(a / b): a tie goes to the even neighbour.                *)
PythonRound(a, b) ==
    LET q == a \div b
        twice == 2 * (a % b)
    IN  IF twice < b THEN q ELSE IF twice > b THEN q + 1 ELSE q + (q % 2)

(* FFmpeg's av_rescale: a tie goes up.                                     *)
FfmpegRound(a, b) == (2 * a + b) \div (2 * b)

Max2(n) == IF n < 2 THEN 2 ELSE n

(* _crop_rule, _rotate_rule, _scale_rule and _unchanged: the frame an      *)
(* operation leaves behind, or Refused.                                    *)
Rule(name, p, frame) ==
    CASE name = "crop" -> Frame(p.w, p.h)
      [] name = "rotate" /\ p.degrees \in {90, 270} ->
            Frame(frame.height, frame.width)
      [] name \in {"downscale", "upscale"} ->
            IF ~ ScaleAllowed(name, p.height, frame.height) THEN Refused
            ELSE Frame(IF Unknown \in {frame.width, frame.height} THEN Unknown
                       ELSE Max2(2 * PythonRound(frame.width * p.height,
                                                 2 * frame.height)),
                       p.height)
      [] OTHER -> frame

(* check_edit_operations: Refused, or the frame the last rule leaves.      *)
CheckEditOperations(ops, frame) ==
    IF OutputFormat(ops) = "mp3" /\ DOMAIN ops \intersect ChangesPicture # {}
    THEN Refused
    ELSE LET names == ordered(DOMAIN ops)
             after[i \in 0..Len(names)] ==
                 IF i = 0 THEN frame
                 ELSE LET before == after[i - 1] IN
                      IF before = Refused THEN Refused
                      ELSE Rule(names[i], ops[names[i]], before)
         IN  after[Len(names)]

-----------------------------------------------------------------------------
(* Files and probes.  A file is what storage holds: the stored size of its *)
(* video (0 for sound alone), the rotation a player applies, whether it is *)
(* HDR, the pixel format, which way up and how mirrored its picture is     *)
(* against the original's, and how long its picture and its sound last.    *)

(* _display_size: the size as shown, not as stored.                        *)
DisplaySize(file) ==
    IF file.rotation % 180 # 0 THEN Frame(file.h, file.w)
    ELSE Frame(file.w, file.h)

(* probe_source raises for a file with no video stream.                    *)
Probes(file) == file.w > 0 /\ file.h > 0 /\ file.vdur > 0

(* check_source_duration, for a limit that is on (> 0).                    *)
SourceIsAllowed(file, maxDuration) ==
    maxDuration > 0 => file.vdur \in 1..maxDuration

(* validate_clip and validate_crop, against the real file.                 *)
ClipFits(ops, file) ==
    "clip" \in DOMAIN ops => ops["clip"].end <= file.vdur

CropFits(ops, file) ==
    "crop" \in DOMAIN ops =>
        LET p == ops["crop"] IN
        /\ p.x + p.w <= DisplaySize(file).width
        /\ p.y + p.h <= DisplaySize(file).height

-----------------------------------------------------------------------------
(* The filters: app/worker/edit_ops.                                       *)

Eq == [filter |-> "eq"]
Format(pix) == [filter |-> "format", pix |-> pix]
Flip(f) == [filter |-> f]

(* adjust's options at eq's own default are not passed.                    *)
AdjustDefault == [brightness |-> 0, contrast |-> 100, saturation |-> 100,
                  gamma |-> 100]
AdjustFilters(p) ==
    IF \A n \in DOMAIN p : p[n] = AdjustDefault[n] THEN <<>> ELSE <<Eq>>

(* A look works in 4:4:4 and hands back 4:2:0.                             *)
PresetFilters(p) == <<Format("444"), Eq, Format("420")>>

RotateFilters(p) ==
    CASE p.degrees = 90  -> <<[filter |-> "transpose", turns |-> 1]>>
      [] p.degrees = 180 -> <<Flip("hflip"), Flip("vflip")>>
      [] p.degrees = 270 -> <<[filter |-> "transpose", turns |-> 3]>>

FlipFilters(p) ==
    <<Flip(IF p.axis = "horizontal" THEN "hflip" ELSE "vflip")>>

CropFilters(p) == <<[filter |-> "crop", w |-> p.w, h |-> p.h]>>

ScaleFilters(p) == <<[filter |-> "scale", height |-> p.height]>>

Retime(factor) == [filter |-> "retime", factor |-> factor]

(* What each registered build adds to -vf; clip is input seeking and       *)
(* convert the output format, so neither has filters.                      *)
VideoFilters(name, p) ==
    CASE name = "crop"   -> CropFilters(p)
      [] name = "rotate" -> RotateFilters(p)
      [] name = "flip"   -> FlipFilters(p)
      [] name \in {"downscale", "upscale"} -> ScaleFilters(p)
      [] name = "adjust" -> AdjustFilters(p)
      [] name = "preset" -> PresetFilters(p)
      [] name = "speed"  -> <<Retime(p.factor)>>
      [] OTHER -> <<>>

(* ... and to -af: speed's asetpts and atempo.                             *)
AudioFilters(name, p) ==
    IF name = "speed" THEN <<Retime(p.factor)>> ELSE <<>>

(* filter_chain: split where the tone-map goes, before TONE_MAPPED_FROM.   *)
TONE_MAPPED_FROM == "adjust"
FilterChain(ops) ==
    LET names == ordered(DOMAIN ops)
        all(ns, Filters(_, _)) ==
            FlattenSeq([i \in DOMAIN ns |-> Filters(ns[i], ops[ns[i]])])
        early == {n \in DOMAIN ops : Position(n) < Position(TONE_MAPPED_FROM)}
        geometry == Among(names, early)
        colour == Among(names, DOMAIN ops \ early)
    IN  [before |-> all(geometry, VideoFilters),
         after  |-> all(colour, VideoFilters),
         audio  |-> all(names, AudioFilters)]

(* sdr_filters: the tail of every chain.                                   *)
SdrFilters(hdr) ==
    (IF hdr THEN <<[filter |-> "tonemap"]>> ELSE <<>>) \o <<Format("420")>>

(* mp4_video_filters: an upload's MP4, capped in height.                   *)
Mp4Filters(maxHeight, hdr) ==
    <<[filter |-> "cap", height |-> maxHeight]>> \o SdrFilters(hdr)

-----------------------------------------------------------------------------
(* build_edit_command: a command, or NoCommand where it raises.            *)
NoCommand == [codec |-> "none"]

(* Mutant: colour first, then the tone-map.                                *)
ToneMapLast(ops, hdr) ==
    LET chain == FilterChain(ops) IN
    chain.before \o chain.after \o SdrFilters(hdr)

(* -vf of a re-encode: geometry, tone-map, colour.                         *)
PictureChain(ops, hdr) ==
    LET chain == FilterChain(ops) IN
    chain.before \o SdrFilters(hdr) \o chain.after

BuildEditCommand(ops, hdr) ==
    LET chain == FilterChain(ops)
        format == OutputFormat(ops)
        command == [codec  |-> "x264",
                    clip   |-> IF "clip" \in DOMAIN ops THEN ops["clip"]
                               ELSE [start |-> 0, end |-> 0],
                    vf     |-> PictureChain(ops, hdr),
                    af     |-> chain.audio,
                    format |-> format]
    IN  IF format = "mp3"
        THEN IF DOMAIN ops \intersect ChangesPicture # {} THEN NoCommand
             ELSE [command EXCEPT !.codec = "mp3", !.vf = <<>>]
        ELSE IF /\ format = "mkv"
                /\ chain.before \o chain.after \o chain.audio = <<>>
        THEN [command EXCEPT !.codec = "copy", !.vf = <<>>]
        ELSE command

-----------------------------------------------------------------------------
(* FFmpeg, as the code relies on it: external.                             *)

EvenDown(n) == n - (n % 2)

(* One filter's effect on a picture.  crop rounds to the chroma grid;      *)
(* scale=-2:H keeps the shape with an even width; a flip mirrors what the  *)
(* turns before it left; hot records colour applied to an HDR picture.     *)
ApplyFilter(pic, f) ==
    LET scaled(h) == [pic EXCEPT !.w = 2 * FfmpegRound(pic.w * h, 2 * pic.h),
                                 !.h = h]
    IN  CASE f.filter = "crop"      -> [pic EXCEPT !.w = EvenDown(f.w),
                                                   !.h = EvenDown(f.h)]
          [] f.filter = "transpose" -> [pic EXCEPT !.w = pic.h, !.h = pic.w,
                                            !.turn = (pic.turn + f.turns) % 4]
          [] f.filter = "hflip"     -> [pic EXCEPT !.turn = (4 - pic.turn) % 4,
                                                   !.mirrored = ~ pic.mirrored]
          [] f.filter = "vflip"     -> [pic EXCEPT !.turn = (6 - pic.turn) % 4,
                                                   !.mirrored = ~ pic.mirrored]
          [] f.filter = "scale"     -> scaled(f.height)
          [] f.filter = "cap"       -> scaled(IF pic.h < f.height THEN pic.h
                                              ELSE f.height)
          [] f.filter = "tonemap"   -> [pic EXCEPT !.hdr = FALSE]
          [] f.filter = "format"    -> [pic EXCEPT !.pix = f.pix]
          [] f.filter = "eq"        -> [pic EXCEPT !.hot = pic.hot \/ pic.hdr]
          [] f.filter = "retime"    -> [pic EXCEPT !.vdur =
                                            (100 * pic.vdur) \div f.factor]

(* -ss and -to on the input.                                               *)
Seek(file, clip) ==
    LET cut(d) == IF clip.end = 0 THEN d ELSE clip.end - clip.start IN
    [file EXCEPT !.vdur = cut(file.vdur), !.adur = cut(file.adur)]

(* Decoding applies the rotation flag before any filter.                   *)
Upright(file) ==
    LET onItsSide == file.rotation \in {90, 270} IN
    [file EXCEPT !.w = IF onItsSide THEN file.h ELSE file.w,
                 !.h = IF onItsSide THEN file.w ELSE file.h,
                 !.rotation = 0]

Encoded(file, vf, af, format) ==
    LET picture[i \in 0..Len(vf)] ==
            IF i = 0 THEN Upright(file)
            ELSE LET before == picture[i - 1] IN ApplyFilter(before, vf[i])
        sound == IF af = <<>> THEN file.adur
                 ELSE (100 * file.adur) \div af[1].factor
    IN  [picture[Len(vf)] EXCEPT !.adur = sound, !.format = format]

(* libx264 takes even sides only.                                          *)
EncoderTakes(file) == file.w % 2 = 0 /\ file.h % 2 = 0

RunCommand(file, c) ==
    LET input == Seek(file, c.clip) IN
    CASE c.codec = "copy" -> [input EXCEPT !.format = c.format]
      [] c.codec = "mp3"  -> [Encoded(input, <<>>, c.af, "mp3")
                                 EXCEPT !.w = 0, !.h = 0, !.vdur = 0]
      [] c.codec = "x264" -> Encoded(input, c.vf, c.af, c.format)

-----------------------------------------------------------------------------
(* EditProcessor.run, from the downloaded file to the file to be uploaded: *)
(* ok says which, why says who refused.                                    *)
Failure(why) == [ok |-> FALSE, why |-> why]

(* Anything beyond a format change is checked against the real file.       *)
NeedsProbe(ops) == DOMAIN ops # {"convert"}

EditResult(request, file) ==
    LET ops == Named(request)
        command == BuildEditCommand(ops, Probes(file) /\ file.hdr)
        output == RunCommand(file, command)
    IN  IF ~ IsEditRequest(request) THEN Failure("request")
        ELSE IF NeedsProbe(ops) /\ ~ Probes(file) THEN Failure("probe")
        ELSE IF NeedsProbe(ops) /\ ~ (ClipFits(ops, file) /\ CropFits(ops, file))
        THEN Failure("bounds")
        ELSE IF /\ NeedsProbe(ops)
                /\ CheckEditOperations(ops, DisplaySize(file)) = Refused
        THEN Failure("rules")
        ELSE IF command = NoCommand THEN Failure("command")
        ELSE IF command.codec = "x264" /\ ~ EncoderTakes(output)
        THEN Failure("encoder")
        ELSE [ok |-> TRUE, file |-> output]

(* FfmpegProcessor._probe with its source_check: what refuses an upload.   *)
ProbeFirst(file, maxDuration) ==
    IF ~ Probes(file) THEN "probe"
    ELSE IF ~ SourceIsAllowed(file, maxDuration) THEN "length" ELSE "fine"

(* FfmpegProcessor._encode_once; the pieces make the same picture.         *)
EncodeOnce(file, maxHeight) == Encoded(file, Mp4Filters(maxHeight, file.hdr), <<>>, "mp4")

(* FfmpegProcessor.run: the MP4 of an upload.                              *)
Mp4Result(file, maxHeight, maxDuration) ==
    LET found == ProbeFirst(file, maxDuration)
        output == EncodeOnce(file, maxHeight)
    IN  IF found # "fine" THEN Failure(found)
        ELSE IF ~ EncoderTakes(output) THEN Failure("encoder")
        ELSE [ok |-> TRUE, file |-> output]
=============================================================================
