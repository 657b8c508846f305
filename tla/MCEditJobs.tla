----------------------------- MODULE MCEditJobs -----------------------------
(* Files and requests for TLC: see edits.cfg.                              *)
EXTENDS EditJobs

Video(w, h, rotation, hdr, duration) ==
    [w |-> w, h |-> h, rotation |-> rotation, hdr |-> hdr,
     pix |-> IF hdr THEN "420p10" ELSE "420", turn |-> 0, mirrored |-> FALSE,
     hot |-> FALSE, vdur |-> duration, adur |-> duration, format |-> "upload"]

(* A 720p clip, a phone's upright 4K HDR video, a short one with an odd    *)
(* width, and one that is too long.                                        *)
MCFiles == {Video(1280, 720, 0, FALSE, 40), Video(3840, 2160, 90, TRUE, 40),
            Video(853, 480, 0, FALSE, 20), Video(1280, 720, 0, FALSE, 400)}

Op(name, params) == [operation |-> name, params |-> params]
Crop(w, h) == Op("crop", [x |-> 10, y |-> 10, w |-> w, h |-> h])
Clip(a, b) == Op("clip", [start |-> a, end |-> b])
Scale(op, h) == Op(op, [height |-> h])
Rotate(d) == Op("rotate", [degrees |-> d])
FlipOn(a) == Op("flip", [axis |-> a])
Speed(f) == Op("speed", [factor |-> f])
Preset == Op("preset", [name |-> "vintage"])
Convert(f) == Op("convert", [format |-> f])

MCRequests ==
    {<<Speed(200), Clip(10, 30), Scale("downscale", 240), Crop(641, 361)>>,
     <<Scale("upscale", 1440), Rotate(180)>>,
     <<Preset, Op("adjust", [contrast |-> 120]), FlipOn("horizontal"),
       Rotate(270), Scale("downscale", 360)>>,
     <<Convert("mkv"), Op("adjust", [gamma |-> 100])>>,
     <<Convert("mp3"), Clip(0, 20), Speed(50)>>,
     <<Convert("mp3"), FlipOn("vertical")>>,
     <<Scale("downscale", 240), Scale("upscale", 1080)>>,
     <<Op("adjust", [gamma |-> 300])>>}
=============================================================================
