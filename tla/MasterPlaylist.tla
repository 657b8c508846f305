--------------------------- MODULE MasterPlaylist ---------------------------
(***************************************************************************)
(* The AV1 renditions a finished ladder may be given (renditions.py): which *)
(* kinds and rungs a source gets, what each rung may spend, and how their  *)
(* entries join the master playlist; and the paths the playback route      *)
(* serves (api/hls.py).                                                    *)
(***************************************************************************)
EXTENDS LadderGraph

KINDS == {"hdr", "av1"}
RUNGS == <<1080, 720, 360>>
AV1_MAX_SOURCE_HEIGHT == 1080
CAP_SHARE == [hdr |-> 75, av1 |-> 60]     \* per cent of the H.264 ceiling
START_RUNG_HEIGHT == 360
START_CEILING == 296                      \* kbps
SEGMENT_TENTHS == 40                      \* SEGMENT_SECONDS

rungs_for(sourceHeight) ==
    LET heights == Among(RUNGS, 0..sourceHeight)
    IN  IF heights = <<>> THEN <<sourceHeight>> ELSE heights

\* Mutant: the bottom rung itself escapes the starting ceiling.
UncappedStart(kind, height) ==
    LET shared == (BITRATES(height) * CAP_SHARE[kind]) \div 100
    IN  IF height < START_RUNG_HEIGHT THEN Min({shared, START_CEILING}) ELSE shared

ceiling(kind, height) ==
    LET shared == (BITRATES(height) * CAP_SHARE[kind]) \div 100
    IN  IF height <= START_RUNG_HEIGHT THEN Min({shared, START_CEILING}) ELSE shared

\* Whether this source gets this kind; transfer is the colour transfer a
\* player can be told of (PQ or HLG), or "other".
plan_rendition(kind, v) ==
    CASE kind = "hdr" -> v.hdr /\ v.transfer \in {"smpte2084", "arib-std-b67"}
      [] kind = "av1" -> v.height <= AV1_MAX_SOURCE_HEIGHT

\* The peak over all of a rung's segments, the last and short one included.
peak_bandwidth(segments) == Max({0} \cup RatesOf(segments, 1))

\* HDR, then AV1, then the ladder.
rank(dir) == CASE dir = "hdr" -> 0 [] dir = "av1" -> 1 [] OTHER -> 2

Lists(master, dir, n) == \E k \in DOMAIN master : master[k].dir = dir /\ master[k].n = n

\* Mutant: the entries are appended and the master is not sorted.
WithUnsorted(master, kind, rungs, bandwidth) ==
    LET rate == master[Min({k \in DOMAIN master : master[k].height > 0})].rate
    IN  master \o [k \in DOMAIN rungs |->
            [dir |-> kind, n |-> rungs[k], height |-> rungs[k],
             peak |-> bandwidth[rungs[k]] + AUDIO_KBPS, rate |-> rate]]

\* add_to_master for every rung of a rendition, in the order they were encoded:
\* a rung already listed changes nothing, the measured peak gets the audio's
\* share, the frame rate is that of the first entry with a picture.  Each call
\* appends an entry and sorts by rank; as the sort is stable, the calls are one
\* sort of the master with the entries after it.
WithRendition(master, kind, rungs, bandwidth) ==
    LET rate     == master[Min({k \in DOMAIN master : master[k].height > 0})].rate
        unlisted == Among(rungs, {rung \in ToSet(rungs) : ~Lists(master, kind, rung)})
        entry(rung) ==
            [dir |-> kind, n |-> rung, height |-> rung,
             peak |-> bandwidth[rung] + AUDIO_KBPS, rate |-> rate]
        appended(r) == IF rank(kind) = r
                       THEN [k \in DOMAIN unlisted |-> entry(unlisted[k])] ELSE <<>>
        ranked(r) == Among(master, {e \in ToSet(master) : rank(e.dir) = r}) \o appended(r)
    IN  ranked(0) \o ranked(1) \o ranked(2)

\* _HLS_PATH: v0..v99 for the ladder, three or four digits for a rendition.
safe_hls_path(dir, n) ==
    \/ dir = "v" /\ n \in 0..99
    \/ dir \in KINDS /\ 100 <= n /\ n <= 9999
=============================================================================
