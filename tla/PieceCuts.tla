----------------------------- MODULE PieceCuts -----------------------------
(***************************************************************************)
(* Where a long video is cut so that its pieces, encoded apart and joined, *)
(* are the frames one encode would have written.  The MP4 is cut by        *)
(* chunked.frame_starts, the ladder by ladder_pieces.segment_aligned_starts. *)
(*                                                                         *)
(* A timeline is [ticks, tb, end, rate]: the sorted timestamps of the      *)
(* source's frames in time base units, the units in a second, the instant  *)
(* the last frame ends, and the source's frame rate.  A rate is a pair     *)
(* <<num, den>> of frames per second, exact as the code's Fractions are.   *)
(* A frame is named by its index in ticks.                                 *)
(***************************************************************************)
EXTENDS Integers, Sequences, FiniteSetsExt, TLC

CONSTANT SEGMENT_SECONDS    \* length of an HLS segment; 6 in hls.py

ASSUME SegmentAssumption == SEGMENT_SECONDS \in Nat \ {0}

Slower(r, q) == r[1] * q[2] < q[1] * r[2]

\* av_guess_frame_rate: the base rate, unless it is implausible and the
\* average is not; <<0, 1>> when neither can be read.
read_frame_rate(base, average) ==
    IF /\ Slower(<<0, 1>>, average) /\ Slower(average, <<70, 1>>)
       /\ Slower(<<210, 1>>, base)
    THEN average
    ELSE base

\* The packets of a file arrive in decoding order and count from their own
\* zero; the cuts want them sorted and counted from the file's start.
read_frame_ticks(pts, origin) ==
    SortSeq([i \in DOMAIN pts |-> pts[i] - origin], <)

OutputRate(tl, maxFps) ==
    IF Slower(<<maxFps, 1>>, tl.rate) THEN <<maxFps, 1>> ELSE tl.rate

\* The output frame the rate filter rounds a time to: nearest, a half up.
output_tick(t, tb, rate) ==
    (2 * t * rate[1] + tb * rate[2]) \div (2 * tb * rate[2])

TickOf(tl, i, rate) == output_tick(tl.ticks[i], tl.tb, rate)

\* Mutant: a piece starts on whatever frame comes first.
AnyFrame(tl, i, rate) == TRUE

\* Frame i begins its output frame: the one before it rounds to an earlier one.
Suitable(tl, i, rate) ==
    i = 1 \/ TickOf(tl, i - 1, rate) < TickOf(tl, i, rate)

LastTime(tl) == tl.ticks[Len(tl.ticks)]

\* A remainder shorter than half a piece joins the piece before it.
JoinRemainder(starts, tooShort) ==
    IF Len(starts) > 1 /\ tooShort
    THEN SubSeq(starts, 1, Len(starts) - 1) ELSE starts

\* The first suitable frame at or after every chunkSeconds.
frame_starts(tl, chunkSeconds, rate) ==
    LET chunk == chunkSeconds * tl.tb
        after(mark) == {i \in DOMAIN tl.ticks : tl.ticks[i] >= mark
                                                /\ Suitable(tl, i, rate)}
        from[mark \in Nat] ==
            IF mark > LastTime(tl) \/ after(mark) = {} THEN <<>>
            ELSE LET i == Min(after(mark))
                 IN  <<i>> \o from[((tl.ticks[i] \div chunk) + 1) * chunk]
        starts == IF tl.ticks = <<>> THEN <<>> ELSE from[0]
    IN  JoinRemainder(starts,
            2 * (LastTime(tl) - tl.ticks[starts[Len(starts)]]) < chunk)

CeilDiv(a, b) == (a + b - 1) \div b

\* Python's round(a / b): a half to the even neighbour.
RoundHalfEven(a, b) ==
    LET down == a \div b
        rest == 2 * (a % b)
    IN  IF rest > b \/ (rest = b /\ down % 2 = 1) THEN down + 1 ELSE down

\* Output frames of a ladder piece: those of its whole segments.
PieceLength(pieceSeconds, rate) ==
    LET segments == Max({1, RoundHalfEven(pieceSeconds, SEGMENT_SECONDS)})
    IN  CeilDiv(segments * SEGMENT_SECONDS * rate[1], rate[2])

\* The frames that begin an output frame, one for every PieceLength of them; the
\* targets count from the first.
segment_aligned_starts(tl, pieceSeconds, rate) ==
    LET length  == PieceLength(pieceSeconds, rate)
        begins  == {i \in DOMAIN tl.ticks : Suitable(tl, i, rate)}
        tick(i) == TickOf(tl, i, rate)
        first   == tick(Min(begins))
        last    == Max({tick(i) : i \in begins})
        from[target \in Nat] ==
            LET there == {i \in begins : tick(i) - first >= target}
            IN  IF there = {} THEN <<>>
                ELSE <<Min(there)>> \o from[tick(Min(there)) - first + length]
        starts  == IF begins = {} THEN <<>> ELSE from[0]
    IN  JoinRemainder(starts, 2 * (last - tick(starts[Len(starts)])) < length)

\* Output frames every piece writes; the last runs to the end (0).
Frames(tl, starts, rate) ==
    [p \in DOMAIN starts |->
        IF p = Len(starts) THEN 0
        ELSE TickOf(tl, starts[p + 1], rate) - TickOf(tl, starts[p], rate)]

\* A plan, or NoPlan when the source cannot be cut: the caller then encodes
\* it in one run.
NoPlan == [starts |-> <<>>, start_ticks |-> <<>>, frames |-> <<>>]
PlanOf(tl, starts, rate) ==
    IF Len(starts) < 2 \/ rate[1] = 0 THEN NoPlan
    ELSE [starts      |-> starts,
          start_ticks |-> [p \in DOMAIN starts |-> tl.ticks[starts[p]]],
          frames      |-> Frames(tl, starts, rate)]

wants(seconds, minDuration) == seconds >= minDuration

----------------------------------------------------------------------------
(* FFmpeg, as the piece commands use it.                                    *)

\* -ss a millisecond before the start: the frames the piece's input yields.
Seek(tl, start) ==
    {i \in DOMAIN tl.ticks : 1000 * tl.ticks[i] >= 1000 * start - tl.tb}

\* The fps filter on frames whose clock is shifted: each output frame shows the
\* latest frame rounded to it or before, from the first frame's to the end's.
FpsFilter(tl, input, shift, rate) ==
    LET tick(i) == output_tick(tl.ticks[i] + shift, tl.tb, rate)
        first   == tick(Min(input))
    IN  [n \in 1..Max({0, output_tick(tl.end + shift, tl.tb, rate) - first}) |->
            Max({i \in input : tick(i) <= first + n - 1})]

\* One encode: every frame, on its own clock.
OneEncode(tl, rate) == FpsFilter(tl, DOMAIN tl.ticks, 0, rate)

\* piece_command: setpts puts the first frame of the piece back on
\* start_ticks, the filter rounds on the video's clock, -frames:v ends it.
EncodePiece(tl, plan, p, rate) ==
    LET input == Seek(tl, plan.start_ticks[p])
        shown == FpsFilter(tl, input, plan.start_ticks[p] - tl.ticks[Min(input)], rate)
    IN  IF plan.frames[p] = 0 THEN shown
        ELSE SubSeq(shown, 1, Min({plan.frames[p], Len(shown)}))

\* The concat demuxer, or the ladder's playlists: the pieces in order.
Joined(tl, plan, rate) ==
    LET upTo[p \in 0..Len(plan.starts)] ==
            IF p = 0 THEN <<>>
            ELSE upTo[p - 1] \o EncodePiece(tl, plan, p, rate)
    IN  upTo[Len(plan.starts)]

\* Keyframes every SEGMENT_SECONDS of a piece: the frames of its segments.
Segments(count, rate) ==
    LET edge(k) == CeilDiv(k * SEGMENT_SECONDS * rate[1], rate[2])
        whole   == Max({k \in 0..count : edge(k) < count} \cup {0})
    IN  [k \in 1..(whole + 1) |->
            (IF k = whole + 1 THEN count ELSE edge(k)) - edge(k - 1)]
=============================================================================
