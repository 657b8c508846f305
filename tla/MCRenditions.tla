---------------------------- MODULE MCRenditions ----------------------------
(***************************************************************************)
(* Renditions with two workers, the sources that take each branch of the   *)
(* ladder and the renditions, and files whose frames are timed regularly,  *)
(* with one or two frames missing, late, out of order or offset.           *)
(***************************************************************************)
EXTENDS Renditions

Source(h, hdr, transfer) ==
    [height |-> h, hdr |-> hdr, transfer |-> transfer, sound |-> TRUE, rate |-> 30,
     tail |-> 40, simple |-> TRUE]

\* Two tenths of a second more than whole segments.
ShortEnded(h) == [Source(h, FALSE, "bt709") EXCEPT !.tail = 2]

\* What the renditions tell apart, small and large, and sources that get no
\* ladder or no label.
MCVideos ==
    {Source(360, TRUE, "smpte2084"), Source(720, TRUE, "arib-std-b67"),
     Source(2160, TRUE, "other"), ShortEnded(1080),
     [Source(480, FALSE, "bt709") EXCEPT !.simple = FALSE], Source(359, FALSE, "bt709"),
     [Source(1440, FALSE, "bt709") EXCEPT !.sound = FALSE],
     [Source(144, FALSE, "bt709") EXCEPT !.rate = 0]}

\* Two segments and a last one, each as large as the rate control allows, but
\* for H.264 of simple footage: a fifth of that over a buffer of two seconds.
Written(tail, cap, buffer, share) ==
    [k \in 1..3 |-> LET tenths == IF k = 3 THEN tail ELSE SEGMENT_TENTHS
                    IN  [tenths |-> tenths,
                         kbits  |-> (cap * (tenths + buffer) * share) \div 1000]]

MCEncoded(v, codec, height) ==
    CASE codec = "h264" -> Written(v.tail, BITRATES(height), 20, IF v.simple THEN 20 ELSE 100)
      [] codec = "aac"  -> Written(v.tail, AUDIO_KBPS, 2, 100)
      [] OTHER          -> Written(v.tail, ceiling(codec, height), 10, 100)

TB == 60        \* time base units in a second
Seconds == 9    \* length of a long file

\* Frames of num/den a second, but for those in gone; one of them late.
Timed(num, den, gone, slow, by) ==
    LET step  == (TB * den) \div num
        count == (Seconds * num) \div den
        kept  == SelectSeq([k \in 1..count |-> k], LAMBDA k : k \notin gone)
    IN  [pts     |-> [k \in DOMAIN kept |-> step * (kept[k] - 1)
                                              + IF kept[k] = slow THEN by ELSE 0],
         origin  |-> 0, tb |-> TB, end |-> count * step,
         base    |-> <<num, den>>, average |-> <<num, den>>]

Offset(file, by) ==
    [file EXCEPT !.pts = [k \in DOMAIN file.pts |-> file.pts[k] + by],
                 !.origin = by, !.end = @ + by]

MCFiles ==
    {Timed(2, 1, {i, j}, 0, 0) : i, j \in 2..18}
    \cup {Timed(2, 1, {i, i + 1, i + 2}, k, by) : i \in 2..14, k \in {9, 10}, by \in {14, 15, 16, 29}}
    \cup {Timed(5, 4, {i}, k, by) : i \in {0} \cup 2..11, k \in 3..6, by \in {0, 12, 24}}
    \cup {Timed(4, 5, {i}, 0, 0) : i \in {0} \cup 2..7}
    \cup {Timed(3, 1, {i}, 0, 0) : i \in {0} \cup 2..27}
    \cup {Offset(Timed(2, 1, {5}, 0, 0), 45),
          [Timed(2, 1, {}, 0, 0) EXCEPT !.pts = Reverse(@)],
          [Timed(2, 1, {}, 0, 0) EXCEPT !.base = <<240, 1>>, !.average = <<2, 1>>],
          [Timed(2, 1, {}, 0, 0) EXCEPT !.base = <<0, 1>>],
          [Timed(1, 1, {}, 0, 0) EXCEPT !.end = 240, !.pts = SubSeq(@, 1, 4)],
          [Timed(1, 1, {}, 0, 0) EXCEPT !.pts = <<>>]}
=============================================================================
