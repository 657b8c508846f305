---------------------------- MODULE LadderGraph ----------------------------
(***************************************************************************)
(* The H.264 ladder (app/worker/hls.py): which rungs a source gets, the    *)
(* filter graph that makes them all in one FFmpeg run, the streams the     *)
(* command maps, and the master playlist that lists them.                  *)
(*                                                                         *)
(* A graph is a set of nodes [in, scale, out, split]: the label read, the  *)
(* height scaled to (0: not scaled) and the labels written.  A playlist is *)
(* a sequence of entries [dir, n, height, peak, rate]: the URI dir/n, the  *)
(* RESOLUTION's height (0: audio only), the BANDWIDTH in kbps and the      *)
(* FRAME-RATE label (0: none).  What an encoder wrote is a sequence of     *)
(* segments [tenths, kbits]: how long each is, in tenths of a second, and  *)
(* how large.                                                              *)
(***************************************************************************)
EXTENDS Integers, SequencesExt, SeqFilter

LADDER_HEIGHTS   == <<360, 480, 720, 1080, 1440, 2160>>
ONLY_AS_TOP_RUNG == {480}
CASCADE_FROM     == 1080

\* kbps; a height outside the table gets FALLBACK_BITRATE.
BITRATES(h) ==
    CASE h = 480  -> 1400
      [] h = 720  -> 2800
      [] h = 1080 -> 5000
      [] h = 1440 -> 8000
      [] h = 2160 -> 14000
      [] OTHER    -> 800

AUDIO_KBPS == 128

\* Shortest first; a source below every rung gets one, at its own height.
variants_for(height, maxHeight) ==
    LET rungs == Among(LADDER_HEIGHTS, 0..Min({height, maxHeight}))
    IN  IF rungs = <<>> THEN <<height>>
        ELSE Among(rungs, ToSet(rungs) \ (ONLY_AS_TOP_RUNG \ {Last(rungs)}))

SOURCE == <<"source", 0>>

Node(in, scale, out) == [in |-> in, scale |-> scale, out |-> out, split |-> Len(out)]

\* Mutant: the outputs of the rungs scaled from the source are numbered among
\* themselves.
LabelsOfTheirOwn(heights) ==
    LET fromAnchor == Among(heights, 0..(CASCADE_FROM - 1))
        fromSource == Among(heights, ToSet(heights) \ ToSet(fromAnchor))
    IN  {Node(SOURCE, 0, [k \in DOMAIN fromSource |-> <<"s", fromSource[k]>>])}
        \cup {Node(<<"s", fromSource[k]>>, fromSource[k], <<<<"v", k - 1>>>>)
                : k \in DOMAIN fromSource}
        \cup {Node(<<"a", fromAnchor[k]>>, fromAnchor[k], <<<<"v", k - 1>>>>)
                : k \in DOMAIN fromAnchor}

\* Rungs from CASCADE_FROM up are scaled from the source, lower ones from the
\* CASCADE_FROM rendition when the ladder has it.
ladder_filter(heights) ==
    LET anchored   == CASCADE_FROM \in ToSet(heights)
        fromAnchor == Among(heights, IF anchored THEN 0..(CASCADE_FROM - 1) ELSE {})
        fromSource == Among(heights, ToSet(heights) \ ToSet(fromAnchor))
        out(h)     == <<"v", (CHOOSE k \in DOMAIN heights : heights[k] = h) - 1>>
        shared(h)  == IF h = CASCADE_FROM
                      THEN [k \in DOMAIN fromAnchor |-> <<"a", fromAnchor[k]>>]
                      ELSE <<>>
    IN  {Node(SOURCE, 0, [k \in DOMAIN fromSource |-> <<"s", fromSource[k]>>])}
        \cup {Node(<<"s", h>>, h, <<out(h)>> \o shared(h)) : h \in ToSet(fromSource)}
        \cup {Node(<<"a", h>>, h, <<out(h)>>) : h \in ToSet(fromAnchor)}

\* Every rung mapped with its ceiling and its buffer, the audio once, and the
\* variants -var_stream_map names: one of video per rung, then the audio's.
build_ladder_command(heights) ==
    [graph   |-> ladder_filter(heights),
     maps    |-> [k \in DOMAIN heights |->
                    [label   |-> <<"v", k - 1>>,
                     maxrate |-> BITRATES(heights[k]),
                     bufsize |-> 2 * BITRATES(heights[k])]],
     streams |-> [k \in DOMAIN heights |-> "video"] \o <<"audio">>,
     dirs    |-> 0..Len(heights)]

\* The rates, in kbps, of the segments that are at least so long.
RatesOf(segments, least) ==
    {(10 * segments[k].kbits) \div segments[k].tenths :
        k \in {i \in DOMAIN segments : segments[i].tenths >= least}}

\* _rates, the peak: a final sliver under a second does not count, unless
\* there is nothing else.
peak_rate(segments) ==
    LET whole == RatesOf(segments, 10)
    IN  Max({0} \cup IF whole # {} THEN whole ELSE RatesOf(segments, 1))

\* The master in FFmpeg's layout: the rungs shortest first, each with the peak
\* of its segments and the audio's, then the shared audio as a variant of its
\* own.
write_master(heights, peaks, audio) ==
    [k \in DOMAIN heights |->
        [dir |-> "v", n |-> k - 1, height |-> heights[k],
         peak |-> peaks[k] + audio, rate |-> 0]]
    \o <<[dir |-> "v", n |-> Len(heights), height |-> 0, peak |-> audio, rate |-> 0]>>

\* FRAME-RATE on every video rung, when the file's rate could be read.
label_frame_rates(master, rate) ==
    [k \in DOMAIN master |->
        IF master[k].height > 0 /\ master[k].rate = 0
        THEN [master[k] EXCEPT !.rate = rate] ELSE master[k]]

----------------------------------------------------------------------------
(* FFmpeg's side of the command.                                            *)

Made(graph) == {made \in graph \X (1..9) : made[2] <= Len(made[1].out)}
Label(made) == made[1].out[made[2]]

\* Every label is written by one node and read once, by a node or a map.
GraphIsAccepted(graph, maps) ==
    LET written == {Label(made) : made \in Made(graph)}
        inputs  == {node.in : node \in graph}
        mapped  == {maps[k].label : k \in DOMAIN maps}
    IN  /\ Cardinality(Made(graph)) = Cardinality(written)
        /\ Cardinality(inputs) = Cardinality(graph)
        /\ Cardinality(mapped) = Len(maps)
        /\ \A node \in graph : node.split = Len(node.out) /\ node.split > 0
        /\ inputs \ {SOURCE} \subseteq written
        /\ mapped \subseteq written
        /\ written = (inputs \ {SOURCE}) \cup mapped
        /\ (inputs \ {SOURCE}) \cap mapped = {}

\* The heights a label's picture has passed through, the source's first.
Passed(graph, sourceHeight, label) ==
    LET writer(l)  == CHOOSE node \in graph : l \in ToSet(node.out)
        path[l \in {Label(made) : made \in Made(graph)} \cup {SOURCE}] ==
            IF l = SOURCE THEN <<sourceHeight>>
            ELSE LET node == writer(l)
                 IN  IF node.scale = 0 THEN path[node.in]
                     ELSE Append(path[node.in], node.scale)
    IN  path[label]

\* libx264 takes 4:2:0 pictures of even height only; -var_stream_map fails
\* when it names an audio stream the file has not got.
LadderEncodes(command, sourceHeight, sound) ==
    /\ GraphIsAccepted(command.graph, command.maps)
    /\ sound
    /\ \A k \in DOMAIN command.maps :
          Last(Passed(command.graph, sourceHeight, command.maps[k].label)) % 2 = 0
=============================================================================
