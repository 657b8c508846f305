-------------------------- MODULE RenditionsProofs --------------------------
(***************************************************************************)
(* Proofs about Renditions, for any workers, sources, files and bounds.    *)
(*                                                                         *)
(* Inv is inductive: besides the types it says, of every worker, how its   *)
(* stop flag and its late encodes go together (StopFact), that it holds    *)
(* the master's lock exactly while it reads or writes the master and that  *)
(* its copy is then the master itself (LockFact), and that every rung it   *)
(* no longer has to encode is uploaded (RungFact); of the ladder, that its *)
(* command is that of the source (LadderFact); and of the master, that its *)
(* entries are uploaded and named by a rung or a ladder directory          *)
(* (ListFact).  Two more facts rest on it: what the entries of a master    *)
(* and of the copies about to be written say (ReadFact), and why a ladder  *)
(* failed (FailFact).  That FFmpeg takes a ladder's graph, and that the    *)
(* pieces of a long video join as one encode, are no facts about states    *)
(* but about the functions of hls.py, and of chunked.py and                *)
(* ladder_pieces.py: their lemmas come last.                               *)
(***************************************************************************)
EXTENDS Renditions, SeqFilterProofs, FiniteSetTheorems

\* s is a sequence of its own elements.
IsSeq(s) == s \in Seq(ToSet(s))

\* A builder's record has the fields Idle has.
Whole(b) == DOMAIN b = {"pc", "what", "kind", "todo", "ok", "copy", "waited"}

\* What the builders of this video encode, the peaks they measure, and a rung's
\* files uploaded.
Rungs == rungs_for(video.height)
MeasuredPeaks(kind) == [rung \in ToSet(Rungs) |-> peak_bandwidth(Encoded(video, kind, rung))]
Both(kind, rung) == {<<kind, rung, "index">>, <<kind, rung, "media">>} \subseteq stored

\* One late encode at most, and only after a stop that ends the build.
StopFact(w) ==
    /\ late[w] \in {0, 1}
    /\ stop[w] => build[w].pc # "idle"
    /\ late[w] = 1 =>
          build[w].pc = "gone" \/ (stop[w] /\ build[w].pc \notin {"starting", "adding"})

\* The lock goes with the lines that read and write the master; what is about
\* to be written extends the master as it is.
LockFact(w) ==
    /\ (lock.by = w /\ build[w].pc # "gone") <=> (build[w].pc \in {"read", "write"})
    /\ (build[w].copy # <<>>) <=> (build[w].pc = "write")
    /\ row /\ build[w].pc = "write" => build[w].copy = master

\* The lines that upload a rung, and those that list the rendition.
Uploading == {"files", "media"}
Listing == {"waiting", "read", "write"}

\* What a build has encoded and uploaded so far.
RungFact(w) ==
    /\ Building(w) => build[w].kind \in KINDS /\ phase \in {"recorded", "ready"}
    /\ Building(w) => build[w].what \in {"probe", "encode"}
    /\ build[w].pc \in Uploading \cup Listing => build[w].what = "encode"
    /\ build[w].what = "encode" =>
          /\ IsSeq(build[w].todo)
          /\ ToSet(build[w].todo) \subseteq ToSet(Rungs)
          /\ build[w].pc \in Listing => build[w].todo = <<>>
          /\ build[w].pc \notin Listing => build[w].todo # <<>>
          /\ row => \A r \in ToSet(Rungs) \ ToSet(build[w].todo) : Both(build[w].kind, r)
    /\ row /\ build[w].pc = "media" =>
          <<build[w].kind, Head(build[w].todo), "index">> \in stored

\* All there is to know of one worker.
BuildFact(w) ==
    /\ Whole(build[w]) /\ build[w].pc \in Pcs /\ build[w].waited \in 0..BLOCKING_TIMEOUT
    /\ StopFact(w) /\ LockFact(w) /\ RungFact(w)

\* The ladder being uploaded is the source's; nothing is listed before it is.
LadderFact ==
    /\ phase \in {"mp4", "ladder", "encode"} => master = <<>>
    /\ phase = "upload" =>
          ladder = build_ladder_command(variants_for(video.height, MAX_HEIGHT))
    /\ row => IsSeq(master)

\* The types of the variables.
Typed ==
    /\ video \in Videos
    /\ phase \in {"mp4", "ladder", "encode", "upload", "recorded", "ready", "failed"}
    /\ (cut = NoCut) <=> (phase \notin {"ladder", "encode"})
    /\ (ladder = NoLadder) <=> (phase # "upload")
    /\ stored \subseteq ({"v"} \X (0..9)) \cup (KINDS \X Nat \X {"index", "media"})
    /\ row \in BOOLEAN /\ queue \subseteq KINDS /\ plays \in 0..MaxPlays
    /\ build = [w \in Workers |-> build[w]]
    /\ stop \in [Workers -> BOOLEAN]
    /\ late \in [Workers -> Nat]
    /\ lock \in [by : Workers \cup {NoOne}, age : 0..BLOCKING_TIMEOUT]

\* An entry is a ladder directory or a rung of a rendition; those listed are
\* uploaded.
Named(e) == \/ e.dir = "v" /\ e.n \in 0..9
            \/ e.dir \in KINDS /\ e.n \in ToSet(Rungs)

ListFact ==
    row => \A e \in ToSet(master) : Stored(e) /\ Named(e)

\* The inductive invariant.
Inv == Typed /\ LadderFact /\ ListFact /\ \A w \in Workers : BuildFact(w)

----------------------------------------------------------------------------
\* The least element of a set of naturals is one of them, and the least.
LEMMA MinIsIn ==
    ASSUME NEW S \in SUBSET Nat, S # {}
    PROVE  Min(S) \in S /\ \A y \in S : Min(S) <= y
<1>1. PICK x \in S : \A y \in S : x <= y
  BY LeastNat
<1> QED BY <1>1 DEF Min

\* What a concatenation holds.
LEMMA ElementsOfConcat ==
    ASSUME NEW T, NEW s \in Seq(T), NEW t \in Seq(T)
    PROVE  s \o t \in Seq(T) /\ ToSet(s \o t) = ToSet(s) \cup ToSet(t)
<1>1. \A i \in 1..Len(s) : (s \o t)[i] = s[i]
  OBVIOUS
<1>2. \A i \in 1..Len(t) : (s \o t)[Len(s) + i] = t[i]
  OBVIOUS
<1>3. DOMAIN (s \o t) = 1..(Len(s) + Len(t))
  OBVIOUS
<1>4. ASSUME NEW i \in DOMAIN (s \o t)
      PROVE  (s \o t)[i] \in ToSet(s) \cup ToSet(t)
  <2>1. CASE i \in 1..Len(s)
    BY <2>1, <1>1 DEF ToSet
  <2>2. CASE i \notin 1..Len(s)
    <3>1. i - Len(s) \in 1..Len(t) /\ i = Len(s) + (i - Len(s))
      BY <2>2, <1>3
    <3>2. (s \o t)[i] = t[i - Len(s)]
      BY <3>1, <1>2
    <3> QED BY <3>1, <3>2 DEF ToSet
  <2> QED BY <2>1, <2>2
<1>5. ToSet(s) \subseteq ToSet(s \o t)
  BY <1>1, <1>3 DEF ToSet
<1>6. ASSUME NEW i \in DOMAIN t PROVE t[i] \in ToSet(s \o t)
  <2>1. Len(s) + i \in DOMAIN (s \o t)
    BY <1>3
  <2> QED BY <2>1, <1>2 DEF ToSet
<1>7. s \o t \in Seq(T)
  OBVIOUS
<1>8. ToSet(t) \subseteq ToSet(s \o t)
  BY <1>6 DEF ToSet
<1>9. ToSet(s \o t) \subseteq ToSet(s) \cup ToSet(t)
  BY <1>4 DEF ToSet
<1> QED BY <1>5, <1>7, <1>8, <1>9

\* A sequence over any set is one over its own elements.
LEMMA OwnElements ==
    ASSUME NEW T, NEW s \in Seq(T)
    PROVE  IsSeq(s)
  BY DEF IsSeq, ToSet

\* A rendition has a rung, none of them above the source or below 360 lines
\* unless it is the source's own height.
LEMMA RungsOf ==
    ASSUME NEW h \in Nat \ {0}
    PROVE  /\ rungs_for(h) \in Seq(Nat) /\ rungs_for(h) # <<>>
           /\ \A r \in ToSet(rungs_for(h)) : r = h \/ r \in {360, 720, 1080}
<1> DEFINE among == Among(RUNGS, 0..h)
<1>1. /\ RUNGS \in Seq(Nat)
      /\ ToSet(RUNGS) = {360, 720, 1080}
  BY DEF RUNGS, ToSet
<1>2. among \in Seq(Nat) /\ ToSet(among) \subseteq {360, 720, 1080}
  BY <1>1, AmongKeeps
<1>3. CASE among = <<>>
  <2>1. rungs_for(h) = <<h>>
    BY <1>3 DEF rungs_for
  <2> QED BY <2>1 DEF ToSet
<1>4. CASE among # <<>>
  <2>1. rungs_for(h) = among
    BY <1>4 DEF rungs_for
  <2> QED BY <1>2, <1>4, <2>1
<1> QED BY <1>3, <1>4

\* The rungs of a source whose height has three or four digits have them too.
LEMMA ServedRungs ==
    ASSUME NEW h \in Nat \ {0}, 100 <= h, h <= 9999
    PROVE  \A r \in ToSet(rungs_for(h)) : r \in Nat /\ 100 <= r /\ r <= 9999
<1>1. \A r \in ToSet(rungs_for(h)) : r = h \/ r \in {360, 720, 1080}
  BY RungsOf
<1> QED BY <1>1

\* A ladder has one to six rungs, each with a picture.
LEMMA VariantsOf ==
    ASSUME NEW h \in Nat \ {0}, NEW m
    PROVE  /\ variants_for(h, m) \in Seq(Nat \ {0})
           /\ 1 <= Len(variants_for(h, m)) /\ Len(variants_for(h, m)) <= 6
<1> DEFINE rungs == Among(LADDER_HEIGHTS, 0..Min({h, m}))
<1>1. LADDER_HEIGHTS \in Seq(Nat \ {0}) /\ Len(LADDER_HEIGHTS) = 6
  BY DEF LADDER_HEIGHTS
<1>2. rungs \in Seq(Nat \ {0}) /\ Len(rungs) <= 6
  <2>1. rungs \in Seq(Nat \ {0}) /\ Len(rungs) <= Len(LADDER_HEIGHTS)
    BY <1>1, AmongKeeps, Zenon
  <2> HIDE DEF rungs
  <2> QED BY <1>1, <2>1
<1>3. CASE rungs = <<>>
  <2>1. variants_for(h, m) = <<h>>
    BY <1>3 DEF variants_for
  <2> QED BY <2>1
<1>4. CASE rungs # <<>>
  <2> DEFINE top == ToSet(rungs) \ (ONLY_AS_TOP_RUNG \ {Last(rungs)})
             kept == Among(rungs, top)
  <2>1. variants_for(h, m) = kept
    BY <1>4 DEF variants_for
  <2>2. Last(rungs) \in top
    <3> HIDE DEF rungs
    <3>1. Len(rungs) \in DOMAIN rungs
      BY <1>2, <1>4
    <3> QED BY <3>1 DEF Last, ToSet
  <2> HIDE DEF top, rungs
  <2>3. /\ kept \in Seq(Nat \ {0}) /\ Len(kept) <= Len(rungs)
        /\ ToSet(kept) = ToSet(rungs) \cap top
    BY <1>2, AmongKeeps
  <2>4. Last(rungs) \in ToSet(kept)
    BY <2>2, <2>3 DEF top
  <2> HIDE DEF kept
  <2>5. Len(rungs) \in Nat /\ Len(kept) \in Nat /\ Len(kept) # 0
    BY <1>2, <2>3, <2>4 DEF ToSet
  <2> QED BY <1>2, <2>1, <2>3, <2>5
<1> QED BY <1>3, <1>4

\* The master the ladder is uploaded with: its entries are its directories, the
\* rungs in their order and then the sound.
LEMMA WrittenMaster ==
    ASSUME NEW hs \in Seq(Nat), NEW peaks, NEW audio, NEW w, w = write_master(hs, peaks, audio)
    PROVE  /\ DOMAIN w = 1..(Len(hs) + 1)
           /\ \A k \in 1..Len(hs) :
                 w[k] = [dir |-> "v", n |-> k - 1, height |-> hs[k],
                         peak |-> peaks[k] + audio, rate |-> 0]
           /\ w[Len(hs) + 1] = [dir |-> "v", n |-> Len(hs), height |-> 0,
                                peak |-> audio, rate |-> 0]
<1> DEFINE first(k) == [dir |-> "v", n |-> k - 1, height |-> hs[k],
                        peak |-> peaks[k] + audio, rate |-> 0]
           rungs == [k \in DOMAIN hs |-> first(k)]
           sound == [dir |-> "v", n |-> Len(hs), height |-> 0,
                     peak |-> audio, rate |-> 0]
           T == ToSet(rungs) \cup {sound}
<1>1. w = rungs \o <<sound>>
  BY DEF write_master
<1>2. rungs \in Seq(T) /\ Len(rungs) = Len(hs) /\ <<sound>> \in Seq(T)
  <2>1. Len(hs) \in Nat /\ DOMAIN hs = 1..Len(hs)
    OBVIOUS
  <2>2. \A k \in 1..Len(hs) : rungs[k] \in T
    BY <2>1 DEF ToSet
  <2>3. sound \in T
    OBVIOUS
  <2>4. rungs = [k \in 1..Len(hs) |-> rungs[k]]
    BY <2>1
  <2> HIDE DEF rungs, sound, T
  <2> QED BY <2>1, <2>2, <2>3, <2>4
<1>3. /\ DOMAIN w = 1..(Len(hs) + 1)
      /\ \A k \in 1..Len(hs) : w[k] = rungs[k]
      /\ w[Len(hs) + 1] = sound
  <2> HIDE DEF rungs, sound, T
  <2> QED BY <1>1, <1>2
<1>4. ASSUME NEW k \in 1..Len(hs) PROVE w[k] = first(k)
  <2>1. k \in DOMAIN hs
    OBVIOUS
  <2> QED BY <1>3, <2>1
<1> QED BY <1>3, <1>4

\* The same once its pictures have their rate.
LEMMA FirstMaster ==
    ASSUME NEW hs \in Seq(Nat), NEW peaks, NEW audio, NEW rate,
           NEW m, m = label_frame_rates(write_master(hs, peaks, audio), rate)
    PROVE  /\ IsSeq(m) /\ m # <<>>
           /\ \A e \in ToSet(m) : e.dir = "v" /\ e.n \in 0..Len(hs)
           /\ DOMAIN m = 1..(Len(hs) + 1)
           /\ \A k \in 1..Len(hs) :
                 /\ m[k].n = k - 1 /\ m[k].height = hs[k]
                 /\ hs[k] > 0 => m[k].rate = rate
           /\ m[Len(hs) + 1].n = Len(hs) /\ m[Len(hs) + 1].height = 0
<1> DEFINE first(k) == [dir |-> "v", n |-> k - 1, height |-> hs[k],
                        peak |-> peaks[k] + audio, rate |-> 0]
           sound == [dir |-> "v", n |-> Len(hs), height |-> 0,
                     peak |-> audio, rate |-> 0]
           w == write_master(hs, peaks, audio)
<1>3. /\ DOMAIN w = 1..(Len(hs) + 1)
      /\ \A k \in 1..Len(hs) : w[k] = first(k)
      /\ w[Len(hs) + 1] = sound
  BY WrittenMaster
<1>4. ASSUME NEW k \in DOMAIN w
      PROVE  w[k].dir = "v" /\ w[k].n \in 0..Len(hs)
             /\ w[k] = [dir |-> w[k].dir, n |-> w[k].n, height |-> w[k].height,
                        peak |-> w[k].peak, rate |-> w[k].rate]
  <2> HIDE DEF w
  <2>1. CASE k = Len(hs) + 1
    <3>1. w[k] = sound
      BY <1>3, <2>1
    <3> QED BY <3>1
  <2>2. CASE k # Len(hs) + 1
    <3>1. k \in 1..Len(hs) /\ DOMAIN hs = 1..Len(hs) /\ Len(hs) \in Nat
      BY <1>3, <2>2
    <3>2. w[k] = first(k)
      BY <1>3, <3>1
    <3> QED BY <3>1, <3>2
  <2> QED BY <2>1, <2>2
<1>5. /\ m = [k \in DOMAIN w |->
                 IF w[k].height > 0 /\ w[k].rate = 0 THEN [w[k] EXCEPT !.rate = rate] ELSE w[k]]
  BY DEF label_frame_rates
<1>6. ASSUME NEW k \in DOMAIN w
      PROVE  m[k].dir = "v" /\ m[k].n \in 0..Len(hs)
  <2> HIDE DEF w
  <2>1. CASE m[k] = w[k]
    BY <2>1, <1>4
  <2>2. CASE m[k] = [w[k] EXCEPT !.rate = rate]
    <3>1. m[k].dir = w[k].dir /\ m[k].n = w[k].n
      BY <2>2, <1>4
    <3> QED BY <3>1, <1>4
  <2> QED BY <2>1, <2>2, <1>5
<1>7. DOMAIN m = 1..(Len(hs) + 1) /\ m = [k \in 1..(Len(hs) + 1) |-> m[k]]
  <2> HIDE DEF w
  <2> QED BY <1>3, <1>5
<1>8. IsSeq(m) /\ m # <<>>
  <2>1. Len(hs) + 1 \in Nat /\ Len(hs) + 1 > 0
    OBVIOUS
  <2>2. \A k \in 1..(Len(hs) + 1) : m[k] \in ToSet(m)
    BY <1>7 DEF ToSet
  <2>3. m \in Seq(ToSet(m)) /\ Len(m) = Len(hs) + 1
    BY <1>7, <2>1, <2>2
  <2> QED BY <2>1, <2>3 DEF IsSeq
<1>9. ASSUME NEW k \in 1..Len(hs)
      PROVE  /\ m[k].n = k - 1 /\ m[k].height = hs[k]
             /\ hs[k] > 0 => m[k].rate = rate
  <2> DEFINE peak == peaks[k] + audio
  <2>1. k \in DOMAIN hs /\ k \in DOMAIN w /\ Len(hs) \in Nat
    <3> HIDE DEF w
    <3> QED BY <1>3
  <2>2. w[k] = [dir |-> "v", n |-> k - 1, height |-> hs[k], peak |-> peak, rate |-> 0]
    <3>1. w[k] = first(k)
      <4> HIDE DEF w
      <4> QED BY <1>3, <2>1
    <3> HIDE DEF w
    <3> QED BY <3>1
  <2>3. m[k] = IF w[k].height > 0 /\ w[k].rate = 0 THEN [w[k] EXCEPT !.rate = rate] ELSE w[k]
    <3> HIDE DEF w
    <3> QED BY <1>5, <2>1
  <2> HIDE DEF w, peak
  <2>4. m[k].n = k - 1 /\ m[k].height = hs[k]
        /\ (hs[k] > 0 => m[k].rate = rate)
    BY <2>2, <2>3
  <2> QED BY <2>4
<1>10. m[Len(hs) + 1].n = Len(hs) /\ m[Len(hs) + 1].height = 0
  <2>1. Len(hs) + 1 \in DOMAIN w /\ w[Len(hs) + 1] = sound /\ ~(sound.height > 0)
    <3> HIDE DEF w
    <3> QED BY <1>3
  <2>2. m[Len(hs) + 1] = sound
    <3> HIDE DEF w, sound
    <3> QED BY <1>5, <2>1
  <2> QED BY <2>2
<1>11. \A e \in ToSet(m) : e.dir = "v" /\ e.n \in 0..Len(hs)
  <2> HIDE DEF w
  <2> QED BY <1>3, <1>6, <1>7 DEF ToSet
<1> QED BY <1>7, <1>8, <1>9, <1>10, <1>11

\* How one entry stands before another in a master: HDR before AV1 before the
\* ladder, not the same entry, and the ladder's own in its order.
Before(e, f) ==
    /\ rank(e.dir) <= rank(f.dir)
    /\ <<e.dir, e.n>> # <<f.dir, f.n>>
    /\ (e.dir = "v" /\ f.dir = "v") => e.n < f.n

InReadingOrder(m) == \A i, j \in DOMAIN m : i < j => Before(m[i], m[j])

\* No element twice.
Distinct(s) == \A i, j \in DOMAIN s : i < j => s[i] # s[j]

\* What is filtered out of a master in order is in order.
LEMMA AmongReads ==
    ASSUME NEW m, IsSeq(m), InReadingOrder(m), NEW S
    PROVE  InReadingOrder(Among(m, S))
<1> DEFINE t == Among(m, S)
<1>1. \A i, j \in DOMAIN t : i < j => \E a, b \in DOMAIN m : a < b /\ m[a] = t[i] /\ m[b] = t[j]
  BY AmongInOrder DEF IsSeq
<1> HIDE DEF t
<1>2. InReadingOrder(t)
  BY <1>1 DEF InReadingOrder
<1> QED BY <1>2 DEF t

\* Two in order are, one after the other, if all of the one stand before all of
\* the other.
LEMMA ConcatReads ==
    ASSUME NEW T, NEW s \in Seq(T), NEW t \in Seq(T), InReadingOrder(s), InReadingOrder(t),
           \A e \in ToSet(s), f \in ToSet(t) : Before(e, f)
    PROVE  InReadingOrder(s \o t)
<1> DEFINE u == s \o t
<1>1. /\ DOMAIN u = 1..(Len(s) + Len(t)) /\ Len(s) \in Nat /\ Len(t) \in Nat
      /\ DOMAIN s = 1..Len(s) /\ DOMAIN t = 1..Len(t)
      /\ \A i \in 1..Len(s) : u[i] = s[i]
      /\ \A i \in 1..Len(t) : u[Len(s) + i] = t[i]
  OBVIOUS
<1> HIDE DEF u
<1>2. ASSUME NEW i \in DOMAIN u
      PROVE  \/ i \in DOMAIN s /\ u[i] = s[i]
             \/ i > Len(s) /\ i - Len(s) \in DOMAIN t /\ u[i] = t[i - Len(s)]
  <2>1. CASE i <= Len(s)
    BY <1>1, <2>1
  <2>2. CASE i > Len(s)
    <3>1. i - Len(s) \in 1..Len(t) /\ Len(s) + (i - Len(s)) = i
      BY <1>1, <2>2
    <3>2. u[Len(s) + (i - Len(s))] = t[i - Len(s)]
      BY <1>1, <3>1
    <3> QED BY <1>1, <2>2, <3>1, <3>2
  <2> QED BY <1>1, <2>1, <2>2
<1>3. ASSUME NEW i \in DOMAIN u, NEW j \in DOMAIN u, i < j
      PROVE  Before(u[i], u[j])
  <2>1. CASE i \in DOMAIN s /\ u[i] = s[i] /\ j \in DOMAIN s /\ u[j] = s[j]
    BY <1>3, <2>1 DEF InReadingOrder
  <2>2. CASE i \in DOMAIN s /\ u[i] = s[i] /\ j - Len(s) \in DOMAIN t /\ u[j] = t[j - Len(s)]
    BY <2>2 DEF ToSet
  <2>3. CASE /\ i - Len(s) \in DOMAIN t /\ u[i] = t[i - Len(s)]
             /\ j - Len(s) \in DOMAIN t /\ u[j] = t[j - Len(s)]
    <3>1. i - Len(s) < j - Len(s)
      BY <1>1, <1>3
    <3> QED BY <2>3, <3>1 DEF InReadingOrder
  <2>4. ~(i > Len(s) /\ j \in DOMAIN s)
    BY <1>1, <1>3
  <2> QED BY <1>2, <2>1, <2>2, <2>3, <2>4
<1>4. InReadingOrder(u)
  BY <1>3 DEF InReadingOrder
<1> QED BY <1>4 DEF u

\* What add_to_master adds to m: an entry for every rung that is not listed.
PictureRate(m) == m[Min({k \in DOMAIN m : m[k].height > 0})].rate
Unlisted(m, kind, rungs) == {rung \in ToSet(rungs) : ~Lists(m, kind, rung)}
EntryOf(m, kind, rung, costs) ==
    [dir |-> kind, n |-> rung, height |-> rung,
     peak |-> costs[rung] + AUDIO_KBPS, rate |-> PictureRate(m)]
Added(m, kind, rungs, costs) ==
    LET unlisted == Among(rungs, Unlisted(m, kind, rungs))
    IN  [k \in DOMAIN unlisted |-> EntryOf(m, kind, unlisted[k], costs)]

\* The fields of such an entry.
LEMMA EntryFields ==
    ASSUME NEW m, NEW kind, NEW rung, NEW costs, NEW e, e = EntryOf(m, kind, rung, costs)
    PROVE  /\ e.dir = kind /\ e.n = rung /\ e.height = rung
           /\ e.peak = costs[rung] + AUDIO_KBPS
           /\ e.rate = PictureRate(m)
<1> DEFINE p == costs[rung] + AUDIO_KBPS
           r == PictureRate(m)
<1>1. e = [dir |-> kind, n |-> rung, height |-> rung, peak |-> p, rate |-> r]
  BY DEF EntryOf
<1> HIDE DEF p, r
<1>2. e.dir = kind /\ e.n = rung /\ e.height = rung /\ e.peak = p /\ e.rate = r
  BY <1>1
<1> QED BY <1>2 DEF p, r

\* The added entries, one for every rung that was not listed, are in order.
LEMMA AddedEntries ==
    ASSUME NEW m, NEW kind \in KINDS, NEW rungs \in Seq(Nat), NEW costs,
           NEW s, s = Added(m, kind, rungs, costs)
    PROVE  /\ IsSeq(s)
           /\ ToSet(s) = {EntryOf(m, kind, rung, costs) : rung \in Unlisted(m, kind, rungs)}
           /\ Distinct(rungs) => InReadingOrder(s)
<1> DEFINE unlisted == Among(rungs, Unlisted(m, kind, rungs))
           entry(rung) == EntryOf(m, kind, rung, costs)
<1>1. /\ unlisted \in Seq(Nat)
      /\ ToSet(unlisted) = Unlisted(m, kind, rungs)
  <2>1. unlisted \in Seq(Nat) /\ ToSet(unlisted) = ToSet(rungs) \cap Unlisted(m, kind, rungs)
    BY AmongKeeps
  <2> QED BY <2>1 DEF Unlisted
<1>2. \A i, j \in DOMAIN unlisted : i < j =>
         \E a, b \in DOMAIN rungs : a < b /\ rungs[a] = unlisted[i] /\ rungs[b] = unlisted[j]
  BY AmongInOrder
<1>3. s = [k \in DOMAIN unlisted |-> entry(unlisted[k])]
  BY DEF Added
<1>4. \A rung : entry(rung).dir = kind /\ entry(rung).n = rung
  BY EntryFields
<1> HIDE DEF unlisted, entry
<1>5. /\ Len(unlisted) \in Nat /\ DOMAIN unlisted = 1..Len(unlisted)
      /\ DOMAIN s = 1..Len(unlisted)
      /\ \A k \in 1..Len(unlisted) : s[k] = entry(unlisted[k])
  BY <1>1, <1>3
<1>6. ToSet(s) = {entry(rung) : rung \in Unlisted(m, kind, rungs)}
  BY <1>1, <1>5 DEF ToSet
<1>7. IsSeq(s)
  <2>1. \A k \in 1..Len(unlisted) : s[k] \in ToSet(s)
    BY <1>5 DEF ToSet
  <2>2. s = [k \in 1..Len(unlisted) |-> s[k]]
    BY <1>3, <1>5
  <2>3. s \in [1..Len(unlisted) -> ToSet(s)]
    BY <2>1, <2>2
  <2> QED BY <1>5, <2>3, ListIsSequence DEF IsSeq
<1>8. ASSUME Distinct(rungs), NEW i \in DOMAIN s, NEW j \in DOMAIN s, i < j
      PROVE  Before(s[i], s[j])
  <2>1. unlisted[i] # unlisted[j]
    <3>1. PICK a \in DOMAIN rungs, b \in DOMAIN rungs :
             a < b /\ rungs[a] = unlisted[i] /\ rungs[b] = unlisted[j]
      BY <1>2, <1>5, <1>8
    <3> QED BY <1>8, <3>1 DEF Distinct
  <2>2. /\ s[i].dir = kind /\ s[j].dir = kind
        /\ s[i].n = unlisted[i] /\ s[j].n = unlisted[j]
    BY <1>4, <1>5
  <2>3. kind # "v" /\ rank(kind) \in {0, 1, 2}
    BY DEF KINDS, rank
  <2> QED BY <2>1, <2>2, <2>3 DEF Before
<1> QED
  <2>1. ToSet(s) = {EntryOf(m, kind, rung, costs) : rung \in Unlisted(m, kind, rungs)}
    BY <1>6 DEF entry
  <2> QED BY <1>7, <1>8, <2>1 DEF InReadingOrder

\* Adding a rendition keeps every entry of the master, adds none but its own
\* rungs that are not listed, and leaves a master that was in order in order.
LEMMA RenditionAdds ==
    ASSUME NEW m, IsSeq(m), NEW kind \in KINDS, NEW rungs \in Seq(Nat),
           NEW costs, NEW n, n = WithRendition(m, kind, rungs, costs)
    PROVE  /\ IsSeq(n)
           /\ ToSet(n) = ToSet(m) \cup
                 {EntryOf(m, kind, rung, costs) : rung \in Unlisted(m, kind, rungs)}
           /\ InReadingOrder(m) /\ Distinct(rungs) => InReadingOrder(n)
<1> DEFINE new == Added(m, kind, rungs, costs)
           appended(r) == IF rank(kind) = r THEN new ELSE <<>>
           old(r) == Among(m, {e \in ToSet(m) : rank(e.dir) = r})
           ranked(r) == old(r) \o appended(r)
           T == ToSet(m) \cup ToSet(new)
           ordered == InReadingOrder(m) /\ Distinct(rungs)
<1>1. n = ranked(0) \o ranked(1) \o ranked(2)
  BY DEF WithRendition, Added, Unlisted, EntryOf, PictureRate
<1>2. /\ new \in Seq(T)
      /\ ToSet(new) = {EntryOf(m, kind, rung, costs) : rung \in Unlisted(m, kind, rungs)}
      /\ ordered => InReadingOrder(new)
      /\ \A e \in ToSet(new) : e.dir = kind /\ ~Lists(m, kind, e.n)
  <2>1. /\ IsSeq(new)
        /\ ToSet(new) = {EntryOf(m, kind, rung, costs) : rung \in Unlisted(m, kind, rungs)}
        /\ ordered => InReadingOrder(new)
    BY AddedEntries
  <2> HIDE DEF new
  <2>2. \A e \in ToSet(new) : e.dir = kind /\ ~Lists(m, kind, e.n)
    BY <2>1, EntryFields DEF Unlisted
  <2> QED BY <2>1, <2>2 DEF IsSeq
<1>3. ASSUME NEW r
      PROVE  /\ old(r) \in Seq(T) /\ ToSet(old(r)) = {e \in ToSet(m) : rank(e.dir) = r}
             /\ ordered => InReadingOrder(old(r))
  <2>1. /\ old(r) \in Seq(ToSet(m))
        /\ ToSet(old(r)) = ToSet(m) \cap {e \in ToSet(m) : rank(e.dir) = r}
    BY AmongKeeps DEF IsSeq
  <2>2. ordered => InReadingOrder(old(r))
    BY AmongReads
  <2> HIDE DEF old, new
  <2> QED BY <2>1, <2>2
<1>4. ASSUME NEW r
      PROVE  /\ appended(r) \in Seq(T) /\ ToSet(appended(r)) \subseteq ToSet(new)
             /\ rank(kind) = r => ToSet(appended(r)) = ToSet(new)
             /\ \A e \in ToSet(appended(r)) : rank(e.dir) = r /\ e.dir = kind
                                              /\ ~Lists(m, kind, e.n)
             /\ ordered => InReadingOrder(appended(r))
  <2> HIDE DEF new, T, ordered
  <2>1. <<>> \in Seq(T) /\ ToSet(<<>>) = {} /\ InReadingOrder(<<>>)
    BY DEF ToSet, InReadingOrder
  <2> QED BY <1>2, <2>1
<1>5. ASSUME NEW r
      PROVE  /\ ranked(r) \in Seq(T)
             /\ ToSet(ranked(r)) = ToSet(old(r)) \cup ToSet(appended(r))
             /\ ordered => InReadingOrder(ranked(r))
             /\ \A e \in ToSet(ranked(r)) : rank(e.dir) = r
  <2>1. ASSUME NEW e \in ToSet(old(r)), NEW f \in ToSet(appended(r))
        PROVE  r \in {0, 1, 2} => Before(e, f)
    <3>1. /\ rank(e.dir) = r /\ rank(f.dir) = r /\ e \in ToSet(m)
          /\ f.dir = kind /\ ~Lists(m, kind, f.n)
      <4> HIDE DEF old, appended, T, ordered
      <4> QED BY <1>3, <1>4, <2>1
    <3>2. <<e.dir, e.n>> # <<f.dir, f.n>>
      BY <3>1 DEF Lists, ToSet
    <3>3. f.dir # "v"
      BY <3>1 DEF KINDS
    <3> QED BY <3>1, <3>2, <3>3 DEF Before
  <2>2. ASSUME NEW e \in ToSet(old(r)) PROVE r \in {0, 1, 2}
    <3>1. rank(e.dir) = r
      <4> HIDE DEF old, T, ordered
      <4> QED BY <1>3, <2>2
    <3> QED BY <3>1 DEF rank
  <2> HIDE DEF old, appended, T, ordered
  <2>3. /\ ranked(r) \in Seq(T)
        /\ ToSet(ranked(r)) = ToSet(old(r)) \cup ToSet(appended(r))
    BY <1>3, <1>4, ElementsOfConcat
  <2>4. ordered => InReadingOrder(ranked(r))
    BY <1>3, <1>4, <2>1, <2>2, ConcatReads
  <2> QED BY <1>3, <1>4, <2>3, <2>4
<1> DEFINE both == ranked(0) \o ranked(1)
<1>6. /\ both \in Seq(T) /\ ToSet(both) = ToSet(ranked(0)) \cup ToSet(ranked(1))
      /\ ordered => InReadingOrder(both)
  <2> HIDE DEF ranked, T, ordered
  <2>1. \A e \in ToSet(ranked(0)), f \in ToSet(ranked(1)) : Before(e, f)
    BY <1>5 DEF Before, rank
  <2> QED BY <1>5, <2>1, ElementsOfConcat, ConcatReads
<1>7. /\ n \in Seq(T) /\ ToSet(n) = ToSet(both) \cup ToSet(ranked(2))
      /\ ordered => InReadingOrder(n)
  <2>1. n = both \o ranked(2)
    BY <1>1
  <2> HIDE DEF ranked, T, ordered, both
  <2>2. \A e \in ToSet(both) : rank(e.dir) \in {0, 1}
    BY <1>5, <1>6
  <2>3. \A e \in ToSet(both), f \in ToSet(ranked(2)) : Before(e, f)
    BY <1>5, <2>2 DEF Before, rank
  <2>4. ranked(2) \in Seq(T) /\ (ordered => InReadingOrder(ranked(2)))
    BY <1>5
  <2> DEFINE two == ranked(2)
  <2>5. /\ n = both \o two /\ two \in Seq(T) /\ (ordered => InReadingOrder(two))
        /\ \A e \in ToSet(both), f \in ToSet(two) : Before(e, f)
    BY <2>1, <2>3, <2>4
  <2> HIDE DEF two
  <2>6. n \in Seq(T) /\ ToSet(n) = ToSet(both) \cup ToSet(two)
    BY <1>6, <2>5, ElementsOfConcat
  <2>7. ordered => InReadingOrder(n)
    BY <1>6, <2>5, ConcatReads
  <2> QED BY <2>6, <2>7 DEF two
<1>8. \A e \in ToSet(m) : rank(e.dir) \in {0, 1, 2}
  BY DEF rank
<1>9. ToSet(n) = ToSet(m) \cup ToSet(new)
  <2>1. rank(kind) \in {0, 1, 2}
    BY DEF rank
  <2> HIDE DEF old, appended, ranked, T, new, both, ordered
  <2>2. ToSet(n) = ToSet(ranked(0)) \cup ToSet(ranked(1)) \cup ToSet(ranked(2))
    BY <1>6, <1>7
  <2>3. ToSet(m) \subseteq ToSet(n)
    BY <1>3, <1>5, <1>8, <2>2
  <2>4. ToSet(new) \subseteq ToSet(n)
    BY <1>4, <1>5, <2>1, <2>2
  <2>5. ToSet(n) \subseteq ToSet(m) \cup ToSet(new)
    BY <1>3, <1>4, <1>5, <2>2
  <2> QED BY <2>3, <2>4, <2>5
<1>10. IsSeq(n)
  <2> HIDE DEF T, new
  <2> QED BY <1>7, OwnElements
<1> QED
  <2> HIDE DEF new
  <2> QED BY <1>2, <1>7, <1>9, <1>10

----------------------------------------------------------------------------
\* Only the record, the flag and the count of worker w change.
OnlyMoves(w) ==
    /\ build' = [v \in Workers |-> IF v = w THEN build'[w] ELSE build[v]]
    /\ stop'  = [v \in Workers |-> IF v = w THEN stop'[w] ELSE stop[v]]
    /\ late'  = [v \in Workers |-> IF v = w THEN late'[w] ELSE late[v]]

\* The records of a worker that has no build.
LEMMA IdleFields ==
    /\ Whole(Idle) /\ Idle.pc = "idle" /\ Idle.what = "none" /\ Idle.copy = <<>> /\ Idle.waited = 0
    /\ Whole(Gone) /\ Gone.pc = "gone" /\ Gone.what = "none" /\ Gone.copy = <<>> /\ Gone.waited = 0
<1>1. /\ Whole(Idle) /\ Idle.pc = "idle" /\ Idle.what = "none"
      /\ Idle.copy = <<>> /\ Idle.waited = 0
  BY DEF Idle, Whole
<1>2. Gone = [Idle EXCEPT !.pc = "gone"]
  BY DEF Gone
<1> QED BY <1>1, <1>2 DEF Whole

\* The invariant holds before the MP4 is encoded.
LEMMA InvInit == Init => Inv
<1> SUFFICES ASSUME Init PROVE Inv
  OBVIOUS
<1>1. NoLadder # NoCut /\ IsSeq(<<>>)
  BY DEF NoLadder, NoCut, IsSeq, ToSet
<1>2. Typed
  BY RenditionsAssumption DEF Init, Typed, BLOCKING_TIMEOUT
<1>3. LadderFact /\ ListFact
  BY <1>1 DEF Init, LadderFact, ListFact, ToSet
<1>4. ASSUME NEW w \in Workers PROVE BuildFact(w)
  <2>1. build[w] = Idle /\ stop[w] = FALSE /\ late[w] = 0 /\ lock.by = NoOne
    BY DEF Init
  <2>2. StopFact(w)
    BY <2>1, IdleFields DEF StopFact
  <2>3. LockFact(w)
    BY <2>1, IdleFields, RenditionsAssumption DEF LockFact
  <2>4. RungFact(w)
    BY <2>1, IdleFields DEF RungFact, Building, Uploading, Listing
  <2> QED BY <2>1, <2>2, <2>3, <2>4, IdleFields DEF BuildFact, Pcs, BLOCKING_TIMEOUT
<1> QED BY <1>2, <1>3, <1>4 DEF Inv

\* A worker that does not move keeps its facts, whatever the others do to the
\* ladder, the stored files, the lock and the master it does not hold.
LEMMA OthersKeep ==
    ASSUME NEW v \in Workers, BuildFact(v),
           build'[v] = build[v], stop'[v] = stop[v], late'[v] = late[v],
           video' = video, build[v].pc # "gone" => ((lock'.by = v) <=> (lock.by = v)),
           row' => row /\ stored \subseteq stored',
           phase \in {"recorded", "ready"} => phase' \in {"recorded", "ready"},
           row' /\ build[v].pc = "write" => master' = master
    PROVE  BuildFact(v)'
<1>1. StopFact(v)' /\ LockFact(v)'
  BY DEF BuildFact, StopFact, LockFact
<1>2. RungFact(v)'
  BY DEF BuildFact, RungFact, Building, Rungs, Both
<1> QED BY <1>1, <1>2 DEF BuildFact

\* A worker whose job is over: gone if it was told to stop, else idle.
LEMMA EndKeeps ==
    ASSUME NEW w \in Workers, BuildFact(w), build[w].pc \notin {"idle", "gone"},
           build'[w] = Over(w), stop'[w] \in {FALSE, stop[w]}, late'[w] = late[w],
           stop[w] \in BOOLEAN, lock'.by # w
    PROVE  BuildFact(w)'
<1>1. build'[w] \in {Idle, Gone} /\ (stop[w] => build'[w] = Gone)
      /\ (build'[w] = Idle => ~stop'[w])
  BY IdleFields DEF Over
<1>2. /\ Whole(build'[w]) /\ build'[w].pc \in {"idle", "gone"} /\ build'[w].what = "none"
      /\ build'[w].copy = <<>> /\ build'[w].waited = 0
      /\ stop[w] => build'[w].pc = "gone"
      /\ build'[w].pc = "idle" => ~stop'[w]
  BY <1>1, IdleFields
<1>3. StopFact(w)'
  BY <1>2 DEF BuildFact, StopFact
<1>4. LockFact(w)'
  BY <1>2 DEF LockFact
<1>5. RungFact(w)'
  BY <1>2 DEF RungFact, Building, Uploading, Listing
<1> QED BY <1>2, <1>3, <1>4, <1>5 DEF BuildFact, Pcs, BLOCKING_TIMEOUT

\* A step of worker w keeps the invariant when w's own facts hold after it and
\* what it does to the shared state is what a builder may do.
LEMMA WorkerStep ==
    ASSUME Inv, NEW w \in Workers, BuildFact(w)', OnlyMoves(w),
           stop'[w] \in BOOLEAN, late'[w] \in Nat,
           UNCHANGED ladderVars, row' = row, plays' = plays, queue' \subseteq KINDS,
           stored \subseteq stored',
           stored' \subseteq ({"v"} \X (0..9)) \cup (KINDS \X Nat \X {"index", "media"}),
           lock' \in [by : Workers \cup {NoOne}, age : 0..BLOCKING_TIMEOUT],
           \A v \in Workers \ {w} : (lock'.by = v) <=> (lock.by = v),
           \A v \in Workers \ {w} : build[v].pc = "write" /\ row => master' = master,
           phase \in {"mp4", "ladder", "encode"} => master' = master,
           row => IsSeq(master'),
           row => \A e \in ToSet(master') \ ToSet(master) :
                     Stored(e)' /\ Named(e)'
    PROVE  Inv'
<1>1. UNCHANGED <<video, phase, cut, ladder>>
  BY DEF ladderVars
<1>2. Typed'
  BY <1>1 DEF Inv, Typed, OnlyMoves, NoCut, NoLadder
<1>3. LadderFact'
  BY <1>1 DEF Inv, LadderFact
<1>4. ASSUME NEW v \in Workers PROVE BuildFact(v)'
  <2>1. CASE v # w
    <3>1. build'[v] = build[v] /\ stop'[v] = stop[v] /\ late'[v] = late[v]
      BY <2>1 DEF OnlyMoves
    <3> QED BY <1>1, <2>1, <3>1, OthersKeep DEF Inv
  <2> QED BY <2>1
<1>5. ASSUME row', NEW e \in ToSet(master')
      PROVE  Stored(e)' /\ Named(e)'
  <2>1. CASE e \in ToSet(master)
    BY <1>1, <1>5, <2>1 DEF Inv, ListFact, Stored, Named, Rungs
  <2>2. CASE e \notin ToSet(master)
    BY <1>5, <2>2
  <2> QED BY <2>1, <2>2
<1>6. ListFact'
  BY <1>5 DEF ListFact
<1> QED BY <1>2, <1>3, <1>4, <1>6 DEF Inv

\* The build of w ends, with or without the lock: nothing else changes.
LEMMA EndStep ==
    ASSUME Inv, NEW w \in Workers, build[w].pc \notin {"idle", "gone"}, End(w),
           UNCHANGED <<ladderVars, stored, master, playVars, late>>,
           (lock' = lock /\ lock.by # w) \/ Release(w)
    PROVE  Inv'
<1>1. lock \in [by : Workers \cup {NoOne}, age : 0..BLOCKING_TIMEOUT]
  BY DEF Inv, Typed
<1>2. /\ lock' \in [by : Workers \cup {NoOne}, age : 0..BLOCKING_TIMEOUT]
      /\ \A v \in Workers \ {w} : (lock'.by = v) <=> (lock.by = v)
      /\ lock'.by # w
  BY <1>1, RenditionsAssumption DEF Release, BLOCKING_TIMEOUT
<1>3. /\ OnlyMoves(w) /\ build'[w] = Over(w) /\ stop'[w] = FALSE /\ late'[w] = late[w]
      /\ late[w] \in Nat /\ stop[w] \in BOOLEAN
  BY DEF End, OnlyMoves, Inv, Typed
<1>4. BuildFact(w)'
  BY <1>2, <1>3, EndKeeps DEF Inv
<1> QED
  BY <1>2, <1>3, <1>4, WorkerStep DEF Inv, Typed, LadderFact, playVars

\* The lines of interruption.run.
Running == {"check", "starting", "adding", "running", "dropping", "stuck"}

\* A step from one line of interruption.run to another, or a signal between two
\* steps of an upload: the build itself is what it was.
LEMMA GoStep ==
    ASSUME Inv, NEW w \in Workers, OnlyMoves(w), UNCHANGED runVars,
           stop'[w] \in BOOLEAN, late'[w] \in Nat, StopFact(w)',
           Building(w), Whole(build'[w]),
           build'[w].what = build[w].what, build'[w].kind = build[w].kind,
           build'[w].todo = build[w].todo, build'[w].copy = build[w].copy,
           build'[w].waited = build[w].waited,
           \/ build'[w].pc = build[w].pc
           \/ build[w].pc \in Running /\ build'[w].pc \in Running
    PROVE  Inv'
<1>1. BuildFact(w)
  BY DEF Inv
<1>2. /\ UNCHANGED <<video, phase, stored, master, row, lock>>
      /\ build'[w].pc \in Pcs
  BY <1>1 DEF runVars, ladderVars, playVars, BuildFact, Running, Pcs
<1>3. LockFact(w)'
  BY <1>1, <1>2 DEF BuildFact, LockFact, Running
<1>4. RungFact(w)'
  BY <1>1, <1>2 DEF BuildFact, RungFact, Running, Building, Uploading, Listing, Rungs, Both
<1>5. BuildFact(w)'
  BY <1>1, <1>2, <1>3, <1>4 DEF BuildFact
<1> QED
  BY <1>2, <1>5, WorkerStep DEF Inv, Typed, LadderFact, playVars, runVars

\* The steps of a worker between two of its lines.
LEMMA CheckStopStep == ASSUME Inv, NEW w \in Workers, CheckStop(w) PROVE Inv'
<1>1. BuildFact(w) /\ build[w].pc = "check" /\ build = [v \in Workers |-> build[v]]
      /\ stop \in [Workers -> BOOLEAN] /\ late \in [Workers -> Nat]
  BY DEF CheckStop, Inv, Typed
<1>2. CASE stop[w]
  <2>1. lock.by # w
    BY <1>1 DEF BuildFact, LockFact
  <2> QED BY <1>1, <1>2, <2>1, EndStep DEF CheckStop, runVars
<1>3. CASE ~stop[w]
  <2>1. build' = [build EXCEPT ![w].pc = "starting"] /\ UNCHANGED <<runVars, stop, late>>
    BY <1>3 DEF CheckStop, Goto
  <2>2. OnlyMoves(w) /\ build'[w] = [build[w] EXCEPT !.pc = "starting"]
    BY <1>1, <2>1 DEF OnlyMoves
  <2>3. /\ Whole(build'[w]) /\ build'[w].pc = "starting"
        /\ build'[w].what = build[w].what /\ build'[w].kind = build[w].kind
        /\ build'[w].todo = build[w].todo /\ build'[w].copy = build[w].copy
        /\ build'[w].waited = build[w].waited
    BY <1>1, <2>2 DEF BuildFact, Whole
  <2>4. StopFact(w)'
    BY <1>1, <1>3, <2>1, <2>3 DEF BuildFact, StopFact
  <2> QED BY <1>1, <2>1, <2>2, <2>3, <2>4, GoStep DEF Building, Running
<1> QED BY <1>2, <1>3

\* The process is started, registered and ends; a signal comes in between.
LEMMA RunStep ==
    ASSUME Inv, NEW w \in Workers,
           TakeLock(w) \/ Register(w) \/ ProcessEnds(w) \/ SigTerm(w)
    PROVE  Inv'
<1>1. BuildFact(w) /\ build = [v \in Workers |-> build[v]]
      /\ stop \in [Workers -> BOOLEAN] /\ late \in [Workers -> Nat]
  BY DEF Inv, Typed
<1> DEFINE From(pcs) == build[w].pc \in pcs
           Into(pc) == /\ OnlyMoves(w) /\ UNCHANGED runVars
                       /\ Whole(build'[w]) /\ build'[w].pc = pc
                       /\ build'[w].what = build[w].what /\ build'[w].kind = build[w].kind
                       /\ build'[w].todo = build[w].todo /\ build'[w].copy = build[w].copy
                       /\ build'[w].waited = build[w].waited
<1>2. CASE TakeLock(w)
  <2>1. /\ build'[w] = [build[w] EXCEPT !.pc = "adding"] /\ build[w].pc = "starting"
        /\ OnlyMoves(w) /\ UNCHANGED <<runVars, stop, late>>
    BY <1>1, <1>2 DEF TakeLock, Goto, OnlyMoves
  <2>2. Into("adding")
    BY <1>1, <2>1 DEF BuildFact, Whole
  <2>3. StopFact(w)'
    BY <1>1, <2>1, <2>2 DEF BuildFact, StopFact
  <2> QED BY <1>1, <2>1, <2>2, <2>3, GoStep DEF Building, Running
<1>3. CASE Register(w)
  <2>1. /\ build'[w] = [build[w] EXCEPT !.pc = "running"] /\ build[w].pc = "adding"
        /\ OnlyMoves(w) /\ UNCHANGED <<runVars, stop>>
        /\ late'[w] = late[w] + IF stop[w] THEN 1 ELSE 0
    BY <1>1, <1>3 DEF Register, Goto, OnlyMoves
  <2>2. Into("running")
    BY <1>1, <2>1 DEF BuildFact, Whole
  <2>3. StopFact(w)' /\ late'[w] \in Nat
    BY <1>1, <2>1, <2>2 DEF BuildFact, StopFact
  <2> QED BY <1>1, <2>1, <2>2, <2>3, GoStep DEF Building, Running
<1>4. CASE ProcessEnds(w)
  <2>1. PICK ok \in BOOLEAN : build' = [build EXCEPT ![w].pc = "dropping", ![w].ok = ok]
    BY <1>4 DEF ProcessEnds
  <2>2. /\ build'[w] = [build[w] EXCEPT !.pc = "dropping", !.ok = ok]
        /\ build[w].pc = "running" /\ OnlyMoves(w) /\ UNCHANGED <<runVars, stop, late>>
    BY <1>1, <1>4, <2>1 DEF ProcessEnds, OnlyMoves
  <2>3. Into("dropping")
    BY <1>1, <2>2 DEF BuildFact, Whole
  <2>4. StopFact(w)'
    BY <1>1, <2>2, <2>3 DEF BuildFact, StopFact
  <2> QED BY <1>1, <2>2, <2>3, <2>4, GoStep DEF Building, Running
<1>5. CASE SigTerm(w)
  <2>1. /\ build[w].pc \notin {"idle", "gone", "stuck"} /\ ~stop[w]
        /\ stop'[w] = TRUE /\ UNCHANGED <<runVars, late>>
        /\ stop' = [v \in Workers |-> IF v = w THEN stop'[w] ELSE stop[v]]
    BY <1>1, <1>5 DEF SigTerm, Building
  <2>2. CASE build[w].pc \in {"adding", "dropping"}
    <3>1. build' = [build EXCEPT ![w].pc = "stuck"]
      BY <1>5, <2>2 DEF SigTerm
    <3>2. build'[w] = [build[w] EXCEPT !.pc = "stuck"] /\ OnlyMoves(w)
      BY <1>1, <2>1, <3>1 DEF OnlyMoves
    <3>3. Into("stuck")
      BY <1>1, <2>1, <3>2 DEF BuildFact, Whole
    <3>4. StopFact(w)'
      BY <1>1, <2>1, <3>3 DEF BuildFact, StopFact
    <3> QED BY <1>1, <2>1, <2>2, <3>2, <3>3, <3>4, GoStep DEF Building, Running
  <2>3. CASE build[w].pc = "running"
    <3>1. build' = [build EXCEPT ![w].pc = "dropping", ![w].ok = FALSE]
      BY <1>5, <2>3 DEF SigTerm
    <3>2. build'[w] = [build[w] EXCEPT !.pc = "dropping", !.ok = FALSE] /\ OnlyMoves(w)
      BY <1>1, <2>1, <3>1 DEF OnlyMoves
    <3>3. Into("dropping")
      BY <1>1, <2>1, <3>2 DEF BuildFact, Whole
    <3>4. StopFact(w)'
      BY <1>1, <2>1, <3>3 DEF BuildFact, StopFact
    <3> QED BY <1>1, <2>1, <2>3, <3>2, <3>3, <3>4, GoStep DEF Building, Running
  <2>4. CASE build[w].pc \notin {"adding", "dropping", "running"}
    <3>1. build' = build
      BY <1>5, <2>4 DEF SigTerm
    <3>2. OnlyMoves(w) /\ Into(build[w].pc)
      BY <1>1, <2>1, <3>1 DEF BuildFact, OnlyMoves
    <3>3. StopFact(w)'
      BY <1>1, <2>1, <3>1 DEF BuildFact, StopFact
    <3> QED BY <1>1, <2>1, <3>2, <3>3, GoStep DEF Building
  <2> QED BY <2>2, <2>3, <2>4
<1> QED BY <1>2, <1>3, <1>4, <1>5

\* A queued rendition is taken, or dropped.
LEMMA BeginStep == ASSUME Inv, NEW w \in Workers, Begin(w) PROVE Inv'
<1>1. BuildFact(w) /\ build = [v \in Workers |-> build[v]]
      /\ stop \in [Workers -> BOOLEAN] /\ late \in [Workers -> Nat]
  BY DEF Inv, Typed
<1>2. PICK kind \in queue :
         /\ queue' = queue \ {kind}
         /\ \/ HasLadder /\ build' = [build EXCEPT ![w] = [Idle EXCEPT !.pc = "check",
                                                    !.what = "probe", !.kind = kind]]
            \/ build' = build
  BY DEF Begin
<1>3. /\ build[w].pc = "idle" /\ kind \in KINDS /\ queue' \subseteq KINDS
      /\ UNCHANGED <<ladderVars, stored, master, row, plays, stop, late, lock>>
  BY <1>2 DEF Begin, Inv, Typed
<1>4. OnlyMoves(w) /\ BuildFact(w)'
  <2>1. CASE build' = build
    <3>1. OnlyMoves(w)
      BY <1>1, <1>3, <2>1 DEF OnlyMoves
    <3> QED BY <1>1, <1>3, <2>1, <3>1, OthersKeep DEF ladderVars
  <2>2. CASE build' # build
    <3>1. HasLadder /\ build' = [build EXCEPT ![w] = [Idle EXCEPT !.pc = "check",
                                                       !.what = "probe", !.kind = kind]]
      BY <1>2, <2>2
    <3>2. OnlyMoves(w) /\ build'[w] = [Idle EXCEPT !.pc = "check", !.what = "probe",
                                                   !.kind = kind]
      BY <1>1, <1>3, <3>1 DEF OnlyMoves
    <3>3. /\ Whole(build'[w]) /\ build'[w].pc = "check" /\ build'[w].what = "probe"
          /\ build'[w].kind = kind /\ build'[w].copy = <<>> /\ build'[w].waited = 0
      BY <3>2, IdleFields DEF Whole
    <3>4. StopFact(w)'
      BY <1>1, <1>3, <3>3 DEF BuildFact, StopFact
    <3>5. LockFact(w)'
      BY <1>1, <1>3, <3>3 DEF BuildFact, LockFact
    <3>6. RungFact(w)'
      BY <1>3, <3>1, <3>3
         DEF RungFact, Building, Uploading, Listing, HasLadder, ladderVars
    <3> QED BY <3>2, <3>3, <3>4, <3>5, <3>6 DEF BuildFact, Pcs, BLOCKING_TIMEOUT
  <2> QED BY <2>1, <2>2
<1> QED BY <1>1, <1>3, <1>4, WorkerStep DEF Inv, Typed, LadderFact, playVars

\* A process has ended: the job fails, is planned or is uploaded.
LEMMA UnregisterStep == ASSUME Inv, NEW w \in Workers, Unregister(w) PROVE Inv'
<1>1. BuildFact(w) /\ build = [v \in Workers |-> build[v]]
      /\ stop \in [Workers -> BOOLEAN] /\ late \in [Workers -> Nat]
      /\ video \in Videos
  BY DEF Inv, Typed
<1>2. build[w].pc = "dropping" /\ UNCHANGED <<runVars, late>>
  BY DEF Unregister
<1>3. CASE End(w)
  <2>1. lock.by # w
    BY <1>1, <1>2 DEF BuildFact, LockFact
  <2> QED BY <1>2, <1>3, <2>1, EndStep DEF runVars
<1>4. CASE ~End(w)
  <2>1. /\ ~(~build[w].ok \/ (build[w].what = "probe" /\ ~plan_rendition(build[w].kind, video)))
        /\ stop' = stop
        /\ build' = [build EXCEPT ![w] =
                       IF build[w].what = "probe"
                       THEN [build[w] EXCEPT !.pc = "check", !.what = "encode",
                                             !.todo = rungs_for(video.height)]
                       ELSE [build[w] EXCEPT !.pc = "files"]]
    BY <1>4 DEF Unregister
  <2>2. StopFact(w)' /\ LockFact(w)' /\ RungFact(w)' /\ OnlyMoves(w)
        /\ Whole(build'[w]) /\ build'[w].pc \in Pcs /\ build'[w].waited = build[w].waited
    <3>1. CASE build[w].what = "probe"
      <4>1. OnlyMoves(w) /\ build'[w] = [build[w] EXCEPT !.pc = "check", !.what = "encode",
                                             !.todo = Rungs]
        BY <1>1, <1>2, <2>1, <3>1 DEF OnlyMoves, Rungs
      <4>2. /\ Whole(build'[w]) /\ build'[w].pc = "check" /\ build'[w].what = "encode"
            /\ build'[w].kind = build[w].kind /\ build'[w].todo = Rungs
            /\ build'[w].copy = build[w].copy /\ build'[w].waited = build[w].waited
        BY <1>1, <4>1 DEF BuildFact, Whole
      <4>3. /\ StopFact(w)'
        BY <1>1, <1>2, <2>1, <4>2 DEF BuildFact, StopFact
      <4>4. LockFact(w)'
        BY <1>1, <1>2, <4>2 DEF BuildFact, LockFact, runVars, playVars
      <4>5. Rungs' = Rungs /\ IsSeq(Rungs) /\ Rungs # <<>>
        BY <1>1, <1>2, RenditionsAssumption, RungsOf, OwnElements
           DEF Rungs, runVars, ladderVars
      <4>6. RungFact(w)'
        BY <1>1, <1>2, <4>2, <4>5
           DEF BuildFact, RungFact, Building, Uploading, Listing, runVars, ladderVars
      <4> QED BY <4>1, <4>2, <4>3, <4>4, <4>6 DEF Pcs
    <3>2. CASE build[w].what # "probe"
      <4>1. OnlyMoves(w) /\ build'[w] = [build[w] EXCEPT !.pc = "files"]
        BY <1>1, <1>2, <2>1, <3>2 DEF OnlyMoves
      <4>2. /\ Whole(build'[w]) /\ build'[w].pc = "files" /\ build'[w].what = build[w].what
            /\ build'[w].kind = build[w].kind /\ build'[w].todo = build[w].todo
            /\ build'[w].copy = build[w].copy /\ build'[w].waited = build[w].waited
        BY <1>1, <4>1 DEF BuildFact, Whole
      <4>3. /\ StopFact(w)'
        BY <1>1, <1>2, <2>1, <4>2 DEF BuildFact, StopFact
      <4>4. LockFact(w)'
        BY <1>1, <1>2, <4>2 DEF BuildFact, LockFact, runVars, playVars
      <4>5. Rungs' = Rungs
        BY <1>2 DEF Rungs, runVars, ladderVars
      <4>6. build[w].what = "encode"
        BY <1>1, <1>2, <3>2 DEF BuildFact, RungFact, Building
      <4>7. RungFact(w)'
        BY <1>1, <1>2, <4>2, <4>5, <4>6
           DEF BuildFact, RungFact, Building, Uploading, Listing, runVars, ladderVars, playVars,
               Both
      <4> QED BY <4>1, <4>2, <4>3, <4>4, <4>7 DEF Pcs
    <3> QED BY <3>1, <3>2
  <2>3. BuildFact(w)'
    BY <1>1, <2>2 DEF BuildFact
  <2> QED BY <1>1, <1>2, <2>1, <2>2, <2>3, WorkerStep
          DEF Inv, Typed, LadderFact, runVars, playVars
<1> QED BY <1>3, <1>4

\* The head of a sequence and what its tail keeps.
LEMMA HeadAndTail ==
    ASSUME NEW s, IsSeq(s), s # <<>>
    PROVE  /\ Head(s) \in ToSet(s) /\ IsSeq(Tail(s))
           /\ ToSet(Tail(s)) \subseteq ToSet(s)
           /\ ToSet(s) \subseteq ToSet(Tail(s)) \cup {Head(s)}
<1>1. s \in Seq(ToSet(s)) /\ Len(s) \in Nat \ {0} /\ DOMAIN s = 1..Len(s) /\ Head(s) = s[1]
  BY DEF IsSeq
<1>2. /\ Tail(s) \in Seq(ToSet(s)) /\ Len(Tail(s)) = Len(s) - 1
      /\ \A i \in 1..(Len(s) - 1) : Tail(s)[i] = s[i + 1]
      /\ DOMAIN Tail(s) = 1..(Len(s) - 1)
  BY <1>1
<1>3. Head(s) \in ToSet(s)
  BY <1>1 DEF ToSet
<1>4. ASSUME NEW i \in DOMAIN s PROVE s[i] = Head(s) \/ s[i] \in ToSet(Tail(s))
  <2>1. CASE i = 1
    BY <1>1, <2>1
  <2>2. CASE i # 1
    <3>1. i - 1 \in 1..(Len(s) - 1) /\ s[i] = Tail(s)[i - 1]
      BY <1>1, <1>2, <2>2
    <3> QED BY <1>2, <3>1 DEF ToSet
  <2> QED BY <2>1, <2>2
<1>5. ToSet(s) \subseteq ToSet(Tail(s)) \cup {Head(s)}
  BY <1>4 DEF ToSet
<1>6. ToSet(Tail(s)) \subseteq ToSet(s)
  <2>1. ASSUME NEW i \in DOMAIN Tail(s) PROVE Tail(s)[i] \in ToSet(s)
    BY <1>1, <1>2 DEF ToSet
  <2> QED BY <2>1 DEF ToSet
<1> QED BY <1>2, <1>3, <1>5, <1>6, OwnElements

\* A rung's playlist, then its media, are uploaded; after the last rung the
\* master comes next.
LEMMA UploadStep ==
    ASSUME Inv, NEW w \in Workers, UploadPlaylist(w) \/ UploadMedia(w)
    PROVE  Inv'
<1> DEFINE kind == build[w].kind
           todo == build[w].todo
           here == {"v"} \X (0..9) \cup (KINDS \X Nat \X {"index", "media"})
<1>1. BuildFact(w) /\ build = [v \in Workers |-> build[v]]
      /\ stop \in [Workers -> BOOLEAN] /\ late \in [Workers -> Nat]
      /\ video \in Videos /\ stored \subseteq here
  BY DEF Inv, Typed
<1>2. /\ build[w].pc \in Uploading
      /\ UNCHANGED <<ladderVars, master, playVars, lock, stop, late>>
  BY DEF UploadPlaylist, UploadMedia, Uploading
<1>3. /\ UNCHANGED <<video, phase, row, master, lock>>
      /\ Rungs' = Rungs
  BY <1>2 DEF ladderVars, playVars, Rungs
<1>4. /\ build[w].what = "encode" /\ kind \in KINDS /\ phase \in {"recorded", "ready"}
      /\ IsSeq(todo) /\ todo # <<>> /\ ToSet(todo) \subseteq ToSet(Rungs)
  BY <1>1, <1>2 DEF BuildFact, RungFact, Building, Uploading, Listing
<1>5. Head(todo) \in ToSet(todo) /\ Head(todo) \in Nat
  <2>1. Rungs \in Seq(Nat)
    BY <1>1, RenditionsAssumption, RungsOf DEF Rungs
  <2>2. ToSet(Rungs) \subseteq Nat
    BY <2>1 DEF ToSet
  <2> QED BY <1>4, <2>2, HeadAndTail
<1>6. CASE UploadPlaylist(w)
  <2>1. stored' = stored \cup {<<kind, Head(todo), "index">>} /\ build[w].pc = "files"
    BY <1>6 DEF UploadPlaylist
  <2>2. OnlyMoves(w) /\ build'[w] = [build[w] EXCEPT !.pc = "media"]
    BY <1>1, <1>2, <1>6 DEF UploadPlaylist, Goto, OnlyMoves
  <2>3. /\ Whole(build'[w]) /\ build'[w].pc = "media" /\ build'[w].what = "encode"
        /\ build'[w].kind = kind /\ build'[w].todo = todo
        /\ build'[w].copy = build[w].copy /\ build'[w].waited = build[w].waited
    BY <1>1, <1>4, <2>2 DEF BuildFact, Whole
  <2>4. StopFact(w)'
    BY <1>1, <1>2, <2>1, <2>3 DEF BuildFact, StopFact
  <2>5. LockFact(w)'
    BY <1>1, <1>3, <2>1, <2>3 DEF BuildFact, LockFact
  <2>6. row => \A r \in ToSet(Rungs) \ ToSet(todo) :
                  {<<kind, r, "index">>, <<kind, r, "media">>} \subseteq stored'
    BY <1>1, <1>4, <2>1 DEF BuildFact, RungFact, Both
  <2>7. RungFact(w)'
    BY <1>3, <1>4, <2>1, <2>3, <2>6 DEF RungFact, Building, Uploading, Listing, Both
  <2>8. BuildFact(w)'
    BY <1>1, <2>3, <2>4, <2>5, <2>7 DEF BuildFact, Pcs
  <2>9. stored \subseteq stored' /\ stored' \subseteq here
    BY <1>1, <1>4, <1>5, <2>1
  <2> QED BY <1>1, <1>2, <1>3, <2>2, <2>8, <2>9, WorkerStep
          DEF Inv, Typed, LadderFact, playVars
<1>7. CASE UploadMedia(w)
  <2> DEFINE left == Tail(todo)
             next == IF left = <<>> THEN "waiting" ELSE "check"
  <2>1. stored' = stored \cup {<<kind, Head(todo), "media">>} /\ build[w].pc = "media"
    BY <1>7 DEF UploadMedia
  <2>2. OnlyMoves(w) /\ build'[w] = [build[w] EXCEPT !.todo = left, !.pc = next]
    BY <1>1, <1>2, <1>7 DEF UploadMedia, OnlyMoves
  <2>3. /\ Whole(build'[w]) /\ build'[w].pc = next /\ build'[w].what = "encode"
        /\ build'[w].kind = kind /\ build'[w].todo = left
        /\ build'[w].copy = build[w].copy /\ build'[w].waited = build[w].waited
    BY <1>1, <1>4, <2>2 DEF BuildFact, Whole
  <2>4. next \in {"waiting", "check"} /\ (next = "waiting" <=> left = <<>>)
    OBVIOUS
  <2>5. /\ IsSeq(left) /\ ToSet(left) \subseteq ToSet(Rungs)
        /\ ToSet(todo) \subseteq ToSet(left) \cup {Head(todo)}
    BY <1>4, HeadAndTail
  <2> HIDE DEF left, next
  <2>6. StopFact(w)'
    BY <1>1, <1>2, <2>1, <2>3, <2>4 DEF BuildFact, StopFact
  <2>7. LockFact(w)'
    BY <1>1, <1>3, <2>1, <2>3, <2>4 DEF BuildFact, LockFact
  <2>8. row => \A r \in ToSet(Rungs) \ ToSet(left) :
                  {<<kind, r, "index">>, <<kind, r, "media">>} \subseteq stored'
    <3>1. row => <<kind, Head(todo), "index">> \in stored
      BY <1>1, <2>1 DEF BuildFact, RungFact
    <3>2. row => \A r \in ToSet(Rungs) \ ToSet(todo) : Both(kind, r)
      BY <1>1, <1>4 DEF BuildFact, RungFact
    <3>3. ASSUME row, NEW r \in ToSet(Rungs) \ ToSet(left)
          PROVE  {<<kind, r, "index">>, <<kind, r, "media">>} \subseteq stored'
      <4>1. CASE r = Head(todo)
        BY <2>1, <3>1, <3>3, <4>1
      <4>2. CASE r # Head(todo)
        BY <2>1, <2>5, <3>2, <3>3, <4>2 DEF Both
      <4> QED BY <4>1, <4>2
    <3> QED BY <3>3
  <2>9. RungFact(w)'
    BY <1>3, <1>4, <2>3, <2>4, <2>5, <2>8 DEF RungFact, Building, Uploading, Listing, Both
  <2>10. BuildFact(w)'
    BY <1>1, <2>3, <2>4, <2>6, <2>7, <2>9 DEF BuildFact, Pcs
  <2>11. stored \subseteq stored' /\ stored' \subseteq here
    BY <1>1, <1>4, <1>5, <2>1
  <2> QED BY <1>1, <1>2, <1>3, <2>2, <2>10, <2>11, WorkerStep
          DEF Inv, Typed, LadderFact, playVars
<1> QED BY <1>6, <1>7

\* The master's lock is taken, and the master read under it.
LEMMA TakeMasterLockStep == ASSUME Inv, NEW w \in Workers, TakeMasterLock(w) PROVE Inv'
<1>1. BuildFact(w) /\ build = [v \in Workers |-> build[v]]
      /\ stop \in [Workers -> BOOLEAN] /\ late \in [Workers -> Nat]
  BY DEF Inv, Typed
<1>2. /\ build[w].pc = "waiting" /\ lock.by = NoOne /\ lock' = [by |-> w, age |-> 0]
      /\ UNCHANGED <<ladderVars, stored, master, playVars, stop, late>>
  BY DEF TakeMasterLock
<1>3. OnlyMoves(w) /\ build'[w] = [build[w] EXCEPT !.pc = "read", !.waited = 0]
  BY <1>1, <1>2 DEF TakeMasterLock, OnlyMoves
<1>4. /\ Whole(build'[w]) /\ build'[w].pc = "read" /\ build'[w].what = build[w].what
      /\ build'[w].kind = build[w].kind /\ build'[w].todo = build[w].todo
      /\ build'[w].copy = build[w].copy /\ build'[w].waited = 0
  BY <1>1, <1>3 DEF BuildFact, Whole
<1>5. UNCHANGED <<video, phase, row, master, stored>> /\ Rungs' = Rungs /\ lock'.by = w
  BY <1>2 DEF ladderVars, playVars, Rungs
<1>6. StopFact(w)'
  BY <1>1, <1>2, <1>4 DEF BuildFact, StopFact
<1>7. LockFact(w)'
  BY <1>1, <1>2, <1>4, <1>5 DEF BuildFact, LockFact
<1>8. RungFact(w)'
  BY <1>1, <1>2, <1>4, <1>5 DEF BuildFact, RungFact, Building, Uploading, Listing, Both
<1>9. BuildFact(w)'
  BY <1>4, <1>6, <1>7, <1>8 DEF BuildFact, Pcs, BLOCKING_TIMEOUT
<1>10. /\ lock' \in [by : Workers \cup {NoOne}, age : 0..BLOCKING_TIMEOUT]
       /\ \A v \in Workers \ {w} : (lock'.by = v) <=> (lock.by = v)
  BY <1>2, RenditionsAssumption DEF BLOCKING_TIMEOUT
<1> QED BY <1>1, <1>2, <1>3, <1>5, <1>9, <1>10, WorkerStep
        DEF Inv, Typed, LadderFact, playVars

\* The master is read: it is gone, or the copy is the master.
LEMMA ReadMasterStep == ASSUME Inv, NEW w \in Workers, ReadMaster(w) PROVE Inv'
<1>1. BuildFact(w) /\ build = [v \in Workers |-> build[v]]
      /\ stop \in [Workers -> BOOLEAN] /\ late \in [Workers -> Nat]
  BY DEF Inv, Typed
<1>2. build[w].pc = "read" /\ UNCHANGED <<ladderVars, stored, master, playVars, late>>
  BY DEF ReadMaster
<1>3. CASE master = <<>>
  BY <1>2, <1>3, EndStep DEF ReadMaster
<1>4. CASE master # <<>>
  <2>1. OnlyMoves(w) /\ build'[w] = [build[w] EXCEPT !.pc = "write", !.copy = master]
        /\ UNCHANGED <<stop, lock>>
    BY <1>1, <1>2, <1>4 DEF ReadMaster, OnlyMoves
  <2>2. /\ Whole(build'[w]) /\ build'[w].pc = "write" /\ build'[w].what = build[w].what
        /\ build'[w].kind = build[w].kind /\ build'[w].todo = build[w].todo
        /\ build'[w].copy = master /\ build'[w].waited = build[w].waited
    BY <1>1, <2>1 DEF BuildFact, Whole
  <2>3. UNCHANGED <<video, phase, row, master, stored, lock>> /\ Rungs' = Rungs
    BY <1>2, <2>1 DEF ladderVars, playVars, Rungs
  <2>4. StopFact(w)'
    BY <1>1, <1>2, <2>1, <2>2 DEF BuildFact, StopFact
  <2>5. LockFact(w)'
    BY <1>1, <1>2, <1>4, <2>2, <2>3 DEF BuildFact, LockFact
  <2>6. RungFact(w)'
    BY <1>1, <1>2, <2>2, <2>3 DEF BuildFact, RungFact, Building, Uploading, Listing, Both
  <2>7. BuildFact(w)'
    BY <1>1, <2>2, <2>4, <2>5, <2>6 DEF BuildFact, Pcs
  <2> QED BY <1>1, <1>2, <2>1, <2>3, <2>7, WorkerStep DEF Inv, Typed, LadderFact, playVars
<1> QED BY <1>3, <1>4

\* The master is uploaded with the rendition in it: nothing that was listed is
\* dropped, and what is added has all its files uploaded.
LEMMA WriteAdds ==
    ASSUME Inv, NEW w \in Workers, WriteMaster(w), row
    PROVE  /\ IsSeq(master') /\ ToSet(master) \subseteq ToSet(master')
           /\ \A e \in ToSet(master') \ ToSet(master) :
                 e.dir = build[w].kind /\ e.n \in ToSet(Rungs)
<1>1. BuildFact(w) /\ build[w].pc = "write" /\ video \in Videos /\ IsSeq(master)
  BY DEF Inv, Typed, LadderFact, WriteMaster
<1>2. build[w].copy = master /\ build[w].kind \in KINDS
  BY <1>1 DEF BuildFact, LockFact, RungFact, Building
<1>3. Rungs \in Seq(Nat)
  BY <1>1, RenditionsAssumption, RungsOf DEF Rungs
<1>4. master' = WithRendition(master, build[w].kind, Rungs, MeasuredPeaks(build[w].kind))
  BY <1>2 DEF WriteMaster, Extended, Rungs, MeasuredPeaks
<1>5. /\ IsSeq(master')
      /\ ToSet(master') = ToSet(master) \cup
            {EntryOf(master, build[w].kind, rung, MeasuredPeaks(build[w].kind)) :
                rung \in Unlisted(master, build[w].kind, Rungs)}
  BY <1>1, <1>2, <1>3, <1>4, RenditionAdds
<1> QED BY <1>5, EntryFields DEF Unlisted

\* The write keeps the invariant.
LEMMA WriteMasterStep == ASSUME Inv, NEW w \in Workers, WriteMaster(w) PROVE Inv'
<1>1. BuildFact(w) /\ build = [v \in Workers |-> build[v]]
      /\ stop \in [Workers -> BOOLEAN] /\ late \in [Workers -> Nat]
      /\ lock \in [by : Workers \cup {NoOne}, age : 0..BLOCKING_TIMEOUT]
  BY DEF Inv, Typed
<1>2. /\ build[w].pc = "write" /\ End(w) /\ Release(w)
      /\ UNCHANGED <<ladderVars, stored, playVars, late>>
  BY DEF WriteMaster
<1>3. UNCHANGED <<video, phase, row, stored, queue, plays>> /\ Rungs' = Rungs
  BY <1>2 DEF ladderVars, playVars, Rungs
<1>4. lock.by = w
  BY <1>1, <1>2 DEF BuildFact, LockFact
<1>5. /\ lock' \in [by : Workers \cup {NoOne}, age : 0..BLOCKING_TIMEOUT]
      /\ \A v \in Workers \ {w} : (lock'.by = v) <=> (lock.by = v)
      /\ lock'.by # w
  BY <1>2, <1>4, RenditionsAssumption DEF Release, BLOCKING_TIMEOUT
<1>6. /\ OnlyMoves(w) /\ build'[w] = Over(w) /\ stop'[w] = FALSE /\ late'[w] = late[w]
      /\ late[w] \in Nat /\ stop[w] \in BOOLEAN
  BY <1>1, <1>2 DEF End, OnlyMoves
<1>7. BuildFact(w)'
  BY <1>1, <1>2, <1>5, <1>6, EndKeeps
<1>8. \A v \in Workers \ {w} : build[v].pc # "write"
  BY <1>4 DEF Inv, BuildFact, LockFact
<1>9. phase \in {"recorded", "ready"} /\ build[w].what = "encode" /\ build[w].todo = <<>>
      /\ build[w].kind \in KINDS
  BY <1>1, <1>2 DEF BuildFact, RungFact, Building, Listing
<1>10. row => \A r \in ToSet(Rungs) : Both(build[w].kind, r)
  <2>1. ToSet(<<>>) = {}
    BY DEF ToSet
  <2> QED BY <1>1, <1>9, <2>1 DEF BuildFact, RungFact
<1>11. row => \A e \in ToSet(master') \ ToSet(master) : Stored(e)' /\ Named(e)'
  <2>1. SUFFICES ASSUME row, NEW e \in ToSet(master') \ ToSet(master)
                 PROVE  Stored(e)' /\ Named(e)'
    OBVIOUS
  <2>2. e.dir = build[w].kind /\ e.n \in ToSet(Rungs)
    BY <2>1, WriteAdds
  <2>3. Both(build[w].kind, e.n) /\ build[w].kind # "v"
    BY <1>9, <1>10, <2>1, <2>2 DEF KINDS
  <2>4. Stored(e) /\ Named(e)
    BY <1>9, <2>2, <2>3 DEF Stored, Both, Named
  <2> QED BY <1>3, <2>4 DEF Stored, Named
<1>12. row => IsSeq(master')
  BY WriteAdds
<1> QED BY <1>1, <1>2, <1>3, <1>5, <1>6, <1>7, <1>8, <1>9, <1>11, <1>12, WorkerStep
        DEF Inv, Typed

\* What raises, and what a stuck handler is freed by, end the build; a killed
\* worker is gone, its flag and the master's lock left as they were.
LEMMA EndsStep ==
    ASSUME Inv, NEW w \in Workers, Raises(w) \/ AlarmBreaks(w)
    PROVE  Inv'
<1>1. CASE Raises(w)
  BY <1>1, EndStep DEF Raises
<1>2. CASE AlarmBreaks(w)
  <2>1. lock.by # w /\ build[w].pc = "stuck"
    BY <1>2 DEF AlarmBreaks, Inv, BuildFact, LockFact
  <2> QED BY <1>2, <2>1, EndStep DEF AlarmBreaks, runVars
<1> QED BY <1>1, <1>2

\* A killed worker keeps nothing but the lock it may hold.
LEMMA KilledStep == ASSUME Inv, NEW w \in Workers, Killed(w) PROVE Inv'
<1>1. BuildFact(w) /\ build = [v \in Workers |-> build[v]]
      /\ stop \in [Workers -> BOOLEAN] /\ late \in [Workers -> Nat]
  BY DEF Inv, Typed
<1>2. /\ Building(w) /\ UNCHANGED <<runVars, stop, late>>
      /\ build' = [build EXCEPT ![w] = [Gone EXCEPT !.kind = build[w].kind]]
  BY DEF Killed
<1>3. OnlyMoves(w) /\ build'[w] = [Gone EXCEPT !.kind = build[w].kind]
  BY <1>1, <1>2 DEF OnlyMoves
<1>4. /\ Whole(build'[w]) /\ build'[w].pc = "gone" /\ build'[w].what = "none"
      /\ build'[w].copy = <<>> /\ build'[w].waited = 0
  BY <1>3, IdleFields DEF Whole
<1>5. UNCHANGED <<ladderVars, stored, master, playVars, lock>>
  BY <1>2 DEF runVars
<1>6. StopFact(w)'
  BY <1>1, <1>2, <1>4 DEF BuildFact, StopFact
<1>7. LockFact(w)'
  BY <1>1, <1>4 DEF BuildFact, LockFact
<1>8. RungFact(w)'
  BY <1>4 DEF RungFact, Building, Uploading, Listing
<1>9. BuildFact(w)'
  BY <1>4, <1>6, <1>7, <1>8 DEF BuildFact, Pcs, BLOCKING_TIMEOUT
<1> QED BY <1>1, <1>2, <1>3, <1>5, <1>9, WorkerStep DEF Inv, Typed, LadderFact, playVars

\* A minute over a dead holder's lock: it may expire, and who waited too long
\* gives up.
LEMMA MinuteStep == ASSUME Inv, MinutePasses PROVE Inv'
<1>1. /\ build = [v \in Workers |-> build[v]] /\ stop \in [Workers -> BOOLEAN]
      /\ late \in [Workers -> Nat] /\ \A v \in Workers : BuildFact(v)
      /\ lock \in [by : Workers \cup {NoOne}, age : 0..BLOCKING_TIMEOUT]
  BY DEF Inv, Typed
<1>2. /\ lock.by \in Workers /\ build[lock.by].pc = "gone"
      /\ UNCHANGED <<ladderVars, stored, master, playVars, stop, late>>
  BY <1>1 DEF MinutePasses
<1>3. UNCHANGED <<video, phase, cut, ladder, row, queue, plays, stored, master, stop, late>>
  BY <1>2 DEF ladderVars, playVars
<1>4. /\ lock' \in [by : Workers \cup {NoOne}, age : 0..BLOCKING_TIMEOUT]
      /\ lock'.by \in {NoOne, lock.by}
  <2>1. CASE lock.age + 1 >= LOCK_TIMEOUT
    BY <1>1, <2>1 DEF MinutePasses, BLOCKING_TIMEOUT
  <2>2. CASE ~(lock.age + 1 >= LOCK_TIMEOUT)
    BY <1>1, <2>2 DEF LOCK_TIMEOUT, BLOCKING_TIMEOUT
  <2> QED BY <2>1, <2>2
<1>5. ASSUME NEW v \in Workers PROVE BuildFact(v)'
  <2>1. build'[v] = IF build[v].pc # "waiting" THEN build[v]
                    ELSE IF build[v].waited + 1 >= BLOCKING_TIMEOUT THEN Over(v)
                    ELSE [build[v] EXCEPT !.waited = @ + 1]
    BY DEF MinutePasses
  <2>2. CASE build[v].pc # "waiting"
    <3>1. build[v].pc # "gone" => ((lock'.by = v) <=> (lock.by = v))
      BY <1>2, <1>4, RenditionsAssumption
    <3> QED BY <1>1, <1>3, <2>1, <2>2, <3>1, OthersKeep
  <2>3. CASE build[v].pc = "waiting"
    <3>1. lock'.by # v
      BY <1>2, <1>4, <2>3, RenditionsAssumption
    <3>2. CASE build[v].waited + 1 >= BLOCKING_TIMEOUT
      BY <1>1, <1>3, <2>1, <2>3, <3>1, <3>2, EndKeeps
    <3>3. CASE ~(build[v].waited + 1 >= BLOCKING_TIMEOUT)
      <4>1. build'[v] = [build[v] EXCEPT !.waited = build[v].waited + 1]
        BY <2>1, <2>3, <3>3
      <4>2. /\ Whole(build'[v]) /\ build'[v].pc = "waiting" /\ build'[v].what = build[v].what
            /\ build'[v].kind = build[v].kind /\ build'[v].todo = build[v].todo
            /\ build'[v].copy = build[v].copy /\ build'[v].waited = build[v].waited + 1
        BY <1>1, <2>3, <4>1 DEF BuildFact, Whole
      <4>3. build'[v].waited \in 0..BLOCKING_TIMEOUT
        BY <1>1, <3>3, <4>2 DEF BuildFact, BLOCKING_TIMEOUT
      <4>4. StopFact(v)'
        BY <1>1, <1>3, <2>3, <4>2 DEF BuildFact, StopFact
      <4>5. LockFact(v)'
        BY <1>1, <1>3, <2>3, <3>1, <4>2 DEF BuildFact, LockFact
      <4>6. RungFact(v)'
        <5>1. BuildFact(v) /\ Rungs' = Rungs
          BY <1>1, <1>3 DEF Rungs
        <5> QED BY <1>3, <2>3, <4>2, <5>1
                DEF BuildFact, RungFact, Building, Uploading, Listing, Both
      <4> QED BY <4>2, <4>3, <4>4, <4>5, <4>6 DEF BuildFact, Pcs
    <3> QED BY <3>2, <3>3
  <2> QED BY <2>2, <2>3
<1>6. build' = [v \in Workers |-> build'[v]]
  BY DEF MinutePasses
<1>7. Typed'
  BY <1>3, <1>4, <1>6 DEF Inv, Typed, NoCut, NoLadder
<1>8. LadderFact' /\ ListFact'
  BY <1>3 DEF Inv, LadderFact, ListFact, Stored, Named, Rungs
<1> QED BY <1>5, <1>7, <1>8 DEF Inv

\* No builder is at work before the ladder is recorded.
LEMMA NobodyWrites ==
    ASSUME Inv, phase \notin {"recorded", "ready"}, NEW v \in Workers
    PROVE  build[v].pc # "write"
  BY DEF Inv, BuildFact, RungFact, Building

\* What the ladder job, the hooks and the players do leaves the builders alone.
LEMMA SharedStep ==
    ASSUME Inv, UNCHANGED <<build, stop, late, lock>>, video' = video,
           phase \in {"recorded", "ready"} => phase' \in {"recorded", "ready"},
           row' => row /\ stored \subseteq stored',
           phase \in {"recorded", "ready"} /\ row' => master' = master,
           Typed', LadderFact', ListFact'
    PROVE  Inv'
<1>1. ASSUME NEW v \in Workers PROVE BuildFact(v)'
  <2>1. row' /\ build[v].pc = "write" => master' = master
    BY NobodyWrites
  <2> QED BY <2>1, OthersKeep DEF Inv
<1> QED BY <1>1 DEF Inv

\* The ladder is encoded, uploaded and recorded; the hooks queue.
LEMMA LadderStep == ASSUME Inv, Ladder PROVE Inv'
<1>1. CASE EncodeMp4
  <2>1. PICK file \in Files : cut' = Cut(file, "mp4")
    BY <1>1 DEF EncodeMp4
  <2>2. cut' # NoCut
    BY <2>1 DEF Cut, NoCut
  <2>3. /\ phase = "mp4" /\ phase' = "ladder"
        /\ UNCHANGED <<video, ladder, stored, master, playVars, build, stop, late, lock>>
    BY <1>1 DEF EncodeMp4
  <2>4. Typed' /\ LadderFact' /\ ListFact'
    BY <2>2, <2>3 DEF Inv, Typed, LadderFact, ListFact, Stored, Named, Rungs, playVars, NoCut,
       NoLadder
  <2> QED BY <2>3, <2>4, SharedStep DEF playVars
<1>2. CASE PlanLadder
  <2>1. cut' # NoCut
    BY <1>2 DEF PlanLadder, Cut, NoCut
  <2>2. /\ phase = "ladder" /\ phase' = "encode"
        /\ UNCHANGED <<video, ladder, stored, master, playVars, build, stop, late, lock>>
    BY <1>2 DEF PlanLadder
  <2>3. Typed' /\ LadderFact' /\ ListFact'
    BY <2>1, <2>2 DEF Inv, Typed, LadderFact, ListFact, Stored, Named, Rungs, playVars, NoCut,
       NoLadder
  <2> QED BY <2>2, <2>3, SharedStep DEF playVars
<1>3. CASE EncodeLadder
  <2> DEFINE command == build_ladder_command(variants_for(video.height, MAX_HEIGHT))
  <2>1. /\ phase = "encode" /\ cut' = NoCut
        /\ UNCHANGED <<video, stored, master, playVars, build, stop, late, lock>>
        /\ \/ phase' = "upload" /\ ladder' = command
           \/ phase' = "failed" /\ ladder' = NoLadder
    BY <1>3 DEF EncodeLadder
  <2>2. command # NoLadder
    BY DEF build_ladder_command, NoLadder
  <2> HIDE DEF command
  <2>3. Typed'
    BY <2>1, <2>2 DEF Inv, Typed, playVars, NoCut, NoLadder
  <2>4. LadderFact' /\ ListFact'
    BY <2>1 DEF Inv, LadderFact, ListFact, Stored, Named, Rungs, playVars, command
  <2> QED BY <2>1, <2>3, <2>4, SharedStep DEF playVars
<1>4. CASE UploadLadder
  <2> DEFINE heights == variants_for(video.height, MAX_HEIGHT)
             peaks   == [k \in DOMAIN heights |-> peak_rate(Encoded(video, "h264", heights[k]))]
             audio   == peak_rate(Encoded(video, "aac", 0))
             rate    == Min({MAX_FPS, video.rate})
  <2>1. /\ phase = "upload" /\ master = <<>>
        /\ UNCHANGED <<ladderVars, playVars, build, stop, late, lock>>
    BY <1>4 DEF UploadLadder
  <2>2. UNCHANGED <<video, phase, cut, ladder, row, queue, plays, build, stop, late, lock>>
    BY <2>1 DEF ladderVars, playVars
  <2>3. heights \in Seq(Nat) /\ Len(heights) <= 6 /\ Len(heights) \in Nat
    <3>1. video.height \in Nat \ {0}
      BY RenditionsAssumption DEF Inv, Typed
    <3> QED BY <3>1, VariantsOf
  <2>4. ladder.dirs = 0..Len(heights)
    BY <2>1 DEF Inv, LadderFact, build_ladder_command
  <2>7. LadderMaster = label_frame_rates(write_master(heights, peaks, audio), rate)
    BY DEF LadderMaster
  <2> HIDE DEF heights, peaks, audio, rate
  <2>0. ladder.dirs \subseteq 0..9 /\ ladder.dirs \subseteq Nat
    <3>1. \A n \in Nat : n <= 6 => 0..n \subseteq 0..9 /\ 0..n \subseteq Nat
      OBVIOUS
    <3> QED BY <2>3, <2>4, <3>1, Zenon
  <2>5. CASE ToUpload # {}
    <3>1. stored' = stored \cup {<<"v", Min(ToUpload)>>} /\ master' = master
      BY <1>4, <2>5 DEF UploadLadder
    <3>2. ToUpload \in SUBSET Nat /\ ToUpload \subseteq 0..9
      BY <2>0 DEF ToUpload
    <3>3. Min(ToUpload) \in 0..9
      BY <2>5, <3>2, MinIsIn
    <3>4. Typed'
      BY <2>2, <3>1, <3>3 DEF Inv, Typed, NoCut, NoLadder
    <3>5. LadderFact' /\ ListFact'
      BY <2>2, <3>1 DEF Inv, LadderFact, ListFact, Stored, Named, Rungs
    <3> QED BY <2>2, <3>1, <3>4, <3>5, SharedStep
  <2>6. CASE ToUpload = {}
    <3>1. stored' = stored /\ master' = label_frame_rates(write_master(heights, peaks, audio), rate)
      BY <1>4, <2>6, <2>7 DEF UploadLadder
    <3>2. /\ IsSeq(master')
          /\ \A e \in ToSet(master') : e.dir = "v" /\ e.n \in 0..Len(heights)
      BY <2>3, <3>1, FirstMaster
    <3>3. ASSUME NEW e \in ToSet(master') PROVE Stored(e)' /\ Named(e)'
      <4>1. e.dir = "v" /\ e.n \in ladder.dirs /\ e.n \in 0..9
        BY <2>0, <2>4, <3>2, <3>3, Zenon
      <4>2. <<"v", e.n>> \in stored
        BY <2>6, <4>1 DEF ToUpload
      <4> QED BY <3>1, <4>1, <4>2 DEF Stored, Named
    <3>4. Typed'
      BY <2>2, <3>1 DEF Inv, Typed, NoCut, NoLadder
    <3>5. LadderFact' /\ ListFact'
      BY <2>1, <2>2, <3>2, <3>3 DEF Inv, LadderFact, ListFact
    <3> QED BY <2>1, <2>2, <3>1, <3>4, <3>5, SharedStep
  <2> QED BY <2>5, <2>6
<1>5. CASE RecordLadder \/ LadderBreaks
  <2>1. /\ phase = "upload" /\ phase' \in {"recorded", "failed"} /\ ladder' = NoLadder
        /\ UNCHANGED <<video, cut, stored, master, playVars, build, stop, late, lock>>
    BY <1>5 DEF RecordLadder, LadderBreaks
  <2>2. Typed' /\ LadderFact' /\ ListFact'
    BY <2>1 DEF Inv, Typed, LadderFact, ListFact, Stored, Named, Rungs, playVars, NoCut,
       NoLadder
  <2> QED BY <2>1, <2>2, SharedStep DEF playVars
<1>6. CASE RunHooks
  <2>1. /\ phase = "recorded" /\ phase' = "ready" /\ queue' \subseteq KINDS
        /\ UNCHANGED <<video, cut, ladder, stored, master, row, plays, build, stop, late, lock>>
    BY <1>6 DEF RunHooks, Inv, Typed, KINDS
  <2>2. Typed' /\ LadderFact' /\ ListFact'
    BY <2>1 DEF Inv, Typed, LadderFact, ListFact, Stored, Named, Rungs, NoCut, NoLadder
  <2> QED BY <2>1, <2>2, SharedStep
<1> QED BY <1>1, <1>2, <1>3, <1>4, <1>5, <1>6 DEF Ladder

\* A play counts, and may queue a rendition; a delete empties the prefix.
LEMMA PlayStep == ASSUME Inv, Play \/ DeleteVideo PROVE Inv'
<1>1. CASE Play
  <2>1. /\ UNCHANGED <<ladderVars, stored, master, row, build, stop, late, lock>>
        /\ plays' \in 0..MaxPlays /\ queue' \subseteq KINDS
    <3>1. plays \in 0..MaxPlays /\ plays < MaxPlays /\ MaxPlays \in Nat
          /\ plays' \in {plays, plays + 1} /\ queue' \in {queue, queue \cup {"av1"}}
      BY <1>1, RenditionsAssumption DEF Play, Inv, Typed
    <3> QED BY <1>1, <3>1 DEF Play, Inv, Typed, KINDS
  <2>2. Typed' /\ LadderFact' /\ ListFact'
    BY <2>1 DEF Inv, Typed, LadderFact, ListFact, Stored, Named, Rungs, NoCut, NoLadder,
       ladderVars
  <2> QED BY <2>1, <2>2, SharedStep DEF ladderVars
<1>2. CASE DeleteVideo
  <2>1. /\ UNCHANGED <<ladderVars, queue, plays, build, stop, late, lock>>
        /\ phase = "ready" /\ row' = FALSE /\ stored' = {} /\ master' = <<>>
    BY <1>2 DEF DeleteVideo
  <2>2. Typed' /\ LadderFact' /\ ListFact'
    BY <2>1 DEF Inv, Typed, LadderFact, ListFact, NoCut, NoLadder, ladderVars
  <2> QED BY <2>1, <2>2, SharedStep DEF ladderVars
<1> QED BY <1>1, <1>2

\* Every step keeps the invariant.
LEMMA InvNext == Inv /\ [Next]_vars => Inv'
<1> SUFFICES ASSUME Inv, [Next]_vars PROVE Inv'
  OBVIOUS
<1>1. CASE Ladder
  BY <1>1, LadderStep
<1>2. CASE Play \/ DeleteVideo
  BY <1>2, PlayStep
<1>3. CASE MinutePasses
  BY <1>3, MinuteStep
<1>4. ASSUME NEW w \in Workers, Begin(w) \/ Step(w) \/ Raises(w) \/ SigTerm(w) \/ Killed(w)
      PROVE  Inv'
  BY <1>4, BeginStep, CheckStopStep, RunStep, UnregisterStep, UploadStep, TakeMasterLockStep,
     ReadMasterStep, WriteMasterStep, EndsStep, KilledStep DEF Step
<1>5. CASE UNCHANGED vars
  <2>1. /\ UNCHANGED <<video, phase, cut, ladder, row, queue, plays, stored, master>>
        /\ UNCHANGED <<build, stop, late, lock>>
    BY <1>5 DEF vars, ladderVars, playVars
  <2>2. Typed' /\ LadderFact' /\ ListFact'
    BY <2>1 DEF Inv, Typed, LadderFact, ListFact, Stored, Named, Rungs, NoCut, NoLadder
  <2> QED BY <2>1, <2>2, SharedStep
<1> QED BY <1>1, <1>2, <1>3, <1>4, <1>5 DEF Next

----------------------------------------------------------------------------
(* The theorems.                                                            *)

\* So it holds in every state of every behaviour.
LEMMA Invariant == Spec => []Inv
<1>1. Init => Inv
  BY InvInit
<1>2. Inv /\ [Next]_vars => Inv'
  BY InvNext
<1> QED BY <1>1, <1>2, PTL DEF Spec

\* Every variable of a video's way to the player keeps its type, only a
\* builder that reads or writes the master holds its lock, and its copy of the
\* master lives from its read to its write (RenditionBuilder.run).
THEOREM RenditionsTyped == Spec => []TypeOK
<1>1. Inv => TypeOK
  <2> SUFFICES ASSUME Inv PROVE TypeOK
    OBVIOUS
  <2>1. lock.by \in Workers \cup {NoOne} /\ lock.age \in 0..BLOCKING_TIMEOUT
    BY DEF Inv, Typed
  <2>2. ASSUME NEW w \in Workers
        PROVE  /\ build[w].pc \in Pcs
               /\ Building(w) => build[w].kind \in KINDS
               /\ (lock.by = w /\ build[w].pc # "gone") <=> (build[w].pc \in {"read", "write"})
               /\ (build[w].copy # <<>>) <=> (build[w].pc = "write")
               /\ build[w].waited \in 0..BLOCKING_TIMEOUT
    BY DEF Inv, BuildFact, LockFact, RungFact
  <2> QED BY <2>1, <2>2 DEF Inv, Typed, TypeOK
<1> QED BY <1>1, Invariant, PTL

\* A worker told to stop lets at most one process run on, however signals,
\* kills and RQ's alarm fall between the lines of interruption.run.
THEOREM OneLateEncode == Spec => []AtMostOneLateEncode
<1>1. Inv => AtMostOneLateEncode
  BY DEF Inv, BuildFact, StopFact, AtMostOneLateEncode
<1> QED BY <1>1, Invariant, PTL

\* No upload of the master drops an entry another builder listed: the lock and
\* the second read of RenditionBuilder.run suffice, whoever dies holding it.
THEOREM NothingIsUnlisted == Spec => NothingUnlisted
<1>1. Inv /\ [Next]_vars => [row' => ToSet(master) \subseteq ToSet(master')]_vars
  <2> SUFFICES ASSUME Inv, Next, row' PROVE ToSet(master) \subseteq ToSet(master')
    OBVIOUS
  <2>1. CASE master' = master
    BY <2>1
  <2>2. CASE UploadLadder
    <3>1. ToSet(master) = {}
      BY <2>2 DEF UploadLadder, ToSet
    <3> QED BY <3>1
  <2>3. CASE DeleteVideo
    BY <2>3 DEF DeleteVideo
  <2>4. ASSUME NEW w \in Workers, WriteMaster(w)
        PROVE  ToSet(master) \subseteq ToSet(master')
    <3>1. row
      BY <2>4 DEF WriteMaster, playVars
    <3> QED BY <2>4, <3>1, WriteAdds
  <2>5. ASSUME NEW w \in Workers, Begin(w) \/ Step(w) \/ Raises(w) \/ SigTerm(w) \/ Killed(w),
               ~WriteMaster(w)
        PROVE  master' = master
    BY <2>5 DEF Step, Begin, CheckStop, TakeLock, Register, ProcessEnds, Unregister,
       UploadPlaylist, UploadMedia, TakeMasterLock, ReadMaster, AlarmBreaks, Raises, SigTerm,
       Killed, runVars
  <2>6. CASE Ladder /\ ~UploadLadder
    BY <2>6 DEF Ladder, EncodeMp4, PlanLadder, EncodeLadder, RecordLadder, LadderBreaks,
       RunHooks
  <2>7. CASE Play \/ MinutePasses
    BY <2>7 DEF Play, MinutePasses
  <2> QED BY <2>1, <2>2, <2>3, <2>4, <2>5, <2>6, <2>7 DEF Next
<1> QED BY <1>1, Invariant, PTL DEF Spec, NothingUnlisted

\* Whatever stops, crashes or raises, a master never sends a player to what is
\* not there: every entry has all of its files uploaded, under a path the
\* playback route serves.  A rendition's directory is named by its height, and
\* the route takes three or four digits: of sources of fewer lines than 100 the
\* second half fails.
THEOREM MasterOnlyListsStored ==
    ASSUME \A v \in Videos : 100 <= v.height /\ v.height <= 9999
    PROVE  Spec => []MasterListsStored
<1>1. Inv => MasterListsStored
  <2> SUFFICES ASSUME Inv, row, NEW k \in DOMAIN master
               PROVE  Stored(master[k]) /\ safe_hls_path(master[k].dir, master[k].n)
    BY DEF MasterListsStored
  <2> DEFINE e == master[k]
  <2>1. Stored(e) /\ Named(e)
    <3>1. e \in ToSet(master)
      BY DEF ToSet
    <3> HIDE DEF e
    <3> QED BY <3>1 DEF Inv, ListFact
  <2>2. /\ video.height \in Nat \ {0}
        /\ 100 <= video.height /\ video.height <= 9999
    BY RenditionsAssumption DEF Inv, Typed
  <2>3. \A r \in ToSet(Rungs) : r \in Nat /\ 100 <= r /\ r <= 9999
    BY <2>2, ServedRungs DEF Rungs
  <2> HIDE DEF e
  <2>4. safe_hls_path(e.dir, e.n)
    BY <2>1, <2>3 DEF Named, safe_hls_path, KINDS
  <2> QED BY <2>1, <2>4 DEF e
<1> QED BY <1>1, Invariant, PTL

----------------------------------------------------------------------------
(* The master reads right.                                                  *)

\* What an entry says: its picture has the frame rate of the ladder, and a
\* rendition's is one of its rungs, at the peak that was measured.
LabelRate == Min({MAX_FPS, video.rate})
Reads(e) ==
    /\ e.height \in Nat
    /\ e.height > 0 => e.rate = LabelRate
    /\ e.dir \in KINDS => /\ e.height = e.n /\ e.n \in ToSet(Rungs)
                          /\ e.peak = MeasuredPeaks(e.dir)[e.n] + AUDIO_KBPS

\* A kind that is listed is listed with every rung.
Complete(m, kind) ==
    (\E e \in ToSet(m) : e.dir = kind) =>
        \A rung \in ToSet(Rungs) : \E e \in ToSet(m) : e.dir = kind /\ e.n = rung

\* The invariant, of the master and of the copies of it that are about to be
\* written, even those that outlive the video.
ReadsRight(m) ==
    /\ IsSeq(m) /\ InReadingOrder(m)
    /\ m # <<>> => \E e \in ToSet(m) : e.height > 0
    /\ \A e \in ToSet(m) : Reads(e)
    /\ \A kind \in KINDS : Complete(m, kind)
ReadFact == ReadsRight(master) /\ \A w \in Workers : ReadsRight(build[w].copy)

\* Each rung of a rendition is encoded once, the last of at most 360 lines.
LEMMA StartRung ==
    ASSUME NEW h \in Nat \ {0}
    PROVE  /\ Distinct(rungs_for(h))
           /\ Last(rungs_for(h)) \in ToSet(rungs_for(h))
           /\ Last(rungs_for(h)) <= START_RUNG_HEIGHT
<1> DEFINE among == Among(RUNGS, 0..h)
<1>1. /\ RUNGS \in Seq(Nat) /\ DOMAIN RUNGS = 1..3
      /\ RUNGS[1] = 1080 /\ RUNGS[2] = 720 /\ RUNGS[3] = 360
      /\ ToSet(RUNGS) = {360, 720, 1080}
  BY DEF RUNGS, ToSet
<1>2. /\ among \in Seq(Nat)
      /\ ToSet(among) = ToSet(RUNGS) \cap 0..h
      /\ \A i, j \in DOMAIN among : i < j =>
            \E a, b \in DOMAIN RUNGS : a < b /\ RUNGS[a] = among[i] /\ RUNGS[b] = among[j]
  <2>1. among \in Seq(Nat) /\ ToSet(among) = ToSet(RUNGS) \cap 0..h
    <3>1. ASSUME NEW S
          PROVE  Among(RUNGS, S) \in Seq(Nat) /\ ToSet(Among(RUNGS, S)) = ToSet(RUNGS) \cap S
      BY <1>1, AmongKeeps
    <3> QED BY <3>1
  <2>2. \A i, j \in DOMAIN among : i < j =>
           \E a, b \in DOMAIN RUNGS : a < b /\ RUNGS[a] = among[i] /\ RUNGS[b] = among[j]
    BY <1>1, AmongInOrder
  <2> QED BY <2>1, <2>2
<1> HIDE DEF among
<1>3. Distinct(among)
  <2>1. \A a, b \in DOMAIN RUNGS : a < b => RUNGS[a] # RUNGS[b]
    BY <1>1
  <2> QED BY <1>2, <2>1 DEF Distinct
<1>4. CASE among = <<>>
  <2>1. rungs_for(h) = <<h>>
    BY <1>4 DEF rungs_for, among
  <2>2. ~(360 <= h)
    <3>1. ToSet(<<>>) = {}
      BY DEF ToSet
    <3>2. 360 \in 0..h => 360 \in ToSet(among)
      BY <1>1, <1>2
    <3>3. 360 <= h => 360 \in 0..h
      OBVIOUS
    <3> QED BY <1>4, <3>1, <3>2, <3>3
  <2>3. ToSet(rungs_for(h)) = {h} /\ Distinct(rungs_for(h)) /\ Last(rungs_for(h)) = h
    BY <2>1 DEF ToSet, Distinct, Last
  <2> QED BY <2>2, <2>3 DEF START_RUNG_HEIGHT
<1>5. CASE among # <<>>
  <2>1. rungs_for(h) = among
    BY <1>5 DEF rungs_for, among
  <2>2. 360 \in ToSet(among)
    <3>1. PICK r : r \in ToSet(among)
      <4>1. 1 \in DOMAIN among
        BY <1>2, <1>5
      <4> QED BY <4>1 DEF ToSet
    <3> QED BY <1>1, <1>2, <3>1
  <2>3. Len(among) \in DOMAIN among /\ Last(among) = among[Len(among)]
    BY <1>2, <1>5 DEF Last
  <2>4. Last(among) = 360
    <3>1. PICK i \in DOMAIN among : among[i] = 360
      BY <2>2 DEF ToSet
    <3>2. CASE i = Len(among)
      BY <2>3, <3>1, <3>2
    <3>3. CASE i # Len(among)
      <4>1. i < Len(among)
        BY <1>2, <3>1, <3>3
      <4>2. PICK a, b \in DOMAIN RUNGS : a < b /\ RUNGS[a] = 360
        BY <1>2, <2>3, <3>1, <4>1
      <4> QED BY <1>1, <4>2
    <3> QED BY <3>2, <3>3
  <2>5. Last(among) \in ToSet(among)
    BY <2>2, <2>4
  <2> QED BY <1>3, <2>1, <2>4, <2>5 DEF START_RUNG_HEIGHT
<1> QED BY <1>4, <1>5

\* So the clauses of the property follow from the invariant.
LEMMA ReadFactSuffices == Inv /\ ReadFact => MasterReadsRight
<1> SUFFICES ASSUME Inv, ReadFact PROVE MasterReadsRight
  OBVIOUS
<1>1. video.height \in Nat \ {0} /\ KINDS = {"hdr", "av1"}
  BY RenditionsAssumption DEF Inv, Typed, KINDS
<1>2. ReadsRight(master)
  BY DEF ReadFact
<1>3. ASSUME NEW k \in DOMAIN master PROVE Reads(master[k])
  BY <1>2 DEF ReadsRight, ToSet
<1>4. ASSUME NEW j \in DOMAIN master, NEW k \in DOMAIN master, j < k
      PROVE  /\ rank(master[j].dir) <= rank(master[k].dir)
             /\ <<master[j].dir, master[j].n>> # <<master[k].dir, master[k].n>>
             /\ (master[j].dir = "v" /\ master[k].dir = "v") => master[j].n < master[k].n
  BY <1>2, <1>4 DEF ReadsRight, InReadingOrder, Before
<1>5. ASSUME NEW j \in {k \in DOMAIN master : master[k].height > 0},
             NEW k \in {l \in DOMAIN master : master[l].height > 0}
      PROVE  master[j].rate = master[k].rate
  BY <1>3 DEF Reads
<1>6. ASSUME NEW x \in KINDS, {k \in DOMAIN master : master[k].dir = x} # {}
      PROVE  {master[k].n : k \in {l \in DOMAIN master : master[l].dir = x}} = ToSet(Rungs)
  <2>1. \A r \in ToSet(Rungs) :
           \E k \in {l \in DOMAIN master : master[l].dir = x} : master[k].n = r
    BY <1>2, <1>6 DEF ReadsRight, Complete, ToSet
  <2>2. \A k \in {l \in DOMAIN master : master[l].dir = x} : master[k].n \in ToSet(Rungs)
    BY <1>3 DEF Reads
  <2> QED BY <2>1, <2>2
<1> QED BY <1>4, <1>5, <1>6 DEF MasterReadsRight, Rungs

\* The first entry with a picture has the ladder's frame rate.
LEMMA RateOfMaster ==
    ASSUME NEW m, ReadsRight(m), m # <<>>
    PROVE  PictureRate(m) = LabelRate
<1> DEFINE pictures == {k \in DOMAIN m : m[k].height > 0}
<1>1. m \in Seq(ToSet(m)) /\ \A k \in DOMAIN m : m[k] \in ToSet(m)
  BY DEF ReadsRight, IsSeq, ToSet
<1>2. pictures \in SUBSET Nat
  <2>1. DOMAIN m = 1..Len(m) /\ Len(m) \in Nat
    BY <1>1
  <2> QED BY <2>1
<1>3. pictures # {}
  BY DEF ReadsRight, ToSet
<1>4. Min(pictures) \in pictures
  <2> HIDE DEF pictures
  <2> QED BY <1>2, <1>3, MinIsIn
<1>5. PictureRate(m) = m[Min(pictures)].rate
  BY DEF PictureRate
<1> DEFINE k == Min(pictures)
<1>6. k \in DOMAIN m /\ m[k].height > 0
  BY <1>4
<1> HIDE DEF k, pictures
<1>7. m[k].rate = LabelRate
  BY <1>1, <1>6 DEF ReadsRight, Reads
<1> QED BY <1>5, <1>7 DEF k

\* The master the ladder is recorded with reads right.
LEMMA FirstReads ==
    ASSUME video.height \in Nat \ {0}, NEW m, m = LadderMaster
    PROVE  ReadsRight(m)
<1> DEFINE hs == variants_for(video.height, MAX_HEIGHT)
           peaks == [k \in DOMAIN hs |-> peak_rate(Encoded(video, "h264", hs[k]))]
           audio == peak_rate(Encoded(video, "aac", 0))
           rate == LabelRate
<1>1. hs \in Seq(Nat \ {0}) /\ 1 <= Len(hs)
  <2> DEFINE h == video.height
  <2>1. h \in Nat \ {0}
    OBVIOUS
  <2> HIDE DEF h
  <2>2. variants_for(h, MAX_HEIGHT) \in Seq(Nat \ {0}) /\ 1 <= Len(variants_for(h, MAX_HEIGHT))
    BY <2>1, VariantsOf
  <2> QED BY <2>2 DEF h
<1>2. m = label_frame_rates(write_master(hs, peaks, audio), rate)
  BY DEF LadderMaster, LabelRate
<1> HIDE DEF hs, peaks, audio, rate
<1>3. hs \in Seq(Nat) /\ Len(hs) \in Nat /\ \A k \in 1..Len(hs) : hs[k] \in Nat /\ hs[k] > 0
  BY <1>1
<1>4. /\ IsSeq(m) /\ m # <<>>
      /\ \A e \in ToSet(m) : e.dir = "v" /\ e.n \in 0..Len(hs)
      /\ DOMAIN m = 1..(Len(hs) + 1)
      /\ \A k \in 1..Len(hs) :
            /\ m[k].n = k - 1 /\ m[k].height = hs[k]
            /\ hs[k] > 0 => m[k].rate = rate
      /\ m[Len(hs) + 1].n = Len(hs) /\ m[Len(hs) + 1].height = 0
  BY <1>2, <1>3, FirstMaster
<1>5. ASSUME NEW k \in DOMAIN m
      PROVE  /\ m[k].dir = "v" /\ m[k].n = k - 1 /\ Reads(m[k])
  <2>1. m[k].dir = "v" /\ "v" \notin KINDS
    BY <1>4 DEF ToSet, KINDS
  <2>2. CASE k = Len(hs) + 1
    <3>1. m[k].height = 0 /\ m[k].n = k - 1
      BY <1>3, <1>4, <2>2
    <3> QED BY <2>1, <3>1 DEF Reads
  <2>3. CASE k # Len(hs) + 1
    <3>1. k \in 1..Len(hs)
      BY <1>3, <1>4, <2>3
    <3> QED BY <1>3, <1>4, <2>1, <3>1 DEF Reads, rate
  <2> QED BY <2>2, <2>3
<1>6. InReadingOrder(m)
  <2>1. \A i, j \in DOMAIN m : i < j => m[i].n < m[j].n /\ m[i].n # m[j].n
    BY <1>3, <1>4, <1>5
  <2>2. rank("v") <= rank("v")
    BY DEF rank
  <2> QED BY <1>5, <2>1, <2>2 DEF InReadingOrder, Before
<1>7. \E e \in ToSet(m) : e.height > 0
  <2>1. 1 \in DOMAIN m /\ m[1].height > 0
    BY <1>1, <1>3, <1>4
  <2> QED BY <2>1 DEF ToSet
<1>8. \A e \in ToSet(m) : Reads(e) /\ e.dir \notin KINDS
  BY <1>5 DEF ToSet, KINDS
<1> QED BY <1>4, <1>6, <1>7, <1>8 DEF ReadsRight, Complete

\* A master that reads right still does with a rendition added.
LEMMA AddedReads ==
    ASSUME video.height \in Nat \ {0}, NEW m, ReadsRight(m), m # <<>>,
           NEW kind \in KINDS, NEW n, n = WithRendition(m, kind, Rungs, MeasuredPeaks(kind))
    PROVE  ReadsRight(n)
<1> DEFINE costs == MeasuredPeaks(kind)
           added == {EntryOf(m, kind, rung, costs) : rung \in Unlisted(m, kind, Rungs)}
<1>1. /\ Rungs \in Seq(Nat) /\ Distinct(Rungs)
      /\ \A r \in ToSet(Rungs) : r \in Nat
  <2> DEFINE h == video.height
  <2>1. h \in Nat \ {0} /\ Rungs = rungs_for(h)
    BY DEF Rungs
  <2> HIDE DEF h
  <2>2. rungs_for(h) \in Seq(Nat) /\ Distinct(rungs_for(h))
    BY <2>1, RungsOf, StartRung
  <2>3. Rungs \in Seq(Nat)
    BY <2>1, <2>2
  <2> QED BY <2>1, <2>2, <2>3 DEF ToSet
<1>2. /\ IsSeq(n) /\ ToSet(n) = ToSet(m) \cup added
      /\ InReadingOrder(n)
  BY <1>1, RenditionAdds DEF ReadsRight
<1>3. \A rung : LET e == EntryOf(m, kind, rung, costs)
                IN  /\ e.dir = kind /\ e.n = rung /\ e.height = rung
                    /\ e.peak = costs[rung] + AUDIO_KBPS
                    /\ e.rate = LabelRate
  BY EntryFields, RateOfMaster
<1>4. ASSUME NEW e \in added PROVE Reads(e) /\ e.dir = kind
  <2>1. PICK rung \in Unlisted(m, kind, Rungs) : e = EntryOf(m, kind, rung, costs)
    OBVIOUS
  <2>2. /\ e.dir = kind /\ e.n = rung /\ e.height = rung
        /\ e.peak = costs[rung] + AUDIO_KBPS
        /\ e.rate = LabelRate
    BY <1>3, <2>1
  <2>3. rung \in ToSet(Rungs) /\ rung \in Nat /\ kind # "v"
    BY <1>1 DEF Unlisted, KINDS
  <2> HIDE DEF added
  <2> QED BY <2>2, <2>3 DEF Reads
<1> HIDE DEF added
<1>5. n # <<>> => \E e \in ToSet(n) : e.height > 0
  BY <1>2 DEF ReadsRight
<1>6. \A e \in ToSet(n) : Reads(e)
  BY <1>2, <1>4 DEF ReadsRight
<1>7. ASSUME NEW x \in KINDS PROVE Complete(n, x)
  <2>1. CASE x # kind
    <3>1. \A e \in ToSet(n) : e.dir = x => e \in ToSet(m)
      BY <1>2, <1>4, <2>1
    <3>2. Complete(m, x)
      BY DEF ReadsRight
    <3> QED BY <1>2, <3>1, <3>2 DEF Complete
  <2>2. CASE x = kind
    <3>1. ASSUME NEW rung \in ToSet(Rungs)
          PROVE  \E e \in ToSet(n) : e.dir = kind /\ e.n = rung
      <4>1. CASE Lists(m, kind, rung)
        <5>1. \E e \in ToSet(m) : e.dir = kind /\ e.n = rung
          BY <4>1 DEF Lists, ToSet
        <5> QED BY <1>2, <5>1
      <4>2. CASE ~Lists(m, kind, rung)
        <5>1. EntryOf(m, kind, rung, costs) \in added
          BY <4>2 DEF Unlisted, added
        <5>2. EntryOf(m, kind, rung, costs).dir = kind /\ EntryOf(m, kind, rung, costs).n = rung
          BY <1>3
        <5> QED BY <1>2, <5>1, <5>2
      <4> QED BY <4>1, <4>2
    <3> QED BY <2>2, <3>1 DEF Complete
  <2> QED BY <2>1, <2>2
<1> QED BY <1>2, <1>5, <1>6, <1>7 DEF ReadsRight

\* What a step does to a builder's copy, and to the master.
CopyMoves(w) == build'[w].copy \in {build[w].copy, <<>>, master}
MasterMoves ==
    \/ master' \in {master, <<>>}
    \/ master' = LadderMaster
    \/ \E w \in Workers : /\ build[w].pc = "write"
                          /\ master' = WithRendition(build[w].copy, build[w].kind, Rungs,
                                                      MeasuredPeaks(build[w].kind))

\* No step does anything else.
LEMMA WhatMoves ==
    ASSUME Inv, Next
    PROVE  video' = video /\ MasterMoves /\ \A w \in Workers : CopyMoves(w)
<1>1. /\ build = [w \in Workers |-> build[w]]
      /\ \A w \in Workers : Whole(build[w])
  BY DEF Inv, Typed, BuildFact
<1>2. Idle.copy = <<>> /\ Gone.copy = <<>> /\ \A w \in Workers : Over(w).copy = <<>>
  BY IdleFields DEF Over
<1>3. CASE Ladder
  BY <1>3 DEF Ladder, EncodeMp4, PlanLadder, EncodeLadder, UploadLadder, RecordLadder, LadderBreaks,
     RunHooks, MasterMoves, CopyMoves, ladderVars, playVars
<1>4. CASE Play \/ DeleteVideo
  BY <1>4 DEF Play, DeleteVideo, MasterMoves, CopyMoves, ladderVars, playVars
<1>5. CASE MinutePasses
  <2>1. video' = video /\ master' = master
    BY <1>5 DEF MinutePasses, ladderVars
  <2>2. ASSUME NEW w \in Workers PROVE CopyMoves(w)
    <3>1. build'[w] \in {build[w], Over(w), [build[w] EXCEPT !.waited = @ + 1]}
      BY <1>5 DEF MinutePasses
    <3>2. [build[w] EXCEPT !.waited = @ + 1].copy = build[w].copy
      BY <1>1 DEF Whole
    <3> QED BY <1>2, <3>1, <3>2 DEF CopyMoves
  <2> QED BY <2>1, <2>2 DEF MasterMoves
<1>6. ASSUME NEW w \in Workers, Begin(w) \/ Step(w) \/ Raises(w) \/ SigTerm(w) \/ Killed(w)
      PROVE  video' = video /\ MasterMoves /\ \A v \in Workers : CopyMoves(v)
  <2>1. video' = video
    BY <1>6 DEF Step, Begin, CheckStop, TakeLock, Register, ProcessEnds, Unregister,
       UploadPlaylist, UploadMedia, TakeMasterLock, ReadMaster, WriteMaster, AlarmBreaks, Raises,
       SigTerm, Killed, runVars, ladderVars
  <2>2. MasterMoves
    <3>1. CASE WriteMaster(w)
      BY <3>1 DEF WriteMaster, Extended, MasterMoves, Rungs, MeasuredPeaks
    <3>2. CASE ~WriteMaster(w)
      BY <1>6, <3>2 DEF Step, Begin, CheckStop, TakeLock, Register, ProcessEnds, Unregister,
         UploadPlaylist, UploadMedia, TakeMasterLock, ReadMaster, AlarmBreaks, Raises, SigTerm,
         Killed, runVars, MasterMoves
    <3> QED BY <3>1, <3>2
  <2>3. ASSUME NEW v \in Workers, v # w PROVE build'[v] = build[v]
    BY <1>1, <1>6, <2>3 DEF Step, Begin, CheckStop, TakeLock, Register, ProcessEnds, Unregister,
       UploadPlaylist, UploadMedia, TakeMasterLock, ReadMaster, WriteMaster, AlarmBreaks, Raises,
       SigTerm, Killed, Goto, End
  <2>4. CopyMoves(w)
    <3>1. CASE SigTerm(w)
      BY <1>1, <3>1 DEF SigTerm, CopyMoves, Whole
    <3>2. CASE Begin(w)
      BY <1>1, <1>2, <3>2, IdleFields DEF Begin, CopyMoves, Whole
    <3>3. CASE CheckStop(w) \/ TakeLock(w) \/ Register(w) \/ ProcessEnds(w) \/ AlarmBreaks(w)
      BY <1>1, <1>2, <3>3 DEF CheckStop, TakeLock, Register, ProcessEnds, AlarmBreaks, Goto, End,
         CopyMoves, Whole
    <3>4. CASE Unregister(w)
      BY <1>1, <1>2, <3>4 DEF Unregister, End, CopyMoves, Whole
    <3>5. CASE UploadPlaylist(w) \/ UploadMedia(w) \/ TakeMasterLock(w)
      BY <1>1, <1>2, <3>5 DEF UploadPlaylist, UploadMedia, TakeMasterLock, Goto, CopyMoves, Whole
    <3>6. CASE ReadMaster(w) \/ WriteMaster(w) \/ Raises(w)
      BY <1>1, <1>2, <3>6 DEF ReadMaster, WriteMaster, Raises, End, CopyMoves, Whole
    <3>7. CASE Killed(w)
      BY <1>1, <1>2, <3>7, IdleFields DEF Killed, CopyMoves, Whole
    <3> QED BY <1>6, <3>1, <3>2, <3>3, <3>4, <3>5, <3>6, <3>7 DEF Step
  <2>5. \A v \in Workers : CopyMoves(v)
    BY <2>3, <2>4 DEF CopyMoves
  <2> QED BY <2>1, <2>2, <2>5
<1> QED BY <1>3, <1>4, <1>5, <1>6 DEF Next

\* Nothing listed is nothing wrong.
LEMMA NothingReads == ReadsRight(<<>>)
<1>1. ToSet(<<>>) = {} /\ DOMAIN <<>> = {} /\ <<>> \in Seq({})
  BY DEF ToSet
<1> QED BY <1>1 DEF ReadsRight, IsSeq, InReadingOrder, Complete

\* The master and the copies of it keep reading right.
LEMMA ReadStep == Inv /\ ReadFact /\ [Next]_vars => ReadFact'
<1> SUFFICES ASSUME Inv, ReadFact, [Next]_vars PROVE ReadFact'
  OBVIOUS
<1>1. video' = video /\ MasterMoves /\ \A w \in Workers : CopyMoves(w)
  <2>1. CASE UNCHANGED vars
    BY <2>1 DEF vars, ladderVars, MasterMoves, CopyMoves
  <2> QED BY <2>1, WhatMoves
<1>2. video.height \in Nat \ {0} /\ ReadsRight(master)
  BY RenditionsAssumption DEF Inv, Typed, ReadFact
<1>3. ReadsRight(master')
  <2>1. CASE master' \in {master, <<>>}
    BY <1>2, <2>1, NothingReads
  <2>2. CASE master' = LadderMaster
    BY <1>2, <2>2, FirstReads
  <2>3. ASSUME NEW w \in Workers, build[w].pc = "write",
               master' = WithRendition(build[w].copy, build[w].kind, Rungs,
                                       MeasuredPeaks(build[w].kind))
        PROVE  ReadsRight(master')
    <3>1. build[w].copy # <<>> /\ build[w].kind \in KINDS /\ ReadsRight(build[w].copy)
      BY <2>3 DEF Inv, BuildFact, LockFact, RungFact, Building, ReadFact
    <3> QED BY <1>2, <2>3, <3>1, AddedReads
  <2> QED BY <1>1, <2>1, <2>2, <2>3 DEF MasterMoves
<1>4. ASSUME NEW w \in Workers PROVE ReadsRight(build'[w].copy)
  <2>1. build'[w].copy \in {build[w].copy, <<>>, master}
    BY <1>1 DEF CopyMoves
  <2> QED BY <1>2, <2>1, NothingReads DEF ReadFact
<1>5. ReadsRight(master)'
  BY <1>1, <1>3 DEF ReadsRight, Complete, Reads, Rungs, LabelRate, MeasuredPeaks
<1>6. ASSUME NEW w \in Workers PROVE ReadsRight(build[w].copy)'
  <2> DEFINE c == build[w].copy
  <2>1. ReadsRight(c')
    BY <1>4
  <2> HIDE DEF c
  <2>2. ReadsRight(c)'
    BY <1>1, <2>1 DEF ReadsRight, Complete, Reads, Rungs, LabelRate, MeasuredPeaks
  <2> QED BY <2>2 DEF c
<1> QED BY <1>5, <1>6 DEF ReadFact

\* The master reads as a player needs it, whatever builders of the same video
\* or even of the same kind list their renditions after each other, and also
\* once the video is deleted under them (add_to_master, RenditionBuilder.run):
\* HDR before AV1 before the ladder and the ladder in its own order, nothing
\* twice, one frame rate for every picture, and a kind with all its rungs.
THEOREM MastersReadRight == Spec => []MasterReadsRight
<1>1. Init => ReadFact
  <2> SUFFICES ASSUME Init PROVE ReadFact
    OBVIOUS
  <2>1. master = <<>> /\ \A w \in Workers : build[w].copy = <<>>
    BY IdleFields DEF Init
  <2> QED BY <2>1, NothingReads DEF ReadFact
<1> QED BY <1>1, ReadStep, Invariant, ReadFactSuffices, PTL DEF Spec

LEMMA ElementIn ==
    ASSUME NEW T, NEW s \in Seq(T), NEW k \in DOMAIN s
    PROVE  s[k] \in T
OBVIOUS

LEMMA Dearer ==
    ASSUME NEW c \in Nat, NEW d \in Nat, c <= d, NEW u \in Nat
    PROVE  c * u <= d * u
<1>1. PICK e \in Nat : d = c + e
  <2>1. d - c \in Nat /\ d = c + (d - c)
    OBVIOUS
  <2> QED BY <2>1
<1>2. (c + e) * u = c * u + e * u /\ c * u \in Nat /\ e * u \in Nat
  BY <1>1
<1> QED BY <1>1, <1>2

\* What a cap of 296 lets a segment of four seconds or more come to.
LEMMA WholeRate ==
    ASSUME NEW c \in Nat, c <= 296, NEW t \in Nat, t >= 40, NEW b \in Nat, b <= c * (t + 10)
    PROVE  b \div t \in 0..370
<1>1. b <= 370 * t
  <2>1. PICK u \in Nat : u = t + 10
    OBVIOUS
  <2>2. c * u <= 296 * u /\ b <= c * u
    BY <2>1, Dearer
  <2>3. c * u \in Int
    BY <2>1
  <2> QED BY <2>1, <2>2, <2>3
<1>2. PICK r \in Int : r = b \div t /\ t * r <= b /\ b < t * (r + 1)
  BY DivBounds
<1>3. t * r \in Int /\ t * (r + 1) \in Int
  BY <1>2
<1>4. t * r < t * (370 + 1) /\ t * 0 < t * (r + 1)
  <2>1. t * (370 + 1) > 370 * t /\ t * 0 = 0
    OBVIOUS
  <2> QED BY <1>1, <1>2, <1>3, <2>1
<1>5. r <= 370 /\ 0 <= r
  BY <1>2, <1>4, LeastQuotient
<1> QED BY <1>2, <1>5

LEMMA PeakWithin ==
    ASSUME NEW segments, \A r \in RatesOf(segments, 1) : r \in 0..370
    PROVE  peak_bandwidth(segments) \in 0..370
<1> DEFINE rates == {0} \cup RatesOf(segments, 1)
<1>1. \A r \in rates : r \in 0..370 /\ r \in Nat /\ r <= 370
  OBVIOUS
<1>2. 0 \in rates /\ peak_bandwidth(segments) = Max(rates)
  BY DEF peak_bandwidth
<1> HIDE DEF rates
<1>3. Max(rates) \in rates
  BY <1>1, <1>2, MaxIsIn
<1> QED BY <1>1, <1>2, <1>3

\* Where every segment is a whole one, the bottom rung's peak is within five
\* quarters of its ceiling, and so within 370 kbps.
LEMMA WholePeak ==
    ASSUME NEW c \in Nat, c <= START_CEILING,
           NEW segments \in Seq([tenths : Nat, kbits : Nat]),
           \A k \in DOMAIN segments :
               /\ segments[k].tenths >= SEGMENT_TENTHS
               /\ 10 * segments[k].kbits <= c * (segments[k].tenths + 10)
    PROVE  peak_bandwidth(segments) \in 0..370
<1>1. ASSUME NEW k \in DOMAIN segments
      PROVE  (10 * segments[k].kbits) \div segments[k].tenths \in 0..370
  <2> DEFINE t == segments[k].tenths
             x == segments[k].kbits
             b == 10 * x
  <2>1. t \in Nat /\ x \in Nat /\ t >= 40 /\ b <= c * (t + 10)
    <3>1. segments[k] \in [tenths : Nat, kbits : Nat]
      BY ElementIn
    <3> QED BY <3>1 DEF SEGMENT_TENTHS
  <2> HIDE DEF t, x
  <2>2. b \in Nat
    BY <2>1
  <2> HIDE DEF b
  <2>3. b \div t \in 0..370
    BY <2>1, <2>2, WholeRate DEF START_CEILING
  <2> QED BY <2>3 DEF b, t, x
<1>2. \A r \in RatesOf(segments, 1) : r \in 0..370
  BY <1>1 DEF RatesOf
<1> QED BY <1>2, PeakWithin

\* The property of the start follows too.
LEMMA StartFollows == Inv /\ ReadFact => WholeSegmentsStart
<1> SUFFICES ASSUME Inv, ReadFact, NEW kind \in KINDS, Listed(kind), EndsWhole(kind)
             PROVE  StartsIn(kind)
  BY DEF WholeSegmentsStart
<1> DEFINE bottom == Last(rungs_for(video.height))
           segments == Encoded(video, kind, bottom)
           c == ceiling(kind, bottom)
<1>1. video \in Videos /\ video.height \in Nat \ {0}
  BY RenditionsAssumption DEF Inv, Typed
<1>2. bottom \in ToSet(Rungs) /\ bottom <= 360
  BY <1>1, StartRung DEF Rungs, START_RUNG_HEIGHT
<1>3. bottom \in Nat
  <2>1. Rungs \in Seq(Nat)
    BY <1>1, RungsOf DEF Rungs
  <2> HIDE DEF bottom
  <2> QED BY <1>2, <2>1 DEF ToSet
<1>4. /\ segments \in Seq([tenths : Nat, kbits : Nat])
      /\ \A k \in DOMAIN segments :
            /\ k < Len(segments) => segments[k].tenths >= SEGMENT_TENTHS
            /\ 10 * segments[k].kbits <= c * (segments[k].tenths + 10)
  BY <1>1, <1>2, EncoderAssumption DEF Rungs
<1>5. segments # <<>> /\ Last(segments).tenths >= SEGMENT_TENTHS
  BY DEF EndsWhole
<1>6. c \in Nat /\ c <= START_CEILING
  <2> HIDE DEF bottom
  <2> DEFINE shared == (BITRATES(bottom) * CAP_SHARE[kind]) \div 100
  <2>1. BITRATES(bottom) \in {800, 1400, 2800, 5000, 8000, 14000} /\ CAP_SHARE[kind] \in {60, 75}
    BY DEF BITRATES, KINDS, CAP_SHARE
  <2>2. shared \in Nat
    BY <2>1
  <2>3. c = Min({shared, START_CEILING})
    BY <1>2, <1>3 DEF ceiling, START_RUNG_HEIGHT
  <2> HIDE DEF shared, c
  <2>4. Min({shared, 296}) \in {shared, 296} /\ Min({shared, 296}) <= 296
    BY <2>2, MinIsIn
  <2> QED BY <2>2, <2>3, <2>4 DEF START_CEILING
<1> HIDE DEF bottom, segments, c
<1>7. peak_bandwidth(segments) \in 0..370
  <2>1. \A k \in DOMAIN segments : segments[k].tenths >= SEGMENT_TENTHS
    <3>1. ASSUME NEW k \in DOMAIN segments, ~(k < Len(segments))
          PROVE  segments[k].tenths >= SEGMENT_TENTHS
      <4>1. k = Len(segments)
        BY <1>4, <3>1
      <4> QED BY <1>5, <4>1 DEF Last
    <3> QED BY <1>4, <3>1
  <2> QED BY <1>4, <1>6, <2>1, WholePeak
<1>8. PICK k \in DOMAIN master : master[k].dir = kind /\ master[k].n = bottom
  <2>1. \E e \in ToSet(master) : e.dir = kind
    BY DEF Listed, ToSet
  <2>2. Complete(master, kind)
    BY DEF ReadFact, ReadsRight
  <2> QED BY <1>2, <2>1, <2>2 DEF Complete, ToSet
<1>9. master[k].peak = MeasuredPeaks(kind)[bottom] + AUDIO_KBPS
  BY <1>8 DEF ReadFact, ReadsRight, Reads, ToSet
<1>10. MeasuredPeaks(kind)[bottom] = peak_bandwidth(segments)
  BY <1>2 DEF MeasuredPeaks, segments
<1>11. master[k].peak <= FIRST_ESTIMATE
  BY <1>7, <1>9, <1>10 DEF AUDIO_KBPS, FIRST_ESTIMATE
<1> QED BY <1>8, <1>11 DEF StartsIn

\* A player that can show a rendition starts in it, however cheap the ladder
\* is: where the bottom rung's last segment is as long as the others, its
\* measured peak and the sound fit the player's first estimate (ceiling,
\* peak_bandwidth, add_to_master).  What the encoder may exceed its cap by is
\* EncoderAssumption.
THEOREM PlayersStart == Spec => []WholeSegmentsStart
<1>1. Init => ReadFact
  <2> SUFFICES ASSUME Init PROVE ReadFact
    OBVIOUS
  <2>1. master = <<>> /\ \A w \in Workers : build[w].copy = <<>>
    BY IdleFields DEF Init
  <2> QED BY <2>1, NothingReads DEF ReadFact
<1> QED BY <1>1, ReadStep, Invariant, StartFollows, PTL DEF Spec

----------------------------------------------------------------------------
(* The ladder is one FFmpeg accepts.                                        *)

\* The labels of a ladder's graph: of the rungs' outputs, of what is split off
\* the source, and of what is split off the rung the lower ones are made from.
RungLabel(k)   == <<"v", k - 1>>
SplitLabel(h)  == <<"s", h>>
AnchorLabel(h) == <<"a", h>>

\* Its nodes: one that splits the source, one for every rung scaled from it,
\* one for every rung scaled from the anchor.
Index(hs, h)   == CHOOSE k \in DOMAIN hs : hs[k] = h
Shared(low, h) == IF h = CASCADE_FROM THEN [k \in DOMAIN low |-> AnchorLabel(low[k])] ELSE <<>>
SplitNode(high)        == Node(SOURCE, 0, [k \in DOMAIN high |-> SplitLabel(high[k])])
ScaledNode(hs, low, h) == Node(SplitLabel(h), h, <<RungLabel(Index(hs, h))>> \o Shared(low, h))
CascadeNode(hs, h)     == Node(AnchorLabel(h), h, <<RungLabel(Index(hs, h))>>)
GraphOf(hs, low, high) ==
    {SplitNode(high)} \cup {ScaledNode(hs, low, h) : h \in ToSet(high)}
                      \cup {CascadeNode(hs, h) : h \in ToSet(low)}

\* The rungs of a ladder, each once; those scaled from the anchor are low.
LadderHeights(hs) == hs \in Seq(Nat \ {0}) /\ 1 <= Len(hs) /\ Len(hs) <= 6 /\ Distinct(hs)
Parts(hs, low, high) ==
    /\ LadderHeights(hs)
    /\ low \in Seq(Nat \ {0}) /\ Len(low) <= 6 /\ Distinct(low)
    /\ high \in Seq(Nat \ {0}) /\ 1 <= Len(high) /\ Len(high) <= 6 /\ Distinct(high)
    /\ ToSet(hs) = ToSet(low) \cup ToSet(high)
    /\ ToSet(low) \cap ToSet(high) = {}
    /\ ToSet(low) # {} => CASCADE_FROM \in ToSet(high)
    /\ \A h \in ToSet(low) : h < CASCADE_FROM

\* A sequence is its own elements'.
LEMMA ElementOf ==
    ASSUME NEW T, NEW s \in Seq(T)
    PROVE  /\ DOMAIN s = 1..Len(s) /\ Len(s) \in Nat
           /\ \A k \in 1..Len(s) : s[k] \in ToSet(s) /\ s[k] \in T
           /\ \A x \in ToSet(s) : x \in T /\ \E k \in 1..Len(s) : s[k] = x
  BY DEF ToSet

\* What is filtered out of a sequence that has no element twice has none twice.
LEMMA AmongDistinct ==
    ASSUME NEW T, NEW s \in Seq(T), Distinct(s), NEW S
    PROVE  Distinct(Among(s, S))
<1> DEFINE t == Among(s, S)
<1>1. \A i, j \in DOMAIN t : i < j => \E a, b \in DOMAIN s : a < b /\ s[a] = t[i] /\ s[b] = t[j]
  BY AmongInOrder
<1> HIDE DEF t
<1>2. Distinct(t)
  BY <1>1 DEF Distinct
<1> QED BY <1>2 DEF t

\* The filter of a ladder is made of such parts.
LEMMA LadderParts ==
    ASSUME NEW hs, LadderHeights(hs)
    PROVE  \E low, high : Parts(hs, low, high) /\ ladder_filter(hs) = GraphOf(hs, low, high)
<1> DEFINE below == IF CASCADE_FROM \in ToSet(hs) THEN 0..(CASCADE_FROM - 1) ELSE {}
           low   == Among(hs, below)
           rest  == ToSet(hs) \ ToSet(low)
           high  == Among(hs, rest)
<1>1. hs \in Seq(Nat \ {0}) /\ 1 <= Len(hs) /\ Len(hs) <= 6 /\ Distinct(hs)
  BY DEF LadderHeights
<1>2. ladder_filter(hs) = GraphOf(hs, low, high)
  BY DEF ladder_filter, GraphOf, SplitNode, ScaledNode, CascadeNode, Shared, Index, RungLabel,
     SplitLabel, AnchorLabel
<1> HIDE DEF below, rest
<1>3. /\ low \in Seq(Nat \ {0}) /\ Len(low) <= Len(hs)
      /\ ToSet(low) = ToSet(hs) \cap below /\ Distinct(low)
  BY <1>1, AmongKeeps, AmongDistinct
<1>4. /\ high \in Seq(Nat \ {0}) /\ Len(high) <= Len(hs)
      /\ ToSet(high) = ToSet(hs) \cap rest /\ Distinct(high)
  BY <1>1, AmongKeeps, AmongDistinct
<1> HIDE DEF low, high
<1>5. ToSet(high) = ToSet(hs) \ ToSet(low)
  BY <1>4 DEF rest
<1>6. /\ ToSet(low) # {} => CASCADE_FROM \in ToSet(high)
      /\ \A h \in ToSet(low) : h < CASCADE_FROM
  <2>1. CASCADE_FROM = 1080
    BY DEF CASCADE_FROM
  <2>2. \A h \in ToSet(low) : CASCADE_FROM \in ToSet(hs) /\ h \in 0..1079
    BY <1>3, <2>1 DEF below
  <2>3. CASCADE_FROM \notin ToSet(low)
    BY <2>1, <2>2
  <2> QED BY <1>5, <2>1, <2>2, <2>3
<1>7. ToSet(high) # {}
  <2>1. hs[1] \in ToSet(hs)
    BY <1>1 DEF ToSet
  <2> QED BY <1>5, <1>6, <2>1
<1>8. Len(low) \in Nat /\ Len(low) <= 6 /\ 1 <= Len(high) /\ Len(high) <= 6
  <2>1. Len(high) # 0
    BY <1>4, <1>7, ElementOf
  <2>2. Len(low) \in Nat /\ Len(high) \in Nat
    BY <1>3, <1>4
  <2>3. Len(hs) \in Nat /\ Len(hs) <= 6
    BY <1>1
  <2>4. Len(low) <= Len(hs) /\ Len(high) <= Len(hs)
    BY <1>3, <1>4
  <2> QED BY <2>1, <2>2, <2>3, <2>4
<1>9. Parts(hs, low, high)
  BY <1>1, <1>3, <1>4, <1>5, <1>6, <1>8 DEF Parts, LadderHeights
<1> QED BY <1>2, <1>9

\* The labels are all different.
LEMMA LabelsDiffer ==
    /\ \A i, j \in Int : RungLabel(i) = RungLabel(j) => i = j
    /\ \A g, h \in Int : SplitLabel(g) = SplitLabel(h) => g = h
    /\ \A g, h \in Int : AnchorLabel(g) = AnchorLabel(h) => g = h
    /\ \A g, h \in Int : SplitLabel(g) # AnchorLabel(h)
    /\ \A k, h \in Int : RungLabel(k) # SplitLabel(h) /\ RungLabel(k) # AnchorLabel(h)
    /\ \A h \in Int : RungLabel(h) # SOURCE /\ SplitLabel(h) # SOURCE /\ AnchorLabel(h) # SOURCE
  BY DEF RungLabel, SplitLabel, AnchorLabel, SOURCE

\* A rung's index.
LEMMA IndexOf ==
    ASSUME NEW hs, LadderHeights(hs)
    PROVE  /\ \A h \in ToSet(hs) : Index(hs, h) \in 1..Len(hs) /\ hs[Index(hs, h)] = h
           /\ \A k \in 1..Len(hs) : Index(hs, hs[k]) = k
<1>1. hs \in Seq(Nat \ {0}) /\ Distinct(hs)
  BY DEF LadderHeights
<1>2. /\ DOMAIN hs = 1..Len(hs) /\ Len(hs) \in Nat
      /\ \A k \in 1..Len(hs) : hs[k] \in ToSet(hs)
      /\ \A x \in ToSet(hs) : \E k \in 1..Len(hs) : hs[k] = x
  BY <1>1, ElementOf
<1>3. ASSUME NEW h \in ToSet(hs) PROVE Index(hs, h) \in 1..Len(hs) /\ hs[Index(hs, h)] = h
  BY <1>2 DEF Index
<1>4. ASSUME NEW k \in 1..Len(hs) PROVE Index(hs, hs[k]) = k
  <2>1. Index(hs, hs[k]) \in 1..Len(hs) /\ hs[Index(hs, hs[k])] = hs[k]
    BY <1>2, <1>3
  <2> QED BY <1>1, <1>2, <2>1 DEF Distinct
<1> QED BY <1>3, <1>4

\* The fields of the nodes, and the labels each of them writes.
LEMMA SplitNodeIs ==
    ASSUME NEW hs, NEW low, NEW high, Parts(hs, low, high), NEW n, n = SplitNode(high)
    PROVE  /\ n.in = SOURCE /\ n.scale = 0 /\ n.split = Len(n.out)
           /\ IsSeq(n.out) /\ 1 <= Len(n.out) /\ Len(n.out) <= 9 /\ Distinct(n.out)
           /\ ToSet(n.out) = {SplitLabel(h) : h \in ToSet(high)}
<1> DEFINE out == [k \in DOMAIN high |-> SplitLabel(high[k])]
<1>1. high \in Seq(Nat \ {0}) /\ 1 <= Len(high) /\ Len(high) <= 6 /\ Distinct(high)
  BY DEF Parts
<1>2. /\ DOMAIN high = 1..Len(high) /\ Len(high) \in Nat
      /\ \A k \in 1..Len(high) : high[k] \in ToSet(high) /\ high[k] \in Int
      /\ \A x \in ToSet(high) : \E k \in 1..Len(high) : high[k] = x
  BY <1>1, ElementOf
<1>3. n.in = SOURCE /\ n.scale = 0 /\ n.out = out /\ n.split = Len(out)
  BY DEF SplitNode, Node
<1>4. /\ out \in [1..Len(high) -> ToSet(out)]
      /\ \A k \in 1..Len(high) : out[k] = SplitLabel(high[k])
  BY <1>2 DEF ToSet
<1> HIDE DEF out
<1>5. IsSeq(out) /\ Len(out) = Len(high) /\ DOMAIN out = 1..Len(high)
  BY <1>2, <1>4, ListIsSequence DEF IsSeq
<1>6. Distinct(out)
  BY <1>1, <1>2, <1>4, <1>5, LabelsDiffer DEF Distinct
<1>7. ToSet(out) = {SplitLabel(h) : h \in ToSet(high)}
  <2>1. /\ \A k \in 1..Len(high) : out[k] \in ToSet(out)
        /\ \A x \in ToSet(out) : \E k \in 1..Len(high) : out[k] = x
    BY <1>5, ElementOf DEF IsSeq
  <2> QED BY <1>2, <1>4, <2>1
<1>8. 1 <= Len(out) /\ Len(out) <= 9
  BY <1>1, <1>5
<1> QED BY <1>3, <1>5, <1>6, <1>7, <1>8

LEMMA CascadeNodeIs ==
    ASSUME NEW hs, NEW h, NEW n, n = CascadeNode(hs, h)
    PROVE  /\ n.in = AnchorLabel(h) /\ n.scale = h /\ n.split = Len(n.out)
           /\ IsSeq(n.out) /\ 1 <= Len(n.out) /\ Len(n.out) <= 9 /\ Distinct(n.out)
           /\ ToSet(n.out) = {RungLabel(Index(hs, h))}
<1> DEFINE l == RungLabel(Index(hs, h))
<1>1. n.in = AnchorLabel(h) /\ n.scale = h /\ n.out = <<l>> /\ n.split = Len(<<l>>)
  BY DEF CascadeNode, Node
<1> HIDE DEF l
<1>2. IsSeq(<<l>>) /\ Len(<<l>>) = 1 /\ Distinct(<<l>>) /\ ToSet(<<l>>) = {l}
  BY DEF IsSeq, Distinct, ToSet
<1> QED BY <1>1, <1>2 DEF l

\* What the anchor is split into besides its own output.
LEMMA SharedIs ==
    ASSUME NEW hs, NEW low, NEW high, Parts(hs, low, high), NEW h, NEW s, s = Shared(low, h)
    PROVE  /\ IsSeq(s) /\ Len(s) \in Nat /\ Len(s) <= 6 /\ Distinct(s)
           /\ ToSet(s) = IF h = CASCADE_FROM THEN {AnchorLabel(l) : l \in ToSet(low)} ELSE {}
<1> DEFINE all == [k \in DOMAIN low |-> AnchorLabel(low[k])]
<1>1. low \in Seq(Nat \ {0}) /\ Len(low) <= 6 /\ Distinct(low)
  BY DEF Parts
<1>2. /\ DOMAIN low = 1..Len(low) /\ Len(low) \in Nat
      /\ \A k \in 1..Len(low) : low[k] \in ToSet(low) /\ low[k] \in Int
      /\ \A x \in ToSet(low) : \E k \in 1..Len(low) : low[k] = x
  BY <1>1, ElementOf
<1>3. s = IF h = CASCADE_FROM THEN all ELSE <<>>
  BY DEF Shared
<1>4. /\ all \in [1..Len(low) -> ToSet(all)]
      /\ \A k \in 1..Len(low) : all[k] = AnchorLabel(low[k])
  BY <1>2 DEF ToSet
<1> HIDE DEF all
<1>5. IsSeq(all) /\ Len(all) = Len(low) /\ DOMAIN all = 1..Len(low)
  BY <1>2, <1>4, ListIsSequence DEF IsSeq
<1>6. Distinct(all)
  BY <1>1, <1>2, <1>4, <1>5, LabelsDiffer DEF Distinct
<1>7. ToSet(all) = {AnchorLabel(l) : l \in ToSet(low)}
  <2>1. /\ \A k \in 1..Len(low) : all[k] \in ToSet(all)
        /\ \A x \in ToSet(all) : \E k \in 1..Len(low) : all[k] = x
    BY <1>5, ElementOf DEF IsSeq
  <2> QED BY <1>2, <1>4, <2>1
<1>8. IsSeq(<<>>) /\ Len(<<>>) = 0 /\ Distinct(<<>>) /\ ToSet(<<>>) = {}
  BY DEF IsSeq, ToSet, Distinct
<1>9. Len(all) \in Nat /\ Len(all) <= 6
  BY <1>1, <1>2, <1>5
<1>10. CASE h = CASCADE_FROM
  BY <1>3, <1>5, <1>6, <1>7, <1>9, <1>10
<1>11. CASE h # CASCADE_FROM
  <2>1. s = <<>>
    BY <1>3, <1>11
  <2> QED BY <1>8, <1>11, <2>1
<1> QED BY <1>10, <1>11

LEMMA ScaledNodeIs ==
    ASSUME NEW hs, NEW low, NEW high, Parts(hs, low, high), NEW h \in ToSet(high),
           NEW n, n = ScaledNode(hs, low, h)
    PROVE  /\ n.in = SplitLabel(h) /\ n.scale = h /\ n.split = Len(n.out)
           /\ IsSeq(n.out) /\ 1 <= Len(n.out) /\ Len(n.out) <= 9 /\ Distinct(n.out)
           /\ ToSet(n.out) = {RungLabel(Index(hs, h))} \cup
                 (IF h = CASCADE_FROM THEN {AnchorLabel(l) : l \in ToSet(low)} ELSE {})
<1> DEFINE l == RungLabel(Index(hs, h))
           s == Shared(low, h)
           u == <<l>> \o s
<1>1. n.in = SplitLabel(h) /\ n.scale = h /\ n.out = u /\ n.split = Len(u)
  BY DEF ScaledNode, Node
<1>2. /\ IsSeq(s) /\ Len(s) \in Nat /\ Len(s) <= 6 /\ Distinct(s)
      /\ ToSet(s) = IF h = CASCADE_FROM THEN {AnchorLabel(x) : x \in ToSet(low)} ELSE {}
  BY SharedIs
<1>3. l \notin ToSet(s)
  <2>1. Index(hs, h) \in Int
    BY IndexOf DEF Parts
  <2>2. \A x \in ToSet(low) : x \in Int
    BY ElementOf DEF Parts
  <2> HIDE DEF s
  <2> QED BY <1>2, <2>1, <2>2, LabelsDiffer
<1> HIDE DEF l, s
<1> DEFINE T == {l} \cup ToSet(s)
<1>4. <<l>> \in Seq(T) /\ s \in Seq(T) /\ ToSet(<<l>>) = {l}
  BY <1>2 DEF IsSeq, ToSet
<1>5. u \in Seq(T) /\ ToSet(u) = {l} \cup ToSet(s)
  <2>1. u \in Seq(T) /\ ToSet(u) = ToSet(<<l>>) \cup ToSet(s)
    <3> DEFINE one == <<l>>
    <3>1. one \in Seq(T) /\ s \in Seq(T) /\ u = one \o s
      BY <1>4
    <3> HIDE DEF T, one, u
    <3>2. u \in Seq(T) /\ ToSet(u) = ToSet(one) \cup ToSet(s)
      BY <3>1, ElementsOfConcat
    <3> QED BY <3>2 DEF one
  <2> QED BY <1>4, <2>1
<1>6. /\ Len(u) = 1 + Len(s) /\ DOMAIN u = 1..(1 + Len(s)) /\ u[1] = l
      /\ \A k \in 1..Len(s) : u[1 + k] = s[k]
      /\ DOMAIN s = 1..Len(s)
  <2> HIDE DEF T
  <2> QED BY <1>4
<1> HIDE DEF u
<1>7. IsSeq(u) /\ 1 <= Len(u) /\ Len(u) <= 9
  BY <1>2, <1>5, <1>6, OwnElements
<1>8. Distinct(u)
  <2> SUFFICES ASSUME NEW i \in DOMAIN u, NEW j \in DOMAIN u, i < j PROVE u[i] # u[j]
    BY DEF Distinct
  <2>1. j - 1 \in 1..Len(s) /\ u[1 + (j - 1)] = s[j - 1] /\ 1 + (j - 1) = j
    BY <1>2, <1>6
  <2>2. CASE i = 1
    BY <1>3, <1>6, <2>1, <2>2 DEF ToSet
  <2>3. CASE i # 1
    <3>1. i - 1 \in 1..Len(s) /\ u[1 + (i - 1)] = s[i - 1] /\ 1 + (i - 1) = i /\ i - 1 < j - 1
      BY <1>2, <1>6, <2>3
    <3> QED BY <1>2, <1>6, <2>1, <3>1 DEF Distinct
  <2> QED BY <2>2, <2>3
<1>9. ToSet(u) = {l} \cup (IF h = CASCADE_FROM THEN {AnchorLabel(x) : x \in ToSet(low)} ELSE {})
  BY <1>2, <1>5
<1> QED BY <1>1, <1>7, <1>8, <1>9 DEF l

\* As many images as elements, where no two have the same.
LEMMA ImageSize ==
    ASSUME NEW X, IsFiniteSet(X), NEW f, DOMAIN f = X, \A x, y \in X : f[x] = f[y] => x = y
    PROVE  IsFiniteSet({f[x] : x \in X}) /\ Cardinality({f[x] : x \in X}) = Cardinality(X)
<1> DEFINE Y == {f[x] : x \in X}
           g == [x \in X |-> f[x]]
<1>1. g \in Bijection(X, Y)
  BY DEF Bijection, Injection, Surjection, IsInjective
<1>2. ExistsBijection(X, Y)
  BY <1>1 DEF ExistsBijection
<1> HIDE DEF Y
<1>3. IsFiniteSet(Y) /\ Cardinality(Y) = Cardinality(X)
  BY <1>2, FS_Bijection
<1> QED BY <1>3 DEF Y

\* In a finite graph whose nodes write each label once, no two of them the same,
\* there are as many outputs as labels.
WritesOnce(g) ==
    /\ IsFiniteSet(g)
    /\ \A n \in g : IsSeq(n.out) /\ 1 <= Len(n.out) /\ Len(n.out) <= 9 /\ Distinct(n.out)
    /\ \A n, m \in g : n # m => ToSet(n.out) \cap ToSet(m.out) = {}

Written(g) == UNION {ToSet(n.out) : n \in g}

LEMMA LabelsOnce ==
    ASSUME NEW g, WritesOnce(g)
    PROVE  /\ {Label(made) : made \in Made(g)} = Written(g)
           /\ Cardinality(Made(g)) = Cardinality({Label(made) : made \in Made(g)})
<1>1. ASSUME NEW n \in g
      PROVE  /\ DOMAIN n.out = 1..Len(n.out) /\ Len(n.out) \in Nat /\ Len(n.out) <= 9
             /\ \A k \in 1..Len(n.out) : n.out[k] \in ToSet(n.out)
             /\ \A x \in ToSet(n.out) : \E k \in 1..Len(n.out) : n.out[k] = x
             /\ \A i, j \in 1..Len(n.out) : n.out[i] = n.out[j] => i = j
  <2>1. /\ DOMAIN n.out = 1..Len(n.out) /\ Len(n.out) \in Nat /\ Len(n.out) <= 9
        /\ \A k \in 1..Len(n.out) : n.out[k] \in ToSet(n.out)
        /\ \A x \in ToSet(n.out) : \E k \in 1..Len(n.out) : n.out[k] = x
    BY ElementOf DEF WritesOnce, IsSeq
  <2>2. ASSUME NEW i \in 1..Len(n.out), NEW j \in 1..Len(n.out), n.out[i] = n.out[j]
        PROVE  i = j
    <3>1. ~(i < j) /\ ~(j < i)
      BY <2>1, <2>2 DEF WritesOnce, Distinct
    <3> QED BY <2>1, <3>1
  <2> QED BY <2>1, <2>2
<1>2. ASSUME NEW made \in Made(g)
      PROVE  /\ made[1] \in g /\ made[2] \in 1..Len(made[1].out)
             /\ Label(made) = made[1].out[made[2]]
             /\ made = <<made[1], made[2]>>
  <2>1. made \in g \X (1..9) /\ made[2] <= Len(made[1].out)
    BY DEF Made
  <2>2. Len(made[1].out) \in Nat
    BY <1>1, <2>1
  <2> QED BY <2>1, <2>2 DEF Label
<1>3. ASSUME NEW n \in g, NEW k \in 1..Len(n.out)
      PROVE  <<n, k>> \in Made(g) /\ Label(<<n, k>>) = n.out[k]
  <2>1. k \in 1..9 /\ k <= Len(n.out)
    BY <1>1
  <2> QED BY <2>1 DEF Made, Label
<1>4. {Label(made) : made \in Made(g)} = Written(g)
  <2>1. ASSUME NEW made \in Made(g) PROVE Label(made) \in Written(g)
    BY <1>1, <1>2 DEF Written
  <2>2. ASSUME NEW l \in Written(g) PROVE \E made \in Made(g) : l = Label(made)
    <3>1. PICK n \in g : l \in ToSet(n.out)
      BY DEF Written
    <3>2. PICK k \in 1..Len(n.out) : n.out[k] = l
      BY <1>1, <3>1
    <3> QED BY <1>3, <3>2
  <2> QED BY <2>1, <2>2
<1>5. IsFiniteSet(Made(g))
  <2>1. IsFiniteSet(1..9)
    <3>1. 1 \in Int /\ 9 \in Int
      OBVIOUS
    <3> QED BY <3>1, FS_Interval
  <2>2. IsFiniteSet(g \X (1..9))
    BY <2>1, FS_Product DEF WritesOnce
  <2> QED BY <2>2, FS_Subset DEF Made
<1> DEFINE f == [made \in Made(g) |-> Label(made)]
<1>6. ASSUME NEW a \in Made(g), NEW b \in Made(g), Label(a) = Label(b) PROVE a = b
  <2>1. a[1] = b[1]
    <3>1. Label(a) \in ToSet(a[1].out) /\ Label(b) \in ToSet(b[1].out)
      BY <1>1, <1>2
    <3> QED BY <1>2, <1>6, <3>1 DEF WritesOnce
  <2>2. a[2] = b[2]
    <3> DEFINE n == a[1]
    <3>1. n \in g /\ a[2] \in 1..Len(n.out) /\ b[2] \in 1..Len(n.out) /\ n.out[a[2]] = n.out[b[2]]
      BY <1>2, <1>6, <2>1
    <3> HIDE DEF n
    <3> QED BY <1>1, <3>1
  <2> QED BY <1>2, <2>1, <2>2
<1>7. Cardinality({f[made] : made \in Made(g)}) = Cardinality(Made(g))
  <2>1. DOMAIN f = Made(g) /\ \A a, b \in Made(g) : f[a] = f[b] => a = b
    BY <1>6
  <2> HIDE DEF f
  <2> QED BY <1>5, <2>1, ImageSize
<1>8. {f[made] : made \in Made(g)} = {Label(made) : made \in Made(g)}
  OBVIOUS
<1> QED BY <1>4, <1>7, <1>8

\* The image of a finite set, and the elements of a sequence, are finite.
LEMMA ImageIsFinite ==
    ASSUME NEW X, IsFiniteSet(X), NEW f, DOMAIN f = X
    PROVE  IsFiniteSet({f[x] : x \in X})
<1> DEFINE Y == {f[x] : x \in X}
           g == [x \in X |-> f[x]]
<1>1. g \in Surjection(X, Y)
  BY DEF Surjection
<1> HIDE DEF Y, g
<1> QED BY <1>1, FS_Surjection DEF Y

LEMMA ElementsAreFinite ==
    ASSUME NEW T, NEW s \in Seq(T)
    PROVE  IsFiniteSet(ToSet(s))
<1>1. DOMAIN s = 1..Len(s) /\ Len(s) \in Int /\ 1 \in Int
  OBVIOUS
<1>2. IsFiniteSet(DOMAIN s)
  BY <1>1, FS_Interval
<1> QED BY <1>2, ImageIsFinite DEF ToSet

\* A node of a ladder's graph is one of three kinds.
LEMMA NodeKinds ==
    ASSUME NEW hs, NEW low, NEW high, NEW n \in GraphOf(hs, low, high)
    PROVE  \/ n = SplitNode(high)
           \/ \E h \in ToSet(high) : n = ScaledNode(hs, low, h)
           \/ \E h \in ToSet(low) : n = CascadeNode(hs, h)
  BY DEF GraphOf

\* What there is to know of the heights.
LEMMA HeightsOf ==
    ASSUME NEW hs, NEW low, NEW high, Parts(hs, low, high)
    PROVE  /\ \A h \in ToSet(hs) : h \in Int /\ h > 0
           /\ \A h \in ToSet(low) : h \in ToSet(hs) /\ h \notin ToSet(high) /\ h # CASCADE_FROM
           /\ \A h \in ToSet(high) : h \in ToSet(hs) /\ h \notin ToSet(low)
           /\ \A h \in ToSet(hs) : h \in ToSet(low) \/ h \in ToSet(high)
           /\ \A h \in ToSet(hs) : Index(hs, h) \in Int
           /\ \A g, h \in ToSet(hs) : Index(hs, g) = Index(hs, h) => g = h
<1>1. \A h \in ToSet(hs) : h \in Nat \ {0}
  BY ElementOf DEF Parts, LadderHeights
<1>2. \A h \in ToSet(low) : h \in ToSet(hs) /\ h \notin ToSet(high) /\ h # CASCADE_FROM
  BY <1>1 DEF Parts, CASCADE_FROM
<1>3. \A h \in ToSet(hs) : Index(hs, h) \in 1..Len(hs) /\ hs[Index(hs, h)] = h
  BY IndexOf DEF Parts
<1>4. \A h \in ToSet(high) : h \in ToSet(hs) /\ h \notin ToSet(low)
  BY DEF Parts
<1>5. \A h \in ToSet(hs) : h \in ToSet(low) \/ h \in ToSet(high)
  BY DEF Parts
<1> QED BY <1>1, <1>2, <1>3, <1>4, <1>5

\* Where each label is written: only there.
Writes(n, l) == l \in ToSet(n.out)
LEMMA WhoWrites ==
    ASSUME NEW hs, NEW low, NEW high, Parts(hs, low, high)
    PROVE  /\ \A l : Writes(SplitNode(high), l) <=> \E h \in ToSet(high) : l = SplitLabel(h)
           /\ \A h \in ToSet(high) : \A l :
                 Writes(ScaledNode(hs, low, h), l) <=>
                    \/ l = RungLabel(Index(hs, h))
                    \/ h = CASCADE_FROM /\ \E x \in ToSet(low) : l = AnchorLabel(x)
           /\ \A h \in ToSet(low) : \A l :
                 Writes(CascadeNode(hs, h), l) <=> l = RungLabel(Index(hs, h))
<1>1. ASSUME NEW l
      PROVE  Writes(SplitNode(high), l) <=> \E h \in ToSet(high) : l = SplitLabel(h)
  <2> DEFINE n == SplitNode(high)
  <2>1. ToSet(n.out) = {SplitLabel(h) : h \in ToSet(high)}
    BY SplitNodeIs
  <2> HIDE DEF n
  <2>2. Writes(n, l) <=> \E h \in ToSet(high) : l = SplitLabel(h)
    BY <2>1 DEF Writes
  <2> QED BY <2>2 DEF n
<1>2. ASSUME NEW h \in ToSet(high), NEW l
      PROVE  Writes(ScaledNode(hs, low, h), l) <=>
                \/ l = RungLabel(Index(hs, h))
                \/ h = CASCADE_FROM /\ \E x \in ToSet(low) : l = AnchorLabel(x)
  <2> DEFINE n == ScaledNode(hs, low, h)
  <2>1. ToSet(n.out) = {RungLabel(Index(hs, h))} \cup
                          (IF h = CASCADE_FROM THEN {AnchorLabel(x) : x \in ToSet(low)} ELSE {})
    BY ScaledNodeIs
  <2> HIDE DEF n
  <2>2. Writes(n, l) <=> \/ l = RungLabel(Index(hs, h))
                         \/ h = CASCADE_FROM /\ \E x \in ToSet(low) : l = AnchorLabel(x)
    BY <2>1 DEF Writes
  <2> QED BY <2>2 DEF n
<1>3. ASSUME NEW h \in ToSet(low), NEW l
      PROVE  Writes(CascadeNode(hs, h), l) <=> l = RungLabel(Index(hs, h))
  <2> DEFINE n == CascadeNode(hs, h)
  <2>1. ToSet(n.out) = {RungLabel(Index(hs, h))}
    BY CascadeNodeIs
  <2> HIDE DEF n
  <2>2. Writes(n, l) <=> l = RungLabel(Index(hs, h))
    BY <2>1 DEF Writes
  <2> QED BY <2>2 DEF n
<1> QED BY <1>1, <1>2, <1>3

\* No label is written by two nodes.
LEMMA OneWriter ==
    ASSUME NEW hs, NEW low, NEW high, Parts(hs, low, high),
           NEW n \in GraphOf(hs, low, high), NEW m \in GraphOf(hs, low, high),
           NEW l, Writes(n, l), Writes(m, l)
    PROVE  n = m
<1>1. \/ n = SplitNode(high)
      \/ \E h \in ToSet(high) : n = ScaledNode(hs, low, h)
      \/ \E h \in ToSet(low) : n = CascadeNode(hs, h)
  BY NodeKinds
<1>2. \/ m = SplitNode(high)
      \/ \E h \in ToSet(high) : m = ScaledNode(hs, low, h)
      \/ \E h \in ToSet(low) : m = CascadeNode(hs, h)
  BY NodeKinds
<1>3. CASE \E h \in ToSet(high) : l = SplitLabel(h)
  <2>1. PICK h \in ToSet(high) : l = SplitLabel(h)
    BY <1>3
  <2>2. ASSUME NEW p \in GraphOf(hs, low, high), Writes(p, l) PROVE p = SplitNode(high)
    <3>1. ASSUME NEW g \in ToSet(high), p = ScaledNode(hs, low, g) PROVE FALSE
      BY <2>1, <2>2, <3>1, WhoWrites, HeightsOf, LabelsDiffer
    <3>2. ASSUME NEW g \in ToSet(low), p = CascadeNode(hs, g) PROVE FALSE
      BY <2>1, <2>2, <3>2, WhoWrites, HeightsOf, LabelsDiffer
    <3> QED BY <3>1, <3>2, NodeKinds
  <2> QED BY <2>2
<1>4. CASE \E x \in ToSet(low) : l = AnchorLabel(x)
  <2>1. PICK x \in ToSet(low) : l = AnchorLabel(x)
    BY <1>4
  <2>2. ASSUME NEW p \in GraphOf(hs, low, high), Writes(p, l)
        PROVE  p = ScaledNode(hs, low, CASCADE_FROM)
    <3>1. ASSUME p = SplitNode(high) PROVE FALSE
      BY <2>1, <2>2, <3>1, WhoWrites, HeightsOf, LabelsDiffer
    <3>2. ASSUME NEW g \in ToSet(high), p = ScaledNode(hs, low, g) PROVE g = CASCADE_FROM
      BY <2>1, <2>2, <3>2, WhoWrites, HeightsOf, LabelsDiffer
    <3>3. ASSUME NEW g \in ToSet(low), p = CascadeNode(hs, g) PROVE FALSE
      BY <2>1, <2>2, <3>3, WhoWrites, HeightsOf, LabelsDiffer
    <3> QED BY <3>1, <3>2, <3>3, NodeKinds
  <2> QED BY <2>2
<1>5. CASE \E h \in ToSet(hs) : l = RungLabel(Index(hs, h))
  <2>1. PICK h \in ToSet(hs) : l = RungLabel(Index(hs, h))
    BY <1>5
  <2>2. ASSUME NEW p \in GraphOf(hs, low, high), Writes(p, l)
        PROVE  p = IF h \in ToSet(high) THEN ScaledNode(hs, low, h) ELSE CascadeNode(hs, h)
    <3>1. ASSUME p = SplitNode(high) PROVE FALSE
      BY <2>1, <2>2, <3>1, WhoWrites, HeightsOf, LabelsDiffer
    <3>2. ASSUME NEW g \in ToSet(high), p = ScaledNode(hs, low, g) PROVE g = h
      BY <2>1, <2>2, <3>2, WhoWrites, HeightsOf, LabelsDiffer
    <3>3. ASSUME NEW g \in ToSet(low), p = CascadeNode(hs, g) PROVE g = h /\ h \notin ToSet(high)
      BY <2>1, <2>2, <3>3, WhoWrites, HeightsOf, LabelsDiffer
    <3> QED BY <3>1, <3>2, <3>3, NodeKinds
  <2> QED BY <2>2
<1>6. \/ \E h \in ToSet(high) : l = SplitLabel(h)
      \/ \E x \in ToSet(low) : l = AnchorLabel(x)
      \/ \E h \in ToSet(hs) : l = RungLabel(Index(hs, h))
  BY <1>1, WhoWrites, HeightsOf
<1> QED BY <1>3, <1>4, <1>5, <1>6

\* So the graph writes each label once.
LEMMA GraphWrites ==
    ASSUME NEW hs, NEW low, NEW high, Parts(hs, low, high), NEW g, g = GraphOf(hs, low, high)
    PROVE  /\ WritesOnce(g)
           /\ \A n \in g : n.split = Len(n.out) /\ n.split > 0
           /\ Written(g) = {SplitLabel(h) : h \in ToSet(high)}
                              \cup {AnchorLabel(h) : h \in ToSet(low)}
                              \cup {RungLabel(k) : k \in 1..Len(hs)}
<1>1. ASSUME NEW n \in g
      PROVE  /\ IsSeq(n.out) /\ 1 <= Len(n.out) /\ Len(n.out) <= 9 /\ Distinct(n.out)
             /\ n.split = Len(n.out)
  <2>1. CASE n = SplitNode(high)
    BY <2>1, SplitNodeIs
  <2>2. ASSUME NEW h \in ToSet(high), n = ScaledNode(hs, low, h)
        PROVE  /\ IsSeq(n.out) /\ 1 <= Len(n.out) /\ Len(n.out) <= 9 /\ Distinct(n.out)
               /\ n.split = Len(n.out)
    BY <2>2, ScaledNodeIs
  <2>3. ASSUME NEW h \in ToSet(low), n = CascadeNode(hs, h)
        PROVE  /\ IsSeq(n.out) /\ 1 <= Len(n.out) /\ Len(n.out) <= 9 /\ Distinct(n.out)
               /\ n.split = Len(n.out)
    BY <2>3, CascadeNodeIs
  <2> QED BY <2>1, <2>2, <2>3, NodeKinds
<1>2. IsFiniteSet(g)
  <2> DEFINE scaled == {ScaledNode(hs, low, h) : h \in ToSet(high)}
             cascade == {CascadeNode(hs, h) : h \in ToSet(low)}
  <2>1. IsFiniteSet(ToSet(high)) /\ IsFiniteSet(ToSet(low))
    BY ElementsAreFinite DEF Parts
  <2>2. IsFiniteSet(scaled)
    <3> DEFINE f == [h \in ToSet(high) |-> ScaledNode(hs, low, h)]
    <3>1. IsFiniteSet({f[h] : h \in ToSet(high)})
      <4>1. DOMAIN f = ToSet(high) OBVIOUS
      <4> HIDE DEF f
      <4> QED BY <2>1, <4>1, ImageIsFinite
    <3>2. {f[h] : h \in ToSet(high)} = scaled
      OBVIOUS
    <3> QED BY <3>1, <3>2
  <2>3. IsFiniteSet(cascade)
    <3> DEFINE f == [h \in ToSet(low) |-> CascadeNode(hs, h)]
    <3>1. IsFiniteSet({f[h] : h \in ToSet(low)})
      <4>1. DOMAIN f = ToSet(low) OBVIOUS
      <4> HIDE DEF f
      <4> QED BY <2>1, <4>1, ImageIsFinite
    <3>2. {f[h] : h \in ToSet(low)} = cascade
      OBVIOUS
    <3> QED BY <3>1, <3>2
  <2>4. g = {SplitNode(high)} \cup scaled \cup cascade
    BY DEF GraphOf
  <2> HIDE DEF scaled, cascade
  <2>5. IsFiniteSet({SplitNode(high)})
    BY FS_Singleton
  <2>6. IsFiniteSet({SplitNode(high)} \cup scaled)
    BY <2>2, <2>5, FS_Union
  <2> QED BY <2>3, <2>4, <2>6, FS_Union
<1>3. \A n, m \in g : n # m => ToSet(n.out) \cap ToSet(m.out) = {}
  BY OneWriter DEF Writes
<1>4. WritesOnce(g)
  BY <1>1, <1>2, <1>3 DEF WritesOnce
<1>5. \A n \in g : n.split = Len(n.out) /\ n.split > 0
  <2>1. \A n \in g : Len(n.out) \in Nat
    BY <1>1, ElementOf DEF IsSeq
  <2> QED BY <1>1, <2>1
<1>6. \A l : l \in Written(g) <=> \E n \in g : Writes(n, l)
  BY DEF Written, Writes
<1>7. /\ SplitNode(high) \in g
      /\ \A h \in ToSet(high) : ScaledNode(hs, low, h) \in g
      /\ \A h \in ToSet(low) : CascadeNode(hs, h) \in g
  BY DEF GraphOf
<1>8. ASSUME NEW l \in Written(g)
      PROVE  \/ \E h \in ToSet(high) : l = SplitLabel(h)
             \/ \E h \in ToSet(low) : l = AnchorLabel(h)
             \/ \E k \in 1..Len(hs) : l = RungLabel(k)
  <2>1. PICK n \in g : Writes(n, l)
    BY <1>6
  <2>2. \/ \E h \in ToSet(high) : l = SplitLabel(h)
        \/ \E h \in ToSet(low) : l = AnchorLabel(h)
        \/ \E h \in ToSet(hs) : l = RungLabel(Index(hs, h))
    BY <2>1, NodeKinds, WhoWrites, HeightsOf
  <2>3. \A h \in ToSet(hs) : Index(hs, h) \in 1..Len(hs)
    BY IndexOf DEF Parts
  <2> QED BY <2>2, <2>3
<1>9. \A h \in ToSet(high) : SplitLabel(h) \in Written(g)
  BY <1>6, <1>7, WhoWrites
<1>10. ASSUME NEW h \in ToSet(low) PROVE AnchorLabel(h) \in Written(g)
  <2>1. CASCADE_FROM \in ToSet(high)
    BY DEF Parts
  <2>2. Writes(ScaledNode(hs, low, CASCADE_FROM), AnchorLabel(h))
    BY <2>1, WhoWrites
  <2> QED BY <1>6, <1>7, <2>1, <2>2
<1>11. ASSUME NEW k \in 1..Len(hs) PROVE RungLabel(k) \in Written(g)
  <2>1. hs[k] \in ToSet(hs) /\ Index(hs, hs[k]) = k
    BY IndexOf, ElementOf DEF Parts, LadderHeights
  <2>2. CASE hs[k] \in ToSet(high)
    <3>1. Writes(ScaledNode(hs, low, hs[k]), RungLabel(k))
      BY <2>1, <2>2, WhoWrites
    <3> QED BY <1>6, <1>7, <2>2, <3>1
  <2>3. CASE hs[k] \in ToSet(low)
    <3>1. Writes(CascadeNode(hs, hs[k]), RungLabel(k))
      BY <2>1, <2>3, WhoWrites
    <3> QED BY <1>6, <1>7, <2>3, <3>1
  <2> QED BY <2>1, <2>2, <2>3, HeightsOf
<1>12. Written(g) = {SplitLabel(h) : h \in ToSet(high)} \cup {AnchorLabel(h) : h \in ToSet(low)}
                      \cup {RungLabel(k) : k \in 1..Len(hs)}
  BY <1>8, <1>9, <1>10, <1>11
<1> QED BY <1>4, <1>5, <1>12

\* What each node reads: the source, or its own label.
LEMMA WhatReads ==
    ASSUME NEW hs, NEW low, NEW high, Parts(hs, low, high)
    PROVE  /\ SplitNode(high).in = SOURCE /\ SplitNode(high).scale = 0
           /\ \A h \in ToSet(high) : /\ ScaledNode(hs, low, h).in = SplitLabel(h)
                                     /\ ScaledNode(hs, low, h).scale = h
           /\ \A h \in ToSet(low) : /\ CascadeNode(hs, h).in = AnchorLabel(h)
                                    /\ CascadeNode(hs, h).scale = h
  BY SplitNodeIs, ScaledNodeIs, CascadeNodeIs

\* No two nodes read the same.
LEMMA OneReader ==
    ASSUME NEW hs, NEW low, NEW high, Parts(hs, low, high),
           NEW n \in GraphOf(hs, low, high), NEW m \in GraphOf(hs, low, high), n.in = m.in
    PROVE  n = m
<1>1. \/ n = SplitNode(high)
      \/ \E h \in ToSet(high) : n = ScaledNode(hs, low, h)
      \/ \E h \in ToSet(low) : n = CascadeNode(hs, h)
  BY NodeKinds
<1>2. \/ m = SplitNode(high)
      \/ \E h \in ToSet(high) : m = ScaledNode(hs, low, h)
      \/ \E h \in ToSet(low) : m = CascadeNode(hs, h)
  BY NodeKinds
<1> QED BY <1>1, <1>2, WhatReads, HeightsOf, LabelsDiffer

\* The command's maps are the rungs' labels, in the order of the rungs.
LEMMA MapsOf ==
    ASSUME NEW hs, LadderHeights(hs), NEW maps, maps = build_ladder_command(hs).maps
    PROVE  /\ DOMAIN maps = 1..Len(hs) /\ Len(maps) = Len(hs) /\ Len(hs) \in Nat
           /\ \A k \in 1..Len(hs) : maps[k].label = RungLabel(k)
<1>1. DOMAIN hs = 1..Len(hs) /\ Len(hs) \in Nat
  BY DEF LadderHeights
<1>2. maps = [k \in DOMAIN hs |-> [label   |-> <<"v", k - 1>>,
                                   maxrate |-> BITRATES(hs[k]),
                                   bufsize |-> 2 * BITRATES(hs[k])]]
  BY DEF build_ladder_command
<1>3. \A k \in 1..Len(hs) : maps[k].label = RungLabel(k)
  BY <1>1, <1>2 DEF RungLabel
<1>4. maps \in [1..Len(hs) -> {maps[k] : k \in 1..Len(hs)}]
  BY <1>1, <1>2
<1>5. Len(maps) = Len(hs)
  BY <1>1, <1>4, ListIsSequence
<1> QED BY <1>1, <1>2, <1>3, <1>5

\* FFmpeg takes the graph of every ladder: each label is written once and read
\* once, and every split has as many outputs as it says.
LEMMA GraphAccepted ==
    ASSUME NEW hs, LadderHeights(hs), NEW c, c = build_ladder_command(hs)
    PROVE  GraphIsAccepted(c.graph, c.maps)
<1>1. PICK low, high : Parts(hs, low, high) /\ ladder_filter(hs) = GraphOf(hs, low, high)
  BY LadderParts
<1> DEFINE g == c.graph
           maps == c.maps
           written == {Label(made) : made \in Made(g)}
           inputs == {node.in : node \in g}
           mapped == {maps[k].label : k \in DOMAIN maps}
           splits == {SplitLabel(h) : h \in ToSet(high)}
           anchors == {AnchorLabel(h) : h \in ToSet(low)}
           rungs == {RungLabel(k) : k \in 1..Len(hs)}
<1>2. g = GraphOf(hs, low, high)
  BY <1>1 DEF build_ladder_command
<1>3. /\ DOMAIN maps = 1..Len(hs) /\ Len(maps) = Len(hs) /\ Len(hs) \in Nat
      /\ \A k \in 1..Len(hs) : maps[k].label = RungLabel(k)
  BY MapsOf
<1> HIDE DEF g, maps
<1>4. /\ WritesOnce(g)
      /\ \A n \in g : n.split = Len(n.out) /\ n.split > 0
      /\ Written(g) = splits \cup anchors \cup rungs
  BY <1>1, <1>2, GraphWrites
<1>5. written = splits \cup anchors \cup rungs /\ Cardinality(Made(g)) = Cardinality(written)
  BY <1>4, LabelsOnce
<1>6. mapped = rungs
  BY <1>3
<1>7. inputs = {SOURCE} \cup splits \cup anchors
  <2>1. \A n \in g : n.in \in {SOURCE} \cup splits \cup anchors
    <3> SUFFICES ASSUME NEW n \in g PROVE n.in \in {SOURCE} \cup splits \cup anchors
      OBVIOUS
    <3>1. \/ n = SplitNode(high)
          \/ \E h \in ToSet(high) : n = ScaledNode(hs, low, h)
          \/ \E h \in ToSet(low) : n = CascadeNode(hs, h)
      BY <1>2, NodeKinds
    <3> QED BY <1>1, <3>1, WhatReads
  <2>2. /\ SplitNode(high) \in g
        /\ \A h \in ToSet(high) : ScaledNode(hs, low, h) \in g
        /\ \A h \in ToSet(low) : CascadeNode(hs, h) \in g
    BY <1>2 DEF GraphOf
  <2>3. SOURCE \in inputs
    BY <1>1, <2>2, WhatReads
  <2>4. \A h \in ToSet(high) : SplitLabel(h) \in inputs
    BY <1>1, <2>2, WhatReads
  <2>5. \A h \in ToSet(low) : AnchorLabel(h) \in inputs
    BY <1>1, <2>2, WhatReads
  <2> QED BY <2>1, <2>3, <2>4, <2>5
<1>8. Cardinality(inputs) = Cardinality(g)
  <2> DEFINE f == [n \in g |-> n.in]
  <2>1. DOMAIN f = g /\ \A n, m \in g : f[n] = f[m] => n = m
    BY <1>1, <1>2, OneReader
  <2>2. {f[n] : n \in g} = inputs
    OBVIOUS
  <2> HIDE DEF f, inputs
  <2>3. Cardinality({f[n] : n \in g}) = Cardinality(g)
    BY <1>4, <2>1, ImageSize DEF WritesOnce
  <2> QED BY <2>2, <2>3
<1>9. Cardinality(mapped) = Len(maps)
  <2> DEFINE f == [k \in 1..Len(hs) |-> RungLabel(k)]
  <2>1. DOMAIN f = 1..Len(hs) /\ \A i, j \in 1..Len(hs) : f[i] = f[j] => i = j
    BY LabelsDiffer
  <2>2. {f[k] : k \in 1..Len(hs)} = rungs
    OBVIOUS
  <2>3. IsFiniteSet(1..Len(hs)) /\ Cardinality(1..Len(hs)) = Len(hs)
    <3> DEFINE n == Len(hs)
    <3>1. n \in Int /\ n >= 0 /\ 1 \in Int
      BY <1>3
    <3> HIDE DEF n
    <3>2. IsFiniteSet(1..n) /\ Cardinality(1..n) = IF 1 > n THEN 0 ELSE n - 1 + 1
      BY <3>1, FS_Interval
    <3>3. IsFiniteSet(1..n) /\ Cardinality(1..n) = n
      BY <3>1, <3>2
    <3> QED BY <3>3 DEF n
  <2> HIDE DEF f, rungs
  <2>4. Cardinality({f[k] : k \in 1..Len(hs)}) = Len(hs)
    BY <2>1, <2>3, ImageSize
  <2> QED BY <1>3, <1>6, <2>2, <2>4
<1>10. SOURCE \notin written /\ splits \cap rungs = {} /\ anchors \cap rungs = {}
  <2>1. \A h \in ToSet(high) : h \in Int
    BY <1>1, HeightsOf
  <2>2. \A h \in ToSet(low) : h \in Int
    BY <1>1, HeightsOf
  <2>3. \A k \in 1..Len(hs) : k \in Int
    OBVIOUS
  <2> HIDE DEF written
  <2> QED BY <1>5, <2>1, <2>2, <2>3, LabelsDiffer
<1> HIDE DEF written, inputs, mapped, splits, anchors, rungs
<1>11. /\ inputs \ {SOURCE} \subseteq written /\ mapped \subseteq written
       /\ written = (inputs \ {SOURCE}) \cup mapped
       /\ (inputs \ {SOURCE}) \cap mapped = {}
  BY <1>5, <1>6, <1>7, <1>10
<1> QED BY <1>4, <1>5, <1>8, <1>9, <1>11 DEF GraphIsAccepted, written, inputs, mapped, g, maps

\* The recursion of Passed, on the labels of a graph.
Traces(p, g, source) ==
    p = [l \in {Label(made) : made \in Made(g)} \cup {SOURCE} |->
            IF l = SOURCE THEN <<source>>
            ELSE LET node == CHOOSE node \in g : l \in ToSet(node.out)
                 IN  IF node.scale = 0 THEN p[node.in] ELSE Append(p[node.in], node.scale)]

\* The heights a rung's picture passes through: the source's, the anchor's for
\* a low rung, its own.
Through(low, source, h) ==
    IF h \in ToSet(low) THEN <<source, CASCADE_FROM, h>> ELSE <<source, h>>

\* One node of the graph, and what the recursion says of a label it writes.
LEMMA TraceAt ==
    ASSUME NEW hs, NEW low, NEW high, Parts(hs, low, high), NEW g, g = GraphOf(hs, low, high),
           NEW n \in g, NEW l, Writes(n, l)
    PROVE  /\ l \in {Label(made) : made \in Made(g)} /\ l # SOURCE
           /\ (CHOOSE node \in g : l \in ToSet(node.out)) = n
<1>1. l \in {Label(made) : made \in Made(g)}
  <2>1. WritesOnce(g)
    BY GraphWrites
  <2>2. l \in Written(g)
    BY DEF Written, Writes
  <2> QED BY <2>1, <2>2, LabelsOnce
<1>2. l # SOURCE
  <2>1. \/ \E h \in ToSet(high) : l = SplitLabel(h)
        \/ \E h \in ToSet(low) : l = AnchorLabel(h)
        \/ \E h \in ToSet(hs) : l = RungLabel(Index(hs, h))
    BY NodeKinds, WhoWrites, HeightsOf
  <2> QED BY <2>1, HeightsOf, LabelsDiffer
<1>3. \A m \in g : l \in ToSet(m.out) => m = n
  BY OneWriter DEF Writes
<1>4. l \in ToSet(n.out)
  BY DEF Writes
<1> QED BY <1>1, <1>2, <1>3, <1>4

\* Short sequences, appended to.
LEMMA AppendedTo ==
    /\ \A a, b : Append(<<a>>, b) = <<a, b>>
    /\ \A a, b, c : Append(<<a, b>>, c) = <<a, b, c>>
<1>1. ASSUME NEW T, NEW s \in Seq(T), NEW t \in Seq(T), Len(s) = Len(t),
             \A k \in 1..Len(s) : s[k] = t[k]
      PROVE  s = t
  <2>1. s = [k \in 1..Len(s) |-> s[k]] /\ t = [k \in 1..Len(t) |-> t[k]]
    OBVIOUS
  <2> QED BY <1>1, <2>1
<1>2. ASSUME NEW T, NEW s \in Seq(T), NEW x \in T
      PROVE  /\ Append(s, x) \in Seq(T) /\ Len(Append(s, x)) = Len(s) + 1
             /\ Append(s, x)[Len(s) + 1] = x
             /\ \A k \in 1..Len(s) : Append(s, x)[k] = s[k]
  OBVIOUS
<1>3. ASSUME NEW a, NEW b PROVE Append(<<a>>, b) = <<a, b>>
  <2> DEFINE T == {a, b}
             o == <<a>>
             s == Append(o, b)
             t == <<a, b>>
  <2>1. o \in Seq(T) /\ Len(o) = 1 /\ o[1] = a /\ b \in T
    OBVIOUS
  <2>2. t \in Seq(T) /\ Len(t) = 2 /\ t[1] = a /\ t[2] = b
    OBVIOUS
  <2> HIDE DEF T, o, t
  <2>3. /\ s \in Seq(T) /\ Len(s) = Len(o) + 1 /\ s[Len(o) + 1] = b
        /\ \A k \in 1..Len(o) : s[k] = o[k]
    <3>1. o \in Seq(T) /\ b \in T
      BY <2>1
    <3> QED BY ONLY <1>2, <3>1
  <2> HIDE DEF s
  <2>4. Len(s) = 2 /\ \A k \in 1..Len(s) : s[k] = t[k]
    BY <2>1, <2>2, <2>3
  <2>5. s = t
    BY <1>1, <2>2, <2>3, <2>4
  <2> QED BY <2>5 DEF s, t, o
<1>4. ASSUME NEW a, NEW b, NEW c PROVE Append(<<a, b>>, c) = <<a, b, c>>
  <2> DEFINE o == <<a, b>>
             s == Append(o, c)
             t == <<a, b, c>>
  <2>1. o \in Seq({a, b, c}) /\ Len(o) = 2 /\ o[1] = a /\ o[2] = b
    OBVIOUS
  <2> HIDE DEF o
  <2>2. s \in Seq({a, b, c}) /\ Len(s) = 3 /\ s[1] = a /\ s[2] = b /\ s[3] = c
    BY <2>1
  <2>3. t \in Seq({a, b, c}) /\ Len(t) = 3 /\ t[1] = a /\ t[2] = b /\ t[3] = c
    OBVIOUS
  <2> HIDE DEF s, t
  <2>4. \A k \in 1..Len(s) : s[k] = t[k]
    BY <2>2, <2>3
  <2>5. s = t
    BY <1>1, <2>2, <2>3, <2>4
  <2> QED BY <2>5 DEF s, t, o
<1> QED BY <1>3, <1>4

\* What the recursion says, one label at a time.
LEMMA TraceSteps ==
    ASSUME NEW hs, NEW low, NEW high, Parts(hs, low, high), NEW g, g = GraphOf(hs, low, high),
           NEW source, NEW p, Traces(p, g, source)
    PROVE  /\ p[SOURCE] = <<source>>
           /\ \A n \in g : \A l : Writes(n, l) =>
                 p[l] = IF n.scale = 0 THEN p[n.in] ELSE Append(p[n.in], n.scale)
<1> DEFINE D == {Label(made) : made \in Made(g)} \cup {SOURCE}
           writer(l) == CHOOSE node \in g : l \in ToSet(node.out)
           from(node) == IF node.scale = 0 THEN p[node.in] ELSE Append(p[node.in], node.scale)
           at(l) == IF l = SOURCE THEN <<source>> ELSE from(writer(l))
<1>1. p = [l \in D |-> at(l)]
  BY DEF Traces
<1>2. SOURCE \in D /\ at(SOURCE) = <<source>>
  OBVIOUS
<1>3. ASSUME NEW n \in g, NEW l, Writes(n, l)
      PROVE  l \in D /\ at(l) = IF n.scale = 0 THEN p[n.in] ELSE Append(p[n.in], n.scale)
  <2>1. l \in D /\ l # SOURCE /\ writer(l) = n
    BY <1>3, TraceAt
  <2> HIDE DEF D, writer
  <2> QED BY <2>1
<1> HIDE DEF D, at, writer, from
<1>4. \A l \in D : p[l] = at(l)
  BY <1>1
<1> QED BY <1>2, <1>3, <1>4

\* What each label's picture has passed through.
Trace(hs, low, high, source, l) ==
    IF l = SOURCE \/ \E h \in ToSet(high) : l = SplitLabel(h) THEN <<source>>
    ELSE IF \E h \in ToSet(low) : l = AnchorLabel(h) THEN <<source, CASCADE_FROM>>
    ELSE Through(low, source, hs[l[2] + 1])

LEMMA TraceOf ==
    ASSUME NEW hs, NEW low, NEW high, Parts(hs, low, high), NEW source
    PROVE  /\ Trace(hs, low, high, source, SOURCE) = <<source>>
           /\ \A h \in ToSet(high) : Trace(hs, low, high, source, SplitLabel(h)) = <<source>>
           /\ \A h \in ToSet(low) :
                 Trace(hs, low, high, source, AnchorLabel(h)) = <<source, CASCADE_FROM>>
           /\ \A h \in ToSet(hs) :
                 Trace(hs, low, high, source, RungLabel(Index(hs, h))) = Through(low, source, h)
<1>1. Trace(hs, low, high, source, SOURCE) = <<source>>
  BY DEF Trace
<1>2. ASSUME NEW h \in ToSet(high)
      PROVE  Trace(hs, low, high, source, SplitLabel(h)) = <<source>>
  BY DEF Trace
<1>3. ASSUME NEW h \in ToSet(low)
      PROVE  Trace(hs, low, high, source, AnchorLabel(h)) = <<source, CASCADE_FROM>>
  <2>1. /\ AnchorLabel(h) # SOURCE
        /\ ~\E x \in ToSet(high) : AnchorLabel(h) = SplitLabel(x)
    BY HeightsOf, LabelsDiffer
  <2> QED BY <2>1 DEF Trace
<1>4. ASSUME NEW h \in ToSet(hs)
      PROVE  Trace(hs, low, high, source, RungLabel(Index(hs, h))) = Through(low, source, h)
  <2> DEFINE i == Index(hs, h)
             l == RungLabel(i)
  <2>1. i \in 1..Len(hs) /\ hs[i] = h
    BY IndexOf DEF Parts
  <2> HIDE DEF i
  <2>2. i \in Int
    BY <2>1
  <2>3. /\ l # SOURCE
        /\ ~\E x \in ToSet(high) : l = SplitLabel(x)
        /\ ~\E x \in ToSet(low) : l = AnchorLabel(x)
    BY <2>2, HeightsOf, LabelsDiffer
  <2>4. l[2] + 1 = i
    BY <2>2 DEF RungLabel
  <2> HIDE DEF l
  <2>5. Trace(hs, low, high, source, l) = Through(low, source, hs[l[2] + 1])
    BY <2>3 DEF Trace
  <2> QED BY <2>1, <2>4, <2>5 DEF l, i
<1> QED BY <1>1, <1>2, <1>3, <1>4

\* That is a solution of the recursion.
LEMMA TraceSolves ==
    ASSUME NEW hs, NEW low, NEW high, Parts(hs, low, high), NEW g, g = GraphOf(hs, low, high),
           NEW source
    PROVE  \E p : Traces(p, g, source)
<1> DEFINE D == {Label(made) : made \in Made(g)} \cup {SOURCE}
           t(l) == Trace(hs, low, high, source, l)
           p == [l \in D |-> t(l)]
           writer(l) == CHOOSE node \in g : l \in ToSet(node.out)
           from(node) == IF node.scale = 0 THEN p[node.in] ELSE Append(p[node.in], node.scale)
           at(l) == IF l = SOURCE THEN <<source>> ELSE from(writer(l))
<1>1. WritesOnce(g)
  BY GraphWrites
<1>2. {Label(made) : made \in Made(g)} = Written(g)
  BY <1>1, LabelsOnce
<1>3. ASSUME NEW n \in g, NEW l, Writes(n, l)
      PROVE  l # SOURCE /\ at(l) = IF n.scale = 0 THEN p[n.in] ELSE Append(p[n.in], n.scale)
  <2>1. l # SOURCE /\ writer(l) = n
    BY <1>3, TraceAt
  <2> HIDE DEF writer, p
  <2> QED BY <2>1
<1>4. \A h \in ToSet(high) : SplitLabel(h) \in D
  <2>1. \A h \in ToSet(high) : SplitLabel(h) \in Written(g)
    BY GraphWrites
  <2> QED BY <1>2, <2>1
<1>5. \A h \in ToSet(low) : AnchorLabel(h) \in D
  <2>1. \A h \in ToSet(low) : AnchorLabel(h) \in Written(g)
    BY GraphWrites
  <2> QED BY <1>2, <2>1
<1>6. SOURCE \in D /\ at(SOURCE) = <<source>>
  OBVIOUS
<1>7. \A l \in D : l # SOURCE => \E n \in g : Writes(n, l)
  BY <1>2 DEF Written, Writes
<1>8. \A l \in D : p[l] = t(l)
  OBVIOUS
<1>9. p = [l \in D |-> p[l]]
  OBVIOUS
<1> SUFFICES ASSUME NEW l \in D PROVE p[l] = at(l)
  <2>1. p = [l \in D |-> at(l)]
    <3> HIDE DEF p
    <3> QED BY <1>9
  <2>2. Traces(p, g, source)
    BY <2>1 DEF Traces
  <2> QED BY <2>2
<1> HIDE DEF p, at, D, t, writer, from
<1>10. CASE l = SOURCE
  BY <1>6, <1>8, <1>10, TraceOf DEF t
<1>11. ASSUME NEW n \in g, Writes(n, l) PROVE p[l] = at(l)
  <2>1. at(l) = IF n.scale = 0 THEN p[n.in] ELSE Append(p[n.in], n.scale)
    BY <1>3, <1>11
  <2>2. CASE n = SplitNode(high)
    <3>1. PICK h \in ToSet(high) : l = SplitLabel(h)
      BY <1>11, <2>2, WhoWrites
    <3>2. n.scale = 0 /\ n.in = SOURCE
      BY <2>2, WhatReads
    <3>3. p[l] = <<source>> /\ p[SOURCE] = <<source>>
      BY <1>6, <1>8, <3>1, TraceOf DEF t
    <3> QED BY <2>1, <3>2, <3>3
  <2>3. ASSUME NEW h \in ToSet(high), n = ScaledNode(hs, low, h) PROVE p[l] = at(l)
    <3>1. n.scale = h /\ n.in = SplitLabel(h) /\ h # 0
      BY <2>3, WhatReads, HeightsOf
    <3>2. p[n.in] = <<source>>
      BY <1>4, <1>8, <3>1, TraceOf DEF t
    <3>3. at(l) = <<source, h>>
      BY <2>1, <3>1, <3>2, AppendedTo
    <3>4. \/ l = RungLabel(Index(hs, h))
          \/ h = CASCADE_FROM /\ \E x \in ToSet(low) : l = AnchorLabel(x)
      BY <1>11, <2>3, WhoWrites
    <3>5. CASE l = RungLabel(Index(hs, h))
      <4>1. h \in ToSet(hs) /\ h \notin ToSet(low)
        BY HeightsOf
      <4>2. t(l) = Through(low, source, h)
        BY <3>5, <4>1, TraceOf DEF t
      <4> QED BY <1>8, <3>3, <4>1, <4>2 DEF Through
    <3>6. CASE h = CASCADE_FROM /\ \E x \in ToSet(low) : l = AnchorLabel(x)
      <4>1. t(l) = <<source, CASCADE_FROM>>
        BY <3>6, TraceOf DEF t
      <4> QED BY <1>8, <3>3, <3>6, <4>1
    <3> QED BY <3>4, <3>5, <3>6
  <2>4. ASSUME NEW h \in ToSet(low), n = CascadeNode(hs, h) PROVE p[l] = at(l)
    <3>1. n.scale = h /\ n.in = AnchorLabel(h) /\ h # 0 /\ h \in ToSet(hs)
      BY <2>4, WhatReads, HeightsOf
    <3>2. p[n.in] = <<source, CASCADE_FROM>>
      BY <1>5, <1>8, <3>1, TraceOf DEF t
    <3>3. at(l) = <<source, CASCADE_FROM, h>>
      BY <2>1, <3>1, <3>2, AppendedTo
    <3>4. l = RungLabel(Index(hs, h))
      BY <1>11, <2>4, WhoWrites
    <3>5. t(l) = Through(low, source, h)
      BY <3>1, <3>4, TraceOf DEF t
    <3> QED BY <1>8, <3>3, <3>5 DEF Through
  <2> QED BY <2>2, <2>3, <2>4, NodeKinds
<1> QED BY <1>7, <1>10, <1>11

\* So a rung's picture passes through the source's height, the anchor's for a
\* low rung, and its own.
LEMMA PassedOf ==
    ASSUME NEW hs, NEW low, NEW high, Parts(hs, low, high), NEW g, g = GraphOf(hs, low, high),
           NEW source, NEW h \in ToSet(hs)
    PROVE  Passed(g, source, RungLabel(Index(hs, h))) = Through(low, source, h)
<1> DEFINE p == CHOOSE p : Traces(p, g, source)
           l == RungLabel(Index(hs, h))
<1>1. Passed(g, source, l) = p[l]
  BY DEF Passed, Traces
<1>2. Traces(p, g, source)
  BY TraceSolves
<1> HIDE DEF p
<1>3. /\ p[SOURCE] = <<source>>
      /\ \A n \in g : \A x : Writes(n, x) =>
            p[x] = IF n.scale = 0 THEN p[n.in] ELSE Append(p[n.in], n.scale)
  BY <1>2, TraceSteps
<1>4. /\ SplitNode(high) \in g
      /\ \A x \in ToSet(high) : ScaledNode(hs, low, x) \in g
      /\ \A x \in ToSet(low) : CascadeNode(hs, x) \in g
  BY DEF GraphOf
<1>5. ASSUME NEW x \in ToSet(high) PROVE p[SplitLabel(x)] = <<source>>
  <2>1. Writes(SplitNode(high), SplitLabel(x))
    BY WhoWrites
  <2>2. SplitNode(high).scale = 0 /\ SplitNode(high).in = SOURCE
    BY WhatReads
  <2> QED BY <1>3, <1>4, <2>1, <2>2
<1>6. ASSUME NEW x \in ToSet(high), NEW y, Writes(ScaledNode(hs, low, x), y)
      PROVE  p[y] = <<source, x>>
  <2>1. ScaledNode(hs, low, x).scale = x /\ ScaledNode(hs, low, x).in = SplitLabel(x) /\ x # 0
    BY WhatReads, HeightsOf
  <2>2. p[y] = Append(<<source>>, x)
    BY <1>3, <1>4, <1>5, <1>6, <2>1
  <2> QED BY <2>2, AppendedTo
<1>7. CASE h \in ToSet(high)
  <2>1. Writes(ScaledNode(hs, low, h), l)
    BY <1>7, WhoWrites
  <2>2. h \notin ToSet(low)
    BY <1>7, HeightsOf
  <2> QED BY <1>1, <1>6, <1>7, <2>1, <2>2 DEF Through
<1>8. CASE h \in ToSet(low)
  <2>1. CASCADE_FROM \in ToSet(high)
    BY <1>8 DEF Parts
  <2>2. Writes(ScaledNode(hs, low, CASCADE_FROM), AnchorLabel(h))
    BY <1>8, <2>1, WhoWrites
  <2>3. p[AnchorLabel(h)] = <<source, CASCADE_FROM>>
    BY <1>6, <2>1, <2>2
  <2>4. Writes(CascadeNode(hs, h), l)
    BY <1>8, WhoWrites
  <2>5. CascadeNode(hs, h).scale = h /\ CascadeNode(hs, h).in = AnchorLabel(h) /\ h # 0
    BY <1>8, WhatReads, HeightsOf
  <2>6. p[l] = Append(<<source, CASCADE_FROM>>, h)
    BY <1>3, <1>4, <1>8, <2>3, <2>4, <2>5
  <2> QED BY <1>1, <1>8, <2>6, AppendedTo DEF Through
<1> QED BY <1>7, <1>8, HeightsOf

\* The rungs a source gets: each once, none above the source, and even but for
\* the one of a source below all of them.
LEMMA VariantsFit ==
    ASSUME NEW h \in Nat \ {0}, NEW m \in Nat, LADDER_HEIGHTS[1] <= m,
           NEW hs, hs = variants_for(h, m)
    PROVE  /\ LadderHeights(hs)
           /\ \A x \in ToSet(hs) : x \in Nat /\ x <= h
           /\ \A x \in ToSet(hs) : x % 2 = 0 \/ (x = h /\ h < LADDER_HEIGHTS[1])
<1> DEFINE least == Min({h, m})
           rungs == Among(LADDER_HEIGHTS, 0..least)
<1>1. hs \in Seq(Nat \ {0}) /\ 1 <= Len(hs) /\ Len(hs) <= 6
  BY VariantsOf
<1>2. least \in Nat /\ least <= h /\ (LADDER_HEIGHTS[1] <= h => 360 <= least)
  <2>1. least \in {h, m} /\ \A y \in {h, m} : least <= y
    BY MinIsIn
  <2> HIDE DEF least
  <2>2. LADDER_HEIGHTS[1] = 360
    BY DEF LADDER_HEIGHTS
  <2> QED BY <2>1, <2>2
<1>3. /\ LADDER_HEIGHTS \in Seq(Nat \ {0}) /\ LADDER_HEIGHTS[1] = 360
      /\ 360 \in ToSet(LADDER_HEIGHTS)
      /\ \A x \in ToSet(LADDER_HEIGHTS) : x % 2 = 0
  BY DEF LADDER_HEIGHTS, ToSet
<1>4. Distinct(LADDER_HEIGHTS)
  BY DEF LADDER_HEIGHTS, Distinct
<1> HIDE DEF least
<1>5. /\ rungs \in Seq(Nat \ {0}) /\ ToSet(rungs) = ToSet(LADDER_HEIGHTS) \cap 0..least
      /\ Distinct(rungs)
  BY <1>3, <1>4, AmongKeeps, AmongDistinct
<1>6. \A x \in ToSet(rungs) : x \in Nat /\ x <= h /\ x % 2 = 0
  <2>1. \A x \in ToSet(rungs) : x \in ToSet(LADDER_HEIGHTS) /\ x \in 0..least
    BY <1>5
  <2> QED BY <1>2, <1>3, <2>1
<1>7. CASE rungs = <<>>
  <2>1. hs = <<h>>
    BY <1>7 DEF variants_for, least
  <2>2. ToSet(hs) = {h} /\ Distinct(hs)
    BY <2>1 DEF ToSet, Distinct
  <2>3. h < 360
    <3>1. 360 \notin ToSet(rungs)
      BY <1>7 DEF ToSet
    <3>2. ~(360 <= least)
      BY <1>2, <1>3, <1>5, <3>1
    <3> QED BY <1>2, <1>3, <3>2
  <2> QED BY <1>1, <1>3, <2>2, <2>3 DEF LadderHeights
<1>8. CASE rungs # <<>>
  <2> DEFINE top == ToSet(rungs) \ (ONLY_AS_TOP_RUNG \ {Last(rungs)})
             kept == Among(rungs, top)
  <2>1. hs = kept
    BY <1>8 DEF variants_for, least
  <2> HIDE DEF rungs, top
  <2>2. ToSet(kept) = ToSet(rungs) \cap top /\ Distinct(kept)
    BY <1>5, AmongKeeps, AmongDistinct
  <2> HIDE DEF kept
  <2> QED BY <1>1, <1>6, <2>1, <2>2 DEF LadderHeights
<1> QED BY <1>7, <1>8

\* A mapped rung passes through the source's height at first, its own at last,
\* and is never scaled up when none of the ladder is above the source.
NoneAbove(hs, source) == source \in Nat /\ \A x \in ToSet(hs) : x <= source
NeverUp(p) == \A j \in 1..(Len(p) - 1) : p[j] >= p[j + 1]
LEMMA MappedPasses ==
    ASSUME NEW hs, LadderHeights(hs), NEW c, c = build_ladder_command(hs), NEW source,
           NEW k \in 1..Len(hs), NEW p, p = Passed(c.graph, source, c.maps[k].label)
    PROVE  /\ Last(p) = hs[k]
           /\ NoneAbove(hs, source) => NeverUp(p)
<1>1. PICK low, high : Parts(hs, low, high) /\ ladder_filter(hs) = GraphOf(hs, low, high)
  BY LadderParts
<1> DEFINE g == c.graph
           h == hs[k]
<1>2. g = GraphOf(hs, low, high)
  BY <1>1 DEF build_ladder_command
<1>3. c.maps[k].label = RungLabel(k)
  BY MapsOf
<1>4. hs \in Seq(Nat \ {0})
  BY DEF LadderHeights
<1>5. h \in ToSet(hs) /\ Index(hs, h) = k
  BY <1>4, ElementOf, IndexOf
<1>6. p = Through(low, source, h)
  <2> HIDE DEF g, h
  <2>1. p = Passed(g, source, RungLabel(Index(hs, h)))
    BY <1>3, <1>5 DEF g
  <2> QED BY <1>1, <1>2, <1>5, <2>1, PassedOf
<1> HIDE DEF h
<1>7. \A x \in ToSet(hs) : x \in Int
  BY <1>4, ElementOf
<1>8. CASE h \in ToSet(low)
  <2>1. p = <<source, CASCADE_FROM, h>>
    BY <1>6, <1>8 DEF Through
  <2>2. Len(p) = 3 /\ p[1] = source /\ p[2] = CASCADE_FROM /\ p[3] = h
    BY <2>1
  <2>3. CASCADE_FROM \in ToSet(hs) /\ h < CASCADE_FROM
    BY <1>1, <1>8 DEF Parts
  <2>4. Last(p) = hs[k]
    BY <2>2 DEF Last, h
  <2>5. ASSUME source \in Nat, \A x \in ToSet(hs) : x <= source, NEW j \in 1..(Len(p) - 1)
        PROVE  p[j] >= p[j + 1]
    <3>1. j = 1 \/ j = 2
      BY <2>2, <2>5
    <3>2. source >= CASCADE_FROM /\ CASCADE_FROM >= h
      BY <1>5, <1>7, <2>3, <2>5
    <3> QED BY <2>2, <3>1, <3>2
  <2> QED BY <2>4, <2>5 DEF NoneAbove, NeverUp
<1>9. CASE h \notin ToSet(low)
  <2>1. p = <<source, h>>
    BY <1>6, <1>9 DEF Through
  <2>2. Len(p) = 2 /\ p[1] = source /\ p[2] = h
    BY <2>1
  <2>4. Last(p) = hs[k]
    BY <2>2 DEF Last, h
  <2>5. ASSUME source \in Nat, \A x \in ToSet(hs) : x <= source, NEW j \in 1..(Len(p) - 1)
        PROVE  p[j] >= p[j + 1]
    <3>1. j = 1
      BY <2>2, <2>5
    <3>2. source >= h
      BY <1>5, <1>7, <2>5
    <3> QED BY <2>2, <3>1, <3>2
  <2> QED BY <2>4, <2>5 DEF NoneAbove, NeverUp
<1> QED BY <1>8, <1>9

\* FFmpeg takes the command of a ladder whose rungs are even, for a source
\* with sound.
LEMMA Encodes ==
    ASSUME NEW hs, LadderHeights(hs), NEW c, c = build_ladder_command(hs), NEW source, NEW sound,
           \A x \in ToSet(hs) : x % 2 = 0, sound
    PROVE  LadderEncodes(c, source, sound)
<1>1. GraphIsAccepted(c.graph, c.maps)
  BY GraphAccepted
<1>2. DOMAIN c.maps = 1..Len(hs)
  BY MapsOf
<1>3. ASSUME NEW k \in 1..Len(hs)
      PROVE  Last(Passed(c.graph, source, c.maps[k].label)) % 2 = 0
  <2> DEFINE p == Passed(c.graph, source, c.maps[k].label)
  <2>1. Last(p) = hs[k]
    <3>1. p = Passed(c.graph, source, c.maps[k].label)
      OBVIOUS
    <3> HIDE DEF p
    <3>2. /\ LadderHeights(hs) /\ c = build_ladder_command(hs)
          /\ k \in 1..Len(hs) /\ p = Passed(c.graph, source, c.maps[k].label)
      BY <3>1
    <3> QED BY ONLY <3>2, MappedPasses
  <2>2. hs[k] \in ToSet(hs)
    BY ElementOf DEF LadderHeights
  <2> QED BY <2>1, <2>2
<1> QED BY <1>1, <1>2, <1>3 DEF LadderEncodes

\* Its directories, streams and the playlist it is listed with agree.
LEMMA ListedAs ==
    ASSUME NEW hs, LadderHeights(hs), NEW c, c = build_ladder_command(hs),
           NEW peaks, NEW audible, NEW rate,
           NEW w, w = label_frame_rates(write_master(hs, peaks, audible), rate)
    PROVE  /\ Len(c.maps) + 1 = Len(c.streams)
           /\ {w[k].n : k \in DOMAIN w} = c.dirs
           /\ \A k \in 1..Len(hs) : w[k].height = hs[k]
<1>1. hs \in Seq(Nat) /\ DOMAIN hs = 1..Len(hs) /\ Len(hs) \in Nat
  BY DEF LadderHeights
<1>2. c.dirs = 0..Len(hs) /\ Len(c.maps) = Len(hs)
  BY MapsOf DEF build_ladder_command
<1>3. Len(c.streams) = Len(hs) + 1
  <2> DEFINE video_ == [k \in DOMAIN hs |-> "video"]
             audio == <<"audio">>
  <2>1. c.streams = video_ \o audio
    BY DEF build_ladder_command
  <2>2. video_ \in [1..Len(hs) -> {"video", "audio"}] /\ audio \in Seq({"video", "audio"})
        /\ Len(audio) = 1
    BY <1>1
  <2> HIDE DEF video_, audio
  <2>3. video_ \in Seq({"video", "audio"}) /\ Len(video_) = Len(hs)
    BY <1>1, <2>2, ListIsSequence
  <2>4. Len(video_ \o audio) = Len(video_) + Len(audio)
    <3> DEFINE T == {"video", "audio"}
    <3>1. video_ \in Seq(T) /\ audio \in Seq(T)
      BY <2>2, <2>3
    <3> HIDE DEF T
    <3> QED BY ONLY <3>1
  <2> QED BY <2>1, <2>2, <2>3, <2>4
<1>4. /\ DOMAIN w = 1..(Len(hs) + 1)
      /\ \A k \in 1..Len(hs) : w[k].n = k - 1 /\ w[k].height = hs[k]
      /\ w[Len(hs) + 1].n = Len(hs)
  BY <1>1, FirstMaster
<1>5. \A k \in 1..(Len(hs) + 1) : w[k].n = k - 1
  <2> DEFINE n == Len(hs)
  <2>1. n \in Nat /\ (\A k \in 1..n : w[k].n = k - 1) /\ w[n + 1].n = n
    BY <1>1, <1>4
  <2> HIDE DEF n
  <2>2. \A k \in 1..(n + 1) : w[k].n = k - 1
    BY <2>1
  <2> QED BY <2>2 DEF n
<1>6. {w[k].n : k \in DOMAIN w} = 0..Len(hs)
  <2>1. \A k \in 1..(Len(hs) + 1) : k - 1 \in 0..Len(hs)
    BY <1>1
  <2>2. \A i \in 0..Len(hs) : i + 1 \in 1..(Len(hs) + 1) /\ (i + 1) - 1 = i
    BY <1>1
  <2>3. \A i \in 0..Len(hs) : \E k \in DOMAIN w : w[k].n = i
    BY <1>4, <1>5, <2>2
  <2> QED BY <1>4, <1>5, <2>1, <2>3
<1> QED BY <1>2, <1>3, <1>4, <1>6

\* A ladder fails for a reason: a source without sound, one below every rung
\* and of odd height, or trouble that is counted.
FailFact ==
    /\ budget = [stops |-> budget.stops, crashes |-> budget.crashes, troubles |-> budget.troubles]
    /\ budget.troubles \in Nat /\ budget.troubles <= MaxTroubles
    /\ phase = "failed" => \/ ~video.sound
                           \/ video.height < LADDER_HEIGHTS[1] /\ video.height % 2 = 1
                           \/ budget.troubles < MaxTroubles

\* A step leaves the budget alone or spends from it.
LEMMA WhatSpends ==
    ASSUME Next
    PROVE  UNCHANGED budget \/ \E what \in {"stops", "crashes", "troubles"} : Spend(what)
<1>1. CASE Ladder
  BY <1>1 DEF Ladder, EncodeMp4, PlanLadder, EncodeLadder, UploadLadder, RecordLadder, LadderBreaks,
     RunHooks
<1>2. CASE Play \/ DeleteVideo \/ MinutePasses
  BY <1>2 DEF Play, DeleteVideo, MinutePasses
<1>3. ASSUME NEW w \in Workers, Begin(w) \/ Step(w) \/ Raises(w) \/ SigTerm(w) \/ Killed(w)
      PROVE  UNCHANGED budget \/ \E what \in {"stops", "crashes", "troubles"} : Spend(what)
  BY <1>3 DEF Step, Begin, CheckStop, TakeLock, Register, ProcessEnds, Unregister, UploadPlaylist,
     UploadMedia, TakeMasterLock, ReadMaster, WriteMaster, AlarmBreaks, Raises, SigTerm, Killed
<1> QED BY <1>1, <1>2, <1>3 DEF Next

\* Only a ladder that is encoded or uploaded fails.
LEMMA WhoFails ==
    ASSUME Next, phase' = "failed"
    PROVE  phase = "failed" \/ EncodeLadder \/ LadderBreaks
<1>1. CASE Ladder
  BY <1>1 DEF Ladder, EncodeMp4, PlanLadder, UploadLadder, RecordLadder, RunHooks, ladderVars
<1>2. CASE Play \/ DeleteVideo \/ MinutePasses
  BY <1>2 DEF Play, DeleteVideo, MinutePasses, ladderVars
<1>3. ASSUME NEW w \in Workers, Begin(w) \/ Step(w) \/ Raises(w) \/ SigTerm(w) \/ Killed(w)
      PROVE  phase' = phase
  BY <1>3 DEF Step, Begin, CheckStop, TakeLock, Register, ProcessEnds, Unregister, UploadPlaylist,
     UploadMedia, TakeMasterLock, ReadMaster, WriteMaster, AlarmBreaks, Raises, SigTerm, Killed,
     runVars, ladderVars
<1> QED BY <1>1, <1>2, <1>3 DEF Next

\* The reason stays.
LEMMA FailStep ==
    ASSUME MAX_HEIGHT \in Nat, LADDER_HEIGHTS[1] <= MAX_HEIGHT, Inv, FailFact, [Next]_vars
    PROVE  FailFact'
<1>1. CASE UNCHANGED vars
  BY <1>1 DEF vars, ladderVars, FailFact
<1>2. CASE Next
  <2>1. video' = video
    BY <1>2, WhatMoves
  <2>2. /\ budget' = [stops |-> budget'.stops, crashes |-> budget'.crashes,
                      troubles |-> budget'.troubles]
        /\ budget'.troubles \in Nat /\ budget'.troubles <= budget.troubles
        /\ Spend("troubles") => budget'.troubles < budget.troubles
    <3>1. CASE UNCHANGED budget
      BY <3>1 DEF FailFact, Spend
    <3>2. ASSUME NEW what \in {"stops", "crashes", "troubles"}, Spend(what)
          PROVE  /\ budget' = [stops |-> budget'.stops, crashes |-> budget'.crashes,
                               troubles |-> budget'.troubles]
                 /\ budget'.troubles \in Nat /\ budget'.troubles <= budget.troubles
                 /\ Spend("troubles") => budget'.troubles < budget.troubles
      <4> DEFINE left == budget[what] - 1
      <4>1. /\ budget[what] > 0 /\ budget' = [budget EXCEPT ![what] = left]
            /\ budget = [stops |-> budget.stops, crashes |-> budget.crashes,
                         troubles |-> budget.troubles]
            /\ budget.troubles \in Nat
        BY <3>2 DEF Spend, FailFact
      <4> HIDE DEF left
      <4>2. budget' = [stops |-> budget'.stops, crashes |-> budget'.crashes,
                       troubles |-> budget'.troubles]
        BY <4>1
      <4>3. CASE what = "troubles"
        <5>1. budget'.troubles = budget.troubles - 1 /\ budget.troubles > 0
          BY <4>1, <4>3 DEF left
        <5> QED BY <4>1, <4>2, <5>1
      <4>4. CASE what # "troubles"
        <5>1. budget'.troubles = budget.troubles
          BY <4>1, <4>4
        <5>2. Spend("troubles") => budget'.troubles = budget.troubles - 1
          BY <4>1 DEF Spend
        <5> QED BY <4>1, <4>2, <5>1, <5>2
      <4> QED BY <4>3, <4>4
    <3> QED BY <1>2, <3>1, <3>2, WhatSpends
  <2>3. budget.troubles \in Nat /\ budget.troubles <= MaxTroubles /\ MaxTroubles \in Nat
    BY RenditionsAssumption DEF FailFact
  <2>4. ASSUME phase' = "failed"
        PROVE  \/ ~video.sound
               \/ video.height < LADDER_HEIGHTS[1] /\ video.height % 2 = 1
               \/ budget'.troubles < MaxTroubles
    <3>1. CASE phase = "failed"
      BY <2>2, <2>3, <3>1 DEF FailFact
    <3>2. CASE LadderBreaks
      BY <2>2, <2>3, <3>2 DEF LadderBreaks
    <3>3. CASE EncodeLadder
      <4> DEFINE hs == variants_for(video.height, MAX_HEIGHT)
                 c == build_ladder_command(hs)
      <4>1. ~LadderEncodes(c, video.height, video.sound)
        BY <2>4, <3>3 DEF EncodeLadder
      <4>2. video.height \in Nat \ {0}
        BY RenditionsAssumption DEF Inv, Typed
      <4>3. /\ LadderHeights(hs)
            /\ \A x \in ToSet(hs) :
                  x % 2 = 0 \/ (x = video.height /\ video.height < LADDER_HEIGHTS[1])
        BY <4>2, VariantsFit
      <4>4. ~video.sound \/ \E x \in ToSet(hs) : x % 2 # 0
        <5> HIDE DEF hs
        <5>1. c = build_ladder_command(hs)
          OBVIOUS
        <5> HIDE DEF c
        <5> QED BY <4>1, <4>3, <5>1, Encodes
      <4>5. video.height % 2 # 0 => video.height % 2 = 1
        BY <4>2
      <4> QED BY <4>3, <4>4, <4>5
    <3> QED BY <1>2, <2>4, <3>1, <3>2, <3>3, WhoFails
  <2> QED BY <2>1, <2>2, <2>3, <2>4 DEF FailFact
<1> QED BY <1>1, <1>2

\* The property follows.
LEMMA FailFactSuffices ==
    ASSUME MAX_HEIGHT \in Nat, LADDER_HEIGHTS[1] <= MAX_HEIGHT, Inv, FailFact
    PROVE  LadderIsWellFormed
<1> DEFINE hs == variants_for(video.height, MAX_HEIGHT)
           w == LadderMaster
<1>1. phase = "failed" => \/ ~video.sound
                          \/ video.height < LADDER_HEIGHTS[1] /\ video.height % 2 = 1
                          \/ budget.troubles < MaxTroubles
  BY DEF FailFact
<1>2. video.height \in Nat \ {0}
  BY RenditionsAssumption DEF Inv, Typed
<1>3. LadderHeights(hs) /\ \A x \in ToSet(hs) : x \in Nat /\ x <= video.height
  BY <1>2, VariantsFit
<1>4. phase = "upload" => ladder = build_ladder_command(hs)
  BY DEF Inv, LadderFact
<1>5. PICK peaks, audible, rate : w = label_frame_rates(write_master(hs, peaks, audible), rate)
  BY DEF LadderMaster
<1> HIDE DEF hs, w
<1>6. ASSUME phase = "upload"
      PROVE  /\ Len(ladder.maps) + 1 = Len(ladder.streams)
             /\ {w[k].n : k \in DOMAIN w} = ladder.dirs
             /\ \A k \in DOMAIN ladder.maps :
                   LET passed == Passed(ladder.graph, video.height, ladder.maps[k].label)
                   IN  /\ Last(passed) = w[k].height
                       /\ \A j \in 1..(Len(passed) - 1) : passed[j] >= passed[j + 1]
  <2>1. /\ Len(ladder.maps) + 1 = Len(ladder.streams)
        /\ {w[k].n : k \in DOMAIN w} = ladder.dirs
        /\ \A k \in 1..Len(hs) : w[k].height = hs[k]
    BY <1>3, <1>4, <1>5, <1>6, ListedAs
  <2>2. DOMAIN ladder.maps = 1..Len(hs)
    BY <1>3, <1>4, <1>6, MapsOf
  <2>3. ASSUME NEW k \in 1..Len(hs), NEW p,
               p = Passed(ladder.graph, video.height, ladder.maps[k].label)
        PROVE  Last(p) = w[k].height /\ \A j \in 1..(Len(p) - 1) : p[j] >= p[j + 1]
    <3>1. NoneAbove(hs, video.height)
      BY <1>2, <1>3 DEF NoneAbove
    <3>2. Last(p) = hs[k] /\ (NoneAbove(hs, video.height) => NeverUp(p))
      BY <1>3, <1>4, <1>6, <2>3, MappedPasses
    <3> QED BY <2>1, <3>1, <3>2 DEF NeverUp
  <2> QED BY <2>1, <2>2, <2>3
<1> QED BY <1>1, <1>6 DEF LadderIsWellFormed, hs, w

\* FFmpeg takes the ladder's command for every source but a silent one and one
\* of odd height below every rung, so a ladder fails only for these or for
\* trouble; and what is uploaded has a directory and a stream for every map,
\* each rung at the height the playlist says, never scaled up (_ladder_filter,
\* build_ladder_command, write_master).  The tallest rung asked for has to be a
\* rung at all: with MAX_HEIGHT below the shortest a source of any odd height
\* would be encoded at its own.
THEOREM LadderWellFormed ==
    ASSUME MAX_HEIGHT \in Nat, LADDER_HEIGHTS[1] <= MAX_HEIGHT
    PROVE  Spec => []LadderIsWellFormed
<1>1. Init => FailFact
  BY RenditionsAssumption DEF Init, FailFact
<1>2. Inv /\ FailFact /\ [Next]_vars => FailFact'
  BY FailStep
<1>3. Inv /\ FailFact => LadderIsWellFormed
  BY FailFactSuffices
<1> QED BY <1>1, <1>2, <1>3, Invariant, PTL DEF Spec

----------------------------------------------------------------------------
(* The pieces join as one encode.                                           *)

\* What a rate is, and a timeline whose frames are more than a millisecond
\* apart, the first not before the file's start, the last not after its end.
IsRate(r) == r \in Nat \X (Nat \ {0})
Regular(tl) ==
    /\ tl.tb \in Nat \ {0} /\ tl.end \in Nat /\ IsRate(tl.rate)
    /\ tl.ticks \in Seq(Nat)
    /\ \A i, j \in DOMAIN tl.ticks : i < j => 1000 * tl.ticks[j] > 1000 * tl.ticks[i] + tl.tb
    /\ \A i \in DOMAIN tl.ticks : tl.ticks[i] <= tl.end

\* Later is no earlier output frame.
LEMMA OutputTicks ==
    ASSUME NEW tb \in Nat \ {0}, NEW rate, IsRate(rate), NEW a \in Nat, NEW b \in Nat, a <= b
    PROVE  /\ output_tick(a, tb, rate) \in Nat /\ output_tick(b, tb, rate) \in Nat
           /\ output_tick(a, tb, rate) <= output_tick(b, tb, rate)
<1> DEFINE num == rate[1]
           den == rate[2]
           d == 2 * tb * den
           x == 2 * a * num + tb * den
           y == 2 * b * num + tb * den
<1>1. num \in Nat /\ den \in Nat \ {0}
  BY DEF IsRate
<1> HIDE DEF num, den
<1>2. d \in Nat \ {0} /\ x \in Nat /\ y \in Nat
  BY <1>1
<1>3. x <= y
  <2>1. PICK k \in Nat : b = a + k
    <3>1. b - a \in Nat /\ b = a + (b - a)
      OBVIOUS
    <3> QED BY <3>1
  <2>2. 2 * b * num = 2 * a * num + 2 * k * num /\ 2 * k * num >= 0
    BY <1>1, <2>1
  <2>3. 2 * a * num \in Int /\ 2 * b * num \in Int /\ 2 * k * num \in Int /\ tb * den \in Int
    BY <1>1
  <2> QED BY <2>2, <2>3
<1>4. /\ output_tick(a, tb, rate) = x \div d
      /\ output_tick(b, tb, rate) = y \div d
  BY DEF output_tick, num, den
<1> HIDE DEF d, x, y
<1>5. 0 \div d = 0
  <2> DEFINE q == 0 \div d
  <2>1. q \in Int /\ d * q <= 0 /\ 0 < d * (q + 1)
    BY <1>2, DivBounds
  <2> HIDE DEF q
  <2>2. q = 0
    <3>1. q <= 0
      <4>1. d * q < d * (0 + 1)
        BY <1>2, <2>1
      <4> QED BY <1>2, <2>1, <4>1, LeastQuotient
    <3>2. 0 <= q
      <4>1. d * 0 < d * (q + 1)
        BY <1>2, <2>1
      <4> QED BY <1>2, <2>1, <4>1, LeastQuotient
    <3> QED BY <2>1, <3>1, <3>2
  <2> QED BY <2>2 DEF q
<1>6. x \div d \in Int /\ y \div d \in Int /\ 0 \div d <= x \div d /\ x \div d <= y \div d
  BY <1>2, <1>3, DivBounds, DivMonotone
<1> QED BY <1>4, <1>5, <1>6

\* The output frames of a timeline's frames, in order; the end's is the last.
EndTick(tl, rate) == output_tick(tl.end, tl.tb, rate)
LEMMA TicksOf ==
    ASSUME NEW tl, Regular(tl), NEW rate, IsRate(rate)
    PROVE  /\ EndTick(tl, rate) \in Nat
           /\ \A i \in DOMAIN tl.ticks : /\ TickOf(tl, i, rate) \in Nat
                                         /\ TickOf(tl, i, rate) <= EndTick(tl, rate)
           /\ \A i, j \in DOMAIN tl.ticks :
                 i <= j => /\ tl.ticks[i] <= tl.ticks[j]
                           /\ TickOf(tl, i, rate) <= TickOf(tl, j, rate)
<1>1. /\ tl.tb \in Nat \ {0} /\ tl.end \in Nat /\ tl.ticks \in Seq(Nat)
      /\ \A i \in DOMAIN tl.ticks : tl.ticks[i] \in Nat /\ tl.ticks[i] <= tl.end
      /\ \A i \in DOMAIN tl.ticks : i \in Nat
  BY DEF Regular
<1>2. EndTick(tl, rate) \in Nat
  <2>1. tl.end <= tl.end
    BY <1>1
  <2> QED BY <1>1, <2>1, OutputTicks DEF EndTick
<1>3. ASSUME NEW i \in DOMAIN tl.ticks
      PROVE  TickOf(tl, i, rate) \in Nat /\ TickOf(tl, i, rate) <= EndTick(tl, rate)
  BY <1>1, OutputTicks DEF EndTick, TickOf
<1>4. ASSUME NEW i \in DOMAIN tl.ticks, NEW j \in DOMAIN tl.ticks, i <= j
      PROVE  tl.ticks[i] <= tl.ticks[j] /\ TickOf(tl, i, rate) <= TickOf(tl, j, rate)
  <2> DEFINE a == tl.ticks[i]
             b == tl.ticks[j]
  <2>1. a \in Nat /\ b \in Nat
    BY <1>1
  <2>2. a <= b
    <3>1. i < j => 1000 * b > 1000 * a + tl.tb
      BY DEF Regular
    <3>2. i = j => a = b
      OBVIOUS
    <3> HIDE DEF a, b
    <3>3. i < j \/ i = j
      BY <1>1, <1>4
    <3>4. tl.tb > 0 /\ tl.tb \in Nat
      BY <1>1
    <3> QED BY <2>1, <3>1, <3>2, <3>3, <3>4
  <2> HIDE DEF a, b
  <2>3. output_tick(a, tl.tb, rate) <= output_tick(b, tl.tb, rate)
    BY <1>1, <2>1, <2>2, OutputTicks
  <2> QED BY <2>2, <2>3 DEF TickOf, a, b
<1> QED BY <1>2, <1>3, <1>4

\* The frame an output frame shows, and the output frames from one to another.
Latest(tl, rate, t) == Max({i \in DOMAIN tl.ticks : TickOf(tl, i, rate) <= t})
Shows(tl, rate, from, to) == [n \in 1..(to - from) |-> Latest(tl, rate, from + n - 1)]

\* The rate filter on the frames from one on shows what it shows on all.
LEMMA FilterShows ==
    ASSUME NEW tl, Regular(tl), NEW rate, IsRate(rate), NEW s \in DOMAIN tl.ticks
    PROVE  FpsFilter(tl, s..Len(tl.ticks), 0, rate)
              = Shows(tl, rate, TickOf(tl, s, rate), EndTick(tl, rate))
<1> DEFINE N == Len(tl.ticks)
           input == s..N
           u == TickOf(tl, s, rate)
           E == EndTick(tl, rate)
           moved(i) == output_tick(tl.ticks[i] + 0, tl.tb, rate)
<1>1. /\ N \in Nat /\ DOMAIN tl.ticks = 1..N /\ s \in Nat /\ 1 <= s /\ s <= N
      /\ \A i \in DOMAIN tl.ticks : tl.ticks[i] \in Nat
      /\ tl.end \in Nat
  BY DEF Regular
<1>2. u \in Nat /\ E \in Nat /\ u <= E
  BY TicksOf
<1>3. input \in SUBSET Int /\ s \in input /\ \A i \in input : s <= i /\ i \in DOMAIN tl.ticks
  <2> HIDE DEF N
  <2> QED BY <1>1
<1>4. Min(input) = s
  <2> HIDE DEF input
  <2> QED BY <1>3, MinIs
<1>5. \A i \in DOMAIN tl.ticks : moved(i) = TickOf(tl, i, rate)
  <2> SUFFICES ASSUME NEW i \in DOMAIN tl.ticks PROVE moved(i) = TickOf(tl, i, rate)
    OBVIOUS
  <2>1. tl.ticks[i] + 0 = tl.ticks[i]
    BY <1>1
  <2> QED BY <2>1 DEF TickOf
<1>6. output_tick(tl.end + 0, tl.tb, rate) = E
  <2>1. tl.end + 0 = tl.end
    BY <1>1
  <2> QED BY <2>1 DEF EndTick
<1>7. Max({0, E - u}) = E - u
  <2> HIDE DEF E, u
  <2>1. {0, E - u} \in SUBSET Int /\ E - u \in {0, E - u} /\ \A y \in {0, E - u} : y <= E - u
    BY <1>2
  <2> QED BY <2>1, MaxIs
<1>8. ASSUME NEW n \in 1..(E - u)
      PROVE  Max({i \in input : moved(i) <= u + n - 1}) = Latest(tl, rate, u + n - 1)
  <2> DEFINE t == u + n - 1
             few == {i \in input : moved(i) <= t}
             all == {i \in DOMAIN tl.ticks : TickOf(tl, i, rate) <= t}
             m == Max(all)
  <2>1. u <= t
    <3> HIDE DEF u, E
    <3> QED BY <1>2
  <2>2. few \subseteq all
    <3> HIDE DEF input, moved, t
    <3> QED BY <1>3, <1>5
  <2>3. all \in SUBSET Nat /\ s \in all /\ \A y \in all : y <= N
    <3> HIDE DEF N, t
    <3> QED BY <1>1, <2>1
  <2>4. m \in all /\ \A y \in all : y <= m
    <3> HIDE DEF all, N
    <3>1. all # {}
      BY <2>3
    <3> QED BY <1>1, <2>3, <3>1, MaxIsIn
  <2>5. m \in few
    <3>1. m \in DOMAIN tl.ticks /\ TickOf(tl, m, rate) <= t /\ s <= m
      <4>1. s <= m
        <5> HIDE DEF all, m
        <5> QED BY <2>3, <2>4
      <4> HIDE DEF m, t
      <4> QED BY <2>4, <4>1
    <3> HIDE DEF m
    <3>2. m \in input
      <4> HIDE DEF N
      <4> QED BY <1>1, <3>1
    <3> HIDE DEF input, moved, t
    <3> QED BY <1>5, <3>1, <3>2
  <2>6. Max(few) = m
    <3> HIDE DEF few, all, m
    <3>1. few \in SUBSET Int /\ \A y \in few : y <= m
      BY <2>2, <2>3, <2>4
    <3> QED BY <2>5, <3>1, MaxIs
  <2> QED BY <2>6 DEF Latest
<1>9. FpsFilter(tl, input, 0, rate)
        = [n \in 1..Max({0, output_tick(tl.end + 0, tl.tb, rate) - moved(Min(input))}) |->
              Max({i \in input : moved(i) <= moved(Min(input)) + n - 1})]
  BY DEF FpsFilter
<1>10. moved(Min(input)) = u
  <2> HIDE DEF moved, input
  <2> QED BY <1>4, <1>5
<1> HIDE DEF moved, input, u, E
<1>11. FpsFilter(tl, input, 0, rate) = [n \in 1..(E - u) |-> Max({i \in input : moved(i) <= u + n - 1})]
  BY <1>6, <1>7, <1>9, <1>10
<1>12. FpsFilter(tl, input, 0, rate) = [n \in 1..(E - u) |-> Latest(tl, rate, u + n - 1)]
  BY <1>8, <1>11
<1> QED BY <1>12 DEF Shows, u, E, input

\* The seek of a piece yields the frames from its first on.
LEMMA SeekFrom ==
    ASSUME NEW tl, Regular(tl), NEW s \in DOMAIN tl.ticks
    PROVE  Seek(tl, tl.ticks[s]) = s..Len(tl.ticks) /\ Min(s..Len(tl.ticks)) = s
<1> DEFINE N == Len(tl.ticks)
<1>1. /\ N \in Nat /\ DOMAIN tl.ticks = 1..N /\ s \in Nat /\ 1 <= s /\ s <= N
      /\ tl.tb \in Nat /\ tl.tb > 0 /\ \A i \in DOMAIN tl.ticks : tl.ticks[i] \in Nat
  BY DEF Regular
<1>2. ASSUME NEW i \in DOMAIN tl.ticks
      PROVE  1000 * tl.ticks[i] >= 1000 * tl.ticks[s] - tl.tb <=> s <= i
  <2> DEFINE a == tl.ticks[i]
             b == tl.ticks[s]
             tb == tl.tb
  <2>1. a \in Nat /\ b \in Nat /\ tb \in Nat /\ tb > 0 /\ i \in Nat
    BY <1>1
  <2>2. (i < s => 1000 * b > 1000 * a + tb) /\ (s < i => 1000 * a > 1000 * b + tb) /\ (i = s => a = b)
    BY DEF Regular
  <2> HIDE DEF a, b, tb
  <2>3. 1000 * a >= 1000 * b - tb <=> s <= i
    <3>1. i < s \/ i = s \/ s < i
      BY <1>1, <2>1
    <3> QED BY <1>1, <2>1, <2>2, <3>1
  <2> QED BY <2>3 DEF a, b, tb
<1>3. Seek(tl, tl.ticks[s]) = {i \in DOMAIN tl.ticks : s <= i}
  BY <1>2 DEF Seek
<1>4. {i \in DOMAIN tl.ticks : s <= i} = s..N
  <2> HIDE DEF N
  <2> QED BY <1>1
<1>5. s..N \in SUBSET Int /\ s \in s..N /\ \A i \in s..N : s <= i
  <2> HIDE DEF N
  <2> QED BY <1>1
<1>6. Min(s..N) = s
  <2> HIDE DEF N
  <2> QED BY <1>5, MinIs
<1> QED BY <1>3, <1>4, <1>6

\* What is shown from one output frame to another, and on to a third.
LEMMA ShowsJoin ==
    ASSUME NEW tl, NEW rate, NEW u \in Nat, NEW v \in Nat, NEW w \in Nat, u <= v, v <= w
    PROVE  /\ Shows(tl, rate, u, v) \o Shows(tl, rate, v, w) = Shows(tl, rate, u, w)
           /\ Shows(tl, rate, u, u) = <<>>
<1> DEFINE T == {Latest(tl, rate, t) : t \in Nat}
           a == Shows(tl, rate, u, v)
           b == Shows(tl, rate, v, w)
           c == Shows(tl, rate, u, w)
<1>1. \A t \in Nat : Latest(tl, rate, t) \in T
  OBVIOUS
<1> HIDE DEF T
<1>2. ASSUME NEW x \in Nat, NEW y \in Nat, x <= y
      PROVE  /\ Shows(tl, rate, x, y) \in Seq(T) /\ Len(Shows(tl, rate, x, y)) = y - x
             /\ \A n \in 1..(y - x) : Shows(tl, rate, x, y)[n] = Latest(tl, rate, x + n - 1)
  <2> DEFINE s == Shows(tl, rate, x, y)
             k == y - x
  <2>1. k \in Nat
    BY <1>2
  <2>2. s = [n \in 1..k |-> Latest(tl, rate, x + n - 1)]
    BY DEF Shows
  <2> HIDE DEF s, k
  <2>3. \A n \in 1..k : x + n - 1 \in Nat
    BY <2>1
  <2>4. s \in [1..k -> T]
    BY <1>1, <2>2, <2>3
  <2>5. s \in Seq(T) /\ Len(s) = k
    BY <2>1, <2>4, ListIsSequence
  <2>6. \A n \in 1..k : s[n] = Latest(tl, rate, x + n - 1)
    BY <2>2
  <2> QED BY <2>5, <2>6 DEF s, k
<1>3. /\ a \in Seq(T) /\ Len(a) = v - u
      /\ \A n \in 1..(v - u) : a[n] = Latest(tl, rate, u + n - 1)
  BY <1>2
<1>4. /\ b \in Seq(T) /\ Len(b) = w - v
      /\ \A n \in 1..(w - v) : b[n] = Latest(tl, rate, v + n - 1)
  BY <1>2
<1>5. u <= w
  OBVIOUS
<1>6. /\ c \in Seq(T) /\ Len(c) = w - u
      /\ \A n \in 1..(w - u) : c[n] = Latest(tl, rate, u + n - 1)
  BY <1>2, <1>5
<1> HIDE DEF a, b, c
<1>7. /\ a \o b \in Seq(T) /\ Len(a \o b) = w - u
      /\ \A n \in 1..(w - u) :
            (a \o b)[n] = IF n <= v - u THEN a[n] ELSE b[n - (v - u)]
  <2> DEFINE k == v - u
             l == w - v
  <2>1. /\ k \in Nat /\ l \in Nat /\ w - u = k + l
        /\ a \in Seq(T) /\ Len(a) = k /\ b \in Seq(T) /\ Len(b) = l
    BY <1>3, <1>4
  <2> HIDE DEF k, l
  <2>2. /\ a \o b \in Seq(T) /\ Len(a \o b) = k + l
        /\ \A n \in 1..(k + l) : (a \o b)[n] = IF n <= k THEN a[n] ELSE b[n - k]
    BY <2>1
  <2> QED BY <2>1, <2>2 DEF k
<1>8. ASSUME NEW n \in 1..(w - u) PROVE (a \o b)[n] = c[n]
  <2>1. CASE n <= v - u
    <3>1. n \in 1..(v - u)
      BY <2>1
    <3> QED BY <1>3, <1>6, <1>7, <2>1, <3>1
  <2>2. CASE ~(n <= v - u)
    <3> DEFINE m == n - (v - u)
    <3>1. m \in 1..(w - v) /\ v + m - 1 = u + n - 1
      BY <2>2
    <3>2. (a \o b)[n] = b[m]
      BY <1>7, <2>2
    <3> HIDE DEF m
    <3>3. b[m] = Latest(tl, rate, u + n - 1)
      BY <1>4, <3>1
    <3> QED BY <1>6, <3>2, <3>3
  <2> QED BY <2>1, <2>2
<1>9. a \o b = c
  <2>1. DOMAIN (a \o b) = 1..(w - u) /\ DOMAIN c = 1..(w - u)
    BY <1>6, <1>7
  <2> DEFINE ab == a \o b
  <2>2. ab = [n \in 1..(w - u) |-> ab[n]] /\ c = [n \in 1..(w - u) |-> c[n]]
    <3> HIDE DEF ab
    <3>1. ab \in Seq(T) /\ DOMAIN ab = 1..(w - u)
      BY <1>7, <2>1 DEF ab
    <3> QED BY <1>6, <2>1, <3>1
  <2>3. \A n \in 1..(w - u) : ab[n] = c[n]
    BY <1>8
  <2> HIDE DEF ab
  <2>4. ab = c
    BY <2>2, <2>3
  <2> QED BY <2>4 DEF ab
<1>10. Shows(tl, rate, u, u) = <<>>
  <2>1. u - u = 0
    OBVIOUS
  <2>2. 1..(u - u) = {}
    BY <2>1
  <2> QED BY <2>2 DEF Shows
<1> QED BY <1>9, <1>10 DEF a, b, c

\* What a piece shows: from its first frame's output frame to the next
\* piece's, and the last one to the end.
LEMMA PieceShows ==
    ASSUME NEW tl, Regular(tl), NEW rate, IsRate(rate), NEW plan, NEW p,
           NEW s \in DOMAIN tl.ticks, plan.start_ticks[p] = tl.ticks[s],
           NEW to \in Nat,
           \/ plan.frames[p] = 0 /\ to = EndTick(tl, rate)
           \/ /\ plan.frames[p] = to - TickOf(tl, s, rate)
              /\ TickOf(tl, s, rate) < to /\ to <= EndTick(tl, rate)
    PROVE  EncodePiece(tl, plan, p, rate) = Shows(tl, rate, TickOf(tl, s, rate), to)
<1> DEFINE N == Len(tl.ticks)
           input == s..N
           u == TickOf(tl, s, rate)
           E == EndTick(tl, rate)
           shown == FpsFilter(tl, input, 0, rate)
<1>1. Seek(tl, plan.start_ticks[p]) = input /\ Min(input) = s
  BY SeekFrom
<1>2. plan.start_ticks[p] - tl.ticks[s] = 0
  <2>1. tl.ticks[s] \in Nat
    BY DEF Regular
  <2> QED BY <2>1
<1>3. shown = Shows(tl, rate, u, E)
  BY FilterShows
<1>4. u \in Nat /\ E \in Nat /\ u <= E
  BY TicksOf
<1> HIDE DEF input, shown, u, E
<1>5. EncodePiece(tl, plan, p, rate) =
          IF plan.frames[p] = 0 THEN shown
          ELSE SubSeq(shown, 1, Min({plan.frames[p], Len(shown)}))
  BY <1>1, <1>2 DEF EncodePiece, shown
<1>6. ASSUME plan.frames[p] = 0, to = E
      PROVE  EncodePiece(tl, plan, p, rate) = Shows(tl, rate, u, to)
  BY <1>3, <1>5, <1>6
<1>7. ASSUME plan.frames[p] = to - u, u < to, to <= E
      PROVE  EncodePiece(tl, plan, p, rate) = Shows(tl, rate, u, to)
  <2> DEFINE f == to - u
             k == E - u
  <2>1. f \in Nat /\ k \in Nat /\ 0 < f /\ f <= k
    BY <1>4, <1>7
  <2>2. shown = [n \in 1..k |-> Latest(tl, rate, u + n - 1)]
    BY <1>3 DEF Shows
  <2>3. Shows(tl, rate, u, to) = [n \in 1..f |-> Latest(tl, rate, u + n - 1)]
    BY DEF Shows
  <2>4. plan.frames[p] = f
    BY <1>7
  <2> HIDE DEF f, k
  <2>5. Len(shown) = k
    BY <2>1, <2>2
  <2>6. Min({f, k}) = f
    <3>1. {f, k} \in SUBSET Int /\ f \in {f, k} /\ \A y \in {f, k} : f <= y
      BY <2>1
    <3> QED BY <3>1, MinIs
  <2>7. EncodePiece(tl, plan, p, rate) = SubSeq(shown, 1, f)
    <3>1. {plan.frames[p], Len(shown)} = {f, k} /\ plan.frames[p] # 0
      BY <2>1, <2>4, <2>5
    <3> QED BY <1>5, <2>6, <3>1
  <2>8. SubSeq(shown, 1, f) = [n \in 1..f |-> shown[n]]
    <3>1. SubSeq(shown, 1, f) = [n \in 1..f |-> shown[(1 + n) - 1]]
      BY <2>1 DEF SubSeq
    <3>2. \A n \in 1..f : (1 + n) - 1 = n
      BY <2>1
    <3> QED BY <3>1, <3>2
  <2>9. \A n \in 1..f : shown[n] = Latest(tl, rate, u + n - 1)
    BY <2>1, <2>2
  <2> QED BY <2>3, <2>7, <2>8, <2>9
<1>8. \/ plan.frames[p] = 0 /\ to = E
      \/ plan.frames[p] = to - u /\ u < to /\ to <= E
  BY DEF u, E
<1>9. EncodePiece(tl, plan, p, rate) = Shows(tl, rate, u, to)
  BY <1>6, <1>7, <1>8
<1> QED BY <1>9 DEF u

\* Starts of pieces: the first frame, then frames that begin later and later
\* output frames.
Good(tl, starts, rate) ==
    /\ starts \in Seq(DOMAIN tl.ticks)
    /\ Len(starts) > 0 /\ starts[1] = 1
    /\ \A p, q \in DOMAIN starts :
          p < q => TickOf(tl, starts[p], rate) < TickOf(tl, starts[q], rate)

\* Pieces with such starts join as one encode.
LEMMA GoodPiecesJoin ==
    ASSUME NEW tl, Regular(tl), NEW rate, IsRate(rate),
           NEW starts, Good(tl, starts, rate), Len(starts) > 1, NEW plan,
           plan.starts = starts,
           plan.start_ticks = [p \in DOMAIN starts |-> tl.ticks[starts[p]]],
           plan.frames = Frames(tl, starts, rate)
    PROVE  Joined(tl, plan, rate) = OneEncode(tl, rate)
<1> DEFINE L == Len(starts)
           E == EndTick(tl, rate)
           tick(p) == TickOf(tl, starts[p], rate)
           edge(p) == IF p = L + 1 THEN E ELSE tick(p)
           piece(p) == EncodePiece(tl, plan, p, rate)
           show(p) == Shows(tl, rate, edge(1), edge(p + 1))
<1>1. /\ L \in Nat /\ L > 1 /\ DOMAIN starts = 1..L
      /\ \A p \in 1..L : starts[p] \in DOMAIN tl.ticks
      /\ starts[1] = 1
      /\ \A p, q \in 1..L : p < q => tick(p) < tick(q)
  BY DEF Good
<1>2. E \in Nat /\ \A p \in 1..L : tick(p) \in Nat /\ tick(p) <= E
  BY <1>1, TicksOf
<1>3. \A p \in 1..(L + 1) : edge(p) \in Nat
  <2> SUFFICES ASSUME NEW p \in 1..(L + 1) PROVE edge(p) \in Nat
    OBVIOUS
  <2> HIDE DEF tick, E, L
  <2>1. p = L + 1 \/ p \in 1..L
    BY <1>1
  <2> QED BY <1>1, <1>2, <2>1
<1>4. ASSUME NEW p \in 1..L
      PROVE  piece(p) = Shows(tl, rate, edge(p), edge(p + 1)) /\ edge(p) <= edge(p + 1)
             /\ edge(1) <= edge(p)
  <2>1. plan.start_ticks[p] = tl.ticks[starts[p]] /\ starts[p] \in DOMAIN tl.ticks
    BY <1>1
  <2>2. edge(p) = tick(p) /\ edge(1) = tick(1) /\ p + 1 \in 1..(L + 1) /\ p \in Nat
    <3> HIDE DEF tick, E, L
    <3> QED BY <1>1
  <2>3. tick(1) <= tick(p)
    <3> HIDE DEF tick, E, L
    <3>1. p = 1 \/ 1 < p
      OBVIOUS
    <3>2. 1 \in 1..L
      BY <1>1
    <3> QED BY <1>1, <1>2, <3>1, <3>2
  <2>4. plan.frames[p] = IF p = L THEN 0 ELSE tick(p + 1) - tick(p)
    BY <1>1 DEF Frames
  <2>5. CASE p = L
    <3>1. edge(p + 1) = E
      BY <2>5
    <3>2. plan.frames[p] = 0
      BY <2>4, <2>5
    <3> HIDE DEF E, edge, L
    <3>3. piece(p) = Shows(tl, rate, TickOf(tl, starts[p], rate), E)
      BY <1>2, <2>1, <3>2, PieceShows DEF E
    <3> QED BY <1>2, <2>2, <2>3, <3>1, <3>3
  <2>6. CASE p # L
    <3>1. p + 1 \in 1..L /\ p < p + 1 /\ p + 1 # L + 1
      <4> HIDE DEF L
      <4> QED BY <1>1, <2>6
    <3>2. edge(p + 1) = tick(p + 1)
      BY <3>1
    <3>3. plan.frames[p] = tick(p + 1) - tick(p)
      BY <2>4, <2>6
    <3>4. tick(p) < tick(p + 1) /\ tick(p + 1) \in Nat /\ tick(p + 1) <= E /\ tick(p) \in Nat
      <4> HIDE DEF tick, E, L
      <4> QED BY <1>1, <1>2, <3>1
    <3> DEFINE to == tick(p + 1)
    <3>5. /\ plan.frames[p] = to - TickOf(tl, starts[p], rate) /\ TickOf(tl, starts[p], rate) < to
          /\ to \in Nat /\ to <= EndTick(tl, rate)
      BY <3>3, <3>4
    <3> HIDE DEF to
    <3>6. EncodePiece(tl, plan, p, rate) = Shows(tl, rate, TickOf(tl, starts[p], rate), to)
      BY <2>1, <3>5, PieceShows
    <3>7. piece(p) = Shows(tl, rate, tick(p), tick(p + 1))
      BY <3>6 DEF to
    <3> HIDE DEF edge, tick, piece
    <3> QED BY <2>2, <2>3, <3>2, <3>4, <3>7
  <2> QED BY <2>5, <2>6
<1>5. ASSUME NEW p \in 1..L PROVE show(p) = show(p - 1) \o piece(p)
  <2>1. p + 1 \in 1..(L + 1) /\ p \in 1..(L + 1) /\ 1 \in 1..(L + 1) /\ (p - 1) + 1 = p
    <3> HIDE DEF L
    <3> QED BY <1>1
  <2> DEFINE a == edge(1)
             b == edge(p)
             c == edge(p + 1)
  <2>2. a \in Nat /\ b \in Nat /\ c \in Nat /\ a <= b /\ b <= c
        /\ piece(p) = Shows(tl, rate, b, c)
    <3> HIDE DEF edge, piece, L
    <3> QED BY <1>3, <1>4, <2>1
  <2>3. show(p) = Shows(tl, rate, a, c)
    OBVIOUS
  <2>4. show(p - 1) = Shows(tl, rate, a, b)
    <3>1. show(p - 1) = Shows(tl, rate, edge(1), edge((p - 1) + 1))
      OBVIOUS
    <3> HIDE DEF edge, show
    <3> QED BY <2>1, <3>1
  <2> HIDE DEF a, b, c, show, piece
  <2>5. Shows(tl, rate, a, b) \o Shows(tl, rate, b, c) = Shows(tl, rate, a, c)
    BY <2>2, ShowsJoin
  <2> QED BY <2>2, <2>3, <2>4, <2>5
<1>6. show(0) = <<>>
  <2>1. edge(1) \in Nat
    <3> HIDE DEF edge, L
    <3> QED BY <1>1, <1>3
  <2>2. show(0) = Shows(tl, rate, edge(1), edge(1))
    OBVIOUS
  <2> HIDE DEF edge, show
  <2> QED BY <2>1, <2>2, ShowsJoin
<1>7. show(L) = OneEncode(tl, rate)
  <2>1. edge(1) = TickOf(tl, 1, rate) /\ edge(L + 1) = E
    BY <1>1
  <2>2. 1 \in DOMAIN tl.ticks /\ DOMAIN tl.ticks = 1..Len(tl.ticks)
    <3>1. 1 \in 1..L
      <4> HIDE DEF L
      <4> QED BY <1>1
    <3> QED BY <1>1, <3>1 DEF Regular
  <2>3. FpsFilter(tl, 1..Len(tl.ticks), 0, rate) = Shows(tl, rate, TickOf(tl, 1, rate), E)
    BY <2>2, FilterShows
  <2> QED BY <2>1, <2>2, <2>3 DEF OneEncode
<1> DEFINE Joins(f) == f = [p \in 0..L |-> IF p = 0 THEN <<>> ELSE f[p - 1] \o piece(p)]
           g == [p \in 0..L |-> show(p)]
           c == CHOOSE f : Joins(f)
<1>8. Joins(g)
  <2>1. ASSUME NEW p \in 0..L
        PROVE  g[p] = IF p = 0 THEN <<>> ELSE g[p - 1] \o piece(p)
    <3>1. CASE p = 0
      <4>1. g[0] = show(0)
        <5> HIDE DEF show, L
        <5> QED BY <1>1
      <4> QED BY <1>6, <3>1, <4>1
    <3>2. CASE p # 0
      <4>1. p \in 1..L /\ p - 1 \in 0..L
        <5> HIDE DEF L
        <5> QED BY <1>1, <3>2
      <4>2. g[p] = show(p) /\ g[p - 1] = show(p - 1)
        <5> HIDE DEF show, L
        <5> QED BY <4>1
      <4> HIDE DEF g, show, piece, L
      <4> QED BY <1>5, <3>2, <4>1, <4>2
    <3> QED BY <3>1, <3>2
  <2>2. g = [p \in 0..L |-> g[p]]
    OBVIOUS
  <2> HIDE DEF g, piece, L
  <2> QED BY <2>1, <2>2
<1>9. Joins(c)
  <2> HIDE DEF Joins, g
  <2> QED BY <1>8
<1>10. Joined(tl, plan, rate) = c[L]
  BY DEF Joined
<1> HIDE DEF c
<1>11. \A p \in 0..L : c[p] = IF p = 0 THEN <<>> ELSE c[p - 1] \o piece(p)
  <2> HIDE DEF piece, L
  <2> DEFINE h == [p \in 0..L |-> IF p = 0 THEN <<>> ELSE c[p - 1] \o piece(p)]
  <2>1. \A p \in 0..L : h[p] = IF p = 0 THEN <<>> ELSE c[p - 1] \o piece(p)
    OBVIOUS
  <2>2. c = h
    BY <1>9
  <2> HIDE DEF h
  <2> QED BY <2>1, <2>2
<1> HIDE DEF Joins, g, piece, show
<1> DEFINE P == {p \in Nat : p <= L => c[p] = show(p)}
<1>12. 0 \in P
  <2>1. c[0] = <<>>
    <3> HIDE DEF L
    <3>1. 0 \in 0..L
      BY <1>1
    <3> QED BY <1>11, <3>1
  <2> QED BY <1>6, <2>1
<1>13. ASSUME NEW p \in P PROVE p + 1 \in P
  <2> SUFFICES ASSUME p + 1 <= L PROVE c[p + 1] = show(p + 1)
    OBVIOUS
  <2> HIDE DEF L
  <2>1. p \in Nat /\ p <= L /\ p + 1 \in 1..L /\ p + 1 \in 0..L /\ (p + 1) - 1 = p /\ p + 1 # 0
    BY <1>1
  <2>2. c[p] = show(p)
    BY <2>1
  <2>3. c[p + 1] = c[(p + 1) - 1] \o piece(p + 1)
    BY <1>11, <2>1
  <2>4. show(p + 1) = show((p + 1) - 1) \o piece(p + 1)
    BY <1>5, <2>1
  <2> QED BY <2>1, <2>2, <2>3, <2>4
<1>14. P = Nat
  <2>1. P \in SUBSET Nat
    OBVIOUS
  <2> HIDE DEF P
  <2> QED BY <1>12, <1>13, <2>1, SetInduction
<1>15. c[L] = show(L)
  <2> HIDE DEF L
  <2> QED BY <1>1, <1>14
<1> QED BY <1>7, <1>10, <1>15

\* A suitable frame begins a later output frame than every frame before it.
LEMMA SuitableIsLater ==
    ASSUME NEW tl, Regular(tl), NEW rate, IsRate(rate),
           NEW i \in DOMAIN tl.ticks, NEW j \in DOMAIN tl.ticks, i < j, Suitable(tl, j, rate)
    PROVE  TickOf(tl, i, rate) < TickOf(tl, j, rate)
<1>1. DOMAIN tl.ticks = 1..Len(tl.ticks) /\ Len(tl.ticks) \in Nat
  BY DEF Regular
<1>2. j # 1 /\ j - 1 \in DOMAIN tl.ticks /\ i <= j - 1
  BY <1>1
<1>3. TickOf(tl, j - 1, rate) < TickOf(tl, j, rate)
  BY <1>2 DEF Suitable
<1>4. TickOf(tl, i, rate) <= TickOf(tl, j - 1, rate)
  BY <1>2, TicksOf
<1>5. TickOf(tl, i, rate) \in Nat /\ TickOf(tl, j, rate) \in Nat /\ TickOf(tl, j - 1, rate) \in Nat
  BY <1>2, TicksOf
<1> QED BY <1>3, <1>4, <1>5

\* A remainder that joins the piece before it leaves good starts.
LEMMA RemainderJoins ==
    ASSUME NEW tl, NEW rate, NEW starts, Good(tl, starts, rate), NEW tooShort
    PROVE  /\ Good(tl, JoinRemainder(starts, tooShort), rate)
           /\ JoinRemainder(starts, tooShort) \in {starts, SubSeq(starts, 1, Len(starts) - 1)}
<1> DEFINE L == Len(starts)
           s == SubSeq(starts, 1, L - 1)
<1>1. /\ starts \in Seq(DOMAIN tl.ticks) /\ L \in Nat /\ L > 0 /\ starts[1] = 1
      /\ DOMAIN starts = 1..L
      /\ \A p, q \in DOMAIN starts :
            p < q => TickOf(tl, starts[p], rate) < TickOf(tl, starts[q], rate)
  BY DEF Good
<1>2. CASE L > 1 /\ tooShort
  <2>1. JoinRemainder(starts, tooShort) = s
    BY <1>2 DEF JoinRemainder
  <2> HIDE DEF L
  <2>2. L - 1 \in Nat /\ L - 1 <= L
    BY <1>1, <1>2
  <2>3. /\ s \in Seq(DOMAIN tl.ticks) /\ Len(s) = L - 1 /\ DOMAIN s = 1..(L - 1)
        /\ \A p \in 1..(L - 1) : s[p] = starts[p]
    <3>1. starts \in Seq(DOMAIN tl.ticks) /\ L <= Len(starts) /\ L = Len(starts)
      BY <1>1 DEF L
    <3> DEFINE T == DOMAIN tl.ticks
    <3> HIDE DEF T
    <3>2. starts \in Seq(T)
      BY <3>1 DEF T
    <3>3. s \in Seq(T) /\ Len(s) = L - 1 /\ \A p \in 1..(L - 1) : s[p] = starts[p]
      BY <2>2, <3>1, <3>2, PrefixOf
    <3> HIDE DEF s
    <3> QED BY <3>3 DEF T
  <2> HIDE DEF s
  <2>4. Len(s) > 0 /\ s[1] = 1
    <3>1. 1 \in 1..(L - 1)
      BY <1>1, <1>2
    <3> QED BY <1>1, <1>2, <2>3, <3>1
  <2>5. \A p, q \in DOMAIN s : p < q => TickOf(tl, s[p], rate) < TickOf(tl, s[q], rate)
    <3>1. \A p \in DOMAIN s : p \in DOMAIN starts /\ s[p] = starts[p]
      BY <1>1, <2>3
    <3> QED BY <1>1, <3>1
  <2>6. Good(tl, s, rate)
    BY <2>3, <2>4, <2>5 DEF Good
  <2> QED BY <2>1, <2>6 DEF s, L
<1>3. CASE ~(L > 1 /\ tooShort)
  BY <1>3 DEF JoinRemainder
<1> QED BY <1>2, <1>3

\* frame_starts: the first frame, and then the first suitable one at or after
\* every chunk.
LEMMA FrameStartsGood ==
    ASSUME NEW tl, Regular(tl), tl.ticks # <<>>, NEW rate, IsRate(rate), NEW seconds \in Nat \ {0}
    PROVE  Good(tl, frame_starts(tl, seconds, rate), rate)
<1> DEFINE chunk == seconds * tl.tb
           after(mark) == {i \in DOMAIN tl.ticks : tl.ticks[i] >= mark /\ Suitable(tl, i, rate)}
           I == {i \in DOMAIN tl.ticks : Suitable(tl, i, rate)}
           Stop == {m \in Nat : m > LastTime(tl) \/ after(m) = {}}
           item == [m \in Nat |-> Min(after(m))]
           next == [i \in I |-> ((tl.ticks[i] \div chunk) + 1) * chunk]
           at == tl.ticks
           Body(f) == [mark \in Nat |->
                          IF mark > LastTime(tl) \/ after(mark) = {} THEN <<>>
                          ELSE LET i == Min(after(mark))
                               IN  <<i>> \o f[((tl.ticks[i] \div chunk) + 1) * chunk]]
           c == CHOOSE f : f = Body(f)
<1>1. /\ Len(tl.ticks) \in Nat /\ DOMAIN tl.ticks = 1..Len(tl.ticks)
      /\ \A i \in DOMAIN tl.ticks : tl.ticks[i] \in Nat
      /\ Len(tl.ticks) >= 1 /\ LastTime(tl) \in Nat
      /\ chunk \in Nat \ {0}
  <2>1. tl.ticks \in Seq(Nat) /\ tl.tb \in Nat \ {0}
    BY DEF Regular
  <2>2. chunk \in Nat \ {0}
    BY <2>1
  <2>3. Len(tl.ticks) >= 1
    BY <2>1
  <2> HIDE DEF chunk
  <2> QED BY <2>1, <2>2, <2>3 DEF LastTime
<1>2. ASSUME NEW m \in Nat, after(m) # {}
      PROVE  item[m] = Min(after(m)) /\ item[m] \in after(m) /\ \A y \in after(m) : item[m] <= y
  <2>1. after(m) \in SUBSET Nat
    <3>1. \A i \in DOMAIN tl.ticks : i \in Nat
      BY <1>1
    <3> QED BY <3>1
  <2> HIDE DEF after
  <2>2. item[m] = Min(after(m))
    OBVIOUS
  <2> HIDE DEF item
  <2> QED BY <1>2, <2>1, <2>2, MinIsIn
<1>3. ASSUME NEW i \in I PROVE next[i] \in Nat /\ at[i] \in Nat /\ at[i] < next[i]
  <2> DEFINE a == tl.ticks[i]
             d == chunk
  <2>1. a \in Nat /\ d \in Nat \ {0}
    <3> HIDE DEF chunk
    <3> QED BY <1>1
  <2>2. next[i] = ((a \div d) + 1) * d
    <3> HIDE DEF I, chunk
    <3> QED OBVIOUS
  <2> HIDE DEF a, d, next
  <2> DEFINE q == a \div d
  <2>3. q \in Int /\ a < d * (q + 1)
    BY <2>1, DivBounds
  <2> HIDE DEF q
  <2>4. next[i] = (q + 1) * d
    BY <2>2 DEF q
  <2>5. d * (q + 1) = (q + 1) * d /\ d * (q + 1) \in Int
    BY <2>1, <2>3
  <2>6. next[i] \in Nat /\ a < next[i]
    BY <2>1, <2>3, <2>4, <2>5
  <2> QED BY <2>1, <2>6 DEF a
<1>4. Leads(LastTime(tl), Stop, I, item, next, at)
  <2>1. Stop \in SUBSET Nat /\ \A m \in Nat : m > LastTime(tl) => m \in Stop
    OBVIOUS
  <2>2. ASSUME NEW m \in Nat \ Stop PROVE item[m] \in I /\ m <= at[item[m]]
    <3>1. m \in Nat /\ after(m) # {}
      OBVIOUS
    <3>2. item[m] \in after(m)
      <4> HIDE DEF after, item, Stop
      <4> QED BY <1>2, <3>1
    <3> HIDE DEF item
    <3>3. item[m] \in I /\ at[item[m]] >= m
      BY <3>2
    <3>4. at[item[m]] \in Nat
      BY <1>1, <3>3
    <3> HIDE DEF I, at
    <3> QED BY <3>1, <3>3, <3>4
  <2> HIDE DEF Stop, item, next, I, at
  <2> QED BY <1>1, <1>3, <2>1, <2>2 DEF Leads
<1>5. ASSUME NEW f PROVE f = Body(f) <=> WalkOf(f, Stop, item, next)
  <2> DEFINE Walk == [m \in Nat |-> IF m \in Stop THEN <<>> ELSE <<item[m]>> \o f[next[item[m]]]]
  <2>1. ASSUME NEW m \in Nat PROVE Body(f)[m] = Walk[m]
    <3> DEFINE j == Min(after(m))
               step(k) == ((tl.ticks[k] \div chunk) + 1) * chunk
    <3>1. Body(f)[m] = IF m > LastTime(tl) \/ after(m) = {} THEN <<>>
                       ELSE <<j>> \o f[step(j)]
      <4> HIDE DEF after, chunk
      <4> QED OBVIOUS
    <3>2. Walk[m] = IF m \in Stop THEN <<>> ELSE <<item[m]>> \o f[next[item[m]]]
      <4> HIDE DEF Stop, item, next
      <4> QED OBVIOUS
    <3>3. m \in Stop <=> m > LastTime(tl) \/ after(m) = {}
      <4> HIDE DEF after
      <4> QED OBVIOUS
    <3>4. m \notin Stop => item[m] = j /\ next[item[m]] = step(j)
      <4> SUFFICES ASSUME m \notin Stop PROVE item[m] = j /\ next[item[m]] = step(j)
        OBVIOUS
      <4>1. item[m] = j /\ after(m) # {}
        <5> HIDE DEF after
        <5> QED OBVIOUS
      <4>2. j \in I
        <5>1. item[m] \in after(m)
          <6> HIDE DEF after, item
          <6> QED BY <1>2, <4>1
        <5> HIDE DEF item, j
        <5> QED BY <4>1, <5>1
      <4>3. next[j] = step(j)
        <5> HIDE DEF I, chunk, j
        <5> QED BY <4>2
      <4> HIDE DEF item, j, next, step
      <4> QED BY <4>1, <4>3
    <3> HIDE DEF Stop, item, next, j, step, Body, Walk, after
    <3> QED BY <3>1, <3>2, <3>3, <3>4
  <2>2. Body(f) = [m \in Nat |-> Body(f)[m]] /\ Walk = [m \in Nat |-> Walk[m]]
    OBVIOUS
  <2>3. WalkOf(f, Stop, item, next) <=> f = Walk
    <3> HIDE DEF Stop, item, next
    <3> QED BY DEF WalkOf
  <2> DEFINE b == Body(f)
  <2> HIDE DEF b, Body, Walk
  <2>4. Body(f) = Walk
    BY <2>1, <2>2
  <2> QED BY <2>3, <2>4
<1>6. WalkOf(c, Stop, item, next)
  <2> HIDE DEF Stop, item, next, Body, I, at
  <2>1. \E f : WalkOf(f, Stop, item, next)
    BY <1>4, WalkExists
  <2>2. \E f : f = Body(f)
    BY <1>5, <2>1
  <2>3. c = Body(c)
    BY <2>2
  <2> QED BY <1>5, <2>3
<1>7. frame_starts(tl, seconds, rate) =
          JoinRemainder(c[0], 2 * (LastTime(tl) - tl.ticks[c[0][Len(c[0])]]) < chunk)
  BY DEF frame_starts
<1> DEFINE s == c[0]
<1>8. Collected(s, 0, Stop, I, item, next, at)
  <2> HIDE DEF c, Stop, item, next, I, at
  <2> QED BY <1>4, <1>6, WalkCollects
<1>9. 0 \notin Stop /\ item[0] = 1
  <2>1. 1 \in after(0) /\ \A y \in after(0) : 1 <= y
    BY <1>1 DEF Suitable
  <2>2. item[0] \in after(0) /\ item[0] <= 1
    <3> HIDE DEF item, after
    <3> QED BY <1>2, <2>1
  <2>3. ~(0 > LastTime(tl))
    BY <1>1
  <2>4. 0 \notin Stop
    <3> HIDE DEF after
    <3> QED BY <2>1, <2>3
  <2>5. item[0] = 1
    <3>1. item[0] \in Nat /\ 1 <= item[0]
      <4> HIDE DEF item
      <4> QED BY <1>1, <2>1, <2>2
    <3> HIDE DEF item
    <3> QED BY <2>2, <3>1
  <2> QED BY <2>4, <2>5
<1> HIDE DEF c, Stop, item, after, Body
<1>10. /\ s \in Seq(I) /\ Len(s) > 0 /\ s[1] = 1
       /\ \A p, q \in DOMAIN s : p < q => next[s[p]] <= at[s[q]]
       /\ \A p \in DOMAIN s : s[p] \in I
  <2> HIDE DEF s, I, next, at
  <2>1. s \in Seq(I)
    BY <1>8 DEF Collected
  <2>2. Len(s) > 0 /\ s[1] = item[0] /\ \A p, q \in DOMAIN s : p < q => next[s[p]] <= at[s[q]]
    BY <1>8, <1>9 DEF Collected
  <2>3. \A p \in DOMAIN s : s[p] \in I
    BY <2>1
  <2> QED BY <1>9, <2>1, <2>2, <2>3
<1> HIDE DEF s
<1>11. ASSUME NEW p \in DOMAIN s, NEW q \in DOMAIN s, p < q
       PROVE  TickOf(tl, s[p], rate) < TickOf(tl, s[q], rate)
  <2>1. s[p] \in I /\ s[q] \in I
    BY <1>10
  <2>2. /\ s[p] \in DOMAIN tl.ticks /\ s[q] \in DOMAIN tl.ticks /\ Suitable(tl, s[q], rate)
        /\ s[p] \in Nat /\ s[q] \in Nat
    <3>1. s[p] \in DOMAIN tl.ticks /\ s[q] \in DOMAIN tl.ticks /\ Suitable(tl, s[q], rate)
      BY <2>1
    <3> QED BY <1>1, <3>1
  <2>3. tl.ticks[s[p]] < tl.ticks[s[q]]
    <3>1. next[s[p]] <= at[s[q]]
      BY <1>10, <1>11
    <3>2. at[s[p]] < next[s[p]] /\ next[s[p]] \in Nat /\ at[s[p]] \in Nat /\ at[s[q]] \in Nat
      <4> HIDE DEF I, next, at
      <4> QED BY <1>3, <2>1
    <3> HIDE DEF next, I
    <3> QED BY <3>1, <3>2
  <2>4. s[p] < s[q]
    <3>1. s[q] <= s[p] => tl.ticks[s[q]] <= tl.ticks[s[p]]
      BY <2>2, TicksOf
    <3>2. tl.ticks[s[p]] \in Nat /\ tl.ticks[s[q]] \in Nat
      BY <1>1, <2>2
    <3> QED BY <2>2, <2>3, <3>1, <3>2
  <2> QED BY <2>2, <2>4, SuitableIsLater
<1>12. s \in Seq(DOMAIN tl.ticks)
  <2>1. I \subseteq DOMAIN tl.ticks
    OBVIOUS
  <2>2. s \in Seq(I)
    BY <1>10
  <2> DEFINE J == DOMAIN tl.ticks
  <2> HIDE DEF I, J
  <2>3. I \subseteq J
    BY <2>1 DEF J
  <2>4. s \in Seq(J)
    BY <2>2, <2>3
  <2> QED BY <2>4 DEF J
<1>13. Good(tl, s, rate)
  <2> HIDE DEF I, next, at
  <2> QED BY <1>10, <1>11, <1>12 DEF Good
<1> QED BY <1>7, <1>13, RemainderJoins DEF s

\* Division that rounds up.
LEMMA CeilBounds ==
    ASSUME NEW x \in Int, NEW d \in Nat \ {0}
    PROVE  /\ CeilDiv(x, d) \in Int
           /\ d * CeilDiv(x, d) >= x /\ d * (CeilDiv(x, d) - 1) < x
<1> DEFINE q == (x + d - 1) \div d
<1>1. q \in Int /\ d * q <= x + d - 1 /\ x + d - 1 < d * (q + 1)
  BY DivBounds
<1>2. CeilDiv(x, d) = q
  BY DEF CeilDiv
<1> HIDE DEF q
<1>3. d * (q + 1) = d * q + d /\ d * (q - 1) = d * q - d /\ d * q \in Int
  BY <1>1
<1>4. d * q >= x /\ d * (q - 1) < x
  BY <1>1, <1>3
<1> QED BY <1>1, <1>2, <1>4

\* The frames of k segments: at least a segment's whole frames more for each.
Edge(k, rate) == CeilDiv(k * SEGMENT_SECONDS * rate[1], rate[2])
LEMMA Edges ==
    ASSUME NEW rate, IsRate(rate), rate[1] > 0
    PROVE  /\ \A k \in Nat : Edge(k, rate) \in Int
           /\ \A k \in Nat : Edge(k + 1, rate) - Edge(k, rate) >= (SEGMENT_SECONDS * rate[1]) \div rate[2]
           /\ \A i, j \in Nat : i <= j => Edge(i, rate) <= Edge(j, rate)
           /\ Edge(0, rate) <= 0 /\ \A k \in Nat \ {0} : Edge(k, rate) > 0
           /\ (SEGMENT_SECONDS * rate[1]) \div rate[2] \in Int
<1> DEFINE R == SEGMENT_SECONDS * rate[1]
           d == rate[2]
           w == R \div d
           E(k) == Edge(k, rate)
<1>1. R \in Nat \ {0} /\ d \in Nat \ {0}
  BY SegmentAssumption DEF IsRate
<1>2. \A k \in Nat : E(k) = CeilDiv(k * R, d)
  <2> SUFFICES ASSUME NEW k \in Nat PROVE E(k) = CeilDiv(k * R, d)
    OBVIOUS
  <2>1. k * SEGMENT_SECONDS * rate[1] = k * R
    BY SegmentAssumption DEF IsRate
  <2> HIDE DEF R
  <2> QED BY <2>1 DEF Edge
<1> HIDE DEF R, d, E
<1>3. w \in Int /\ d * w <= R
  BY <1>1, DivBounds
<1> HIDE DEF w
<1>4. ASSUME NEW k \in Nat
      PROVE  E(k) \in Int /\ d * E(k) >= k * R /\ d * (E(k) - 1) < k * R /\ k * R \in Int
  <2> DEFINE x == k * R
  <2>1. x \in Int
    BY <1>1
  <2> HIDE DEF x
  <2>2. E(k) = CeilDiv(x, d)
    BY <1>2 DEF x
  <2>3. E(k) \in Int /\ d * E(k) >= x /\ d * (E(k) - 1) < x
    BY <1>1, <2>1, <2>2, CeilBounds
  <2> QED BY <2>1, <2>3 DEF x
<1>5. ASSUME NEW k \in Nat PROVE E(k + 1) - E(k) >= w
  <2> DEFINE e == E(k)
             f == E(k + 1)
             x == k * R
  <2>1. (k + 1) * R = x + R /\ k + 1 \in Nat
    BY <1>1
  <2>2. /\ e \in Int /\ d * (e - 1) < x /\ x \in Int
        /\ f \in Int /\ d * f >= x + R
    BY <1>4, <2>1
  <2> HIDE DEF e, f, x
  <2>3. d * (e - 1 + w) = d * (e - 1) + d * w /\ d * (e - 1) \in Int /\ d * w \in Int
        /\ d * f \in Int /\ d * (e - 1 + w) \in Int /\ R \in Int
    BY <1>1, <1>3, <2>2
  <2>4. d * (e - 1 + w) < d * f
    BY <1>3, <2>2, <2>3
  <2>5. d * (e - 1 + w) < d * ((f - 1) + 1)
    <3>1. (f - 1) + 1 = f
      BY <2>2
    <3> QED BY <2>4, <3>1
  <2>6. e - 1 + w <= f - 1
    <3>1. e - 1 + w \in Int /\ f - 1 \in Int
      BY <1>3, <2>2
    <3> QED BY <1>1, <2>5, <3>1, LeastQuotient
  <2>7. f - e >= w
    BY <1>3, <2>2, <2>6
  <2> QED BY <2>7 DEF e, f
<1>6. ASSUME NEW i \in Nat, NEW j \in Nat, i <= j PROVE E(i) <= E(j)
  <2> DEFINE x == i * R
             y == j * R
  <2>1. PICK k \in Nat : j = i + k
    <3>1. j - i \in Nat /\ j = i + (j - i)
      BY <1>6
    <3> QED BY <3>1
  <2>2. y = x + k * R /\ k * R >= 0 /\ x \in Int /\ y \in Int /\ k * R \in Int
    BY <1>1, <2>1
  <2>3. E(i) = CeilDiv(x, d) /\ E(j) = CeilDiv(y, d)
    BY <1>2
  <2> HIDE DEF x, y
  <2>4. x + d - 1 \in Int /\ y + d - 1 \in Int /\ x + d - 1 <= y + d - 1
    BY <1>1, <2>2
  <2>5. (x + d - 1) \div d <= (y + d - 1) \div d
    BY <1>1, <2>4, DivMonotone
  <2> QED BY <2>3, <2>5 DEF CeilDiv
<1>7. E(0) <= 0
  <2> DEFINE e == E(0)
  <2>1. 0 * R = 0
    BY <1>1
  <2>2. e \in Int /\ d * (e - 1) < 0
    BY <1>4, <2>1
  <2> HIDE DEF e
  <2>3. d * ((-1) + 1) = 0 /\ e - 1 \in Int
    BY <1>1, <2>2
  <2>4. e - 1 <= -1
    BY <1>1, <2>2, <2>3, LeastQuotient
  <2>5. e <= 0
    BY <2>2, <2>4
  <2> QED BY <2>5 DEF e
<1>8. ASSUME NEW k \in Nat \ {0} PROVE E(k) > 0
  <2> DEFINE e == E(k)
             x == k * R
  <2>1. x > 0 /\ x \in Int
    BY <1>1
  <2>2. e \in Int /\ d * e >= x
    BY <1>4
  <2> HIDE DEF e, x
  <2>3. d * 0 < d * ((e - 1) + 1)
    <3>1. d * 0 = 0 /\ (e - 1) + 1 = e /\ d * e \in Int
      BY <1>1, <2>2
    <3> QED BY <2>1, <2>2, <3>1
  <2>4. 0 <= e - 1
    <3>1. e - 1 \in Int
      BY <2>2
    <3> QED BY <1>1, <2>3, <3>1, LeastQuotient
  <2>5. e > 0
    BY <2>2, <2>4
  <2> QED BY <2>5 DEF e
<1>9. /\ \A k \in Nat : E(k) \in Int
      /\ \A k \in Nat : E(k + 1) - E(k) >= w
      /\ \A i, j \in Nat : i <= j => E(i) <= E(j)
      /\ E(0) <= 0 /\ \A k \in Nat \ {0} : E(k) > 0
  BY <1>4, <1>5, <1>6, <1>7, <1>8
<1> QED BY <1>3, <1>9 DEF E, w, R, d

\* A piece of n segments is cut into segments of whole length.
LEMMA SegmentsAreWhole ==
    ASSUME NEW rate, IsRate(rate), rate[1] > 0, NEW n \in Nat \ {0}, NEW count, count = Edge(n, rate)
    PROVE  \A k \in DOMAIN Segments(count, rate) :
              Segments(count, rate)[k] >= (SEGMENT_SECONDS * rate[1]) \div rate[2]
<1> DEFINE w == (SEGMENT_SECONDS * rate[1]) \div rate[2]
           E(k) == Edge(k, rate)
           U == {k \in 0..count : E(k) < count} \cup {0}
           whole == Max(U)
<1>1. /\ \A k \in Nat : E(k) \in Int
      /\ \A k \in Nat : E(k + 1) - E(k) >= w
      /\ \A i, j \in Nat : i <= j => E(i) <= E(j)
      /\ E(0) <= 0 /\ count > 0 /\ count \in Nat /\ count = E(n) /\ w \in Int
  <2> HIDE DEF w
  <2>1. /\ \A k \in Nat : Edge(k, rate) \in Int
        /\ \A k \in Nat : Edge(k + 1, rate) - Edge(k, rate) >= w
        /\ \A i, j \in Nat : i <= j => Edge(i, rate) <= Edge(j, rate)
        /\ Edge(0, rate) <= 0 /\ \A k \in Nat \ {0} : Edge(k, rate) > 0
        /\ w \in Int
    BY Edges DEF w
  <2>2. count \in Int /\ count > 0
    BY <2>1
  <2> QED BY <2>1, <2>2
<1>2. Segments(count, rate) =
          [k \in 1..(whole + 1) |-> (IF k = whole + 1 THEN count ELSE E(k)) - E(k - 1)]
  BY DEF Segments, Edge
<1> HIDE DEF w, E
<1>3. whole \in U
  <2>1. U \in SUBSET Nat /\ U # {} /\ \A y \in U : y <= count
    BY <1>1
  <2> HIDE DEF U
  <2> QED BY <1>1, <2>1, MaxIsIn
<1>4. whole \in Nat /\ E(whole) < count
  <2> HIDE DEF whole
  <2>1. whole = 0 \/ (whole \in 0..count /\ E(whole) < count)
    BY <1>3
  <2>2. E(0) < count
    BY <1>1
  <2> QED BY <1>1, <2>1, <2>2
<1> HIDE DEF whole
<1>5. whole + 1 <= n
  <2>1. n <= whole => E(n) <= E(whole)
    BY <1>1, <1>4
  <2>2. E(whole) \in Int /\ E(n) \in Int
    BY <1>1, <1>4
  <2> QED BY <1>1, <1>4, <2>1, <2>2
<1>6. ASSUME NEW k \in 1..(whole + 1)
      PROVE  (IF k = whole + 1 THEN count ELSE E(k)) - E(k - 1) >= w
  <2>1. k - 1 \in Nat /\ (k - 1) + 1 = k /\ k \in Nat
    BY <1>4
  <2>2. E(k) - E(k - 1) >= w /\ E(k) \in Int /\ E(k - 1) \in Int
    <3>1. E((k - 1) + 1) - E(k - 1) >= w
      BY <1>1, <2>1
    <3> QED BY <1>1, <2>1, <3>1
  <2>3. k = whole + 1 => E(k) <= count
    BY <1>1, <1>5, <2>1
  <2> QED BY <1>1, <2>2, <2>3
<1>7. DOMAIN Segments(count, rate) = 1..(whole + 1)
  BY <1>2
<1>8. \A k \in 1..(whole + 1) : Segments(count, rate)[k] >= w
  BY <1>2, <1>6
<1> QED BY <1>7, <1>8 DEF w

\* A ladder piece is so many segments.
LEMMA PieceIsSegments ==
    ASSUME NEW rate, IsRate(rate), rate[1] > 0, NEW seconds \in Nat
    PROVE  \E n \in Nat \ {0} : PieceLength(seconds, rate) = Edge(n, rate)
<1> DEFINE r == RoundHalfEven(seconds, SEGMENT_SECONDS)
           n == Max({1, r})
<1>1. r \in Int
  <2>1. seconds \div SEGMENT_SECONDS \in Int
    BY SegmentAssumption, DivBounds
  <2> QED BY <2>1 DEF RoundHalfEven
<1> HIDE DEF r
<1>2. n \in Nat \ {0}
  <2> DEFINE big == IF r > 1 THEN r ELSE 1
  <2>1. {1, r} \in SUBSET Int /\ big \in {1, r} /\ \A y \in {1, r} : y <= big
    BY <1>1
  <2> HIDE DEF big
  <2>2. n = big
    BY <2>1, MaxIs
  <2> HIDE DEF n
  <2> QED BY <1>1, <2>2 DEF big
<1>3. PieceLength(seconds, rate) = Edge(n, rate)
  BY DEF PieceLength, Edge, r
<1> HIDE DEF n
<1> QED BY <1>2, <1>3

\* An output frame that some frame falls on is begun by one.
LEMMA SomeFrameBegins ==
    ASSUME NEW tl, Regular(tl), NEW rate, IsRate(rate), NEW i \in DOMAIN tl.ticks
    PROVE  \E j \in DOMAIN tl.ticks : /\ Suitable(tl, j, rate)
                                      /\ TickOf(tl, j, rate) = TickOf(tl, i, rate)
<1> DEFINE t == TickOf(tl, i, rate)
           A == {k \in DOMAIN tl.ticks : TickOf(tl, k, rate) = t}
           j == Min(A)
<1>1. DOMAIN tl.ticks = 1..Len(tl.ticks) /\ Len(tl.ticks) \in Nat
  BY DEF Regular
<1>2. A \in SUBSET Nat /\ i \in A
  BY <1>1
<1>3. j \in A /\ \A k \in A : j <= k
  <2>1. A # {}
    BY <1>2
  <2> HIDE DEF A
  <2> QED BY <1>2, <2>1, MinIsIn
<1>4. j \in DOMAIN tl.ticks /\ TickOf(tl, j, rate) = t
  <2> HIDE DEF j
  <2> QED BY <1>3
<1>5. Suitable(tl, j, rate)
  <2> SUFFICES ASSUME j # 1 PROVE TickOf(tl, j - 1, rate) < TickOf(tl, j, rate)
    BY DEF Suitable
  <2> HIDE DEF j
  <2>1. j - 1 \in DOMAIN tl.ticks /\ j - 1 < j /\ j - 1 <= j
    BY <1>1, <1>4
  <2>2. j - 1 \notin A
    <3> HIDE DEF A
    <3>1. j \in Nat /\ ~(j <= j - 1)
      BY <1>1, <1>4
    <3> QED BY <1>3, <3>1
  <2>3. TickOf(tl, j - 1, rate) # t
    BY <2>1, <2>2
  <2>4. /\ TickOf(tl, j - 1, rate) <= TickOf(tl, j, rate)
        /\ TickOf(tl, j - 1, rate) \in Nat /\ TickOf(tl, j, rate) \in Nat
    BY <1>4, <2>1, TicksOf
  <2> QED BY <1>4, <2>3, <2>4
<1> HIDE DEF j
<1> QED BY <1>4, <1>5

\* Where there is no gap, the starts are length output frames apart.
Spaced(tl, starts, rate, length) ==
    \A p \in DOMAIN starts : p + 1 \in DOMAIN starts =>
        TickOf(tl, starts[p + 1], rate) - TickOf(tl, starts[p], rate) = length

\* segment_aligned_starts before its remainder is seen to.
LEMMA SegmentWalk ==
    ASSUME NEW tl, Regular(tl), tl.ticks # <<>>, NEW rate, IsRate(rate), NEW seconds,
           PieceLength(seconds, rate) \in Nat \ {0}
    PROVE  \E s, last :
              /\ Good(tl, s, rate)
              /\ segment_aligned_starts(tl, seconds, rate) =
                    JoinRemainder(s, 2 * (last - TickOf(tl, s[Len(s)], rate))
                                        < PieceLength(seconds, rate))
              /\ last \in Nat /\ last <= TickOf(tl, Len(tl.ticks), rate)
              /\ NoGaps(tl, rate) => Spaced(tl, s, rate, PieceLength(seconds, rate))
<1> DEFINE length == PieceLength(seconds, rate)
           tick(i) == TickOf(tl, i, rate)
           N == Len(tl.ticks)
           I == {i \in DOMAIN tl.ticks : Suitable(tl, i, rate)}
           last == Max({tick(i) : i \in I})
           first == tick(Min(I))
           there(target) == {i \in I : tick(i) - first >= target}
           Stop == {m \in Nat : there(m) = {}}
           item == [m \in Nat |-> Min(there(m))]
           at == [i \in I |-> tick(i) - first]
           next == [i \in I |-> tick(i) - first + length]
           Body(f) == [target \in Nat |->
                          IF there(target) = {} THEN <<>>
                          ELSE <<Min(there(target))>> \o f[tick(Min(there(target))) - first + length]]
           c == CHOOSE f : f = Body(f)
<1>1. /\ N \in Nat /\ DOMAIN tl.ticks = 1..N /\ N >= 1
      /\ \A i \in DOMAIN tl.ticks : tick(i) \in Nat /\ tick(i) <= EndTick(tl, rate)
      /\ EndTick(tl, rate) \in Nat
      /\ \A i, j \in DOMAIN tl.ticks : i <= j => tick(i) <= tick(j)
  <2>1. tl.ticks \in Seq(Nat)
    BY DEF Regular
  <2>2. N \in Nat /\ DOMAIN tl.ticks = 1..N /\ N >= 1
    BY <2>1
  <2> QED BY <2>2, TicksOf
<1>2. length \in Nat /\ length > 0
  OBVIOUS
<1> HIDE DEF length
<1>3. \A i \in I : /\ i \in DOMAIN tl.ticks /\ i \in Nat /\ tick(i) \in Nat
                   /\ tick(i) <= EndTick(tl, rate) /\ Suitable(tl, i, rate)
  <2> SUFFICES ASSUME NEW i \in I
               PROVE  /\ i \in DOMAIN tl.ticks /\ i \in Nat /\ tick(i) \in Nat
                      /\ tick(i) <= EndTick(tl, rate) /\ Suitable(tl, i, rate)
    OBVIOUS
  <2>1. i \in DOMAIN tl.ticks /\ Suitable(tl, i, rate)
    OBVIOUS
  <2> HIDE DEF I, N, tick
  <2> QED BY <1>1, <2>1
<1>4. 1 \in I
  BY <1>1 DEF Suitable
<1>0. /\ first = tick(1) /\ first \in Nat /\ \A i \in I : 1 <= i /\ tick(i) - first \in Nat
  <2>1. \A i \in I : 1 <= i
    <3> HIDE DEF I, N, tick
    <3> QED BY <1>1, <1>3
  <2>2. Min(I) = 1
    <3>1. I \in SUBSET Int
      <4> HIDE DEF I
      <4> QED BY <1>3
    <3> HIDE DEF I
    <3> QED BY <1>4, <2>1, <3>1, MinIs
  <2>3. \A i \in I : tick(1) <= tick(i) /\ tick(1) \in Nat /\ tick(i) \in Nat
    <3> HIDE DEF I, N, tick
    <3> QED BY <1>1, <1>3, <1>4, <2>1
  <2>4. first = tick(1)
    BY <2>2
  <2> HIDE DEF I, tick, first
  <2> QED BY <1>4, <2>1, <2>3, <2>4
<1> HIDE DEF first
<1>5. ASSUME NEW m \in Nat, there(m) # {}
      PROVE  item[m] = Min(there(m)) /\ item[m] \in there(m) /\ \A y \in there(m) : item[m] <= y
  <2>1. there(m) \in SUBSET Nat
    <3> HIDE DEF I
    <3> QED BY <1>3
  <2> HIDE DEF there
  <2>2. item[m] = Min(there(m))
    OBVIOUS
  <2> HIDE DEF item
  <2> QED BY <1>5, <2>1, <2>2, MinIsIn
<1>6. \A i \in I : at[i] = tick(i) - first /\ next[i] = tick(i) - first + length
  <2> HIDE DEF I
  <2> QED OBVIOUS
<1> HIDE DEF tick, I, at, next
<1>7. Leads(EndTick(tl, rate), Stop, I, item, next, at)
  <2>1. Stop \in SUBSET Nat
    OBVIOUS
  <2>2. ASSUME NEW m \in Nat, m > EndTick(tl, rate) PROVE m \in Stop
    <3>1. ASSUME NEW i \in I PROVE ~(tick(i) - first >= m)
      BY <1>1, <1>3, <1>0, <2>2
    <3>2. there(m) = {}
      BY <3>1
    <3> HIDE DEF there
    <3> QED BY <3>2
  <2>3. ASSUME NEW m \in Nat \ Stop PROVE item[m] \in I /\ m <= at[item[m]]
    <3>1. m \in Nat /\ there(m) # {}
      <4> HIDE DEF there
      <4> QED OBVIOUS
    <3>2. item[m] \in there(m)
      <4> HIDE DEF there, item, Stop
      <4> QED BY <1>5, <3>1
    <3> HIDE DEF item
    <3>3. item[m] \in I /\ tick(item[m]) - first >= m
      BY <3>2
    <3>4. at[item[m]] = tick(item[m]) - first /\ tick(item[m]) \in Nat
      BY <1>3, <1>6, <3>3
    <3> QED BY <3>1, <3>3, <3>4
  <2>4. \A i \in I : at[i] \in Nat /\ next[i] \in Nat /\ at[i] < next[i]
    BY <1>2, <1>3, <1>6, <1>0
  <2> HIDE DEF Stop, item
  <2> QED BY <1>1, <2>1, <2>2, <2>3, <2>4 DEF Leads
<1>8. ASSUME NEW f PROVE f = Body(f) <=> WalkOf(f, Stop, item, next)
  <2> DEFINE Walk == [m \in Nat |-> IF m \in Stop THEN <<>> ELSE <<item[m]>> \o f[next[item[m]]]]
  <2>1. ASSUME NEW m \in Nat PROVE Body(f)[m] = Walk[m]
    <3> DEFINE j == Min(there(m))
    <3>1. Body(f)[m] = IF there(m) = {} THEN <<>> ELSE <<j>> \o f[tick(j) - first + length]
      <4> HIDE DEF there
      <4> QED OBVIOUS
    <3>2. Walk[m] = IF m \in Stop THEN <<>> ELSE <<item[m]>> \o f[next[item[m]]]
      <4> HIDE DEF Stop, item
      <4> QED OBVIOUS
    <3>3. m \in Stop <=> there(m) = {}
      <4> HIDE DEF there
      <4> QED OBVIOUS
    <3>4. m \notin Stop => item[m] = j /\ next[item[m]] = tick(j) - first + length
      <4> SUFFICES ASSUME m \notin Stop PROVE item[m] = j /\ next[item[m]] = tick(j) - first + length
        OBVIOUS
      <4>1. item[m] = j /\ there(m) # {}
        <5> HIDE DEF there
        <5> QED OBVIOUS
      <4>2. j \in I
        <5>1. item[m] \in there(m)
          <6> HIDE DEF there, item
          <6> QED BY <1>5, <4>1
        <5> HIDE DEF item, j
        <5> QED BY <4>1, <5>1
      <4>3. next[j] = tick(j) - first + length
        <5> HIDE DEF j
        <5> QED BY <1>6, <4>2
      <4> HIDE DEF item, j
      <4> QED BY <4>1, <4>3
    <3> HIDE DEF Stop, item, j, Body, Walk, there
    <3> QED BY <3>1, <3>2, <3>3, <3>4
  <2>2. Body(f) = [m \in Nat |-> Body(f)[m]] /\ Walk = [m \in Nat |-> Walk[m]]
    OBVIOUS
  <2>3. WalkOf(f, Stop, item, next) <=> f = Walk
    <3> HIDE DEF Stop, item
    <3> QED BY DEF WalkOf
  <2> HIDE DEF Body, Walk
  <2>4. Body(f) = Walk
    BY <2>1, <2>2
  <2> QED BY <2>3, <2>4
<1>9. WalkOf(c, Stop, item, next)
  <2> HIDE DEF Stop, item, Body
  <2>1. \E f : WalkOf(f, Stop, item, next)
    BY <1>7, WalkExists
  <2>2. \E f : f = Body(f)
    BY <1>8, <2>1
  <2>3. c = Body(c)
    BY <2>2
  <2> QED BY <1>8, <2>3
<1> DEFINE s == c[0]
<1>10. segment_aligned_starts(tl, seconds, rate) =
           JoinRemainder(s, 2 * (last - TickOf(tl, s[Len(s)], rate)) < length)
  <2>1. segment_aligned_starts(tl, seconds, rate) =
           LET starts == IF I = {} THEN <<>> ELSE s
           IN  JoinRemainder(starts, 2 * (last - tick(starts[Len(starts)])) < length)
    BY DEF segment_aligned_starts, I, tick, length, first
  <2> HIDE DEF s, last
  <2> QED BY <1>4, <2>1 DEF tick
<1>11. Collected(s, 0, Stop, I, item, next, at)
  <2> HIDE DEF c, Stop, item
  <2> QED BY <1>7, <1>9, WalkCollects
<1>12. 0 \notin Stop /\ item[0] = 1
  <2>1. 1 \in there(0) /\ \A y \in there(0) : 1 <= y
    <3>1. \A y \in I : 1 <= y
      BY <1>1, <1>3
    <3>2. tick(1) - first >= 0
      BY <1>4, <1>0
    <3> QED BY <1>4, <3>1, <3>2
  <2>2. item[0] \in there(0) /\ item[0] <= 1
    <3> HIDE DEF item, there
    <3> QED BY <1>5, <2>1
  <2>3. 0 \notin Stop
    <3> HIDE DEF there
    <3> QED BY <2>1
  <2>4. item[0] = 1
    <3>1. item[0] \in Nat /\ 1 <= item[0]
      <4> HIDE DEF item
      <4>1. item[0] \in I
        BY <2>2
      <4> QED BY <1>1, <1>3, <4>1
    <3> HIDE DEF item
    <3> QED BY <2>2, <3>1
  <2> QED BY <2>3, <2>4
<1> HIDE DEF c, Body
<1>13. /\ s \in Seq(I) /\ Len(s) > 0 /\ s[1] = 1
       /\ \A p, q \in DOMAIN s : p < q => next[s[p]] <= at[s[q]]
       /\ \A p \in DOMAIN s : s[p] \in I
       /\ \A p \in DOMAIN s : p + 1 \in DOMAIN s =>
             next[s[p]] \notin Stop /\ s[p + 1] = item[next[s[p]]]
  <2> HIDE DEF s, Stop, item
  <2>1. s \in Seq(I)
    BY <1>11 DEF Collected
  <2>2. /\ Len(s) > 0 /\ s[1] = item[0]
        /\ \A p, q \in DOMAIN s : p < q => next[s[p]] <= at[s[q]]
        /\ \A p \in DOMAIN s : p + 1 \in DOMAIN s =>
              next[s[p]] \notin Stop /\ s[p + 1] = item[next[s[p]]]
    BY <1>11, <1>12 DEF Collected
  <2>3. \A p \in DOMAIN s : s[p] \in I
    BY <2>1
  <2> QED BY <1>12, <2>1, <2>2, <2>3
<1> HIDE DEF s
<1>14. ASSUME NEW p \in DOMAIN s, NEW q \in DOMAIN s, p < q
       PROVE  tick(s[p]) < tick(s[q])
  <2>1. s[p] \in I /\ s[q] \in I /\ next[s[p]] <= at[s[q]]
    BY <1>13, <1>14
  <2>2. /\ next[s[p]] = tick(s[p]) - first + length /\ at[s[q]] = tick(s[q]) - first
        /\ tick(s[p]) \in Nat /\ tick(s[q]) \in Nat
    BY <1>3, <1>6, <2>1
  <2> QED BY <1>2, <1>0, <2>1, <2>2
<1>15. Good(tl, s, rate)
  <2>1. s \in Seq(DOMAIN tl.ticks)
    <3> DEFINE J == DOMAIN tl.ticks
    <3>1. I \subseteq J
      BY <1>3
    <3> HIDE DEF J
    <3>2. s \in Seq(J)
      BY <1>13, <3>1
    <3> QED BY <3>2 DEF J
  <2>2. \A p, q \in DOMAIN s : p < q => TickOf(tl, s[p], rate) < TickOf(tl, s[q], rate)
    BY <1>14 DEF tick
  <2> QED BY <1>13, <2>1, <2>2 DEF Good
<1>16. last \in Nat /\ last <= TickOf(tl, N, rate)
  <2> DEFINE V == {tick(i) : i \in I}
  <2>1. V \in SUBSET Nat /\ V # {} /\ \A y \in V : y <= EndTick(tl, rate)
    BY <1>3, <1>4
  <2>2. Max(V) \in V
    <3> HIDE DEF V
    <3> QED BY <1>1, <2>1, MaxIsIn
  <2>3. PICK i \in I : last = tick(i)
    <3> HIDE DEF last
    <3>1. last \in V
      BY <2>2 DEF last
    <3> QED BY <3>1
  <2> HIDE DEF last
  <2>4. tick(i) <= tick(N) /\ tick(i) \in Nat
    <3>1. i \in DOMAIN tl.ticks /\ N \in DOMAIN tl.ticks /\ i <= N
      <4> HIDE DEF N
      <4> QED BY <1>1, <1>3
    <3> QED BY <1>1, <1>3, <3>1
  <2> QED BY <2>3, <2>4 DEF tick
<1>17. ASSUME NoGaps(tl, rate) PROVE Spaced(tl, s, rate, length)
  <2> SUFFICES ASSUME NEW p \in DOMAIN s, p + 1 \in DOMAIN s
               PROVE  tick(s[p + 1]) - tick(s[p]) = length
    BY DEF Spaced, tick
  <2> DEFINE T == tick(s[p]) + length
             U == tick(s[p]) - first + length
             m == item[U]
  <2>1. s[p] \in I /\ tick(s[p]) \in Nat /\ next[s[p]] = U
    BY <1>3, <1>6, <1>13
  <2>2. T \in Nat /\ T >= tick(s[p]) /\ U \in Nat /\ U = T - first
    BY <1>2, <1>0, <2>1
  <2>3. U \notin Stop /\ s[p + 1] = m
    <3> HIDE DEF Stop, item, U
    <3> QED BY <1>13, <2>1
  <2> HIDE DEF T, U
  <2>4. m \in there(U) /\ \A y \in there(U) : m <= y
    <3>1. there(U) # {}
      <4> HIDE DEF there
      <4> QED BY <2>2, <2>3
    <3> HIDE DEF there, item
    <3> QED BY <1>5, <2>2, <3>1
  <2> HIDE DEF m
  <2>5. m \in I /\ tick(m) >= T
    <3>1. m \in I /\ tick(m) - first >= U
      BY <2>4
    <3> QED BY <1>3, <1>0, <2>2, <3>1
  <2>6. T \in tick(1)..tick(N)
    <3>1. tick(1) <= tick(s[p]) /\ tick(m) <= tick(N)
      <4>1. 1 \in DOMAIN tl.ticks /\ N \in DOMAIN tl.ticks
        <5> HIDE DEF N
        <5> QED BY <1>1
      <4>2. 1 <= s[p] /\ s[p] \in DOMAIN tl.ticks /\ m <= N /\ m \in DOMAIN tl.ticks
        <5> HIDE DEF N
        <5> QED BY <1>1, <1>3, <2>1, <2>5
      <4> QED BY <1>1, <4>1, <4>2
    <3>2. tick(1) \in Nat /\ tick(N) \in Nat /\ tick(m) \in Nat
      <4>1. 1 \in DOMAIN tl.ticks /\ N \in DOMAIN tl.ticks
        <5> HIDE DEF N
        <5> QED BY <1>1
      <4> QED BY <1>1, <1>3, <2>5, <4>1
    <3> QED BY <2>1, <2>2, <2>5, <3>1, <3>2
  <2>7. PICK i \in DOMAIN tl.ticks : tick(i) = T
    BY <1>17, <2>6 DEF NoGaps, tick
  <2>8. PICK j \in DOMAIN tl.ticks : Suitable(tl, j, rate) /\ tick(j) = T
    <3>1. PICK j \in DOMAIN tl.ticks : Suitable(tl, j, rate) /\ TickOf(tl, j, rate) = TickOf(tl, i, rate)
      BY SomeFrameBegins
    <3> QED BY <2>7, <3>1 DEF tick
  <2>9. j \in there(U)
    <3>1. j \in I
      BY <2>8 DEF I
    <3>2. tick(j) - first >= U
      BY <1>0, <2>2, <2>8
    <3> QED BY <3>1, <3>2
  <2>10. m <= j
    <3> HIDE DEF there
    <3> QED BY <2>4, <2>9
  <2>11. tick(m) <= T
    BY <1>1, <1>3, <2>5, <2>8, <2>10
  <2>12. tick(m) = T
    BY <1>3, <2>2, <2>5, <2>11
  <2> QED BY <1>2, <2>1, <2>3, <2>12 DEF T
<1> HIDE DEF last
<1> QED BY <1>10, <1>15, <1>16, <1>17 DEF length

\* What segment_aligned_starts returns: good starts, and where there is no gap
\* length apart, with at least half of it left.
LEMMA SegmentStarts ==
    ASSUME NEW tl, Regular(tl), tl.ticks # <<>>, NEW rate, IsRate(rate), NEW seconds,
           PieceLength(seconds, rate) \in Nat \ {0}, NEW r,
           r = segment_aligned_starts(tl, seconds, rate)
    PROVE  /\ Good(tl, r, rate)
           /\ NoGaps(tl, rate) /\ Len(r) > 1 =>
                /\ Spaced(tl, r, rate, PieceLength(seconds, rate))
                /\ 2 * (TickOf(tl, Len(tl.ticks), rate) - TickOf(tl, r[Len(r)], rate))
                      >= PieceLength(seconds, rate)
<1> DEFINE length == PieceLength(seconds, rate)
           end == TickOf(tl, Len(tl.ticks), rate)
           tick(i) == TickOf(tl, i, rate)
<1>1. PICK s, last :
              /\ Good(tl, s, rate)
              /\ r = JoinRemainder(s, 2 * (last - tick(s[Len(s)])) < length)
              /\ last \in Nat /\ last <= end
              /\ NoGaps(tl, rate) => Spaced(tl, s, rate, length)
  BY SegmentWalk
<1> DEFINE L == Len(s)
           short == 2 * (last - tick(s[L])) < length
<1>2. Good(tl, r, rate)
  BY <1>1, RemainderJoins
<1>3. /\ s \in Seq(DOMAIN tl.ticks) /\ L \in Nat /\ L > 0 /\ DOMAIN s = 1..L
      /\ \A p \in 1..L : s[p] \in DOMAIN tl.ticks
  BY <1>1 DEF Good
<1>4. \A p \in 1..L : tick(s[p]) \in Nat /\ tick(s[p]) <= end /\ end \in Nat
  <2> SUFFICES ASSUME NEW p \in 1..L PROVE tick(s[p]) \in Nat /\ tick(s[p]) <= end /\ end \in Nat
    OBVIOUS
  <2>1. s[p] \in DOMAIN tl.ticks
    BY <1>3
  <2>2. Len(tl.ticks) \in DOMAIN tl.ticks /\ s[p] <= Len(tl.ticks)
    <3>1. tl.ticks \in Seq(Nat)
      BY DEF Regular
    <3> QED BY <2>1, <3>1
  <2> QED BY <2>1, <2>2, TicksOf
<1>5. length \in Nat /\ length > 0
  OBVIOUS
<1> HIDE DEF length, end, tick, L
<1> SUFFICES ASSUME NoGaps(tl, rate), Len(r) > 1
             PROVE  Spaced(tl, r, rate, length) /\ 2 * (end - tick(r[Len(r)])) >= length
  BY <1>2 DEF length, end, tick
<1>6. \A p \in 1..L : p + 1 \in 1..L => tick(s[p + 1]) - tick(s[p]) = length
  BY <1>1, <1>3 DEF Spaced, tick
<1>7. CASE L > 1 /\ short
  <2>1. r = SubSeq(s, 1, L - 1)
    BY <1>1, <1>7 DEF JoinRemainder, L
  <2>2. /\ L - 1 \in Nat /\ L - 1 <= Len(s) /\ s \in Seq(DOMAIN tl.ticks)
        /\ L - 1 \in 1..L /\ (L - 1) + 1 = L /\ L \in 1..L
    BY <1>3, <1>7 DEF L
  <2>3. Len(r) = L - 1 /\ DOMAIN r = 1..(L - 1) /\ \A p \in 1..(L - 1) : r[p] = s[p]
    <3> DEFINE J == DOMAIN tl.ticks
    <3>1. s \in Seq(J)
      BY <2>2
    <3> HIDE DEF J
    <3>2. r \in Seq(J) /\ Len(r) = L - 1 /\ \A p \in 1..(L - 1) : r[p] = s[p]
      BY <2>1, <2>2, <3>1, PrefixOf
    <3> QED BY <3>2
  <2>4. Spaced(tl, r, rate, length)
    <3> SUFFICES ASSUME NEW p \in DOMAIN r, p + 1 \in DOMAIN r
                 PROVE  tick(r[p + 1]) - tick(r[p]) = length
      BY DEF Spaced, tick
    <3>1. p \in 1..L /\ p + 1 \in 1..L /\ r[p] = s[p] /\ r[p + 1] = s[p + 1]
      BY <1>3, <2>2, <2>3
    <3> QED BY <1>6, <3>1
  <2>5. r[Len(r)] = s[L - 1]
    <3>1. L - 1 \in 1..(L - 1)
      BY <2>2
    <3> QED BY <2>3, <3>1
  <2>6. tick(s[L]) - tick(s[L - 1]) = length
    BY <1>6, <2>2
  <2>7. tick(s[L]) \in Nat /\ tick(s[L - 1]) \in Nat /\ tick(s[L]) <= end /\ end \in Nat
    BY <1>4, <2>2
  <2>8. 2 * (end - tick(s[L - 1])) >= length
    BY <1>5, <2>6, <2>7
  <2> QED BY <2>4, <2>5, <2>8
<1>8. CASE ~(L > 1 /\ short)
  <2>1. r = s
    BY <1>1, <1>8 DEF JoinRemainder, L
  <2>2. ~ short
    BY <1>8, <2>1 DEF L
  <2>3. tick(s[L]) \in Nat /\ end \in Nat
    <3>1. L \in 1..L
      BY <1>3
    <3> QED BY <1>4, <3>1
  <2> DEFINE t == tick(s[L])
  <2> HIDE DEF t
  <2>4. ~(2 * (last - t) < length)
    BY <2>2 DEF t
  <2>5. 2 * (end - t) >= length
    BY <1>1, <1>5, <2>3, <2>4 DEF t
  <2> QED BY <1>1, <2>1, <2>5 DEF t, L
<1> QED BY <1>7, <1>8

\* What PiecesJoinAsOne says of a timeline and a plan.
JoinsAsOne(tl, rate, plan, by) ==
    /\ Joined(tl, plan, rate) = OneEncode(tl, rate)
    /\ by = "ladder" /\ NoGaps(tl, rate) =>
         /\ \A p \in 1..(Len(plan.starts) - 1) :
               \A k \in DOMAIN Segments(plan.frames[p], rate) :
                   Segments(plan.frames[p], rate)[k]
                      >= (SEGMENT_SECONDS * rate[1]) \div rate[2]
         /\ 2 * (TickOf(tl, Len(tl.ticks), rate) - TickOf(tl, Last(plan.starts), rate))
               >= PieceLength(PIECE_SECONDS, rate)

LEMMA CutJoins ==
    ASSUME NEW file, NEW by \in {"mp4", "ladder"}, Regular(Timeline(file)),
           Cut(file, by).plan # NoPlan
    PROVE  JoinsAsOne(Timeline(file), Cut(file, by).rate, Cut(file, by).plan, by)
<1> DEFINE tl == Timeline(file)
           rate == Cut(file, by).rate
           plan == Cut(file, by).plan
<1>0. /\ tl = Timeline(file) /\ Regular(tl)
      /\ rate = Cut(file, by).rate /\ plan = Cut(file, by).plan /\ plan # NoPlan
  OBVIOUS
<1> HIDE DEF tl, rate, plan
<1> DEFINE starts == IF by = "mp4" THEN frame_starts(tl, CHUNK_SECONDS, rate)
                     ELSE segment_aligned_starts(tl, PIECE_SECONDS, rate)
           length == PieceLength(PIECE_SECONDS, rate)
<1>1. rate = OutputRate(tl, MAX_FPS)
  BY <1>0 DEF Cut
<1>2. /\ tl.ticks # <<>> /\ rate[1] > 0
      /\ plan = PlanOf(tl, starts, rate)
  <2> DEFINE asked == wants(tl.end \div tl.tb, MIN_DURATION) /\ tl.ticks # <<>> /\ rate[1] > 0
  <2>1. plan = IF asked THEN PlanOf(tl, starts, rate) ELSE NoPlan
    BY <1>0, <1>1 DEF Cut
  <2>2. asked
    <3> HIDE DEF starts, asked
    <3> QED BY <1>0, <2>1
  <2>3. plan = PlanOf(tl, starts, rate)
    <3> HIDE DEF starts, asked
    <3> QED BY <2>1, <2>2
  <2> HIDE DEF starts
  <2> QED BY <2>2, <2>3
<1>3. IsRate(rate)
  <2>1. IsRate(tl.rate)
    BY <1>0 DEF Regular
  <2>2. IsRate(<<MAX_FPS, 1>>)
    BY RenditionsAssumption DEF IsRate
  <2> QED BY <1>1, <2>1, <2>2 DEF OutputRate
<1>4. PIECE_SECONDS \in Nat /\ CHUNK_SECONDS \in Nat \ {0}
  BY RenditionsAssumption
<1>5. PICK n \in Nat \ {0} : length = Edge(n, rate)
  BY <1>2, <1>3, <1>4, PieceIsSegments
<1>6. length \in Nat \ {0}
  <2>1. Edge(n, rate) \in Int /\ Edge(n, rate) > 0
    BY <1>2, <1>3, Edges
  <2> HIDE DEF length
  <2> QED BY <1>5, <2>1
<1>7. Good(tl, starts, rate)
  <2>1. CASE by = "mp4"
    <3>1. Good(tl, frame_starts(tl, CHUNK_SECONDS, rate), rate)
      BY <1>0, <1>2, <1>3, <1>4, FrameStartsGood
    <3> QED BY <2>1, <3>1
  <2>2. CASE by # "mp4"
    <3>1. Good(tl, segment_aligned_starts(tl, PIECE_SECONDS, rate), rate)
      BY <1>0, <1>2, <1>3, <1>6, SegmentStarts
    <3> QED BY <2>2, <3>1
  <2> QED BY <2>1, <2>2
<1>8. ASSUME by = "ladder", NoGaps(tl, rate), Len(starts) > 1
      PROVE  /\ Spaced(tl, starts, rate, length)
             /\ 2 * (TickOf(tl, Len(tl.ticks), rate) - TickOf(tl, starts[Len(starts)], rate)) >= length
  <2> DEFINE r == segment_aligned_starts(tl, PIECE_SECONDS, rate)
  <2>1. starts = r
    BY <1>8
  <2> HIDE DEF starts, r
  <2>2. r = segment_aligned_starts(tl, PIECE_SECONDS, rate) /\ Len(r) > 1
    BY <1>8, <2>1 DEF r
  <2>3. /\ Spaced(tl, r, rate, length)
        /\ 2 * (TickOf(tl, Len(tl.ticks), rate) - TickOf(tl, r[Len(r)], rate)) >= length
    BY <1>0, <1>2, <1>3, <1>6, <1>8, <2>2, SegmentStarts
  <2> QED BY <2>1, <2>3
<1> HIDE DEF starts, length
<1>9. /\ Len(starts) > 1 /\ plan.starts = starts
      /\ plan.start_ticks = [p \in DOMAIN starts |-> tl.ticks[starts[p]]]
      /\ plan.frames = Frames(tl, starts, rate)
  <2>1. Len(starts) \in Nat
    BY <1>7 DEF Good
  <2>2. ~(Len(starts) < 2 \/ rate[1] = 0)
    BY <1>0, <1>2 DEF PlanOf
  <2>3. plan = [starts |-> starts,
                start_ticks |-> [p \in DOMAIN starts |-> tl.ticks[starts[p]]],
                frames |-> Frames(tl, starts, rate)]
    BY <1>2, <2>2 DEF PlanOf
  <2> QED BY <2>1, <2>2, <2>3
<1>10. Joined(tl, plan, rate) = OneEncode(tl, rate)
  BY <1>0, <1>3, <1>7, <1>9, GoodPiecesJoin
<1>11. ASSUME by = "ladder", NoGaps(tl, rate), NEW p \in 1..(Len(starts) - 1)
       PROVE  plan.frames[p] = length
  <2>1. Spaced(tl, starts, rate, length)
    BY <1>8, <1>9, <1>11
  <2>2. p \in DOMAIN starts /\ p + 1 \in DOMAIN starts /\ p # Len(starts)
    <3>1. DOMAIN starts = 1..Len(starts) /\ Len(starts) \in Nat
      BY <1>7 DEF Good
    <3> DEFINE L == Len(starts)
    <3>2. L \in Nat /\ p \in 1..(L - 1) /\ DOMAIN starts = 1..L
      BY <3>1
    <3> HIDE DEF L
    <3>3. p \in 1..L /\ p + 1 \in 1..L /\ p # L
      BY <3>2
    <3> QED BY <3>2, <3>3 DEF L
  <2>3. TickOf(tl, starts[p + 1], rate) - TickOf(tl, starts[p], rate) = length
    BY <2>1, <2>2 DEF Spaced
  <2>4. plan.frames[p] = TickOf(tl, starts[p + 1], rate) - TickOf(tl, starts[p], rate)
    BY <1>9, <2>2 DEF Frames
  <2> QED BY <2>3, <2>4
<1>12. \A k \in DOMAIN Segments(length, rate) :
          Segments(length, rate)[k] >= (SEGMENT_SECONDS * rate[1]) \div rate[2]
  BY <1>2, <1>3, <1>5, SegmentsAreWhole
<1>13. ASSUME by = "ladder", NoGaps(tl, rate)
       PROVE  /\ \A p \in 1..(Len(plan.starts) - 1) :
                    \A k \in DOMAIN Segments(plan.frames[p], rate) :
                        Segments(plan.frames[p], rate)[k]
                           >= (SEGMENT_SECONDS * rate[1]) \div rate[2]
              /\ 2 * (TickOf(tl, Len(tl.ticks), rate) - TickOf(tl, Last(plan.starts), rate)) >= length
  <2>1. ASSUME NEW p \in 1..(Len(plan.starts) - 1)
        PROVE  \A k \in DOMAIN Segments(plan.frames[p], rate) :
                  Segments(plan.frames[p], rate)[k] >= (SEGMENT_SECONDS * rate[1]) \div rate[2]
    <3>1. plan.frames[p] = length
      BY <1>9, <1>11, <1>13
    <3> QED BY <1>12, <3>1
  <2>2. Last(plan.starts) = starts[Len(starts)]
    BY <1>9 DEF Last
  <2> QED BY <1>8, <1>9, <1>13, <2>1, <2>2
<1>14. JoinsAsOne(tl, rate, plan, by)
  BY <1>10, <1>13 DEF JoinsAsOne, length
<1> QED BY <1>14 DEF tl, rate, plan

\* What is being encoded in pieces is a file, cut one way or the other.
CutFact ==
    cut # NoCut =>
        \E file \in Files, by \in {"mp4", "ladder"} :
            cut = Cut(file, by) /\ cut.file = file /\ cut.by = by

LEMMA CutStep == Inv /\ CutFact /\ [Next]_vars => CutFact'
<1> SUFFICES ASSUME Inv, CutFact, [Next]_vars PROVE CutFact'
  OBVIOUS
<1>1. \A file : Cut(file, "mp4").file = file /\ Cut(file, "ladder").file = file
                /\ Cut(file, "mp4").by = "mp4" /\ Cut(file, "ladder").by = "ladder"
  BY DEF Cut
<1>2. CASE UNCHANGED cut
  BY <1>2 DEF CutFact
<1>3. CASE cut' = NoCut
  BY <1>3 DEF CutFact, NoCut
<1>4. CASE EncodeMp4
  <2>1. PICK file \in Files : cut' = Cut(file, "mp4")
    BY <1>4 DEF EncodeMp4
  <2> QED BY <1>1, <2>1 DEF CutFact
<1>5. CASE PlanLadder
  <2>1. cut # NoCut
    BY <1>5 DEF PlanLadder, Inv, Typed, TypeOK
  <2>2. cut.file \in Files /\ cut' = Cut(cut.file, "ladder")
    BY <1>5, <2>1 DEF CutFact, PlanLadder
  <2> QED BY <1>1, <2>2 DEF CutFact
<1>6. CASE Ladder
  <2>1. EncodeLadder => cut' = NoCut
    BY DEF EncodeLadder
  <2>2. UploadLadder \/ RecordLadder \/ LadderBreaks \/ RunHooks => UNCHANGED cut
    BY DEF UploadLadder, RecordLadder, LadderBreaks, RunHooks, ladderVars
  <2> QED BY <1>2, <1>3, <1>4, <1>5, <1>6, <2>1, <2>2 DEF Ladder
<1>7. CASE Play \/ DeleteVideo \/ MinutePasses
  <2>1. UNCHANGED cut
    BY <1>7 DEF Play, DeleteVideo, MinutePasses, ladderVars
  <2> QED BY <1>2, <2>1
<1>8. ASSUME NEW w \in Workers, Begin(w) \/ Step(w) \/ Raises(w) \/ SigTerm(w) \/ Killed(w)
      PROVE  CutFact'
  <2>1. UNCHANGED cut
    BY <1>8 DEF Step, Begin, CheckStop, TakeLock, Register, ProcessEnds, Unregister, UploadPlaylist,
       UploadMedia, TakeMasterLock, ReadMaster, WriteMaster, AlarmBreaks, Raises, SigTerm, Killed,
       runVars, ladderVars
  <2> QED BY <1>2, <2>1
<1>9. CASE UNCHANGED vars
  <2>1. UNCHANGED cut
    BY <1>9 DEF vars, ladderVars
  <2> QED BY <1>2, <2>1
<1> QED BY <1>6, <1>7, <1>8, <1>9 DEF Next

\* The pieces of a long video, encoded apart and joined, show frame for frame
\* what one encode shows, and the ladder's pieces are whole segments
\* (Renditions.PiecesJoinAsOne): wherever frame_starts and
\* segment_aligned_starts cut, whatever frames are missing or late, at any
\* rate, and however the filter's rounding falls.  The hypothesis is of the
\* file: its sorted timestamps are not negative and differ by more than the
\* millisecond that piece_command seeks back, which the code relies on and does
\* not check, and none is after the end.
THEOREM PiecesJoin ==
    ASSUME \A file \in Files : Regular(Timeline(file))
    PROVE  Spec => []PiecesJoinAsOne
<1>1. Init => CutFact
  BY DEF Init, CutFact
<1>2. Inv /\ CutFact /\ [Next]_vars => CutFact'
  BY CutStep
<1>3. CutFact => PiecesJoinAsOne
  <2> SUFFICES ASSUME CutFact, cut # NoCut, cut.plan # NoPlan PROVE PiecesJoinAsOne
    BY DEF PiecesJoinAsOne
  <2>1. PICK file \in Files, by \in {"mp4", "ladder"} :
            cut = Cut(file, by) /\ cut.file = file /\ cut.by = by
    BY DEF CutFact
  <2>2. Regular(Timeline(file)) /\ Cut(file, by).plan # NoPlan
    BY <2>1
  <2>3. JoinsAsOne(Timeline(file), Cut(file, by).rate, Cut(file, by).plan, by)
    BY <2>2, CutJoins
  <2>4. JoinsAsOne(Timeline(cut.file), cut.rate, cut.plan, cut.by)
    BY <2>1, <2>3
  <2> QED BY <2>4 DEF PiecesJoinAsOne, JoinsAsOne
<1> QED BY <1>1, <1>2, <1>3, Invariant, PTL DEF Spec
=============================================================================
