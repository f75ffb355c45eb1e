------------------------------ MODULE TextSlices -----------------------------
(***************************************************************************)
(* How an episode is cut: into chunks for the extraction, along its        *)
(* paragraphs (app/chunking/chunk_splitter.py), into overlapping slices of *)
(* tokens for the retrieval index, along its sentences                     *)
(* (app/retrieval/chunking.py), and into the segments of the setting       *)
(* branch of a validation, after line feeds (app/validation/contracts.py). *)
(* A slice is a pair of offsets into the text: every citation, every       *)
(* stored vector and every published segment is found by them.             *)
(*                                                                         *)
(* A character is one of five kinds: a letter (two in a row are one        *)
(* token), a wide character (two tokens), a full stop, a space and a line  *)
(* feed.  Tokens are counted from the start of a slice, so the count of a  *)
(* slice is not the sum of the counts of its parts.                        *)
(***************************************************************************)
EXTENDS Naturals, Sequences, FiniteSetsExt, SequencesExt

CONSTANTS MaxLength,      \* of a text
          ChunkTarget,    \* DEFAULT_TARGET_CHARS
          ChunkMax,       \* DEFAULT_MAX_CHARS
          ChunkMin,       \* DEFAULT_MIN_CHARS
          WholeMax,       \* WHOLE_EPISODE_MAX_CHARS
          TargetTokens,   \* TARGET_TOKENS
          OverlapTokens,  \* OVERLAP_TOKENS
          WindowSize,     \* TARGET_TOKENS * 16: the characters tried for one slice
          UnitChars       \* unit_chars: the length a setting segment has at most on average

ASSUME ChunksAssumption ==
  ChunkMax \in Nat \ {0} /\ WholeMax \in Nat \ {0} /\ ChunkTarget \in Nat /\ ChunkMin \in Nat
\* Half a target is more than the overlap, and no more than a window of letters.
ASSUME SlicesAssumption ==
  /\ TargetTokens \in Nat /\ OverlapTokens \in Nat /\ WindowSize \in Nat
  /\ OverlapTokens < TargetTokens \div 2 /\ TargetTokens \div 2 <= (WindowSize + 1) \div 2
ASSUME UnitAssumption == UnitChars \in Nat \ {0}

VARIABLES text,    \* the episode
          cutting, \* what it is cut into
          slices   \* the result
slicing == <<text, cutting, slices>>

Blank == {"space", "feed"}
Slice(start, end) == [start |-> start, end |-> end]
HasText(t, i, j) == \E k \in i + 1 .. j : t[k] \notin Blank

SlicesInit == text = <<>> /\ cutting = "none" /\ slices = <<>>

-----------------------------------------------------------------------------
\* Chunks of paragraphs

\* A line ends at a line feed, the last one at the end of the text; it starts behind the
\* line feed before it.
LineEnds(t) == {k \in 1 .. Len(t) + 1 : k = Len(t) + 1 \/ t[k] = "feed"}
LineAt(t, k) == Slice(Max({e \in LineEnds(t) \union {0} : e < k}), k - 1)
IsParagraph(t, k) == k \in LineEnds(t) /\ HasText(t, LineAt(t, k).start, LineAt(t, k).end)

\* split_paragraphs: the lines that are not blank, without their line feed.
Paragraphs(t) == {LineAt(t, k) : k \in {e \in LineEnds(t) : IsParagraph(t, e)}}

Length(s) == s.end - s.start

\* _split_long_paragraph
CutLong(p, max) ==
  [k \in 1 .. (Length(p) + max - 1) \div max |->
     Slice(p.start + (k - 1) * max, Min({p.start + k * max, p.end}))]

\* The paragraphs that are collected for the next chunk, as one slice; none at first.
NoParagraph == Slice(0, 0)
Extended(current, p) == IF current = NoParagraph THEN p ELSE Slice(current.start, p.end)
Flushed(chunks, current) == IF current = NoParagraph THEN chunks ELSE Append(chunks, current)

\* Mutant: only the paragraph itself is measured.
AddAnyParagraph(state, p, target, max, min) ==
  LET joined == Extended(state.current, p)
  IN IF Length(joined) >= target /\ Length(joined) >= min
     THEN [chunks |-> Append(state.chunks, joined), current |-> NoParagraph]
     ELSE [state EXCEPT !.current = joined]

\* One paragraph in the loop of split_into_chunks.
AddParagraph(state, p, target, max, min) ==
  LET joined == Extended(state.current, p)
  IN CASE Length(p) > max ->
            [chunks |-> Flushed(state.chunks, state.current) \o CutLong(p, max),
             current |-> NoParagraph]
       [] Length(p) <= max /\ Length(joined) > max ->
            [chunks |-> Flushed(state.chunks, state.current), current |-> p]
       [] Length(joined) <= max /\ Length(joined) >= target /\ Length(joined) >= min ->
            [chunks |-> Append(state.chunks, joined), current |-> NoParagraph]
       [] OTHER -> [state EXCEPT !.current = joined]

\* The loop over the paragraphs, in the order in which they end.
ChunksOf(t, target, max, min) ==
  LET after[k \in 0 .. Len(t) + 1] ==
        IF k = 0 THEN [chunks |-> <<>>, current |-> NoParagraph]
        ELSE IF IsParagraph(t, k)
             THEN AddParagraph(after[k - 1], LineAt(t, k), target, max, min)
             ELSE after[k - 1]
      all == after[Len(t) + 1]
  IN Flushed(all.chunks, all.current)

\* split_episode_into_chunks: a short episode stays whole.
EpisodeChunks(t) ==
  IF Len(t) <= WholeMax THEN ChunksOf(t, WholeMax, WholeMax, ChunkMin)
  ELSE ChunksOf(t, ChunkTarget, ChunkMax, ChunkMin)

-----------------------------------------------------------------------------
\* Slices of tokens

\* Letters are paired from the start of their run on: whether the k-th character is the
\* first of a token when the text is encoded from behind the i-th one on.
RunStart(t, i, k) == Max({p \in i .. k - 1 : p = i \/ t[p] # "letter"})
Begins(t, i, k) == t[k] = "letter" => (k - RunStart(t, i, k)) % 2 = 1

\* The tokens of t[i + 1 .. j] encoded by itself; a wide character has a second one.
Tokens(t, i, j) ==
  Cardinality({k \in i + 1 .. j : Begins(t, i, k)}) + Cardinality({k \in i + 1 .. j : t[k] = "wide"})

AfterStop(t, k) == \E d \in 1 .. k - 1 : t[d] = "stop" /\ ~HasText(t, d, k)

\* Where a line ends, or the blanks behind a full stop.
Boundaries(t) ==
  {k \in DOMAIN t :
     /\ t[k] \in Blank
     /\ IF AfterStop(t, k) THEN k = Len(t) \/ t[k + 1] \notin Blank ELSE t[k] = "feed"}

Fits(t, i, j) == Tokens(t, i, j) <= TargetTokens
Window(t, start) == Min({Len(t), start + WindowSize})

\* A length that fits, by taking quarters off the window.
Fitting(t, start) ==
  LET less[e \in start + 1 .. Len(t)] ==
        IF Fits(t, start, e) THEN e ELSE less[start + Max({1, ((e - start) * 3) \div 4})]
  IN less[Window(t, start)]

\* The longest that fits, by bisection between that and the window.
Filled(t, start) ==
  LET limits == start + 1 .. Len(t)
      half[b \in limits \X limits] ==
        IF b[1] + 1 >= b[2] THEN (IF Fits(t, start, b[2]) THEN b[2] ELSE b[1])
        ELSE LET mid == (b[1] + b[2]) \div 2
             IN half[IF Fits(t, start, mid) THEN <<mid, b[2]>> ELSE <<b[1], mid>>]
  IN half[<<Fitting(t, start), Window(t, start)>>]

\* Mutant: however little is left of the slice.
CutAnywhere(t, start) ==
  LET end == Filled(t, start)
      before == {k \in Boundaries(t) : k <= end /\ k > start}
  IN IF end = Len(t) \/ before = {} THEN end ELSE Max(before)

\* It ends at its last boundary, unless that leaves less than half of the target.
SliceEnd(t, start) ==
  LET end == Filled(t, start)
      before == {k \in Boundaries(t) : k <= end /\ k > start}
  IN IF end = Len(t) \/ before = {} \/ Tokens(t, start, Max(before)) < TargetTokens \div 2
     THEN end ELSE Max(before)

\* The next slice starts at the first boundary of the overlap.
NextStart(t, start, end) ==
  LET back == Min({o \in start + 1 .. end :
                     \A p \in o .. end - 1 : Tokens(t, p, end) <= OverlapTokens})
      inside == {k \in Boundaries(t) : k >= back /\ k < end}
  IN IF inside = {} THEN back ELSE Min(inside)

\* RetrievalSplitter.split; a blank slice is left out and needs no overlap.
RetrievalSlices(t) ==
  LET from[start \in 0 .. Len(t)] ==
        IF start = Len(t) THEN <<>>
        ELSE LET end == SliceEnd(t, start)
             IN IF ~HasText(t, start, end) THEN from[end]
                ELSE <<Slice(start, end)>> \o
                     (IF end = Len(t) THEN <<>> ELSE from[NextStart(t, start, end)])
  IN IF HasText(t, 0, Len(t)) THEN from[0] ELSE <<>>

-----------------------------------------------------------------------------
\* Segments of the setting branch

Distance(a, b) == IF a < b THEN b - a ELSE a - b
NumSettingCores(t) == (Len(t) + UnitChars - 1) \div UnitChars

\* Mutant: the windows of neighbouring cuts overlap.
SettingCutInWideWindow(t, k) ==
  LET n == NumSettingCores(t)
      ideal == (k * Len(t)) \div n
      low == ((k - 1) * Len(t)) \div n
      feeds == {p \in low + 1 .. ((k + 1) * Len(t)) \div n : t[p] = "feed"}
  IN IF feeds = {} THEN Max({ideal, low + 1})
     ELSE Min({p \in feeds : \A q \in feeds : Distance(p, ideal) <= Distance(q, ideal)})

\* setting_cuts: after the line feed nearest to k / n of the text, in a window around it.
SettingCut(t, k) ==
  LET n == NumSettingCores(t)
      ideal == (k * Len(t)) \div n
      low == ((2 * k - 1) * Len(t)) \div (2 * n)
      feeds == {p \in low + 1 .. ((2 * k + 1) * Len(t)) \div (2 * n) : t[p] = "feed"}
  IN IF feeds = {} THEN Max({ideal, low + 1})
     ELSE Min({p \in feeds : \A q \in feeds : Distance(p, ideal) <= Distance(q, ideal)})

\* split_setting_segments: the cores; each is read with some context around it.
SettingSegments(t) ==
  LET bound(k) == CASE k = 0 -> 0 [] k = NumSettingCores(t) -> Len(t) [] OTHER -> SettingCut(t, k)
  IN [k \in 1 .. NumSettingCores(t) |-> Slice(bound(k - 1), bound(k))]

-----------------------------------------------------------------------------
Characters == {"letter", "wide", "stop"} \union Blank

ChunkEpisode(t) ==
  /\ text' = t /\ cutting' = "chunks" /\ slices' = EpisodeChunks(t)

SliceForRetrieval(t) ==
  /\ text' = t /\ cutting' = "retrieval" /\ slices' = RetrievalSlices(t)

SegmentForSetting(t) ==
  /\ text' = t /\ cutting' = "setting" /\ slices' = SettingSegments(t)

SlicesNext ==
  /\ cutting = "none"
  /\ \E n \in 0 .. MaxLength : \E t \in [1 .. n -> Characters] :
       ChunkEpisode(t) \/ SliceForRetrieval(t) \/ SegmentForSetting(t)

SlicesSpec == SlicesInit /\ [][SlicesNext]_slicing

-----------------------------------------------------------------------------
\* Properties

\* Nothing of the text but blanks is left out, and slices come in order.
Covers ==
  /\ \A k \in DOMAIN text : text[k] \notin Blank =>
       \E s \in ToSet(slices) : s.start < k /\ k <= s.end
  /\ \A n \in 2 .. Len(slices) :
       slices[n - 1].start < slices[n].start /\ slices[n - 1].end < slices[n].end

\* Chunks are disjoint and within the limit of the request, a paragraph is cut only
\* if it alone exceeds the limit, an episode that fits is one chunk, and a chunk ends
\* short of the target only where the next paragraph would exceed the limit.
ChunksAreWhole ==
  LET max == IF Len(text) <= WholeMax THEN WholeMax ELSE ChunkMax
      target == IF Len(text) <= WholeMax THEN WholeMax ELSE ChunkTarget
      fitting == {p \in Paragraphs(text) : Length(p) <= max}
      \* the last piece of a paragraph that was cut is not joined to the next one
      joined == {s \in ToSet(slices) : \E p \in fitting : p.start = s.start}
  IN /\ \A s \in ToSet(slices) : Length(s) \in 1 .. max
     /\ \A n \in 2 .. Len(slices) : slices[n - 1].end <= slices[n].start
     /\ \A p \in fitting : \E s \in ToSet(slices) : s.start <= p.start /\ p.end <= s.end
     /\ Len(text) <= WholeMax => Len(slices) <= 1
     /\ \A n \in 2 .. Len(slices) :
          slices[n - 1] \in joined /\ Length(slices[n - 1]) < target =>
            \E p \in Paragraphs(text) :
              /\ p.start >= slices[n - 1].end /\ p.start = slices[n].start
              /\ p.end - slices[n - 1].start > max

\* Slices hold at most the target, and at least half of it but for the last one and
\* those before dropped blanks; two of them share no more than the overlap.
SlicesAreBounded ==
  /\ \A s \in ToSet(slices) : Fits(text, s.start, s.end)
  /\ \A n \in 1 .. Len(slices) - 1 :
       Tokens(text, slices[n].start, slices[n].end) >= TargetTokens \div 2
  /\ \A n \in 2 .. Len(slices) :
       slices[n].start < slices[n - 1].end =>
         Tokens(text, slices[n].start, slices[n - 1].end) <= OverlapTokens

\* The cores follow one another without a gap from the first character to the last,
\* none is empty or longer than twice the unit, and a line is cut in two only where no
\* line ends within half a segment of the cut's place.
SegmentsMeet ==
  LET n == Len(slices)
  IN /\ text # <<>> => slices[1].start = 0 /\ slices[n].end = Len(text)
     /\ \A k \in 1 .. n : Length(slices[k]) \in 1 .. 2 * UnitChars
     /\ \A k \in 2 .. n : slices[k].start = slices[k - 1].end
     /\ \A k \in 1 .. n - 1 : text[slices[k].end] # "feed" =>
          ~\E p \in DOMAIN text :
             /\ text[p] = "feed"
             /\ (2 * k - 1) * Len(text) < 2 * n * p /\ 2 * n * p <= (2 * k + 1) * Len(text)

\* However the line feeds of a text lie, each character is in one segment of the setting
\* branch: the windows in which neighbouring cuts are looked for never meet.
SegmentsCover == cutting = "setting" => Covers /\ SegmentsMeet

\* Whatever the text, no word of it is lost between two slices, no slice is more than
\* the model that reads it takes, and the cutting goes on: each slice brings something
\* new although it starts inside the one before.
SlicesCover ==
  /\ cutting = "chunks" => Covers /\ ChunksAreWhole
  /\ cutting = "retrieval" => Covers /\ SlicesAreBounded
  /\ SegmentsCover
=============================================================================
