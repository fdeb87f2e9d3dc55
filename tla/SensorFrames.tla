---------------------------- MODULE SensorFrames ----------------------------
(***************************************************************************)
(* roboprotocol-core sensor.rs: how a sensor's frame becomes elements, the *)
(* elements interleaved slices, and the slices that arrive a frame again.  *)
(* Operators only; MediaPath drives them.                                  *)
(*                                                                         *)
(* Measurements are integers in the sensor's own fine unit, and an element *)
(* is the tuple of units it carries.  Unit scales are odd in the models,   *)
(* so no measurement falls half way between two units and rounding has one *)
(* answer.  Intensity, Doppler and SNR, which go along unchanged with each *)
(* point or range, are left out.                                           *)
(***************************************************************************)
EXTENDS Integers, Sequences, FiniteSets

CONSTANTS
  Scale,            \* fine units per transmitted unit
  MaxUnit,          \* largest unit an element can carry (i16::MAX, u16::MAX)
  Beams, Columns,   \* RangeImageFormat
  Width, Height, SegmentWidth,   \* DepthFormat
  PerSlice,         \* elements that fit one slice
  MaxPendingFrames  \* SENSOR_MAX_PENDING_FRAMES

ASSUME SensorFramesAssumption ==
  /\ {Scale, MaxUnit, Beams, Columns, Width, Height, SegmentWidth, PerSlice, MaxPendingFrames}
       \subseteq Nat \ {0}
  /\ Scale % 2 = 1
  /\ SegmentWidth <= Width

NothingYet == -1     \* last_emitted before the first frame

CeilDiv(a, b) == (a + b - 1) \div b
Larger(a, b) == IF a >= b THEN a ELSE b

\* Zero-based arrays, as the code has them.
Array(n, Op(_)) == [i \in 0..(n - 1) |-> Op(i)]
Size(a) == Cardinality(DOMAIN a)

\* The n-th smallest of a set of numbers.
Nth(S, n) == CHOOSE x \in S : Cardinality({y \in S : y <= x}) = n

-----------------------------------------------------------------------------
(* Encodings.                                                              *)

\* (value / scale).round()
Round(v) == IF v >= 0 THEN (v + Scale \div 2) \div Scale ELSE -((-v + Scale \div 2) \div Scale)

\* quantize_i16: out of range is dropped, never clamped.
Quantizes(v) == Round(v) \in (-MaxUnit - 1)..MaxUnit

\* PointFormat.encode: the points that can be represented, in order.
EncodePoints(points) ==
  LET kept == {i \in DOMAIN points : Quantizes(points[i])}
  IN  Array(Cardinality(kept), LAMBDA i : <<Round(points[Nth(kept, i + 1)])>>)

\* RangeImageFormat.encode: column by column; what does not fit is "no return".
RangeUnit(v) == IF Round(v) \in 1..MaxUnit THEN Round(v) ELSE 0

EncodeRanges(ranges) ==
  Array(Columns, LAMBDA c : [b \in 1..Beams |-> RangeUnit(ranges[(b - 1) * Columns + c])])

SegmentsPerRow == CeilDiv(Width, SegmentWidth)

\* DepthFormat.encode: runs of a row, the last one of a row padded with zeros.
EncodeDepth(depth) ==
  Array(Height * SegmentsPerRow, LAMBDA e :
    LET y == e \div SegmentsPerRow
        x0 == (e % SegmentsPerRow) * SegmentWidth
    IN  [k \in 1..SegmentWidth |->
           IF x0 + k - 1 < Width THEN depth[y * Width + x0 + k - 1] ELSE 0])

Encode(kind, data) == CASE kind = "Points"     -> EncodePoints(data)
                        [] kind = "RangeImage" -> EncodeRanges(data)
                        [] kind = "Depth"      -> EncodeDepth(data)

-----------------------------------------------------------------------------
(* Slices.                                                                 *)

\* slice_count: a frame without elements still takes a slice.
SliceCount(n) == Larger(CeilDiv(n, PerSlice), 1)

\* interleave: slice k of n carries the elements k, k + n, k + 2n, ...
Interleave(elements) ==
  LET n == SliceCount(Size(elements))
  IN  Array(n, LAMBDA k : [j \in 1..CeilDiv(Larger(Size(elements) - k, 0), n) |->
                             elements[k + (j - 1) * n]])

\* slice_frame
SliceFrame(s, seq, elements) ==
  LET slices == Interleave(elements)
  IN  [i \in 1..Size(slices) |->
         [sensor_id |-> s, frame_seq |-> seq, slice_index |-> i - 1,
          slice_count |-> Size(slices), payload |-> slices[i - 1]]]

-----------------------------------------------------------------------------
(* FrameAssembler.  A frame is the slices that arrived, by index.          *)

NewAssembler == [pending |-> <<>>, last_emitted |-> NothingYet]

Complete(frame) == DOMAIN frame.slices = 0..(frame.slice_count - 1)

Keep(f, S) == [x \in DOMAIN f \cap S |-> f[x]]
With(f, x, v) == [y \in DOMAIN f \cup {x} |-> IF y = x THEN v ELSE f[y]]

\* Mutant: what is older stays pending.
EmitKeepsOlder(asm, seq) ==
  [pending |-> Keep(asm.pending, DOMAIN asm.pending \ {seq}), last_emitted |-> seq]

\* emit: the frame goes out, everything older still pending is dropped.
Emit(asm, seq) ==
  [pending |-> Keep(asm.pending, {p \in DOMAIN asm.pending : p > seq}), last_emitted |-> seq]

\* on_slice: the assembler after the slice, and the frame it released, if any.
OnSlice(asm, d) ==
  LET known == d.frame_seq \in DOMAIN asm.pending
      entry == IF known THEN asm.pending[d.frame_seq]
               ELSE [frame_seq |-> d.frame_seq, slice_count |-> d.slice_count, slices |-> <<>>]
      filled == [entry EXCEPT !.slices = With(@, d.slice_index, d.payload)]
      added == [asm EXCEPT !.pending = With(@, d.frame_seq, filled)]
      oldest == CHOOSE p \in DOMAIN added.pending : \A r \in DOMAIN added.pending : p <= r
  IN  IF \/ d.frame_seq <= asm.last_emitted
         \/ entry.slice_count # d.slice_count
         \/ d.slice_index \in DOMAIN entry.slices
      THEN [asm |-> asm, ready |-> <<>>]
      ELSE IF Complete(filled)
      THEN [asm |-> Emit(added, d.frame_seq), ready |-> <<filled>>]
      ELSE IF Cardinality(DOMAIN added.pending) > MaxPendingFrames
      THEN [asm |-> Emit(added, oldest), ready |-> <<added.pending[oldest]>>]
      ELSE [asm |-> added, ready |-> <<>>]

\* poll, when the deadline of the frames in expired has passed: they go out
\* oldest first, so none of them supersedes another.
Poll(asm, expired) ==
  LET order == [i \in 1..Cardinality(expired) |-> Nth(expired, i)]
  IN  [asm |-> Emit(asm, order[Len(order)]),
       ready |-> [i \in 1..Len(order) |-> asm.pending[order[i]]]]

-----------------------------------------------------------------------------
(* Decoding what was assembled.                                            *)

\* Mutant: the elements of a slice are taken to be consecutive.
ElementOfBlock(frame, i) == <<i \div PerSlice, (i % PerSlice) + 1>>

\* deinterleave: which slice, and which place in it, holds element i.
ElementOf(frame, i) == <<i % frame.slice_count, (i \div frame.slice_count) + 1>>

Deinterleave(frame, count, lost) ==
  Array(count, LAMBDA i :
    LET at == ElementOf(frame, i)
    IN  IF at[1] \in DOMAIN frame.slices /\ at[2] \in DOMAIN frame.slices[at[1]]
        THEN frame.slices[at[1]][at[2]] ELSE lost)

\* received_elements: the set of points that arrived, the order of which is no matter.
ReceivedElements(frame) ==
  UNION {{frame.slices[k][j] : j \in DOMAIN frame.slices[k]} : k \in DOMAIN frame.slices}

\* SensorEncoding.decode: the points, or the ranges or depths by place (0 is none).
Decode(kind, frame) ==
  CASE kind = "Points"     -> {e[1] : e \in ReceivedElements(frame)}
    [] kind = "RangeImage" ->
         LET columns == Deinterleave(frame, Columns, [b \in 1..Beams |-> 0])
         IN  Array(Beams * Columns, LAMBDA i : columns[i % Columns][(i \div Columns) + 1])
    [] kind = "Depth"      ->
         LET segments == Deinterleave(frame, Height * SegmentsPerRow,
                                      [k \in 1..SegmentWidth |-> 0])
         IN  Array(Height * Width, LAMBDA i :
               LET x == i % Width
               IN  segments[(i \div Width) * SegmentsPerRow + x \div SegmentWidth]
                           [(x % SegmentWidth) + 1])

=============================================================================
