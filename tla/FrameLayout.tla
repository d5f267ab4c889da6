----------------------------- MODULE FrameLayout -----------------------------
(***************************************************************************)
(* The shape of a frame in memory: what the two backends make of a mapped    *)
(* buffer (src/capture/gstreamer.rs, gamescope.rs), what RgbFrame::new        *)
(* accepts (src/frame.rs), and the pace of the Gamescope stream.             *)
(*                                                                          *)
(* A byte is anything; offsets count from 0, sequences from 1.  UsizeMax is  *)
(* the largest usize, which checked arithmetic does not exceed; U32Max that  *)
(* of a dimension.                                                           *)
(***************************************************************************)
EXTENDS Integers, Sequences

CONSTANTS UsizeMax, U32Max
ASSUME WidthsAssumption == UsizeMax \in Nat /\ U32Max \in Nat

OUTPUT_WIDTH == 160
BYTES_PER_PIXEL == 4
Byte(bytes, offset) == bytes[offset + 1]
LayoutError == [is |-> "error", kind |-> "layout"]

(* proportional_dimensions.  u64 holds the numerator of any two u32.         *)
NoDimensions == <<0, 0>>
AtLeastOne(n) == IF n = 0 THEN 1 ELSE n
ProportionalDimensions(sourceWidth, sourceHeight, targetWidth) ==
    LET height == (sourceHeight * targetWidth + sourceWidth \div 2) \div sourceWidth
    IN IF sourceWidth = 0 \/ sourceHeight = 0 \/ targetWidth = 0 THEN NoDimensions
       ELSE IF height > U32Max THEN NoDimensions
       ELSE <<targetWidth, AtLeastOne(height)>>

(* pack_dimensions; 0 in expected_dimensions closes the gate.                *)
PackDimensions(dimensions) == dimensions[1] * (U32Max + 1) + dimensions[2]

-----------------------------------------------------------------------------
(* RgbFrame::new.                                                            *)
Accepts(width, height, stride, pixels) ==
    /\ width > 0 /\ height > 0
    /\ 3 * width <= UsizeMax /\ stride >= 3 * width
    /\ stride * height <= UsizeMax
    /\ Len(pixels) = stride * height

RgbFrame(width, height, stride, pixels) ==
    IF Accepts(width, height, stride, pixels)
    THEN [is |-> "frame", width |-> width, height |-> height,
          stride |-> stride, pixels |-> pixels]
    ELSE LayoutError

IsRgbFrame(f) ==
    /\ f.width \in Nat /\ f.height \in Nat /\ f.stride \in Nat /\ f.pixels \in Seq(0..255)
    /\ Accepts(f.width, f.height, f.stride, f.pixels)

(* frame_from_sample: the rows of the mapped RGB plane as they are.          *)
FrameFromSample(caps, buffer) ==
    IF caps.format # "RGB" \/ ~buffer.mapped \/ caps.stride < 0 THEN LayoutError
    ELSE LET length == caps.stride * caps.height
         IN IF length > UsizeMax \/ Len(buffer.plane) < length THEN LayoutError
            ELSE RgbFrame(caps.width, caps.height, caps.stride,
                          SubSeq(buffer.plane, 1, length))

-----------------------------------------------------------------------------
(* frame_from_mapped_bgrx: nearest-neighbour scaling into a packed frame.    *)
MinimumStride(format) == BYTES_PER_PIXEL * format.width
Required(format, plane) ==
    plane.offset + plane.stride * (format.height - 1) + MinimumStride(format)
SourceOffset(format, plane, target, x, y) ==
    LET sourceY == (y * format.height) \div target[2]
        sourceX == (x * format.width) \div target[1]
    IN plane.offset + sourceY * plane.stride + sourceX * BYTES_PER_PIXEL

Scaled(format, plane, target) ==
    [i \in 1 .. 3 * target[1] * target[2] |->
        LET pixel == (i - 1) \div 3
            channel == (i - 1) % 3       \* red, green, blue
        IN Byte(plane.data,
                SourceOffset(format, plane, target, pixel % target[1], pixel \div target[1])
                    + 2 - channel)]

Decodable(format, plane) ==
    /\ format.format = "BGRx" /\ plane.type \in {"MemFd", "MemPtr"}
    /\ ProportionalDimensions(format.width, format.height, OUTPUT_WIDTH) # NoDimensions
    /\ plane.stride >= MinimumStride(format)
    /\ Required(format, plane) <= UsizeMax
    /\ plane.mapped /\ Required(format, plane) <= Len(plane.data)

FrameFromMappedBgrx(format, plane) ==
    LET target == ProportionalDimensions(format.width, format.height, OUTPUT_WIDTH)
    IN IF Decodable(format, plane)
       THEN RgbFrame(target[1], target[2], 3 * target[1], Scaled(format, plane, target))
       ELSE LayoutError

-----------------------------------------------------------------------------
(* advance_frame_deadline: at most one frame is kept per interval, and the   *)
(* deadline stays on its grid.  A time is a number.                          *)
NotDue == -1
Passed(due, now) == due = NotDue \/ due <= now
AdvanceFrameDeadline(due, now, interval) ==
    LET base == IF due = NotDue THEN now + interval ELSE due
    IN IF ~Passed(due, now) THEN due
       ELSE IF base > now THEN base
       ELSE base + ((now - base) \div interval + 1) * interval
=============================================================================
