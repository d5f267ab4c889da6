------------------------------ MODULE Sampling ------------------------------
(***************************************************************************)
(* sample_zones of src/sampler.rs: one colour per zone out of the pixels     *)
(* that its mask names.                                                      *)
(*                                                                          *)
(* `seen` gives what the colour conversions make of an encoded pixel: luma   *)
(* and linear channels in thousandths, chroma, and the bin of its Lab        *)
(* coordinates.  The f32 fractions of the code are numerators over a common  *)
(* denominator; encoding the result in 8 bits is left out.                   *)
(***************************************************************************)
EXTENDS ZoneMasks, FiniteSetsExt

UNIT == 1000
EPSILON_INVERSE == 8388608       \* f32::EPSILON is its inverse
Black == [is |-> "black"]

(* The offset of a pixel, which counts from 0.                               *)
Offset(frame, index) ==
    (index \div frame.width) * frame.stride + (index % frame.width) * 3
Pixel(frame, index) ==
    LET offset == Offset(frame, index)
    IN <<frame.pixels[offset + 1], frame.pixels[offset + 2], frame.pixels[offset + 3]>>

(* smoothstep of n / d, over d^3.                                            *)
Clamp(n, d) == IF n < 0 THEN 0 ELSE IF n > d THEN d ELSE n
Smoothstep(n, d) == n * n * (3 * d - 2 * n)
Cube(d) == d * d * d

(* smoothstep where only its argument is kept: it goes from 0 to 1 with it.  *)
Eased(n, d) == [smoothstepOf |-> Clamp(n, d), over |-> d]

(* darkness_visibility, over Visible(darkness).                              *)
DarknessVisibility(luma, darkness) ==
    IF darkness <= 0 THEN 1
    ELSE Smoothstep(Clamp(2 * luma - darkness, 2 * darkness), 2 * darkness)
Visible(darkness) == IF darkness <= 0 THEN 1 ELSE Cube(2 * darkness)

(* (0.25 + chroma / 128).min(2.0), in units of 1 / 128.                      *)
Vividness(chroma) == IF 32 + chroma > 256 THEN 256 ELSE 32 + chroma

-----------------------------------------------------------------------------
(* accumulate, over the visible pixels of a zone or of a bin.                *)
Accumulated(colours, seen, darkness) ==
    LET Weight(i) == Vividness(seen[colours[i]].chroma)
                         * DarknessVisibility(seen[colours[i]].luma, darkness)
        Sum(Of(_)) == MapThenSumSet(LAMBDA i : Of(i) * Weight(i), DOMAIN colours)
    IN [weight |-> MapThenSumSet(Weight, DOMAIN colours),
        red    |-> Sum(LAMBDA i : seen[colours[i]].red),
        green  |-> Sum(LAMBDA i : seen[colours[i]].green),
        blue   |-> Sum(LAMBDA i : seen[colours[i]].blue),
        count  |-> Cardinality(DOMAIN colours)]

(* The order of bins: by weight, then by count, then by key.                 *)
KeyBelow(a, b) ==
    \/ a[1] < b[1]
    \/ a[1] = b[1] /\ a[2] < b[2]
    \/ a[1] = b[1] /\ a[2] = b[2] /\ a[3] < b[3]

Below(bins, a, b) ==
    \/ bins[a].weight < bins[b].weight
    \/ bins[a].weight = bins[b].weight /\ bins[a].count < bins[b].count
    \/ /\ bins[a].weight = bins[b].weight /\ bins[a].count = bins[b].count
       /\ KeyBelow(a, b)

IsDominant(bins, key) ==
    key \in DOMAIN bins /\ \A other \in DOMAIN bins \ {key} : Below(bins, other, key)

(* The mean of the dominant bin is dark: its brightest channel is below 0.15. *)
Peak(bin) == IF bin.red >= bin.green /\ bin.red >= bin.blue THEN bin.red
             ELSE IF bin.green >= bin.blue THEN bin.green ELSE bin.blue
DarkPeak(bin) == 100 * Peak(bin) < 15 * UNIT * bin.weight

(* How far the dominant bin replaces the mean of the zone: of a dark one,    *)
(* only as its share of the weight goes from 45 % to 65 %.                   *)
Dominance(bin, overall) ==
    IF DarkPeak(bin) THEN Eased(100 * bin.weight - 45 * overall.weight, 20 * overall.weight)
    ELSE Eased(1, 1)

(* sample_mask.                                                              *)
SampleMask(frame, indices, seen, darkness) ==
    LET visibility == [i \in indices |->
            DarknessVisibility(seen[Pixel(frame, i)].luma, darkness)]
        colours == [i \in {j \in indices : visibility[j] # 0} |-> Pixel(frame, i)]
        overall == Accumulated(colours, seen, darkness)
        Binned(key) == {i \in DOMAIN colours : seen[colours[i]].key = key}
        bins == [key \in {seen[colours[i]].key : i \in DOMAIN colours} |->
                     Accumulated([i \in Binned(key) |-> colours[i]], seen, darkness)]
        dominant == CHOOSE key \in DOMAIN bins : IsDominant(bins, key)
        whole == Visible(darkness) * Cardinality(indices)
        mass == MapThenSumSet(LAMBDA i : visibility[i], indices)
    IN IF overall.weight <= (128 * Visible(darkness)) \div EPSILON_INVERSE THEN Black
       ELSE [is |-> "colour", dominant |-> bins[dominant], overall |-> overall,
             dominance |-> Dominance(bins[dominant], overall),
             presence |-> Eased(5 * mass, whole)]

(* sample_zones panics when the masks are those of another size.             *)
Fits(frame, masks) == frame.width = masks.width /\ frame.height = masks.height
SampleZones(frame, masks, seen, darkness) ==
    [zone \in ZoneIds |-> SampleMask(frame, masks.indices[zone], seen, darkness)]
=============================================================================
