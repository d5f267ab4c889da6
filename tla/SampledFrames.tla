---------------------------- MODULE SampledFrames ----------------------------
(***************************************************************************)
(* The frames that reach the coordinator, which looks at their pixels        *)
(* through the zone masks it compiles for each size of screen.               *)
(***************************************************************************)
EXTENDS Capture, Sampling, FrameLayout

CONSTANT ScreenSizes    \* the widths and heights that frames have, in pixels
ASSUME ScreenSizesAssumption == ScreenSizes \subseteq Nat \X Nat

MasksAreDrawn ==
    \A size \in ScreenSizes :
        FollowsPolygons(Compile(G560Layout, size[1], size[2]), size[1], size[2])

(* A frame that reaches the coordinator is sampled with masks that put every *)
(* pixel where the polygons of the built-in layout do, although an integer   *)
(* rule compiles them: a centre on the edge of a front and a rear zone is in *)
(* the front one, on both sides (docs/color-pipeline.md:33-39 and            *)
(* g560_zone_at_pixel, contains and fallback_zone of src/frame.rs).          *)
MasksFollowPolygons == answer = AFrame => MasksAreDrawn
=============================================================================
