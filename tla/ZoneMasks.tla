------------------------------ MODULE ZoneMasks ------------------------------
(***************************************************************************)
(* Zone layouts and the masks compiled from them (src/frame.rs), and the     *)
(* cache of the sampling coordinator (ZoneMaskCache of src/engine.rs).       *)
(*                                                                          *)
(* Coordinates of a layout are hundredths of the screen; a pixel is at its   *)
(* centre, (2x+1, 2y+1) in units of half a pixel.  The code does the built-in *)
(* layout in u128, as here, and any other in f32, which is exact arithmetic  *)
(* here.                                                                     *)
(***************************************************************************)
EXTENDS Zones, Integers, Sequences, FiniteSets

(* Polygon::new: three points or more, all finite (Int has no infinity).     *)
IsPolygon(vertices) ==
    /\ Len(vertices) >= 3
    /\ \A i \in DOMAIN vertices : vertices[i].x \in Int /\ vertices[i].y \in Int

At(x, y) == [x |-> x, y |-> y]
G560Layout ==
    [LeftRear   |-> <<At(0, 0), At(50, 0), At(17, 70), At(14, 100), At(0, 100)>>,
     LeftFront  |-> <<At(50, 0), At(50, 100), At(14, 100), At(17, 70)>>,
     RightFront |-> <<At(50, 0), At(83, 70), At(86, 100), At(50, 100)>>,
     RightRear  |-> <<At(50, 0), At(100, 0), At(100, 100), At(86, 100), At(83, 70)>>]

-----------------------------------------------------------------------------
(* g560_zone_at_pixel.  The right half mirrors the left one; a centre on the *)
(* diagonal belongs to the front zone.                                       *)
RightHalfLate(x, width) == x > width \div 2      \* mutant: off by one
RightHalf(x, width) == x >= width \div 2
LeftX(x, width) == IF x <= width - 1 - x THEN x ELSE width - 1 - x
DoubledXCentre(x, width) == 2 * LeftX(x, width) + 1
DoubledYCentre(y) == 2 * y + 1
AboveKnee(y, height) == 10 * DoubledYCentre(y) <= 14 * height

Front(x, y, width, height) ==
    LET cx == DoubledXCentre(x, width)
        cy == DoubledYCentre(y)
    IN IF AboveKnee(y, height)
       THEN 70 * (height * (width - cx)) <= 33 * (width * cy)
       ELSE 100 * (height * cx) + 10 * (width * cy) >= 48 * (width * height)

G560ZoneAtPixel(x, y, width, height) ==
    IF RightHalf(x, width)
    THEN IF Front(x, y, width, height) THEN "RightFront" ELSE "RightRear"
    ELSE IF Front(x, y, width, height) THEN "LeftFront" ELSE "LeftRear"

-----------------------------------------------------------------------------
(* contains: the ray to the right of the centre crosses an odd number of     *)
(* edges.  An edge from p to c has its lower end, not its upper one.         *)
Previous(vertices, i) == vertices[IF i = 1 THEN Len(vertices) ELSE i - 1]

Crosses(p, c, x, y, width, height) ==
    LET px == 50 * (2 * x + 1)        \* hundredths of the width, times width
        py == 50 * (2 * y + 1)
        rise == p.y - c.y
        left == (px - c.x * width) * height * rise
        edge == (p.x - c.x) * (py - c.y * height) * width
    IN /\ (c.y * height > py) # (p.y * height > py)
       /\ IF rise > 0 THEN left < edge ELSE left > edge

Contains(vertices, x, y, width, height) ==
    Cardinality({i \in DOMAIN vertices :
        Crosses(Previous(vertices, i), vertices[i], x, y, width, height)}) % 2 = 1

(* fallback_zone, for a centre that no polygon of the layout contains.       *)
LeftOf(boundaryNum, boundaryDen, pxNum, pxDen) == pxNum * boundaryDen < boundaryNum * pxDen

FallbackZone(x, y, width, height) ==
    LET px == 2 * x + 1   \* over 2 * width
        py == 2 * y + 1   \* over 2 * height
        upper == 10 * py <= 7 * (2 * height)
        num == IF upper THEN 70 * height - 33 * py          \* over 140 * height
               ELSE 48 * height - 10 * py                   \* over 200 * height
        den == IF upper THEN 140 * height ELSE 200 * height
    IN IF px < width
       THEN IF LeftOf(num, den, px, 2 * width) THEN "LeftRear" ELSE "LeftFront"
       ELSE IF LeftOf(den - num, den, px, 2 * width) THEN "RightFront" ELSE "RightRear"

PolygonZone(layout, x, y, width, height) ==
    LET containing == {i \in 1..4 : Contains(layout[ZONES[i]], x, y, width, height)}
    IN IF containing = {} THEN FallbackZone(x, y, width, height)
       ELSE ZONES[CHOOSE i \in containing : \A j \in containing : i <= j]

-----------------------------------------------------------------------------
(* ZoneMasks::compile; the indices of a zone are pushed in ascending order,  *)
(* which zone_at relies on to search them.                                   *)
ZoneOf(layout, index, width, height) ==
    LET x == index % width
        y == index \div width
    IN IF layout = G560Layout THEN G560ZoneAtPixel(x, y, width, height)
       ELSE PolygonZone(layout, x, y, width, height)

Compile(layout, width, height) ==
    [width |-> width, height |-> height,
     indices |-> [zone \in ZoneIds |->
         {index \in 0 .. width * height - 1 : ZoneOf(layout, index, width, height) = zone}]]

ZoneAt(masks, x, y) ==
    CHOOSE zone \in ZoneIds : y * masks.width + x \in masks.indices[zone]

(* ZoneMaskCache::get_or_compile returns and keeps these masks.              *)
NoMasks == [width |-> 0, height |-> 0]
GetOrCompile(current, layout, width, height) ==
    IF current = NoMasks \/ current.width # width \/ current.height # height
    THEN Compile(layout, width, height) ELSE current

-----------------------------------------------------------------------------
(* A centre on an edge of a rear zone that a front zone shares.              *)
OnSegment(p, c, x, y, width, height) ==
    LET py == 50 * (2 * y + 1)
    IN /\ p.y * height <= py /\ py <= c.y * height
       /\ (50 * (2 * x + 1) - c.x * width) * height * (p.y - c.y)
              = (p.x - c.x) * (py - c.y * height) * width

OnDiagonal(x, y, width, height) ==
    LET dx == IF 2 * x < width THEN x ELSE width - 1 - x
    IN \/ OnSegment(At(50, 0), At(17, 70), dx, y, width, height)
       \/ OnSegment(At(17, 70), At(14, 100), dx, y, width, height)

FollowsPolygons(masks, width, height) ==
    \A x \in 0 .. width - 1, y \in 0 .. height - 1 :
        LET zone == ZoneAt(masks, x, y)
        IN IF OnDiagonal(x, y, width, height)
           THEN zone = IF 2 * x + 1 < width THEN "LeftFront" ELSE "RightFront"
           ELSE /\ zone = PolygonZone(G560Layout, x, y, width, height)
                /\ zone = FallbackZone(x, y, width, height)
=============================================================================
