--------------------------- MODULE PointInPolygon ---------------------------
(***************************************************************************)
(* point_in_polygon of cat-sentinel/app/zones/service.py, and the polygons *)
(* that app/zones/schemas.py lets in.  Coordinates are integers here and   *)
(* floats in the code: the quotient of the intersection is compared by     *)
(* cross-multiplication, exactly, so rounding is left out.                 *)
(***************************************************************************)
EXTENDS Integers, Sequences, FiniteSets

MinPoints == 3
MaxPoints == 200

Point == Int \X Int

\* What ZoneCreate and ZoneUpdate accept for points; Point's validator, which
\* refuses infinities and NaN, leaves numbers.
IsPolygon(s) == s \in Seq(Point) /\ Len(s) \in MinPoints..MaxPoints

\* Mutation: both ends of an edge count.
SpansBothEnds(y, a, b) == a[2] # b[2] /\ ((a[2] <= y /\ y <= b[2]) \/ (b[2] <= y /\ y <= a[2]))

\* y is above the lower end of the edge, and not above the upper one.
Spans(y, a, b) == (a[2] < y /\ y <= b[2]) \/ (b[2] < y /\ y <= a[2])

\* x <= x_intersect, that is (y - y1) * (x2 - x1) / (y2 - y1) + x1.
LeftOf(p, a, b) ==
    LET run  == (p[2] - a[2]) * (b[1] - a[1])
        rise == b[2] - a[2]
    IN  IF rise > 0 THEN (p[1] - a[1]) * rise <= run ELSE (p[1] - a[1]) * rise >= run

\* The ray from p to the right crosses the edge from a to b.
Crosses(p, a, b) ==
    /\ Spans(p[2], a, b)
    /\ p[1] <= a[1] \/ p[1] <= b[1]
    /\ a[1] = b[1] \/ LeftOf(p, a, b)

point_in_polygon(p, s) ==
    /\ Len(s) >= MinPoints
    /\ Cardinality({i \in 1..Len(s) : Crosses(p, s[i], s[(i % Len(s)) + 1])}) % 2 = 1

-----------------------------------------------------------------------------
(* Reference: which side of the line from a to b a point is on, and the    *)
(* inside and the outside of a triangle, its edges being neither.          *)

Side(p, a, b) == (b[1] - a[1]) * (p[2] - a[2]) - (b[2] - a[2]) * (p[1] - a[1])

Inside(p, a, b, c) ==
    \/ Side(p, a, b) > 0 /\ Side(p, b, c) > 0 /\ Side(p, c, a) > 0
    \/ Side(p, a, b) < 0 /\ Side(p, b, c) < 0 /\ Side(p, c, a) < 0

Outside(p, a, b, c) ==
    /\ \E s \in {Side(p, a, b), Side(p, b, c), Side(p, c, a)} : s < 0
    /\ \E s \in {Side(p, a, b), Side(p, b, c), Side(p, c, a)} : s > 0

\* Coordinates enough for every order of a point and the ends of an edge.
Grid == (0..3) \X (0..2)

\* The test agrees with the reference on every triangle of the grid, also
\* when the ray runs through a corner or along an edge, and cutting a polygon
\* in two moves no point: with zones that share an edge a cat on it is in
\* exactly one of them.  (By cuts, what holds of triangles holds of polygons.)
PolygonTestIsExact ==
    /\ \A a, b, c, p \in Grid :
          /\ Inside(p, a, b, c) => point_in_polygon(p, <<a, b, c>>)
          /\ Outside(p, a, b, c) => ~point_in_polygon(p, <<a, b, c>>)
    /\ \A a, b, c, d, p \in Grid :
          point_in_polygon(p, <<a, b, c, d>>)
            <=> (point_in_polygon(p, <<a, b, c>>) # point_in_polygon(p, <<a, c, d>>))
=============================================================================
