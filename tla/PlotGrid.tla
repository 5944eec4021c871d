------------------------------ MODULE PlotGrid ------------------------------
(***************************************************************************)
(* The geometry of the charts: isotropicScales, which puts the data in the *)
(* plot, and the grid of BoundaryApproximation, which counts them there;   *)
(* the resampling of edges; circumcentres and the edges between them in    *)
(* MedialAxis; the frame of VoronoiDiagram.                                *)
(*                                                                         *)
(* Numbers are exact: a position in the plot is a numerator over the       *)
(* common denominator 2 * d of a scale, lengths are compared by squares.   *)
(***************************************************************************)
EXTENDS Integers, Sequences, FiniteSets, Picking

CONSTANTS
    Drawings,     \* records: data (a sequence of points x, y), width, height, rows
    EdgeLengths,  \* squares of the lengths of edges
    Spacings,     \* spacings of their points
    Triangles,    \* sequences of three points
    Meshes,       \* records: halfedges (0-based, as a function) and inside
    Frames        \* records: min, max, step

VARIABLES
    task,    \* what is to be computed
    result   \* what was computed, NoResult before

gridVars == <<task, result>>

NoResult == <<>>
Lowest(S) == CHOOSE x \in S : \A y \in S : x <= y
Highest(S)  == CHOOSE x \in S : \A y \in S : x >= y
Ceil(a, b)  == (a + b - 1) \div b

\* Halfedges are numbered from 0, three a triangle, and come in pairs of two
\* triangles; -1 is on the hull.
MeshOK(m) ==
    /\ \E n \in 0..Cardinality(DOMAIN m.halfedges) : DOMAIN m.halfedges = 0..n - 1
    /\ \A e \in DOMAIN m.halfedges :
          LET o == m.halfedges[e]
          IN  o # -1 => o \in DOMAIN m.halfedges /\ m.halfedges[o] = e /\ o \div 3 # e \div 3

ASSUME GridAssumption ==
    /\ \A d \in Drawings : /\ d.data \in Seq(Int \X Int) /\ d.data # <<>>
                            /\ {d.width, d.height, d.rows} \subseteq Nat \ {0}
    /\ EdgeLengths \subseteq Nat /\ Spacings \subseteq Nat \ {0}
    /\ Triangles \subseteq [1..3 -> Int \X Int]
    /\ \A m \in Meshes : MeshOK(m)
    /\ \A f \in Frames : {f.min, f.max, f.step} \subseteq Int /\ f.step > 0 /\ f.max > f.min

-----------------------------------------------------------------------------
(* D3Visualization.                                                        *)

\* domain(), in twentieths: the extent and 5 % of it on both sides.
Domain(lo, hi) == <<20 * lo - (hi - lo), 20 * hi + (hi - lo)>>

\* Half a unit around a single value.
Drawable(dom, lo) == IF dom[2] > dom[1] THEN dom ELSE <<20 * lo - 10, 20 * lo + 10>>

\* isotropicScales: the factor n / d is the smaller one, the data are centred.
IsotropicScales(p) ==
    LET xs == {p.data[k][1] : k \in DOMAIN p.data}
        ys == {p.data[k][2] : k \in DOMAIN p.data}
        dx == Drawable(Domain(Lowest(xs), Highest(xs)), Lowest(xs))
        dy == Drawable(Domain(Lowest(ys), Highest(ys)), Lowest(ys))
        wide == p.width * (dy[2] - dy[1]) <= p.height * (dx[2] - dx[1])
    IN  [n |-> IF wide THEN p.width ELSE p.height,
         d |-> IF wide THEN dx[2] - dx[1] ELSE dy[2] - dy[1],
         cx |-> dx[1] + dx[2], cy |-> dy[1] + dy[2]]

\* xScale and yScale, times 2 * d; y grows downwards.
Position(p, sc, pt) ==
    <<p.width * sc.d + sc.n * (40 * pt[1] - sc.cx), p.height * sc.d - sc.n * (40 * pt[2] - sc.cy)>>

-----------------------------------------------------------------------------
(* The grid of BoundaryApproximation.render, and quadtreeClustering.       *)

Columns(p) == Ceil(p.width * p.rows, p.height)

\* searchInTree: from the lower bound of a cell up to, and without, the upper.
InCell(p, sc, pos, x, y) ==
    /\ pos[1] * p.rows >= 2 * sc.d * p.height * x /\ pos[1] * p.rows < 2 * sc.d * p.height * (x + 1)
    /\ pos[2] * p.rows >= 2 * sc.d * p.height * y /\ pos[2] * p.rows < 2 * sc.d * p.height * (y + 1)

\* The points found, cell by cell, each with the number found in its cell.
QuadtreeClustering(p, sc, pos) ==
    UNION {LET found == {k \in DOMAIN pos : InCell(p, sc, pos[k], x, y)}
           IN  {[point |-> k, size |-> Cardinality(found), cell |-> <<x, y>>] : k \in found}
           : x \in 0..Columns(p) - 1, y \in 0..p.rows - 1}

Drawn(p) ==
    LET sc  == IsotropicScales(p)
        pos == [k \in DOMAIN p.data |-> Position(p, sc, p.data[k])]
    IN  [scales |-> sc, positions |-> pos, clusters |-> QuadtreeClustering(p, sc, pos)]

-----------------------------------------------------------------------------

\* interpolateEdges: Math.max(1, Math.floor(length / spacing)) segments.
Steps(square, spacing) ==
    Highest({1} \cup {n \in 0..square : n * n * spacing * spacing <= square})

Denominator(a, b, c) ==
    2 * (a[1] * (b[2] - c[2]) + b[1] * (c[2] - a[2]) + c[1] * (a[2] - b[2]))

\* circumcenter: numerators and denominator, or NoResult for collinear vertices.
Circumcenter(t) ==
    LET a == t[1] b == t[2] c == t[3]
        d == Denominator(a, b, c)
        sq(p) == p[1] * p[1] + p[2] * p[2]
    IN  IF d = 0 THEN NoResult
        ELSE [x |-> sq(a) * (b[2] - c[2]) + sq(b) * (c[2] - a[2]) + sq(c) * (a[2] - b[2]),
              y |-> sq(a) * (c[1] - b[1]) + sq(b) * (a[1] - c[1]) + sq(c) * (b[1] - a[1]),
              d |-> d]

\* The edge is not on the hull, and the first of its pair.
Taken(m, e) == m.halfedges[e] # -1 /\ m.halfedges[e] >= e

\* calculateVoronoi: the triangles on both sides, in the order of the edges.
VoronoiEdges(m) ==
    LET n == Cardinality(DOMAIN m.halfedges)
        edges == Picked([k \in 1..n |-> k - 1], {e \in DOMAIN m.halfedges : Taken(m, e)})
    IN  [k \in DOMAIN edges |-> <<edges[k] \div 3, m.halfedges[edges[k]] \div 3>>]

\* Those between two centres inside the boundary.
MedialEdges(m) ==
    Picked(VoronoiEdges(m), m.inside \X m.inside)

\* Math.round((max - min) / step)
RoundedSteps(f) == (2 * (f.max - f.min) + f.step) \div (2 * f.step)

\* The left and the right side without their corners.
Sides(f) == 1..RoundedSteps(f) - 1

\* generateBoundaryPoints, as a sequence of pairs.
BoundaryPoints(f) ==
    LET at(k) == f.min + k * f.step
        row  == [k \in 1..RoundedSteps(f) + 1 |-> <<at(k - 1), f.min>>]
    IN  row \o [k \in DOMAIN row |-> <<row[k][1], f.max>>]
            \o [k \in Sides(f) |-> <<f.min, at(k)>>]
            \o [k \in Sides(f) |-> <<f.max, at(k)>>]

-----------------------------------------------------------------------------

Task(kind, input) == [kind |-> kind, input |-> input]

GridInit ==
    /\ \/ \E p \in Drawings : task = Task("drawing", p)
       \/ \E l \in EdgeLengths, s \in Spacings : task = Task("edge", <<l, s>>)
       \/ \E t \in Triangles : task = Task("triangle", t)
       \/ \E m \in Meshes : task = Task("mesh", m)
       \/ \E f \in Frames : task = Task("frame", f)
    /\ result = NoResult

Compute ==
    /\ result = NoResult
    /\ UNCHANGED task
    /\ result' = CASE task.kind = "drawing"  -> Drawn(task.input)
                   [] task.kind = "edge"     -> [steps |-> Steps(task.input[1], task.input[2])]
                   [] task.kind = "triangle" -> [center |-> Circumcenter(task.input)]
                   [] task.kind = "mesh"     -> [voronoi |-> VoronoiEdges(task.input),
                                                 medial |-> MedialEdges(task.input)]
                   [] task.kind = "frame"    -> [points |-> BoundaryPoints(task.input)]

GridNext == Compute

GridSpec == GridInit /\ [][GridNext]_gridVars

-----------------------------------------------------------------------------
(* Correctness.                                                            *)

Done(kind) == result # NoResult /\ task.kind = kind

\* Whatever the extent of the data and of the plot, each point lies inside it and
\* in exactly one of the half-open cells, so the clusters hold every point once,
\* and a circle is as large as its cell is full.
EveryPointInOneCell ==
    Done("drawing") =>
        /\ \A k \in DOMAIN result.positions :
               /\ Cardinality({c \in result.clusters : c.point = k}) = 1
               /\ result.positions[k][1] \in 1..2 * result.scales.d * task.input.width - 1
               /\ result.positions[k][2] \in 1..2 * result.scales.d * task.input.height - 1
        /\ \A c \in result.clusters :
               c.size = Cardinality({e \in result.clusters : e.cell = c.cell})

\* An edge is cut into equal pieces that are as short as the spacing allows: none
\* shorter than it, unless the edge is, and none twice as long.
PiecesFitSpacing ==
    Done("edge") =>
        LET n == result.steps   square == task.input[1]
            unit == n * n * task.input[2] * task.input[2]
        IN  /\ n >= 1
            /\ n > 1 => unit <= square
            /\ square < 4 * unit

\* A centre is as far from each of the three vertices, and there is none exactly
\* if they are on one line.
CenterIsEquidistant ==
    Done("triangle") =>
        LET t == task.input   c == result.center
            far(p) == (c.x - c.d * p[1]) * (c.x - c.d * p[1]) + (c.y - c.d * p[2]) * (c.y - c.d * p[2])
            onLine == (t[2][1] - t[1][1]) * (t[3][2] - t[1][2])
                        = (t[3][1] - t[1][1]) * (t[2][2] - t[1][2])
        IN  IF onLine THEN c = NoResult ELSE c # NoResult /\ far(t[1]) = far(t[2]) /\ far(t[2]) = far(t[3])

\* Two triangles are joined once for each edge they share, those on the hull are
\* not, and the medial axis is the part of the graph inside the boundary.
InnerEdgesOnce ==
    Done("mesh") =>
        LET m == task.input
            shared(s, t) == {e \in DOMAIN m.halfedges :
                               e \div 3 = s /\ m.halfedges[e] # -1 /\ m.halfedges[e] \div 3 = t}
            joins(seq, s, t) == {k \in DOMAIN seq : {seq[k][1], seq[k][2]} = {s, t}}
            all == {e \div 3 : e \in DOMAIN m.halfedges}
        IN  \A s, t \in all : s # t =>
                /\ Cardinality(joins(result.voronoi, s, t)) = Cardinality(shared(s, t))
                /\ joins(result.medial, s, t) # {} <=> {s, t} \subseteq m.inside /\ shared(s, t) # {}

\* If the step divides the width of the frame its points are on it, four of them
\* in the corners, and none is there twice.
FrameIsClosed ==
    (Done("frame") /\ (task.input.max - task.input.min) % task.input.step = 0) =>
        LET f == task.input   ps == result.points
            n == (f.max - f.min) \div f.step
        IN  /\ \A a, b \in DOMAIN ps : ps[a] = ps[b] => a = b
            /\ \A k \in DOMAIN ps : \E c \in {1, 2} : ps[k][c] \in {f.min, f.max}
            /\ \A x, y \in {f.min, f.max} : \E k \in DOMAIN ps : ps[k] = <<x, y>>
            /\ Len(ps) = 4 * n
=============================================================================
