----------------------------- MODULE Clustering -----------------------------
(***************************************************************************)
(* dbscanClustering of clustering.js, statement by statement: the labels   *)
(* of the points, the growing list of seeds, and the sizes of the clusters *)
(* that become the radii of the circles; against what DBSCAN promises of   *)
(* its result in whatever order the points come.                           *)
(***************************************************************************)
EXTENDS Integers, Sequences, FiniteSets, Picking

CONSTANTS
    PointSets,   \* sequences of points: pairs of coordinates
    Epsilons,    \* squares of the distance epsilon
    MinPts       \* values of minPts

Undefined == -2
Noise     == -1

ASSUME ClusteringAssumption ==
    /\ PointSets \subseteq Seq(Int \X Int)
    /\ Epsilons \subseteq Nat /\ MinPts \subseteq Nat

VARIABLES
    points, epsilon, minPts,   \* the arguments
    labels,                    \* labels
    clusterId,                 \* clusterId
    outer,                     \* i, the point of the outer loop
    seeds, inner,              \* the list of the inner loop and j, its position,
                               \*   0 outside the inner loop
    radii                      \* what each point is pushed at the end

dbscanVars == <<points, epsilon, minPts, labels, clusterId, outer, seeds, inner, radii>>

Points == DOMAIN points

-----------------------------------------------------------------------------

\* euclideanDist, squared.
SquaredDist(a, b) == (a[1] - b[1]) * (a[1] - b[1]) + (a[2] - b[2]) * (a[2] - b[2])

\* rangeQuery: the neighbours of a point, itself among them, as a set.
RangeQuery(p) == {q \in Points : SquaredDist(points[p], points[q]) <= epsilon}

\* The points of a set in their order.
Ordered(S) == Picked([k \in Points |-> k], S)

IsCore(p) == Cardinality(RangeQuery(p)) >= minPts

ClusterInit ==
    /\ points \in PointSets /\ epsilon \in Epsilons /\ minPts \in MinPts
    /\ labels = [p \in Points |-> Undefined]
    /\ clusterId = 0 /\ outer = 1 /\ seeds = <<>> /\ inner = 0
    /\ radii = <<>>

\* The outer loop passes over a point that has a label.
Skip ==
    /\ inner = 0 /\ outer <= Len(points) /\ labels[outer] # Undefined
    /\ outer' = outer + 1
    /\ UNCHANGED <<points, epsilon, minPts, labels, clusterId, seeds, inner, radii>>

MarkNoise ==
    /\ inner = 0 /\ outer <= Len(points) /\ labels[outer] = Undefined /\ ~IsCore(outer)
    /\ labels' = [labels EXCEPT ![outer] = Noise]
    /\ outer' = outer + 1
    /\ UNCHANGED <<points, epsilon, minPts, clusterId, seeds, inner, radii>>

StartCluster ==
    /\ inner = 0 /\ outer <= Len(points) /\ labels[outer] = Undefined /\ IsCore(outer)
    /\ labels' = [labels EXCEPT ![outer] = clusterId]
    /\ seeds' = Ordered(RangeQuery(outer) \ {outer})
    /\ inner' = 1
    /\ UNCHANGED <<points, epsilon, minPts, clusterId, outer, radii>>

\* Fault: noise on the rim of a cluster stays noise.
JoinKeepsNoise(s) == labels[s] = Undefined

\* if (labels[s] === -1), and if (labels[s] === undefined)
Join(s) == labels[s] \in {Noise, Undefined}

\* The neighbours of a seed join the list if it was without a label and is core.
Grows(s) == labels[s] = Undefined /\ IsCore(s)

\* One round of the inner loop.
TakeSeed ==
    /\ inner \in DOMAIN seeds
    /\ LET s == seeds[inner]
       IN  /\ labels' = IF Join(s) THEN [labels EXCEPT ![s] = clusterId] ELSE labels
           /\ seeds' = IF Grows(s)
                         THEN seeds \o Ordered(RangeQuery(s) \ (Elems(seeds) \cup {s}))
                         ELSE seeds
    /\ inner' = inner + 1
    /\ UNCHANGED <<points, epsilon, minPts, clusterId, outer, radii>>

EndCluster ==
    /\ inner > Len(seeds)
    /\ clusterId' = clusterId + 1
    /\ outer' = outer + 1 /\ seeds' = <<>> /\ inner' = 0
    /\ UNCHANGED <<points, epsilon, minPts, labels, radii>>

\* d3.group by label, without the group of the noise.
Group(p) == IF labels[p] = Noise THEN {} ELSE {q \in Points : labels[q] = labels[p]}

PushSizes ==
    /\ outer > Len(points) /\ radii = <<>> /\ points # <<>>
    /\ radii' = [p \in Points |-> IF Group(p) = {} THEN 1 ELSE Cardinality(Group(p))]
    /\ UNCHANGED <<points, epsilon, minPts, labels, clusterId, outer, seeds, inner>>

ClusterNext == Skip \/ MarkNoise \/ StartCluster \/ TakeSeed \/ EndCluster \/ PushSizes

ClusterFairness == WF_dbscanVars(ClusterNext)

ClusterSpec == ClusterInit /\ [][ClusterNext]_dbscanVars /\ ClusterFairness

-----------------------------------------------------------------------------
(* Correctness.                                                            *)

ClusterTypeOK ==
    /\ labels \in [Points -> -2..clusterId] /\ clusterId \in 0..Len(points)
    /\ outer \in 1..Len(points) + 1
    /\ seeds \in Seq(Points) /\ inner \in 0..Len(seeds) + 1

\* Core points connected by steps between core points no longer than epsilon.
Connected(p) ==
    LET cores == {q \in Points : IsCore(q)}
        Near(S) == {q \in cores : RangeQuery(q) \cap S # {}}
        Reach[n \in 0..Len(points)] == IF n = 0 THEN {p} ELSE Near(Reach[n - 1])
    IN  Reach[Len(points)]

\* While a cluster grows the list holds no seed twice, or the loop would go
\* through its points again and again.
SeedsAreNew == \A a, b \in DOMAIN seeds : seeds[a] = seeds[b] => a = b

\* The result of DBSCAN: core points share a label exactly if they are connected,
\* a point on the rim has the label of a core point next to it, and the rest is
\* noise; each circle is as large as its cluster, the noise has the size 1.
LabelsAreDBSCAN ==
    radii # <<>> =>
        /\ \A p \in Points : IsCore(p) =>
               {q \in Points : IsCore(q) /\ labels[q] = labels[p]} = Connected(p)
        /\ \A p \in Points : ~IsCore(p) =>
               LET cores == {q \in RangeQuery(p) : IsCore(q)}
               IN  IF cores = {} THEN labels[p] = Noise
                   ELSE labels[p] \in {labels[q] : q \in cores}
        /\ \A p \in Points : labels[p] = Noise => radii[p] = 1
        /\ \A p, q \in Points : (labels[p] = labels[q]) => radii[p] = radii[q]

\* The list of seeds ends, although it grows while it is gone through.
EveryPointIsLabelled == <>(radii # <<>> /\ \A p \in Points : labels[p] # Undefined)
=============================================================================
