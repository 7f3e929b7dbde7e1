--------------------------- MODULE MeshIntersection ---------------------------
(***************************************************************************)
(* A hull of triangles cut by the free surface (MeshIntersector, Mesh,     *)
(* MeshBuilder, ClosingFacetComputer): edges are classified by the sign of *)
(* the relative immersion of their ends, those that cross the surface are  *)
(* cut, facets go to the immersed or the emerged part or are split between *)
(* them, and the contour left in the surface is closed by new facets.      *)
(*                                                                         *)
(* The mesh is combinatorial: vertices, edges and facets are indices from  *)
(* one, and of an immersion only the sign is kept.  Coordinates appear     *)
(* only where the code chooses by angles, as an arbitrary choice.          *)
(***************************************************************************)
EXTENDS Integers, Sequences, FiniteSets, SequencesExt

CONSTANTS
  Hulls,     \* the hulls to study: [vertices, facets, updates, touching], the last two
             \* bounds: on the updates done, on the vertices given in the surface
  Immersions, \* the signs of immersions: -1 emerged, 0 in the surface, 1 immersed
  MaxLeft    \* bound on what failed calls have left when another is made

ASSUME HullAssumption ==
  /\ Immersions \subseteq {-1, 0, 1} /\ MaxLeft \in Nat
  /\ \A h \in Hulls :
       /\ h.vertices \in Nat /\ h.updates \in Nat /\ h.touching \in Nat
       /\ h.facets \in Seq([1 .. 3 -> 1 .. h.vertices])

VARIABLES
  hull,         \* the static part of the mesh, as it was built
  z,            \* all_relative_immersions, with those of the cuts
  edges,        \* Mesh::edges, [first, second] of each, static ones first
  facets,       \* Mesh::facets, the vertices of each, static ones first
  emerged,      \* index_of_emerged_facets
  immersed,     \* index_of_immersed_facets
  surface,      \* index_of_facets_exactly_on_the_surface
  surfaceEdges, \* index_of_edges_exactly_on_surface
  needClosing,  \* need_to_update_closing_facet
  raised,       \* an exception was raised since the mesh was last computed
  updates       \* number of updates done, bounded by hull.updates

meshVars == <<hull, z, edges, facets, emerged, immersed, surface, surfaceEdges,
              needClosing, raised, updates>>

-----------------------------------------------------------------------------
(* MeshBuilder *)

Sides(vertices) ==
  [k \in DOMAIN vertices |-> <<vertices[k], vertices[(k % Len(vertices)) + 1]>>]

SameEdge(e, f) == e = f \/ e = <<f[2], f[1]>>

(* The place of i among the members of S, and the member at a place. *)
RankIn(S, i) == Cardinality({j \in S : j <= i})
Nth(S, k) == CHOOSE i \in S : RankIn(S, i) = k

(***************************************************************************)
(* An edge is stored once, in the direction of the facet that has it       *)
(* first.  Facets are triangles.                                           *)
(***************************************************************************)
EdgesOf(facetList) ==
  LET places == 1 .. 3 * Len(facetList)
      side(k) == Sides(facetList[(k - 1) \div 3 + 1])[((k - 1) % 3) + 1]
      new == {k \in places : \A i \in 1 .. k - 1 : ~ SameEdge(side(i), side(k))}
  IN  [n \in 1 .. Cardinality(new) |-> side(Nth(new, n))]

(* An oriented edge: its index, and whether the facet runs along it backwards. *)
Oriented(edgeList, vertices) ==
  [k \in DOMAIN vertices |->
     LET side == Sides(vertices)[k]
         e == CHOOSE e \in DOMAIN edgeList : SameEdge(edgeList[e], side)
     IN  [edge |-> e, reverse |-> edgeList[e][2] = side[1]]]

Build(h) ==
  LET edgeList == EdgesOf(h.facets)
  IN  [vertices |-> h.vertices, facets |-> h.facets, edges |-> edgeList,
       oriented |-> [f \in DOMAIN h.facets |-> Oriented(edgeList, h.facets[f])],
       updates |-> h.updates, touching |-> h.touching]

FirstVertex(edgeList, o) == edgeList[o.edge][IF o.reverse THEN 2 ELSE 1]
SecondVertex(edgeList, o) == edgeList[o.edge][IF o.reverse THEN 1 ELSE 2]

(***************************************************************************)
(* Mesh::create_facet_from_edges: a vertex met again leaves a hole (the    *)
(* first vertex of the mesh) and the list loses its last places instead.   *)
(***************************************************************************)
FacetVertices(edgeList, path) ==
  LET second(k) == SecondVertex(edgeList, path[k])
      new == {k \in DOMAIN path : \A i \in 1 .. k - 1 : second(i) # second(k)}
  IN  [k \in 1 .. Cardinality(new) |-> IF k \in new THEN second(k) ELSE 1]

-----------------------------------------------------------------------------
(* The immersion status of an edge: a bit for each end immersed or emerged. *)

Status(z0, z1) ==
  (IF z0 > 0 THEN 1 ELSE 0) + (IF z1 > 0 THEN 2 ELSE 0)
    + (IF z0 < 0 THEN 4 ELSE 0) + (IF z1 < 0 THEN 8 ELSE 0)

Crosses(s) == s \in {9, 6}
IsEmerged(s) == s \in {12, 8, 4}
IsImmersed(s) == s \in {1, 2, 3}
OneEndTouches(s) == s \in {1, 2, 4, 8}
BothEndsTouch(s) == s = 0

(* The status given to the halves of an edge that is cut.  Slip: that of *)
(* the first half twice.                                                 *)
HalfStatusOfFirst(s, half) == IF s % 2 = 1 THEN 7 ELSE 4
HalfStatus(s, half) ==
  LET bit == IF half = 1 THEN s % 2 ELSE (s \div 2) % 2 IN IF bit = 1 THEN 7 ELSE 4

(***************************************************************************)
(* split_partially_immersed_facet_and_classify, turn by turn: the edges of *)
(* the facet are dealt to the two parts, and the places where the closing  *)
(* edge must be inserted are remembered when the side changes.             *)
(***************************************************************************)
NoEdges ==
  [emerged |-> <<>>, immersed |-> <<>>, firstEmerged |-> 0, firstImmersed |-> 0,
   side |-> "none"]

TouchBoth(a, o) ==
  [a EXCEPT !.emerged = Append(@, o), !.immersed = Append(@, o),
            !.firstEmerged = IF a.side = "immersed" THEN Len(a.emerged) + 1 ELSE @,
            !.firstImmersed = IF a.side = "emerged" THEN Len(a.immersed) + 1 ELSE @]

PutEmerged(a, o) ==
  [a EXCEPT !.emerged = Append(@, o), !.side = "emerged",
            !.firstEmerged = IF a.side = "immersed" THEN Len(a.emerged) ELSE @]

PutImmersed(a, o) ==
  [a EXCEPT !.immersed = Append(@, o), !.side = "immersed",
            !.firstImmersed = IF a.side = "emerged" THEN Len(a.immersed) ELSE @]

PutHalves(a, o, half1, half2, firstIsEmerged) ==
  IF firstIsEmerged
    THEN [a EXCEPT !.emerged = Append(@, half1), !.immersed = Append(@, half2),
                   !.firstImmersed = Len(a.immersed), !.side = "immersed"]
    ELSE [a EXCEPT !.immersed = Append(@, half1), !.emerged = Append(@, half2),
                   !.firstEmerged = Len(a.emerged), !.side = "emerged"]

(* half[e]: index of the first of the two edges that replace e.  Slip: the *)
(* halves of an edge run along backwards are not exchanged.                *)
DealForwards(a, o, status, half) ==
  LET s == status[o.edge]
      h == [edge |-> half[o.edge], reverse |-> o.reverse]
      g == [edge |-> half[o.edge] + 1, reverse |-> o.reverse]
  IN  CASE BothEndsTouch(s) -> TouchBoth(a, o)
        [] IsEmerged(s) -> PutEmerged(a, o)
        [] IsImmersed(s) -> PutImmersed(a, o)
        [] OTHER -> PutHalves(a, o, h, g, IsEmerged(status[h.edge]))
Deal(a, o, status, half) ==
  LET s == status[o.edge]
      h == [edge |-> half[o.edge], reverse |-> o.reverse]
      g == [edge |-> half[o.edge] + 1, reverse |-> o.reverse]
  IN  CASE BothEndsTouch(s) -> TouchBoth(a, o)
        [] IsEmerged(s) -> PutEmerged(a, o)
        [] IsImmersed(s) -> PutImmersed(a, o)
        [] Crosses(s) /\ o.reverse -> PutHalves(a, o, g, h, IsEmerged(status[g.edge]))
        [] OTHER -> PutHalves(a, o, h, g, IsEmerged(status[h.edge]))

Dealt(path, status, half) ==
  LET deal[k \in 0 .. Len(path)] ==
        IF k = 0 THEN NoEdges ELSE Deal(deal[k - 1], path[k], status, half)
  IN  deal[Len(path)]

(* A facet that only touches the surface goes to one part as it is. *)
Tangent(a) == Len(a.emerged) <= 1 \/ Len(a.immersed) <= 1

InsertBefore(path, o, place) ==
  SubSeq(path, 1, place) \o <<o>> \o SubSeq(path, place + 1, Len(path))

-----------------------------------------------------------------------------
(* What an update computes from the static mesh and the immersions.         *)

(* find_intersection_with_free_surface: the edges, their status, the cuts. *)
CutEdges(h, zs) ==
  LET status == [e \in DOMAIN h.edges |-> Status(zs[h.edges[e][1]], zs[h.edges[e][2]])]
      crossing == {e \in DOMAIN status : Crosses(status[e])}
      added == 1 .. 2 * Cardinality(crossing)
      origin(k) == Nth(crossing, (k + 1) \div 2)
      node(k) == h.vertices + (k + 1) \div 2
      halfOf(k) == IF k % 2 = 1 THEN <<h.edges[origin(k)][1], node(k)>>
                                ELSE <<node(k), h.edges[origin(k)][2]>>
  IN  [edges |-> h.edges \o [k \in added |-> halfOf(k)],
       status |-> status \o [k \in added |-> HalfStatus(status[origin(k)], 2 - (k % 2))],
       half |-> [e \in crossing |-> Len(h.edges) + 2 * RankIn(crossing, e) - 1],
       z |-> zs \o [k \in 1 .. Cardinality(crossing) |-> 0]]

(* The facets looked at by classify_or_split's first branch. *)
Reached(h, status, f) ==
  \E k \in DOMAIN h.oriented[f] :
    LET s == status[h.oriented[f][k].edge]
    IN  Crosses(s) \/ BothEndsTouch(s) \/ OneEndTouches(s)

(* Slip: the edges dealt to both parts are not remembered. *)
TouchingUnrecorded(h, status) == {}

(* The edges dealt to both parts: index_of_edges_exactly_on_surface. *)
Touching(h, status) ==
  {e \in DOMAIN h.edges :
     /\ BothEndsTouch(status[e])
     /\ \E f \in DOMAIN h.facets :
          /\ Reached(h, status, f)
          /\ \E k \in DOMAIN h.oriented[f] : h.oriented[f][k].edge = e}

(***************************************************************************)
(* classify_facet, split_partially_immersed_facet_and_classify: a facet is  *)
(* kept in one part, or it is split and its two pieces and the edge between *)
(* them are added to the mesh.  dealt: the edges of a facet, in two lists.  *)
(***************************************************************************)
SplitFacets(dealt) == {f \in DOMAIN dealt : ~ Tangent(dealt[f])}

ClosingEdges(cut, dealt) ==
  [k \in 1 .. Cardinality(SplitFacets(dealt)) |->
     LET a == dealt[Nth(SplitFacets(dealt), k)]
     IN  <<FirstVertex(cut.edges, a.immersed[a.firstImmersed + 1]),
           FirstVertex(cut.edges, a.emerged[a.firstEmerged + 1])>>]

(* The emerged piece of the first facet that is split, its immersed piece... *)
Pieces(cut, dealt) ==
  LET split == SplitFacets(dealt)
      allEdges == cut.edges \o ClosingEdges(cut, dealt)
      piece(k, isEmerged) ==
        LET a == dealt[Nth(split, k)]
            o == [edge |-> Len(cut.edges) + k, reverse |-> ~ isEmerged]
        IN  FacetVertices(allEdges, IF isEmerged THEN InsertBefore(a.emerged, o, a.firstEmerged)
                                                 ELSE InsertBefore(a.immersed, o, a.firstImmersed))
  IN  [k \in 1 .. 2 * Cardinality(split) |-> piece((k + 1) \div 2, k % 2 = 1)]

Divided(h, cut, dealt) ==
  LET split == SplitFacets(dealt)
      closing == ClosingEdges(cut, dealt)
      firstStatus(f) == cut.status[h.oriented[f][1].edge]
      keptEmerged ==
        {f \in DOMAIN h.facets \ split :
           IF f \in DOMAIN dealt THEN Len(dealt[f].emerged) > 1 ELSE IsEmerged(firstStatus(f))}
      pieces(isEmerged) ==
        {Len(h.facets) + k : k \in {i \in 1 .. 2 * Cardinality(split) : isEmerged = (i % 2 = 1)}}
      drawn == {k \in 1 .. Cardinality(split) : closing[k][1] # closing[k][2]}
  IN  [z |-> cut.z,
       edges |-> cut.edges \o closing,
       facets |-> h.facets \o Pieces(cut, dealt),
       emerged |-> keptEmerged \union pieces(TRUE),
       immersed |-> (DOMAIN h.facets \ (split \union keptEmerged)) \union pieces(FALSE),
       surfaceEdges |-> Touching(h, cut.status) \union {Len(cut.edges) + k : k \in drawn}]

DealtFacets(h, cut) ==
  [f \in {g \in DOMAIN h.facets : Reached(h, cut.status, g)} |->
     Dealt(h.oriented[f], cut.status, cut.half)]

Intersection(h, zs) ==
  LET cut == CutEdges(h, zs) IN Divided(h, cut, DealtFacets(h, cut))

-----------------------------------------------------------------------------
(* ClosingFacetComputer *)

NodesOf(E) == UNION {{edges[e][1], edges[e][2]} : e \in E}
EdgesAt(E, v) == {e \in E : v \in {edges[e][1], edges[e][2]}}

(* get_connected_components, get_edges_per_component *)
Component(E, e) ==
  LET grow[k \in 0 .. Cardinality(E)] ==
        IF k = 0 THEN {e}
        ELSE LET met == NodesOf(grow[k - 1])
             IN  {d \in E : edges[d][1] \in met \/ edges[d][2] \in met}
  IN  grow[Cardinality(E)]

(* In the order of their first edges, as nodes are numbered when met. *)
Components(E) ==
  LET firsts == {e \in E : \A d \in Component(E, e) : e <= d}
  IN  [k \in 1 .. Cardinality(firsts) |-> Component(E, Nth(firsts, k))]

(***************************************************************************)
(* ClosingFacetComputer::contour(edge): the paths that start with an edge, *)
(* leave each by its end and stop when they meet the first one again or    *)
(* are as long as the component.  Which edge is taken at a fork is decided *)
(* by angles.  <<>> is what is returned when the path comes to a dead end. *)
(***************************************************************************)
Following(E, path) ==
  LET o == path[Len(path)]
      v == SecondVertex(edges, o)
  IN  {[edge |-> d, reverse |-> edges[d][1] # v] : d \in EdgesAt(E, v) \ {o.edge}}

(* Two edges between the same vertices: angle_between_edges throws. *)
HasTwin(E, path) ==
  LET o == path[Len(path)] IN \E d \in E \ {o.edge} : SameEdge(edges[d], edges[o.edge])

(* The first time, next_edge is called before the size is looked at. *)
Ended(E, path) ==
  path # <<>> => \E o \in Following(E, path) :
                   o.edge = path[1].edge \/ Len(path) = Cardinality(E)

PathsFrom(E, e) ==
  LET grow[k \in 1 .. Cardinality(E)] ==
        IF k = 1 THEN {<<[edge |-> e, reverse |-> FALSE]>>}
        ELSE LET paths == grow[k - 1]
             IN  paths \union
                 UNION {{Append(p, o) : o \in {x \in Following(E, p) : x.edge # e}} :
                          p \in {q \in paths : Len(q) = k - 1}}
      all == grow[Cardinality(E)]
      deadEnds == {p \in all : Following(E, p) = {} \/ HasTwin(E, p)}
      finished == {p \in all \ deadEnds : Ended(E, p)}
  IN  finished \union (IF deadEnds = {} THEN {} ELSE {<<>>})

(* flip(Contour&): the same edges, from the last one to the first. *)
Flipped(path) ==
  [k \in DOMAIN path |->
     LET o == path[Len(path) + 1 - k] IN [edge |-> o.edge, reverse |-> ~ o.reverse]]

EdgeSet(path) == {path[k].edge : k \in DOMAIN path}

(***************************************************************************)
(* ClosingFacetComputer::contour(): the contours found from two extreme    *)
(* edges must have the same edges.  Where the extremes are, and whether    *)
(* the contour must be flipped, is geometry.                               *)
(***************************************************************************)
Contours(E) ==
  IF Cardinality(E) = 1 THEN {<<>>}
  ELSE LET found == UNION {PathsFrom(E, e) : e \in E} IN found \union {Flipped(p) : p \in found}

MayDisagree(E) == Cardinality({EdgeSet(p) : p \in Contours(E)}) > 1

-----------------------------------------------------------------------------

MeshInit ==
  /\ hull \in {Build(h) : h \in Hulls}
  /\ z = <<>>
  /\ edges = hull.edges /\ facets = hull.facets
  /\ emerged = {} /\ immersed = {} /\ surface = <<>> /\ surfaceEdges = {}
  /\ needClosing = TRUE
  /\ raised = FALSE
  /\ updates = 0

(* Slips: what is left out of reset_dynamic_members, or of the flag. *)
UpdateKeepingSurface(zs) ==
  \E i \in {Intersection(hull, zs)} :
      /\ z' = i.z /\ edges' = i.edges /\ facets' = i.facets
      /\ emerged' = i.emerged /\ immersed' = i.immersed
      /\ surfaceEdges' = i.surfaceEdges
      /\ needClosing' = TRUE
      /\ UNCHANGED surface
UpdateKeepingFlag(zs) ==
  \E i \in {Intersection(hull, zs)} :
      /\ z' = i.z /\ edges' = i.edges /\ facets' = i.facets
      /\ emerged' = i.emerged /\ immersed' = i.immersed
      /\ surfaceEdges' = i.surfaceEdges /\ surface' = <<>>
      /\ UNCHANGED needClosing

(* The dynamic data is dropped and computed again. *)
Recompute(zs) ==
  \E i \in {Intersection(hull, zs)} :
      /\ z' = i.z /\ edges' = i.edges /\ facets' = i.facets
      /\ emerged' = i.emerged /\ immersed' = i.immersed
      /\ surfaceEdges' = i.surfaceEdges /\ surface' = <<>>
      /\ needClosing' = TRUE

(* update_intersection_with_free_surface *)
Update(zs) ==
  /\ updates < hull.updates
  /\ Recompute(zs)
  /\ raised' = FALSE
  /\ updates' = updates + 1
  /\ UNCHANGED hull

(***************************************************************************)
(* The same with a NaN among the immersions: they are stored before the    *)
(* exception is thrown, and nothing else is changed.                       *)
(***************************************************************************)
NaNImmersions == <<>>
UpdateWithNaN ==
  /\ updates < hull.updates
  /\ z' = NaNImmersions
  /\ raised' = TRUE
  /\ updates' = updates + 1
  /\ UNCHANGED <<hull, edges, facets, emerged, immersed, surface, surfaceEdges, needClosing>>

(***************************************************************************)
(* build_closing_edge, called by begin_surface and by the volumes.  It     *)
(* returns early, and is called again the next time, when no edge is in    *)
(* the surface; an exception leaves the facets of the contours before,     *)
(* those of the first n, which are there when it is called again.          *)
(***************************************************************************)
AddFacets(contours, n) ==
  LET some == {k \in 1 .. n : contours[k] # <<>>}
      added == [k \in 1 .. Cardinality(some) |-> FacetVertices(edges, contours[Nth(some, k)])]
  IN  /\ facets' = facets \o added
      /\ surface' = surface \o [k \in 1 .. Cardinality(some) |-> Len(facets) + k]

BuildClosing ==
  LET parts == Components(surfaceEdges)
  IN  /\ needClosing /\ surfaceEdges # {} /\ Len(surface) <= MaxLeft
      /\ \E contours \in {c \in [DOMAIN parts -> UNION {Contours(parts[k]) : k \in DOMAIN parts}] :
                            \A k \in DOMAIN parts : c[k] \in Contours(parts[k])} :
           \/ AddFacets(contours, Len(parts)) /\ needClosing' = FALSE /\ UNCHANGED raised
           \/ \E k \in DOMAIN parts :
                /\ MayDisagree(parts[k])
                /\ AddFacets(contours, k - 1)
                /\ raised' = TRUE
                /\ UNCHANGED needClosing
      /\ UNCHANGED <<hull, z, edges, emerged, immersed, surfaceEdges, updates>>

(* Nobody asks anything any more. *)
MeshIdle == updates = hull.updates /\ UNCHANGED meshVars

GivenImmersions ==
  {zs \in [1 .. hull.vertices -> Immersions] :
     Cardinality({v \in DOMAIN zs : zs[v] = 0}) <= hull.touching}

MeshNext ==
  \/ \E zs \in GivenImmersions : Update(zs)
  \/ UpdateWithNaN
  \/ BuildClosing
  \/ MeshIdle

MeshSpec == MeshInit /\ [][MeshNext]_meshVars

-----------------------------------------------------------------------------

Updated == z # NaNImmersions

(* The sides of a polygon, run along in its own direction. *)
SidesOf(f) == LET s == Sides(facets[f]) IN {s[k] : k \in DOMAIN s}
Reversed(side) == <<side[2], side[1]>>

(* The sides of a part that no other facet of it runs along backwards. *)
Boundary(part) ==
  {s \in UNION {SidesOf(f) : f \in part} : \A f \in part : Reversed(s) \notin SidesOf(f)}

InSurface(side) ==
  /\ z[side[1]] = 0 /\ z[side[2]] = 0
  /\ \E e \in surfaceEdges : SameEdge(edges[e], side)

\* Cutting a closed hull opens it along the free surface and nowhere else:
\* every side of the immersed part, and of the emerged one, is shared by two
\* of its facets that run along it in opposite directions, or lies in the
\* surface and is known as such.  Volumes and pressures rest on it.
PartsOpenInSurfaceOnly ==
  Updated => \A s \in Boundary(immersed) \union Boundary(emerged) : InSurface(s)

(* How often facets of a part run along a side. *)
Uses(part, side) == Cardinality({f \in part : side \in SidesOf(f)})

(* A facet wholly in the surface belongs to both parts. *)
Flat(f) == \A k \in DOMAIN hull.facets[f] : z[hull.facets[f][k]] = 0

\* The two parts are the hull again: each half of each side of each facet of
\* the hull is a side of exactly one facet of exactly one part, except that
\* facets lying in the surface are in both; no area is lost or counted twice.
PartsCoverTheHull ==
  Updated => \A f \in DOMAIN hull.facets : \A k \in 1 .. 3 :
    LET side == Sides(hull.facets[f])[k]
        o == hull.oriented[f][k]
        cut == {v \in hull.vertices + 1 .. Len(z) :
                  \E e \in DOMAIN edges : SameEdge(edges[e], <<side[1], v>>)
                     /\ \E d \in DOMAIN edges : SameEdge(edges[d], <<v, side[2]>>)
                     /\ Crosses(Status(z[side[1]], z[side[2]]))
                     /\ e > Len(hull.edges) /\ d > Len(hull.edges)
                     /\ (e = d + 1 \/ d = e + 1)}
        halves == IF cut = {} THEN {side}
                  ELSE LET v == CHOOSE v \in cut : TRUE IN {<<side[1], v>>, <<v, side[2]>>}
    IN  \A s \in halves :
          Uses(immersed, s) + Uses(emerged, s) = IF Flat(f) THEN 2 ELSE 1

\* Each piece is on its side of the surface, and is a polygon: no vertex
\* occurs twice in it.
PiecesAreOnTheirSide ==
  Updated => \A f \in immersed \union emerged :
    /\ IsInjective(facets[f]) /\ Len(facets[f]) >= 3
    /\ \A k \in DOMAIN facets[f] :
         IF f \in immersed THEN z[facets[f][k]] >= 0 ELSE z[facets[f][k]] <= 0

\* What the mesh says after an update is a function of the hull and of the
\* immersions just given: nothing of earlier updates, of closing facets built
\* in between or of calls that failed is left.
UpdateForgetsThePast ==
  Updated =>
    LET i == Intersection(hull, SubSeq(z, 1, hull.vertices))
    IN  /\ z = i.z /\ edges = i.edges
        /\ emerged = i.emerged /\ immersed = i.immersed
        /\ surfaceEdges = i.surfaceEdges
        /\ SubSeq(facets, 1, Len(i.facets)) = i.facets
        /\ needClosing => (surface = <<>> \/ raised)

(* A contour without forks and dead ends. *)
IsLoop(E) == \A v \in NodesOf(E) : Cardinality(EdgesAt(E, v)) = 2

\* When the contour in the surface is made of closed loops, closing it adds
\* one polygon for each loop, with its vertices and its edges, each once.
LoopsAreClosed ==
  Updated /\ ~ raised /\ ~ needClosing =>
    \A k \in DOMAIN Components(surfaceEdges) :
      LET E == Components(surfaceEdges)[k]
          closes(f) ==
            /\ {facets[f][j] : j \in DOMAIN facets[f]} = NodesOf(E)
            /\ IsInjective(facets[f])
            /\ \A s \in SidesOf(f) : \E e \in E : SameEdge(edges[e], s)
      IN  IsLoop(E) => Cardinality({j \in DOMAIN surface : closes(surface[j])}) = 1
=============================================================================
