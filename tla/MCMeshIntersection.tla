------------------------- MODULE MCMeshIntersection -------------------------
(***************************************************************************)
(* Two closed hulls of triangles for TLC.  The vertices are numbered in  *)
(* the order in which the facets name them, as MeshBuilder does.           *)
(***************************************************************************)
EXTENDS MeshIntersection

Tetrahedron ==
  [vertices |-> 4, updates |-> 2, touching |-> 3,
   facets |-> <<<<1, 2, 3>>, <<1, 3, 4>>, <<1, 4, 2>>, <<2, 4, 3>>>>]

(* Two opposite vertices may be on one side, the ring between on the other. *)
Octahedron ==
  [vertices |-> 6, updates |-> 1, touching |-> 1,
   facets |-> <<<<1, 2, 3>>, <<1, 3, 4>>, <<1, 4, 5>>, <<1, 5, 2>>,
                <<6, 3, 2>>, <<6, 4, 3>>, <<6, 5, 4>>, <<6, 2, 5>>>>]

MCHulls == {Tetrahedron, Octahedron}
MCImmersions == {-1, 0, 1}
=============================================================================
