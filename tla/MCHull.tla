-------------------------------- MODULE MCHull --------------------------------
(***************************************************************************)
(* What is computed of a hull in the water, for TLC: either its            *)
(* intersection with the free surface (MeshIntersection) or the positions  *)
(* it floats at (GZCurve).                                                 *)
(***************************************************************************)
EXTENDS MCMeshIntersection, GZCurve

(* A box of volume 48, narrower and higher as it rolls.  The origin is at *)
(* the given fraction of its height, in quarters from above.              *)
Box(weight, quarters) ==
  LET height == <<8, 12, 16, 24, 48>>
      at(a) == LET above == (height[a + 1] * quarters) \div 4
               IN  [low |-> -above, high |-> height[a + 1] - above, area |-> 48 \div height[a + 1]]
  IN  [weight |-> weight, at |-> [a \in 0 .. 4 |-> at(a)]]

\* Light, even, heavy, and denser than water; the origin at the middle, below
\* it, and at the keel, where no position is in reach.
MCShips ==
  {Box(12, 2), Box(24, 2), Box(37, 2), Box(50, 2), Box(24, 3), Box(30, 4)}

MCCurveAsks ==
  {[step |-> 1, max |-> 1], [step |-> 1, max |-> 4], [step |-> 2, max |-> 3],
   [step |-> 3, max |-> 4], [step |-> 3, max |-> 2], [step |-> 0, max |-> 2]}

NoMesh ==
  /\ hull = [vertices |-> 0, facets |-> <<>>, edges |-> <<>>, oriented |-> <<>>,
             updates |-> 0, touching |-> 0]
  /\ z = <<>> /\ edges = <<>> /\ facets = <<>>
  /\ emerged = {} /\ immersed = {} /\ surface = <<>> /\ surfaceEdges = {}
  /\ needClosing = TRUE /\ raised = FALSE /\ updates = 0

NoCurve ==
  /\ ship = [weight |-> 0, at |-> <<>>] /\ ask = [step |-> 1, max |-> 1]
  /\ stage = "none" /\ upright = TRUE /\ bounds = [min |-> 0, max |-> 0]
  /\ instant = 0 /\ recorded = 0 /\ curve = <<>>

HullInit == (MeshInit /\ NoCurve) \/ (GZInit /\ NoMesh)

HullNext ==
  \/ stage = "none" /\ MeshNext /\ UNCHANGED gzVars
  \/ stage # "none" /\ GZNext /\ UNCHANGED meshVars

HullSpec == HullInit /\ [][HullNext]_<<meshVars, gzVars>>
=============================================================================
