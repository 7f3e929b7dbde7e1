--------------------------- MODULE MCRemoteModels ---------------------------
(***************************************************************************)
(* RemoteModels for TLC: seas of each kind, and fleets with and without    *)
(* points and surface forces.  MCInfinite and MCPressures are documented   *)
(* inputs that the others leave out.                                       *)
(***************************************************************************)
EXTENDS RemoteModels

S(depth, k, directions, seed) ==
  [depth |-> depth, k |-> k, directions |-> directions, seed |-> seed]
MCSea(kind, spectra) == [kind |-> kind, spectra |-> spectra]

(* Wave numbers in units in which k h must be 1, and heights alike. *)
MCSeas ==
  {MCSea("none", <<>>), MCSea("still", <<>>), MCSea("remote", <<>>),
   MCSea("spectra", <<S(100, {1, 2}, 2, FALSE), S(5, {1}, 3, TRUE)>>)}

(* Infinite depth. *)
MCInfinite == {MCSea("spectra", <<S(0, {1, 2}, 2, TRUE)>>)}
MCSpectra == {MCSea("spectra", <<S(100, {1, 2}, 2, TRUE)>>)}

MCHull(surface, points, models) ==
  [surface |-> surface, points |-> points, models |-> models]

MCFleets ==
  {<<MCHull(TRUE, 2, 1), MCHull(TRUE, 1, 1)>>,
   <<MCHull(TRUE, 0, 0), MCHull(FALSE, 1, 2)>>}
MCFleet == {<<MCHull(FALSE, 0, 1)>>}

MCAsk(elevations, pressures, velocities, spectrum) ==
  [elevations |-> elevations, pressures |-> pressures,
   velocities |-> velocities, spectrum |-> spectrum]

(* No pressures; of a remote sea, one velocity. *)
MCAsks(kind) ==
  IF kind = "remote" THEN {MCAsk(0, 0, 1, TRUE), MCAsk(2, 0, 1, FALSE)}
                     ELSE {MCAsk(0, 0, 2, TRUE), MCAsk(2, 0, 0, FALSE)}
MCPressures(kind) == {MCAsk(0, 1, 0, FALSE)}
=============================================================================
