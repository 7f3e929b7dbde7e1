# xdyn: a TLA+ model of the simulator

xdyn simulates the motion of bodies (ships) at sea.  A simulation integrates
thirteen states per body (position, velocities, quaternion) with a stepper of
the `ssc` library; at each evaluation the states are recorded into histories,
some are forced to values of a table, the hulls are cut by the free surface,
force models read the states, their past, waves and commands, and observers
write rows.  The same simulator is offered as a library, as a command line
program and as two servers, one that plays a duration per request
(co-simulation) and one that only evaluates derivatives (model exchange).
Waves and forces may themselves be computed by remote servers.

The specifications model the part of xdyn whose correctness is a matter of
*order, memory and structure*: what is remembered of the past, when it is
recorded, forced, observed and forgotten, what survives from one request, one
evaluation or one row to the next, what happens when a call fails halfway, and
the discrete algorithms (bisection, expressions, cutting of a mesh).  The physics
is arithmetic over reals and is left arbitrary.  All paths below are relative to
`src/`, and those of sources to `src/code/` where they start with the name of
one of its directories.

## The system

| component | state it keeps | operations | hard behaviour | what makes it correct | modelled |
|---|---|---|---|---|---|
| **History** (`hdb_interpolators`) | `Tmax`, a vector of (date, value), `oldest_recorded_instant` | `record`, `operator()`, `average`, `get_dates/values`, `reset`, assignment | approximate against exact comparison of dates; duplicated state; erasing while interpolating | increasing dates, bounded window, answers equal to the recorded signal | yes |
| **Simulation run** (`core`: `Sim`, `Body`, `BlockedDOF`, `solver.hpp`, `simulator_api.hpp`) | `Sim::state`, one `BodyStates` (13 histories) per body, last forces, tables | `operator()` called by the stepper, `force_states`, `output`, `quicksolve`, `simulate` | predictions of a stepper recorded at the dates of accepted states; forcing by three code paths; NaN between two bodies | force models see forced states, the past is the accepted past, NaN stops the run | partly |
| **Co-simulation server** (`SimServer`, `SimStepper`, `SimServerInputs`, `CosimulationServiceImpl`, `xdyn_for_cs`) | one simulator kept between requests | `play_one_step`: reset, set states, set commands, run, convert | state left by earlier or failed requests; several gRPC threads | a reply is a function of the request and of the commands in force | partly |
| **Model-exchange server** (`XdynForME`, `ModelExchangeServiceImpl`) | one simulator | `handle`, `calculate_dx_dt` | the history is not reset and gets all but its last point | a derivative is a function of the request and of the commands | partly |
| **Commands** (`ControllableForceModel`, `Sim::set_command_listener`) | the data source of the simulator | `get_command`, `set` | a missing command found in the middle of an evaluation | a command persists until it is given again | partly |
| **Observers** (`core/Observer`, `observers_and_api`) | maps of closures, `initialized`, columns, a comma | `observe`, `write`, flush, `add` | columns fixed at the first row; names that appear or disappear later | each row has the columns of the first, with the latest values | partly |
| **Simulator construction** (`SimulatorBuilder`, `BodyBuilder`, `BlockedDOF`) | lengths of histories, tables | `build` | two loops fill one map of lengths; tables from two places | no force model asks beyond `Tmax`; each table forces its own state | partly |
| **Maneuvering expressions** (`force_models/Maneuvering*`) | an expression tree | parse, evaluate, bounds, `FindTmax` | bounds of a delay decide what is remembered | the value of an expression is what its text means | partly |
| **Surface elevation** (`core/SurfaceElevation*`) | heights of the last mesh | `update_surface_elevation`, `get_and_check_*` | members shared by the bodies, not touched by an empty mesh | a hull is cut by the waves above its own points | partly |
| **Wave models** (`environment_models`) | a discrete spectrum | `discretize`, `flatten`, phases | parallel vectors, depths | documented spectra are accepted | partly |
| **gRPC clients** (`grpc`) | parameters got at construction, last answer | `set_parameters`, `required_wave_information`, `force`, wave calls | each call may fail or answer too little | a row is of one evaluation; a run stops for a reason | partly |
| **Mesh** (`mesh`) | dynamic nodes, edges, facets; closing facets and their flag | `update_intersection_with_free_surface`, `build_closing_edge` | edges with ends in the surface, early returns, a cache | immersed and emerged parts are the hull again, and open in the surface only | partly |
| **Force models** (`force_models`) | none, but for those above | `operator()` | windows of the past cut to what is remembered | convolutions over their whole window | partly |
| **GZ curves** (`gz_curves`: `GZ::Curve`, `ResultantForceComputer`, `newton_raphson`) | the date of the next evaluation, the bounds of a bisection | `zeq`, `gz`, `get_Xeq` | which ordinates bracket a position of balance; every evaluation is recorded | each point is at a position of balance, if one is in reach | partly |
| **Hydrodynamic data bases**, **base91**, **programs**, **YAML**, **file formats**, **test data** | – | – | – | – | no |

How they interact: `quicksolve` calls the stepper, which calls `Sim::operator()`
several times per step; that calls `Body::update` for each body (NaN check,
forcing of a copy, `History::record` thirteen times, heights of the waves above
the hull, intersection), then the force models, which read the histories, the
waves and the command data source, some by calling a remote server; between
steps `quicksolve` forces `Sim::state` and calls the observers, which call
`Sim::output`.  `SimStepper::step` and `XdynForME::handle` run all that for each
request of a server, on one simulator which the front ends reach from one thread
(JSON) or from a pool (gRPC).

`PROJECT.json` lists every component with its sources, every hazard with the
properties that cover it or the reason why none does, and the lines each
definition stands for.

## The modules

| module | models | state and actions |
|---|---|---|
| `History` | class `History` as operators on a record; used by all others | none: `Recorded`, `Shift`, `ValueAgo`, ... are the member functions |
| `SlidingWindow` | what a history promises: the samples of the last `length` seconds, exact | `window`; `Record`, `Reset`, `Assign` |
| `Histories` | several histories (the body's and the request's) | `h`, `raised`; one action per mutating member, `RecordOutOfOrder` for the exception; implements `SlidingWindow` |
| `HistorySignal` | the queries | adds `signal`, all that was ever recorded; `average`, `get_dates/values` as operators |
| `BracketSearch` | the bisection, one turn of the loop per action | `lower`, `upper`, `pc`, `answer` |
| `Simulation` | one run over several bodies | `Observe`, `Evaluate` (one call of `Sim::operator()`, all bodies), `FinishStep`, `Finish` |
| `CosimServer` | the co-simulation server, JSON or gRPC | one `pc` per client; one action per call of `SimStepper::step`; `Receive`, `Accept`, `Refuse`, `DoStep`, `Fail`, `Reply` |
| `ModelExchange` | the model-exchange server, beside the other | extends `CosimServer`; `ReceiveForExchange`, `AcceptForExchange`, `RefuseForExchange`, `SetPast`, `SetExchangeCommands`, `Derive` |
| `Observers` | a list of observers of the CSV/TSV, HDF5/map, JSON/websocket and "everything" kinds | `ObserveOne` (the observer whose turn it is: closures, titles, values, exception), `NextDate` |
| `Maneuvering` | expressions: text, tree, value, bounds, length of history | operators: `Compiled`, `ValueOf`, `Bounds`, `TmaxOf`; `Meaning` is the reference |
| `ForcedStates` | the tables of blocked degrees of freedom (`BlockedDOF`) | `BuildTables`, `ForceStates`: parts of the actions of `HistoryLengths` |
| `HistoryLengths` | `SimulatorBuilder::build` and the lengths of histories it computes, then what the forces read of them at each date; extends `ForcedStates` | `lengths`, `known` (how much past there was at the first date), `forces`; `Build`, `Evaluate`. The delays and the values of keys are parameters |
| `Construction` | these parameters, for `Maneuvering` expressions; extends both | operators: `DelayOf`, `RememberedKeys` |
| `RemoteModels` | waves and remote force models | `Construct`, `Begin`, `EvaluateForces`, `UpdateBody`, `UpdateForce`, `Output`, `End` |
| `MeshIntersection` | a hull cut by the surface | `Update`, `UpdateWithNaN`, `BuildClosing`; edges, status, splitting and contours as operators |
| `GZCurve` | the program `gz` | `Open`, `Search`, `HalveInterval`, `Answer`, `Iterate` |
| `MC*` | instances for TLC. `MCHistorySignal`, `MCSimulation`, `MCForceInputs` and `MCHull` put two or three independent modules in one run: one variable says which one it is about, and the others keep still | constants |
| `HistoryLemmas`, `*Proofs` | theorems | |

Correspondence worth knowing:

* Dates are integer ticks.  `almost_equal` (4 or 32 units in the last place)
  becomes a tolerance in ticks, `EqTol <= FrontTol`.  Where tolerances matter
  (the histories of `MCForceInputs`) a tick stands for a few ulps; elsewhere they are zero.  The
  sign test of `almost_equal` (dates on both sides of zero are never almost
  equal) is not modelled.
* Values are integers, in a unit fine enough that every interpolated value met
  is whole (multiples of 60 in `MCHistorySignal`); `OnLine` would round
  otherwise, so exactness is only claimed there.
* `Histories.Record` performs the whole of `record`: snapping to the last date,
  the oldest instant, insertion or replacement, and the shift.
* In `Simulation` a body has one velocity, since the thirteen histories of a
  body are recorded together with the same date and reset together.  What
  stepper and forces compute is arbitrary, NaN included; *when* they are called
  is the constant `Nodes`.  `Sim::state` is set by every evaluation, because the
  stepper integrates `sys.state` itself while it calls `sys`.
* `quicksolve` and `simulate` of `simulator_api.hpp` are modelled as every
  server and the library use them.  The `xdyn` program uses the `ssc`
  library's own loop, which does not force the states after a step.
* In `CosimServer` a run is Euler's method with one state so that the whole
  exchange fits; the force is a constant operator of the state, the oldest value
  in memory and the commands, chosen in `MCCosimServer` so that a mistaken input
  changes the result.  The date a request is played from, the length of windows
  and the conversion of the reply through the body (which leaves a window of
  length zero behind) are as in the code.
* `ModelExchange.SetPast` gives the body the request's history *without* its last
  point and does not reset; `Derive` records that point, as `Sim::dx_dt` does.
  That a force model then sees what it would see in the other server is a
  property, not the definition.
* In `HistoryLengths` a date is a second.  What a history holds at a date is as long as
  what the simulation has been through and what was known before it (`Elapsed`), within
  the length of the history (`RecordedDuration`, the code's `get_duration`); a
  convolution is cut to that, and left out below the start of its window.
* `History::get_dates` and `get_values` are two loops, and two operators in
  `HistorySignal`; what is sent is compared pair by pair.
* In `Observers` the value of a name is the date it was computed for, so that a
  value of another row shows.  `serialize` keeps the closures of names that are
  no longer written, as the maps of `Observer` do.
* `Maneuvering` keeps texts and trees apart: `Compiled` follows `Evaluator`,
  `ValueOf` and `Bounds` the nodes' members, `TmaxOf` the visitor `FindTmax`; `Meaning` evaluates a text directly.  Functions are exact at the
  points where they are integers.
* In `RemoteModels` lists are their lengths and a value is the number of the
  evaluation it is of: what may go wrong is whose, of when and how many, not how
  high.  `UpdateForce` is the whole of `GRPCForceModel::Impl::force`, with its
  calls to the wave model in order.
* `MeshIntersection` is combinatorial: of an immersion the sign is kept.  Edges
  are classified, cut and dealt to the two parts bit by bit as in the code,
  including the order in which halves are appended.  Which of several edges a
  contour follows, and from which extreme node it starts, is an arbitrary choice
  (the code decides by angles and coordinates).

* `GZCurve` is the program `gz` for one ship: a hull is the ordinates between which
  it lies with its origin at the surface, per roll angle, and displaces water as if
  it were wall-sided.  `Search`, `HalveInterval` and `Answer` are `zeq` and the row of `gz`;
  each evaluation has a date of its own because `Body::update` records it.

External code is modelled from how `src/code` uses it: the `ssc` steppers (their
nodes, and that the first one is the start of the step with the accepted state),
`DefaultScheduler` (time events are multiples of `dt`, the durations asked for
being multiples too), piecewise constant interpolation, the websocket server (one
message at a time), the gRPC server (a pool of threads) and the remote wave and
force servers (any answer, or a failure, at each call).

## The runs

| run | bounds | shows |
|---|---|---|
| `history_queries` | 1 object, length 3, dates 0..6, 3 values; every vector of at most 8 dates, 10 dates searched | queries answer the recorded signal from the second pair on, zero outside; the bisection they use is right, halves, ends |
| `simulation` | runs: 2 bodies, RK4 nodes, 3 steps, window of 1.5 steps, table on the last body. Observers: every list of one or two of eleven requests, or one "everything"; 4 dates; a remote name that comes and goes | memory, forcing and NaN in a run; rows aligned with titles and with the values of their date; a name is refused at the first date or never; which JSON rows can be read |
| `servers` | both servers, JSON; 1 client, 2 values, 1 command, pasts of 0 to 2 states (one refused, one with a date twice), durations 0 to 2 steps | replies and derivatives depend on requests and commands only; every request is answered |
| `hull` | a tetrahedron, 2 updates with up to 3 vertices in the surface; an octahedron, 1 update with up to 1; NaN at any update; closing facets asked for at any time, again after a failure as long as it left at most `MaxLeft` facets. Curves: 6 boxes of volume 48 (light, even, heavy, denser than water; origin at mid-height, below, at the keel), 6 command lines of which 2 are refused, precision 1, 1 or 2 Newton turns | the parts are the hull, open in the surface only, nothing is left of earlier updates, loops are closed; each point of a curve is at a position of balance |
| `force_inputs` | histories: 2 objects, lengths 0 and 3, dates 0..6 but 2, `EqTol` 1, `FrontTol` 2. Construction: 10 sets of controlled models, 3 of radiation dampings, 12 of tables, 1 or 2 bodies, 4 dates, a past of 0, 2 or 9 seconds known at the first. Remote: 4 seas, 2 fleets of 2 bodies, 3 evaluations | vectors stay well formed, bounded, and implement a sliding window; models get the past, waves and tables they asked for; a run stops for a reason |
| `grpc_dates` | as `servers`, gRPC | **violated**: dates of the states are dropped |
| `grpc_threads` | 2 clients, gRPC | **violated**: two calls mix in one simulator |
| `csv_tables` | a table of `p` from a file | **violated**: a table read from a file forces `u` |
| `wave_depth` | a spectrum of depth 0 | **violated**: infinite depth is refused as too shallow |
| `remote_pressures` | a model that asks for one pressure | **violated**: the run stops though nothing failed |
| `json` | a body that falls, observed in JSON without scalars | **violated**: rows start with a comma from the second on |
| `delays` | `x(t-tau)` with a key `tau`, `y(t-(2+cos(0)))`, 4 dates | **violated**: the histories are too short and read zero |

Why the bounds are enough.  A history of length 3 with dates up to 6 is
filled, shifted several times past its second pair, reset and refilled, and averaged
over less than it holds, over all of it and over more; a window of
length zero is the default of the class, and what a reply leaves behind; as no
record has date 2, the window also starts where nothing was recorded.  Two
objects are what assignment needs.  Three RK4 steps reach a state in
which the window has dropped accepted states, a table that starts and
ends inside the run, and a NaN at every stage of a first, middle and last step.
Two bodies are what "the one before" and "the one after" need.  In `servers` the
state space is not cut by a bound on the number of requests: every sequence of
the modelled requests is explored.  Two observers are what "after the one that
threw" needs; at four dates a name can be absent, come, go and come back.  A
tetrahedron has every way to lie with respect to the surface that one triangle
and its neighbours have (on one side, cut, touching by a vertex, an edge, a
facet), and the second update is the one that could see leftovers; an
octahedron has facets on both sides of a ring of cut ones, so that the
contour is longer than three edges, and two contours when opposite vertices
are out and the ring is in.  The boxes are narrower and higher as they roll, so
that each roll needs a position of its own, and the command lines have `phi_max`
a multiple of the step, between two multiples on either side, equal to one step
and less than one.  Three evaluations are two of one run and one of a
run after a failure.

Bounds that stand for larger values of the code: `Huge` (1000 for the 1E15 that
bounds a state), `Shallow` (1 for PI/10 in units of k h), `LastDate`,
`MaxEvaluations`, `MaxTurns` (2 for the 100 of `get_Xeq`), `Precision` (1 for 1E-10 m),
`hull.updates`, `MaxLeft` (what failed calls may leave).  In one step of `RemoteModels` at most one call
goes wrong: the first one that throws hides those after it.

Inputs left out of the passing runs, because what the code does with them is the
subject of the next section: functions of a delay under states other than `x` and
delays that are identifiers, tables of other states
than `u` from files, depth 0, pressures, any number of velocities but one in a
remote sea, dates of wave requests other than the current one, gRPC front ends.
The run does observe JSON lists without scalars and with wave heights: the property says
that their rows cannot be read.

No run uses symmetry: values and dates are ordered, vertices and bodies are
numbered.

Deadlock is checked except in `history_queries`, where callers
may stop or run out of dates, `force_inputs`, `csv_tables`, `delays`, `wave_depth` and
`remote_pressures`, where a simulation that was refused or has reached its last
date is over.  In `simulation`, `json` and `hull` an explicit step that
changes nothing stands for the end.

**Fairness.**  `BracketSearch` is a function called by one thread: weak
fairness of its next step.  `Simulation` is a loop of one thread that waits for
nothing: as long as it is neither done nor failed its counters or its program
counter go on (`Proceeds`).  `CosimServer` and `ModelExchange` ask the same for
the call of each client that was started, and nothing of the clients, who need
not send anything.  `Proceeds` speaks of control variables only; that a step which
moves them is enabled is what the deadlock check and the liveness properties
establish on the instances.  The other modules have no liveness property: a run
of theirs ends with its list of bodies, models or dates.

## Where the code and its documents disagree

The last seven runs each check one sentence of a document, a comment or an
interface against the code; `findings` in `PROJECT.json` quotes it.  The
properties that hold in spite of them are the useful ones.  The JSON servers
leak nothing between requests except the efforts of the first row, which are
those of the previous run and are excluded by name (`ForgetFirstEffort`).

These were met while modelling, and have no run:

* **Start of a window.**  `shift_oldest_recorded_instant_if_necessary`
  (`hdb_interpolators/src/History.cpp:169`) makes up the value at the start of the
  window from interval number 1 before anything is erased; once the start has
  passed the second pair it is an extrapolation, although `History.hpp:37` says
  "Returns the value at t-tau".  `InnerWindowIsExact` shows that the wrong value
  never spreads inwards.
* **Runge-Kutta-Cash-Karp.**  The fifth stage of that method is at the end of a
  step, the sixth at seven eighths of it: `History::record` throws
  (`History.cpp:208`) at the sixth evaluation, while
  `executables/src/parse_XdynCommandLineArguments.cpp:45` offers `rkck` and
  `report_xdyn_exceptions_to_user.cpp:50` advises it.  `RunNeverRefused` shows that
  every stepper whose nodes never go back is accepted.
* **Forcing after a step.**  `quicksolve` (`core/inc/solver.hpp:38`) forces the
  integrated states with the date at which the step started; the comment of
  `doc_user/reperes_et_conventions.md:597-599` is about not integrating forced
  states.  The next evaluation forces them again for its own date
  (`ForceModelsSeeForcedStates`).
* **Rows of forced states.**  `Sim::output` (`core/src/Sim.cpp:204`) makes the copy it
  forces anew for each body: only the last body is shown forced, whereas
  `solver.hpp:12` says that "forced state values are indeed written to the
  observers".  Hence the assumption `OnlyLastForced` of `PastIsTheAcceptedPast`.
* **Waves in a JSON row.**  `DictObserver::get_serializer`
  (`observers_and_api/src/DictObserver.cpp:72-75`) writes the heights of a grid between
  single quotes, which no JSON parser accepts.  The run `json` shows the other mistake of
  these rows, the comma; `JsonReadableAsAsked` says of both, and of rows with wrenches and no
  states, which rows have them, and holds.
* **Short answers and failures in a row.**  Where a wave server answered too little, and in
  the row written at the first date of a run after an evaluation that failed (which
  `quicksolve` observes before it evaluates), a row may mix what several evaluations left.
  `RowsOfOneEvaluation` is about the rows after an evaluation that ended.
* **Derivatives by quaternion over gRPC.**  `ModelExchangeServiceImpl.cpp:251` passes a
  date where `to_grpc` takes a `SimServerInputs`, whose constructor from a `double`
  makes one with an empty `state_at_t`; the Euler angles of the answer
  (`model_exchange.proto:77`) are then computed from elements out of range.  That
  file's `from_grpc` (93-165) drops the dates of the states like the other
  service's.
* **Constant phases.**  With `seed of the random data generator: none`
  (`doc_user/modeles_environnementaux.md:478-480`) `add_constant_phases`
  (`environment_models/src/WaveModel.cpp:28`) makes as many phases per frequency as
  there are frequencies: with more directions than frequencies
  `discretize.cpp:168` throws.  `HasPhases` models it; the spectra of the runs
  have enough frequencies.
* **Velocities of a remote sea.**  `grpc/src/SurfaceElevationFromGRPC.cpp:195-206`
  accepts exactly one velocity, however many points were asked for.
* **Wave requests.**  `ToGRPC.cpp:84-132` takes heights for the dates of the request
  and velocities and pressures for the current date; `angular_frequencies_for_rao`
  and `directions_for_rao` (`force.proto:27-28`, 38-39) are never filled.
* **Equilibrium trim.**  `GZ::Curve::get_Xeq` (`gz_curves/src/GZCurve.cpp:73-79`) drops
  what `newton_raphson` returns and gives back the point it started from: `theta_eq`
  is always zero, while `doc_user/courbes_de_GZ.md:30-57` takes the curve at the position
  of equilibrium `f(Xeq) = 0`, trim included.
* **Bracket of the immersion.**  `zeq` (`GZCurve.cpp:103-114`) uses the ordinates of the
  mesh with its origin at the surface as positions of the body, which floats
  between minus the greatest and minus the least of them.  A body whose origin
  is far from mid-height is answered the least ordinate without a word, or is
  refused as "fully emerged".  `CurveIsOfEquilibria` is about the rest (`InReach`).
* **Two curves of one simulator.**  Each `GZ::Curve` starts at date zero
  (`ResultantForceComputer.cpp:22`) and the histories of the body refuse a second
  one, unless its history is reset in between as the tests do.
* **Errors that are not answered.**  Two branches of `report_xdyn_exceptions_to_user`
  (`executables/src/report_xdyn_exceptions_to_user.cpp:42-45`, 53-59) do not call the
  outputter.  A `MeshException` is thrown by the readers and writers of STL files and by the
  check of a mesh when it is built, a `WebSocketException` when a websocket is opened: both before a
  server reads its first message, and no handler of a request reaches them.  Whatever else is
  thrown is answered (`EveryRequestAnswered`).

## The proofs

All theorems are checked by TLAPS for every value of the constants that satisfies
the named assumptions (`ToleranceAssumption`, `HistoriesAssumption`,
`SearchAssumption`, `SimulationAssumption`, `CosimAssumption`,
`ExchangeAssumption`, `ObserversAssumption`, `RemoteAssumption`,
`ForcedAssumption`, `HistoryLengthsAssumption`, `HullAssumption`,
`GZAssumption`); TLC evaluates these assumptions in the runs.  A theorem that needs more states it as a
hypothesis with a name (below in *italics*), which the instances of the passing
runs satisfy.

* `HistoryLemmas` states what each member does: where the bisection cuts, what
  the shift, the insertion and `record` do to a well-formed history
  (`RecordedEffect` is the contract the other modules use).  `WellFormed` joins
  the order of dates, the agreement of `oldest` with the first pair and
  the bound on the window.  None of them is inductive alone: the window is moved
  by looking at `oldest`, which says something of the pairs only while both
  agree, and the cut is where it is looked for only while dates increase.
* `HistoryProofs`, on the members: `TypeCorrect`, `DatesAlwaysIncrease`,
  `OldestAlwaysFront`, `DurationAlwaysBounded` from one
  inductive invariant (one of its parts, `LastIsRecorded`, is that the last date of a vector is
  never one the shift made up), and `HistoryIsSlidingWindow`, the refinement: each record
  maps to `Record` of the abstract window, resets and assignments likewise,
  refused records to a stutter.
* `HistoryProofs`, on the queries.  The invariant (`SignalIInv`, with `Recalls`)
  relates the vector to all that was ever recorded: its pairs but the first are
  samples of the signal, and a sample that is not in it is older than both the
  first pair and the window.  The first pair is left out because the shift makes
  it up.
  * `InnerWindowAlwaysExact`: behind the second pair every answer is the recorded
    signal, and beyond the window it is zero.
  * `SentHistoryAlwaysComplete`: what a remote force model is sent has every sample
    of the duration it asked for, and nothing but samples except at the start of the window;
    the dates and the values, which two loops choose, are of the same
    pairs.  It holds if *LengthsToldApart*: a window is empty or not
    shorter than the tolerance of `operator()`.  Otherwise the age zero is
    taken for the length of the window and answered from its start.
  * `AverageAlwaysExact`: an average over T is that of the signal over T, or over all the
    history holds when T is longer, as soon as it is clear of the first interval
    or the first pair is on the signal (`StartsOnSignal`), if *LinesAreWhole*: values are counted in a unit fine
    enough for interpolated ones to be whole, so that integers lose nothing the
    reals of the code would keep.  The sums of the code and of the definition cut
    the duration at different dates; both are differences of one running sum of
    trapezes, and a trapeze under a line may be cut anywhere.
* `BisectionProofs`: `BisectionCorrect` and `EveryTurnHalves`, the bisection of a
  history, where the invariant brackets the date strictly between the two bounds;
  and `CurveAlwaysOfEquilibria`, that of `GZ::Curve::zeq`, for every hull, step and
  precision: the interval of ordinates holds the position of balance at every turn
  (`SearchKeepsBalance`), the rows answered earlier are at theirs.
* `SimulationProofs`: for any stepper, number of bodies, steps and tables
  * `SimTypeCorrect`, `NaNStaysOut`, `NaNAlwaysStops`: the invariant has one part on
    the soundness of histories and one on rows without NaN;
  * `RunNeverRefused`, for steppers with `NodesNeverGoBack`, the assumption Euler
    and Runge-Kutta 4 satisfy and Cash-Karp does not: the invariant gives the date
    each history has reached in the current step;
  * `ForcesAlwaysSeeForced`, for every tolerance, until an exception stops the run
    (it may leave some bodies updated for a date the forces were not evaluated at,
    but no force model is called any more);
  * `PastIsTheAcceptedPast`, when dates are exact, only the first stage of a step is
    at its start and only the last body is forced.  The invariant (`RowIInv`) says
    that no row is later than the current step, and that between its observation and
    the first evaluation the row of the current date shows the states that this
    evaluation starts from: what a stepper predicted for that date is then replaced
    by what was shown, and every later stage records a date no row has yet.
* `ServerProofs`, for any number of clients and any order of their calls:
  * `CommandsAlwaysPersist`, for both servers and both front ends: in spite of
    `grpc_threads` and `grpc_dates`, an interleaved call sets the commands of its
    own request.  The invariant says that a call which was started works on the
    commands its client sent;
  * `ServerTypeCorrect`, for both as well, if *ForcesAreNumbers*: the type is
    inductive together with the soundness of the histories that a call is about to
    replay, which the check of the dates of a request gives;
  * `ReplyAlwaysOfRequest` (of the co-simulation server), `DerivativeAlwaysOfRequest`
    (of model exchange) and `ReplyAlwaysStartsWithLastState`, for the JSON front end,
    since `grpc_dates` and `grpc_threads` violate them for the other one; the two on
    replies also if *ForcesAreNumbers*.  The invariant says that at most one call is
    under way and works on the request as it was sent (`JsonIInv`), and, for each
    place of the call, what the simulator already has of it: its past, its
    commands, its rows so far.  The effort of the first row stays that of the
    run before, and is left out by name (`ForgetFirstEffort`).
* `ObserverProofs`, for any list, any names and any number of dates:
  * `RunNeverLostHalfway`: an observer has written its titles if and only if it
    was called, and a name known then stays known since closures are never removed;
  * `RowsAlwaysHoldLatestValues`: the invariant (`RowsIInv`) gives each table as a
    function of the values written at the dates its observer was called for, and
    the closures likewise, so that a stale closure shows as the date it is of;
  * `ReplyRowsAlwaysAligned`, from the same invariant; `ListAlwaysInStep`, if
    *EveryObserverHasColumns*: rows are counted in columns, of which a table
    without names has none;
  * `JsonAlwaysReadableAsAsked`, without any assumption on what is asked: the invariant
    gives the flag of the comma as a function of the number of rows and of what is asked
    for, and a row is well formed if and only if it has a scalar before its other sections
    (but for the first), states before its wrenches, and no wave heights.
* `ForceInputProofs`:
  * `RowsAlwaysOfOneEvaluation`, for any sea, fleet and number of
    evaluations, and whatever fails.  The type of the state is joined by `Progress`
    (in an evaluation, the bodies and models before the current one are done: they
    hold what is of this evaluation, and nothing older) and `Whole` (an evaluation
    that ended did so for all of them); a row copies the latter;
  * `AlwaysStopsForAReason`, if *UsualInputs*: spectra of a positive depth with
    phases for each direction, no pressures, one velocity in a remote sea.
    `wave_depth` and `remote_pressures` show why depth and pressures are there;
  * `AlwaysForcedAsTabulated`, for any bodies, tables and dates, if *FilesGiveU*:
    other states of a file are not forced, as `csv_tables` shows.
  * `WindowsAlwaysWhole` and `HistoriesAlwaysLongEnough`, for any bodies and models, any delay
    of a key, any values of the keys and any past known at the start: `Delay` and `KeyValues`
    are constants of the module, so the theorems do not depend on what `Maneuvering` makes of an
    expression.  The two loops of `get_max_history_length` fill one map; the invariant says
    that the length of a body is at least every delay, every radiation damping and
    every past asked of it (`AllCovered`).  What a convolution is cut to, the smaller of
    that length and of what was recorded so far, is then what it would be with a history
    without end.
* `MeshProofs`, for every hull and every immersion of its vertices:
  * `UpdateAlwaysForgetsThePast`: the mesh is what the last update computes from its
    immersions, with at most closing facets appended (`ComputedFrom`).  After a NaN
    the invariant claims nothing of the parts, which are those of the update
    before, and which may still be closed, more than once if closing fails;
  * `PiecesAlwaysOnTheirSide`, if *ProperHulls*: the three vertices of a facet are
    different;
  * `PartsAlwaysOpenInSurfaceOnly`, if moreover *ClosedHulls*: some facet runs each
    side backwards;
  * `PartsAlwaysCoverTheHull`, if moreover *OrientedHulls* (which does not ask for a
    closed hull): no two facets run along a side the same way;
  * `LoopsAlwaysClosed`, if *ProperHulls* and *SimpleHulls*, whether the hull is closed or
    not: no two facets have the same three vertices.  A contour that is a loop gets
    one polygon, along all of its edges;
  * `CutsAlwaysClosed`, if *ProperHulls*, *SimpleHulls*, *ClosedHulls* and *OrientedHulls*: when
    no vertex is in the surface, closing raises nothing and every contour is a loop.

  These are statements about one update, and need no induction over time but
  for `UpdateAlwaysForgetsThePast`.  The first three rest on what cutting the edges does
  (`CutEffect`: each crossing edge has two halves, next to each other in the list,
  that share a new node no other edge has) and on what dealing three of them to the
  two parts does, which is stated by the signs of the three vertices
  (`DealBySigns`) so that bits of status and directions of edges are dealt with
  once.  A cut facet has one of a few patterns of signs (`FacetCleft`), each of
  which gives the two pieces in full (`PieceShapes`).  Facets that share a
  side share the node it is cut at (`FacingSides`), hence the parts are open in the
  surface only; and what becomes of a side comes from no other side of an
  oriented hull, hence it is used once.

  The two on contours are about paths in the graph of closing edges, followed one
  edge after the other.  Contours are what grows from a first edge by adding those
  that share a node, and the induction is on the number of turns: what was grown is
  connected and no edge outside touches a finished contour.  The path followed in a
  loop is a trail, its nodes differ until it comes back to its start, and every node has
  two edges; the edges of the path are thus closed under sharing a node, and are the
  whole contour.  *SimpleHulls* is needed because two facets back to back in the surface
  give the same edge twice.  In a cut between the vertices, a node is the middle of a
  side, a side has exactly two facets in a closed and oriented hull, and each has one
  closing edge (`TwoEdgesOfNode`): no contour branches or ends.

Only model-checked: `ForcesAsWritten`, on the values of keys
(`Maneuvering` declares recursive operators, for trees, and the proof would be an induction over
them; that the histories are long enough for the delays found is proved), and all liveness (`RunEnds`, `SearchEnds`,
`EveryRequestAnswered`), since fairness and ENABLED are out of reach of TLAPS.
Where a property rests on a function that recurs over a list (the samples
of a request recorded one by one, the steps of a run, running sums) the proof goes by
induction on a set of indices, the part of the interval where the statement holds
(`IntervalInduction` in `HistoryLemmas`).

## Not modelled

* **Numbers**: forces, spectra, elevations, pressures, areas, volumes, frames,
  inertia, quaternions, integration schemes.  They are formulas over reals
  without control of their own; TLC has neither reals nor their functions.
* **Hydrodynamic data bases** (`hdb_interpolators` but for `History`): interpolation in
  tables and quadratures, pure functions of reals.
* **GZ curves**: the value of a lever, and the trim (below the search of `get_Xeq`, which
  returns its starting point, `GZCurve` keeps the evaluations and the exception).
* **base91** (`base91x`): a vendored encoder of bytes as text, used for the heights in
  a JSON row and for the mesh of a test ship: a pure function.
* **Command line programs, YAML parsing, parser extensions, file formats, HDF5**:
  conversions between texts, files and structures, without state that outlives
  them.  Of the programs, the loop of `xdyn` is `Simulation` without `FinishStep`'s
  forcing.
* **The gRPC service of model exchange**: its conversion reads out of range at each
  call by quaternion (above); by Euler angles it is `ModelExchange` with the dates
  dropped as in `grpc_dates`.
* **Data races** inside `SimStepper` called by several threads: `grpc_threads`
  interleaves whole calls, which is enough to show the mixture.
* **Mesh**: iterators that a reallocation invalidates (`MeshIntersector.cpp:410`), the
  choice of the node a contour starts at (`ClosingFacetComputer.cpp:54`).
* **Test data, unit tests, examples, post-processing**: no part of the running
  system; they are a large share of the repository's lines.

## What could come next

The list of hazards is covered but for those whose notes say why not.  Worth
adding: the effort of blocked degrees of freedom (`BlockedDOF::get_delta_F`) in
`Simulation`, with several tables per body; a composition of `RemoteModels` with
`CosimServer`, whose failed requests leave half an evaluation behind; larger hulls (a cube with a deck in the
surface) where the time of a run allows it.  Theorems worth proving: that a
contour which is not a loop is always reported, and that the polygons are oriented like the
facets they close.

## Reproducing

    tlasany M.tla
    tlc -workers 2 -config MCSimulation.cfg MCSimulation
    tlapm HistoryProofs.tla

The `hull` run takes one to two minutes, the others seconds.
