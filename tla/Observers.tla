------------------------------ MODULE Observers ------------------------------
(***************************************************************************)
(* The observers of a simulation and what they write.  At each date the    *)
(* solver calls the observers of the list in turn; each asks Sim::output   *)
(* to write everything it knows, which leaves two closures per name in the *)
(* observer, one that makes a title and one that writes a value; then it   *)
(* calls those of the names it was asked for.                              *)
(*                                                                         *)
(* What a model writes may change: a remote force model observes nothing   *)
(* before it has answered, and then whatever its last answer contained.    *)
(* The value of a name is the date it was computed for.                    *)
(***************************************************************************)
EXTENDS Integers, Sequences, FiniteSets

CONSTANTS
  Steady,    \* names Sim::output writes at each date
  Remote,    \* names a remote force model writes if its last answer has them
  Scalars,   \* names without parentheses: t
  States,    \* names with one argument: x(body)
  Wrenches,  \* names with several arguments: Fx(model,body,frame)
  Grids,     \* wave heights on a grid
  Lists,     \* the lists of observers to study: sequences of [format, data]
  LastDate   \* bound on the dates: 1 .. LastDate

Names == Steady \union Remote
Formats == {"csv", "h5", "map", "json", "everything"}

ASSUME ObserversAssumption ==
  /\ LastDate \in Nat \ {0}
  /\ Names = UNION {Scalars, States, Wrenches, Grids}
  /\ \A l \in Lists :
       l \in Seq([format : Formats, data : Seq(Names)]) /\ Len(l) > 0
  \* A column asked for twice would get each value twice: not modelled.
  /\ \A l \in Lists : \A i \in DOMAIN l : l[i].format \in {"map", "h5"} =>
       \A j, k \in DOMAIN l[i].data : l[i].data[j] = l[i].data[k] => j = k

VARIABLES
  list,        \* the observers' descriptions (ListOfObservers)
  date,        \* the date being observed
  turn,        \* the observer to be called next, or one more than the last
  remote,      \* extra observations of the remote model's last answer
  serialize,   \* serialize[i]: the closures of observer i, name -> date
  initialized, \* initialized[i]: its titles have been written
  out,         \* out[i]: what it has written
  failed,      \* an exception has left the list
  written      \* written[d]: names Sim::output wrote at date d

obsVars ==
  <<list, date, turn, remote, serialize, initialized, out, failed, written>>

Index == 1 .. Len(list)
NoDates == [n \in {} |-> 0]
With(f, g) ==
  [n \in DOMAIN f \union DOMAIN g |-> IF n \in DOMAIN g THEN g[n] ELSE f[n]]

(* What an observer starts with, by format. *)
NothingWritten(format) ==
  CASE format = "csv" -> [titles |-> <<>>, lines |-> <<>>]
    [] format = "json" ->
         [dict |-> NoDates, comma |-> FALSE, text |-> <<>>, lines |-> <<>>]
    [] OTHER -> [m |-> [n \in {} |-> <<>>], res |-> <<>>]

ObsInit ==
  /\ list \in Lists
  /\ date = 1 /\ turn = 1
  /\ remote \in SUBSET Remote \* not empty if the simulator was used before
  /\ serialize = [i \in Index |-> NoDates]
  /\ initialized = [i \in Index |-> FALSE]
  /\ out = [i \in Index |-> NothingWritten(list[i].format)]
  /\ failed = FALSE
  /\ written = <<Steady \union remote>>

-----------------------------------------------------------------------------

(* Sim::output *)
Output == Steady \union remote

(* Slips: a closure that is there is kept, or those not written are dropped. *)
ClosuresKept(i) == With([n \in Output |-> date], serialize[i])
ClosuresDropped(i) == [n \in Output |-> date]

(* Observer::write: the maps keep the closures of the names not written. *)
Closures(i) == With(serialize[i], [n \in Output |-> date])

(***************************************************************************)
(* The names whose closures are called: all the known ones, or those asked *)
(* for, up to the first one that is not known, where an exception is       *)
(* thrown.                                                                 *)
(***************************************************************************)
Everything(i) == list[i].format = "everything"

Unknown(i, closures) ==
  ~ Everything(i) /\ \E j \in DOMAIN list[i].data : list[i].data[j] \notin DOMAIN closures

Called(i, closures) ==
  LET data == list[i].data
      known(j) == data[j] \in DOMAIN closures
      count == Cardinality({j \in DOMAIN data : \A k \in 1 .. j : known(k)})
  IN  SubSeq(data, 1, count)

CalledSet(i, closures) ==
  IF Everything(i) THEN DOMAIN closures
                   ELSE {Called(i, closures)[j] : j \in DOMAIN Called(i, closures)}

(* Wave heights have a column in a file of format h5 only. *)
Columns(i, names) == IF list[i].format = "h5" THEN names ELSE names \ Grids

-----------------------------------------------------------------------------

(***************************************************************************)
(* CsvObserver and TsvObserver: a title or a value per name, then a new    *)
(* line.  Of a grid there is neither, only the separators (Blank).         *)
(***************************************************************************)
Blank == 0
CsvTitles(o, names) == [o EXCEPT !.titles = names]
CsvLine(o, names, closures) ==
  LET cell(n) == IF n \in Grids THEN Blank ELSE closures[n]
  IN  [o EXCEPT !.lines = Append(@, [j \in DOMAIN names |-> cell(names[j])])]

(* MapObserver and Hdf5Observer: a column per name, which grows by one (a *)
(* slip: at its front).                                                    *)
EmptyColumns(o, names) == [o EXCEPT !.m = With(@, [n \in names |-> <<>>])]
GrowColumnsAtFront(o, names, closures) ==
  LET column(n) == IF n \in DOMAIN o.m THEN o.m[n] ELSE <<>>
  IN  [o EXCEPT !.m = With(@, [n \in names |-> <<closures[n]>> \o column(n)])]

GrowColumns(o, names, closures) ==
  LET column(n) == IF n \in DOMAIN o.m THEN o.m[n] ELSE <<>>
  IN  [o EXCEPT !.m = With(@, [n \in names |-> Append(column(n), closures[n])])]

(***************************************************************************)
(* EverythingObserver::add: every column is copied into the results again, *)
(* from the first one on, whatever the date it was first written at.       *)
(***************************************************************************)
CopyColumns(o) ==
  LET rows == {Len(o.m[n]) : n \in DOMAIN o.m}
      last == CHOOSE r \in rows : \A s \in rows : s <= r
  IN  [o EXCEPT !.res = [r \in 1 .. last |->
         [n \in {c \in DOMAIN o.m : Len(o.m[c]) >= r} |-> o.m[n][r]]]]

(***************************************************************************)
(* DictObserver::flush_after_write.  The flag for the comma is not reset   *)
(* from one row to the next, and the heights of a grid are a text between  *)
(* single quotes, which the mark of their section shows.                   *)
(***************************************************************************)
DictText(o) ==
  LET has(kind) == DOMAIN o.dict \intersect kind # {}
      comma(b) == IF b THEN <<",">> ELSE <<>>
      scalars == IF has(Scalars) THEN <<"scalars">> ELSE <<>>
      afterScalars == o.comma \/ has(Scalars)
      efforts == IF has(Wrenches) THEN comma(has(States)) \o <<"wrenches">> ELSE <<>>
      bodies == IF has(States) \/ has(Wrenches)
                  THEN comma(afterScalars) \o <<"states">> \o efforts ELSE <<>>
      afterBodies == afterScalars \/ has(States) \/ has(Wrenches)
      waves == IF has(Grids) THEN comma(afterBodies) \o <<"'waves'">> ELSE <<>>
  IN  <<"{">> \o scalars \o bodies \o waves \o <<"}">>

DictComma(o) == o.comma \/ DOMAIN o.dict # {}

(* A slip: the stream is not emptied. *)
JsonLineKeepingText(o, closures) ==
  LET dict == With(o.dict, closures)
      filled == [o EXCEPT !.dict = dict]
      text == o.text \o DictText(filled)
  IN  [dict |-> dict, comma |-> DictComma(filled), text |-> text,
       lines |-> Append(o.lines, [text |-> text, dict |-> dict])]

(* JsonObserver and WebSocketObserver: one dictionary per date. *)
JsonLine(o, closures) ==
  LET dict == With(o.dict, closures)
      filled == [o EXCEPT !.dict = dict]
      text == o.text \o DictText(filled)
  IN  [dict |-> dict, comma |-> DictComma(filled), text |-> <<>>,
       lines |-> Append(o.lines, [text |-> text, dict |-> dict])]

-----------------------------------------------------------------------------

(* initialize_serialization_of_requested_variables, the first time. *)
Initialize(i, closures) ==
  CASE list[i].format = "csv" -> CsvTitles(out[i], Called(i, closures))
    [] list[i].format = "json" -> out[i]
    [] OTHER -> EmptyColumns(out[i], Columns(i, CalledSet(i, closures)))

(* serialize_requested_variables, when every name is known. *)
Serialize(i, o, closures) ==
  LET names == Columns(i, CalledSet(i, closures))
  IN  CASE list[i].format = "csv" -> CsvLine(o, list[i].data, closures)
        [] list[i].format = "json" ->
             JsonLine(o, [n \in CalledSet(i, closures) |-> closures[n]])
        [] list[i].format = "everything" -> CopyColumns(GrowColumns(o, names, closures))
        [] OTHER -> GrowColumns(o, names, closures)

(* The values written before the exception: no line is ended. *)
SerializePart(i, o, closures) ==
  CASE list[i].format \in {"csv", "json"} -> o
    [] OTHER -> GrowColumns(o, Columns(i, CalledSet(i, closures)), closures)

(* A slip: what an observer throws is caught, and the next one is called. *)
CarryOn == failed' = FALSE /\ turn' = turn + 1

(* An exception goes through the list: the observers after are not called. *)
Leave == failed' = TRUE /\ UNCHANGED turn

(***************************************************************************)
(* Observer::observe and observe_everything of the observer whose turn it  *)
(* is.  An unknown name throws: before the first values are written if the *)
(* titles were not, in the middle of the values otherwise.                 *)
(***************************************************************************)
ObserveOne ==
  LET i == turn
      closures == Closures(i)
      titled == IF initialized[i] THEN out[i] ELSE Initialize(i, closures)
  IN  /\ turn \in Index /\ ~ failed
      /\ serialize' = [serialize EXCEPT ![i] = closures]
      /\ IF Unknown(i, closures)
           THEN /\ out' = [out EXCEPT ![i] =
                     IF initialized[i] THEN SerializePart(i, titled, closures) ELSE titled]
                /\ Leave
                /\ UNCHANGED initialized
           ELSE /\ out' = [out EXCEPT ![i] = Serialize(i, titled, closures)]
                /\ initialized' = [initialized EXCEPT ![i] = TRUE]
                /\ turn' = turn + 1
                /\ UNCHANGED failed
      /\ UNCHANGED <<list, date, remote, written>>

(***************************************************************************)
(* The solver goes to the next date: the remote model was called several   *)
(* times, and its last answer is the one that is observed.                 *)
(***************************************************************************)
NextDate(answer) ==
  /\ turn = Len(list) + 1 /\ date < LastDate
  /\ remote' = answer
  /\ date' = date + 1
  /\ turn' = 1
  /\ written' = Append(written, Steady \union answer)
  /\ UNCHANGED <<list, serialize, initialized, out, failed>>

(* The end of the run, or an exception nobody caught. *)
ObsEnded ==
  /\ failed \/ (turn = Len(list) + 1 /\ date = LastDate)
  /\ UNCHANGED obsVars

ObsNext ==
  \/ ObserveOne
  \/ \E answer \in SUBSET Remote : NextDate(answer)
  \/ ObsEnded

ObsSpec == ObsInit /\ [][ObsNext]_obsVars

-----------------------------------------------------------------------------

DatesOf(n, d) == {e \in 1 .. d : n \in written[e]}
Latest(n, d) == CHOOSE e \in DatesOf(n, d) : \A f \in DatesOf(n, d) : f <= e

(* The number of dates observer i has written. *)
RowCount(i) ==
  IF list[i].format \in {"csv", "json"} THEN Len(out[i].lines)
  ELSE IF list[i].format = "everything" THEN Len(out[i].res)
  ELSE LET lengths == {Len(out[i].m[n]) : n \in DOMAIN out[i].m}
       IN  IF lengths = {} THEN 0 ELSE CHOOSE r \in lengths : \A s \in lengths : s <= r

Tracks(values, n) == \A d \in DOMAIN values : values[d] = Latest(n, d)

\* Each row of a file, in whatever format, has under each title the value
\* of that name which was written last, at the date of the row or before: no
\* value is of another row or of another name, and columns never drift apart,
\* however the set of the written names changes during the run.
RowsHoldLatestValues ==
  \A i \in Index :
    CASE list[i].format = "csv" ->
           \A d \in DOMAIN out[i].lines :
             /\ Len(out[i].lines[d]) = Len(out[i].titles)
             /\ \A j \in DOMAIN out[i].titles :
                  LET n == out[i].titles[j]
                  IN  n \notin Grids => out[i].lines[d][j] = Latest(n, d)
      [] list[i].format = "json" ->
           \A d \in DOMAIN out[i].lines : \A j \in DOMAIN list[i].data :
             LET n == list[i].data[j]
             IN  n \in DOMAIN out[i].lines[d].dict
                   /\ out[i].lines[d].dict[n] = Latest(n, d)
      [] list[i].format \in {"map", "h5"} ->
           \A n \in DOMAIN out[i].m :
             Len(out[i].m[n]) = RowCount(i) /\ Tracks(out[i].m[n], n)
      [] OTHER -> TRUE

\* A run is never lost half-way because of what it was asked to write: the
\* exception for an unknown name is thrown at the first date or never, by an
\* observer that has written no value yet, although names may stop being
\* written at any date.
RefusedAtFirstDateOnly == failed => date = 1 /\ RowCount(turn) = 0

\* The observers of a list are never more than one date apart, those called
\* first ahead, and after each date they have all written it.
ListInStep ==
  \A i \in Index : RowCount(i) = IF i < turn THEN date ELSE date - 1

\* Each row of the results a server makes its reply of has the values of its
\* own date, for the names written since the first one.
RowsOfReplyAligned ==
  \A i \in Index : Everything(i) =>
    \A d \in DOMAIN out[i].res : \A n \in written[1] \ Grids :
      n \in DOMAIN out[i].res[d] /\ out[i].res[d][n] = Latest(n, d)

(* Sections between braces, separated by single commas and double-quoted. *)
WellFormed(text) ==
  LET inner == SubSeq(text, 2, Len(text) - 1)
  IN  /\ Len(text) > 1 /\ text[1] = "{" /\ text[Len(text)] = "}"
      /\ inner # <<>> => Len(inner) % 2 = 1
      /\ \A k \in DOMAIN inner : (inner[k] = ",") <=> (k % 2 = 0)
      /\ \A k \in DOMAIN inner : inner[k] \notin {"{", "}", "'waves'"}

Asked(data) == {data[j] : j \in DOMAIN data}

(* What a row must be of: no wave heights, no wrenches without states, and *)
(* after the first row a scalar before whatever else there is.             *)
Readable(asked, d) ==
  /\ asked \intersect Grids = {}
  /\ asked \intersect Wrenches # {} => asked \intersect States # {}
  /\ d > 1 /\ asked # {} => asked \intersect Scalars # {}

\* Which rows of a JSON file, which messages to the websocket, a parser
\* accepts is known from what was asked for: the flag for the comma, which
\* outlives the rows, and the text before it change nothing else, whatever a
\* remote model writes and the other observers of the list do.
JsonReadableAsAsked ==
  \A i \in Index : list[i].format = "json" =>
    \A d \in DOMAIN out[i].lines :
      WellFormed(out[i].lines[d].text) <=> Readable(Asked(list[i].data), d)

\* "Les observateurs implémentés sont les suivants : [...] JSON"
\* (doc_dev.md:374-380): each row is a dictionary that a JSON parser accepts.
JsonWellFormed ==
  \A i \in Index : list[i].format = "json" =>
    \A d \in DOMAIN out[i].lines : WellFormed(out[i].lines[d].text)
=============================================================================
