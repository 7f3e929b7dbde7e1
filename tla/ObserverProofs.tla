--------------------------- MODULE ObserverProofs ---------------------------
(***************************************************************************)
(* For every list of observers, whatever they are asked for and whatever a *)
(* remote model writes at each date: only the first date may be refused,   *)
(* because the closures of a name that is no longer written are kept; and  *)
(* every file is a table of the values written last, of one row per date.  *)
(***************************************************************************)
EXTENDS Observers, FiniteSetTheorems, SequenceTheorems, TLAPS

(* The state before the run is refused, if it is. *)
Running ==
  /\ \A i \in Index : initialized[i] <=> i < turn \/ date > 1
  /\ \A i \in Index : initialized[i] => ~ Unknown(i, serialize[i])
  /\ \A i \in Index : ~ initialized[i] => out[i] = NothingWritten(list[i].format)

ObsIInv ==
  /\ list \in Lists
  /\ date \in Nat \ {0}
  /\ turn \in 1 .. Len(list) + 1
  /\ initialized \in [Index -> BOOLEAN]
  /\ DOMAIN serialize = Index /\ serialize = [i \in Index |-> serialize[i]]
  /\ DOMAIN out = Index /\ out = [i \in Index |-> out[i]]
  /\ failed \in BOOLEAN
  /\ failed => turn \in Index
  /\ ~ failed => Running
  /\ RefusedAtFirstDateOnly

-----------------------------------------------------------------------------

\* The list of observers is a sequence of the known formats.
LEMMA ListType ==
  ASSUME list \in Lists
  PROVE  /\ Len(list) \in Nat /\ Index = 1 .. Len(list)
         /\ \A i \in Index : list[i].format \in Formats
<1>1. list \in Seq([format : Formats, data : Seq(Names)])
  BY ObserversAssumption
<1>2. Len(list) \in Nat
  BY <1>1, LenProperties
<1>3. \A i \in 1 .. Len(list) : list[i] \in [format : Formats, data : Seq(Names)]
  BY <1>1, ElementOfSeq
<1> QED
  BY <1>2, <1>3 DEF Index

\* An observer never forgets a name (Observer::write).
LEMMA KnownStaysKnown ==
  ASSUME NEW i, ~ Unknown(i, serialize[i])
  PROVE  ~ Unknown(i, Closures(i))
<1>1. DOMAIN serialize[i] \subseteq DOMAIN Closures(i)
  BY DEF Closures, With
<1> QED
  BY <1>1 DEF Unknown

\* The columns of an observer that has its titles only are all empty.
LEMMA TitlesAreNoRows ==
  ASSUME list \in Lists, NEW i \in Index, NEW closures,
         out[i] = NothingWritten(list[i].format),
         out' = [out EXCEPT ![i] = Initialize(i, closures)],
         DOMAIN out = Index, list' = list
  PROVE  RowCount(i)' = 0
<1>1. out'[i] = Initialize(i, closures)
  OBVIOUS
<1>2. CASE list[i].format = "csv"
  <2>1. Initialize(i, closures).lines = <<>>
    BY <1>2 DEF Initialize, CsvTitles, NothingWritten
  <2> QED
    BY <1>1, <1>2, <2>1, EmptySeq DEF RowCount
<1>3. CASE list[i].format = "json"
  <2>1. Initialize(i, closures).lines = <<>>
    BY <1>3 DEF Initialize, NothingWritten
  <2> QED
    BY <1>1, <1>3, <2>1, EmptySeq DEF RowCount
<1>4. CASE list[i].format \notin {"csv", "json"}
  <2> DEFINE o == Initialize(i, closures)
             lengths == {Len(o.m[n]) : n \in DOMAIN o.m}
  <2>1. o = EmptyColumns(out[i], Columns(i, CalledSet(i, closures)))
    BY <1>4 DEF Initialize
  <2>2. out[i] = [m |-> [n \in {} |-> <<>>], res |-> <<>>]
    BY <1>4 DEF NothingWritten
  <2>3. o.res = <<>> /\ \A n \in DOMAIN o.m : o.m[n] = <<>>
    BY <2>1, <2>2 DEF EmptyColumns, With
  <2>4. \A r \in lengths : r = 0
    BY <2>3, EmptySeq
  <2>5. lengths # {} => (CHOOSE r \in lengths : \A s \in lengths : s <= r) = 0
    <3> SUFFICES ASSUME lengths # {}
                 PROVE  (CHOOSE r \in lengths : \A s \in lengths : s <= r) = 0
      OBVIOUS
    <3>1. \E r \in lengths : \A s \in lengths : s <= r
      BY <2>4
    <3>2. (CHOOSE r \in lengths : \A s \in lengths : s <= r) \in lengths
      BY <3>1
    <3> QED
      BY <2>4, <3>2
  <2>6. CASE list[i].format = "everything"
    BY <1>1, <2>3, <2>6, EmptySeq DEF RowCount
  <2>7. CASE list[i].format # "everything"
    BY <1>1, <1>4, <2>5, <2>7 DEF RowCount
  <2> QED
    BY <2>6, <2>7
<1> QED
  BY <1>2, <1>3, <1>4

\* An observer of the list is called: it is refused before its first row, or
\* it knows its names for ever.
LEMMA ObserveStep ==
  ASSUME ObsIInv, ObserveOne
  PROVE  ObsIInv'
<1> DEFINE i == turn
           closures == Closures(i)
<1>1. /\ i \in Index /\ ~ failed /\ Running
      /\ list' = list /\ date' = date /\ Index' = Index
      /\ serialize' = [serialize EXCEPT ![i] = closures]
  BY DEF ObserveOne, ObsIInv, Index
<1>2. CASE Unknown(i, closures)
  <2>1. ~ initialized[i] /\ date = 1
    <3>1. initialized[i] => ~ Unknown(i, serialize[i])
      BY <1>1, Zenon DEF Running
    <3>2. ~ initialized[i]
      BY <1>2, <3>1, KnownStaysKnown
    <3>3. initialized[i] <=> (i < turn \/ date > 1)
      BY <1>1, SMT DEF Running
    <3>4. date \in Nat \ {0}
      BY DEF ObsIInv
    <3> QED
      BY <3>2, <3>3, <3>4
  <2>2. /\ out' = [out EXCEPT ![i] = Initialize(i, closures)]
        /\ failed' = TRUE /\ turn' = turn /\ initialized' = initialized
    BY <1>2, <2>1 DEF ObserveOne, Leave
  <2>3. RowCount(i)' = 0
    BY <1>1, <2>1, <2>2, TitlesAreNoRows DEF ObsIInv, Running
  <2>4. RefusedAtFirstDateOnly'
    BY <1>1, <2>1, <2>2, <2>3 DEF RefusedAtFirstDateOnly
  <2> QED
    BY <1>1, <2>2, <2>4 DEF ObsIInv
<1>3. CASE ~ Unknown(i, closures)
  <2>1. /\ initialized' = [initialized EXCEPT ![i] = TRUE]
        /\ turn' = turn + 1 /\ failed' = failed
        /\ \E o : out' = [out EXCEPT ![i] = o]
    BY <1>3 DEF ObserveOne
  <2>2. Len(list) \in Nat /\ Index = 1 .. Len(list) /\ turn \in Nat
    BY <1>1, ListType DEF ObsIInv
  <2>3. Running'
    <3>1. \A j \in Index : initialized'[j] <=> j < turn + 1 \/ date > 1
      BY <1>1, <2>1, <2>2 DEF Running, ObsIInv
    <3>2. \A j \in Index : initialized'[j] => ~ Unknown(j, serialize[j])'
      BY <1>1, <1>3, <2>1 DEF Running, ObsIInv, Unknown, Everything
    <3>3. \A j \in Index : ~ initialized'[j] => out'[j] = NothingWritten(list[j].format)
      BY <1>1, <2>1 DEF Running, ObsIInv
    <3> QED
      BY <1>1, <2>1, <3>1, <3>2, <3>3 DEF Running
  <2>4. turn' \in 1 .. Len(list') + 1
    BY <1>1, <2>1, <2>2
  <2> QED
    BY <1>1, <2>1, <2>3, <2>4 DEF ObsIInv, RefusedAtFirstDateOnly
<1> QED
  BY <1>2, <1>3

\* At the end of a date all observers have their titles.
LEMMA NextDateStep ==
  ASSUME ObsIInv, NEW answer, NextDate(answer)
  PROVE  ObsIInv'
<1>1. Len(list) \in Nat /\ Index = 1 .. Len(list)
  BY ListType DEF ObsIInv
<1>2. ~ failed /\ \A i \in Index : initialized[i]
  BY <1>1 DEF NextDate, ObsIInv, Running
<1>3. Index' = Index
  BY DEF NextDate, Index
<1>4. Running'
  BY <1>2, <1>3 DEF NextDate, ObsIInv, Running, Unknown, Everything
<1> QED
  BY <1>1, <1>3, <1>4 DEF NextDate, ObsIInv, RefusedAtFirstDateOnly

\* No observer is initialized before the first date.
LEMMA ObsInitInv == ObsInit => ObsIInv
<1> SUFFICES ASSUME ObsInit
             PROVE  ObsIInv
  OBVIOUS
<1>1. Len(list) \in Nat /\ Index = 1 .. Len(list)
  BY ListType DEF ObsInit
<1>2. Running
  BY <1>1 DEF ObsInit, Running
<1>3. /\ DOMAIN serialize = Index /\ serialize = [i \in Index |-> serialize[i]]
      /\ DOMAIN out = Index /\ out = [i \in Index |-> out[i]]
      /\ initialized \in [Index -> BOOLEAN]
  BY DEF ObsInit
<1>4. ~ failed /\ failed \in BOOLEAN
  BY DEF ObsInit
<1>5. list \in Lists /\ date \in Nat \ {0} /\ turn \in 1 .. Len(list) + 1
  BY <1>1 DEF ObsInit
<1>6. RefusedAtFirstDateOnly
  BY <1>4 DEF RefusedAtFirstDateOnly
<1> QED
  BY <1>2, <1>3, <1>4, <1>5, <1>6 DEF ObsIInv

\* A step that changes nothing keeps the invariant.
LEMMA ObsIdleStep ==
  ASSUME ObsIInv, UNCHANGED obsVars
  PROVE  ObsIInv'
<1>1. Index' = Index /\ Running' = Running
  BY DEF obsVars, Index, Running, Unknown, Everything
<1>2. RowCount(turn)' = RowCount(turn)
  BY DEF obsVars, RowCount
<1> QED
  BY <1>1, <1>2 DEF obsVars, ObsIInv, RefusedAtFirstDateOnly

\* An observer is initialized if and only if it has been called, and the names known at
\* its first date stay known.
THEOREM ObserversInvariant == ObsSpec => []ObsIInv
<1>1. ObsInit => ObsIInv
  BY ObsInitInv
<1>2. ObsIInv /\ [ObsNext]_obsVars => ObsIInv'
  BY ObserveStep, NextDateStep, ObsIdleStep DEF ObsNext, ObsEnded
<1> QED
  BY <1>1, <1>2, PTL DEF ObsSpec

\* For every list of observers, number of dates and set of names, and whatever
\* a remote model writes at each date: the exception for a name that is not
\* known leaves Observer::observe at the first date or never, and from an
\* observer that has no row.
THEOREM RunNeverLostHalfway == ObsSpec => []RefusedAtFirstDateOnly
<1>1. ObsIInv => RefusedAtFirstDateOnly
  BY DEF ObsIInv
<1> QED
  BY <1>1, ObserversInvariant, PTL

-----------------------------------------------------------------------------

(***************************************************************************)
(* What the observers have written.  Those called at this date have        *)
(* written one row more than the others; the closures of each are the      *)
(* values written last; and each kind of file is a table of these values,  *)
(* of d rows.  w is the names written at each date.                        *)
(***************************************************************************)
Done(i) == IF i < turn THEN date ELSE date - 1
KnownBy(w, d) == UNION {w[e] : e \in 1 .. d}
DatesIn(w, n, d) == {e \in 1 .. d : n \in w[e]}
LatestIn(w, n, d) == CHOOSE e \in DatesIn(w, n, d) : \A f \in DatesIn(w, n, d) : f <= e

ClosureTable(c, w, d) ==
  /\ DOMAIN c = KnownBy(w, d)
  /\ \A n \in KnownBy(w, d) : c[n] = LatestIn(w, n, d) /\ c[n] \in Int

CsvTable(data, o, w, d) ==
  /\ o = [titles |-> o.titles, lines |-> o.lines]
  /\ d > 0 => o.titles = data
  /\ o.lines \in Seq(Seq(Int)) /\ Len(o.lines) = d
  /\ \A e \in 1 .. d :
       /\ Len(o.lines[e]) = Len(data)
       /\ \A j \in DOMAIN data :
            data[j] \notin Grids => o.lines[e][j] = LatestIn(w, data[j], e)

(* What the text of a dictionary is made of. *)
Marks == {"{", "}", ",", "scalars", "states", "wrenches", "'waves'"}

JsonTable(data, o, w, d) ==
  /\ o = [dict |-> o.dict, comma |-> o.comma, text |-> <<>>, lines |-> o.lines]
  /\ DOMAIN o.dict \subseteq Asked(data)
  /\ o.lines \in Seq([text : Seq(Marks), dict : [Asked(data) -> Int]])
  /\ Len(o.lines) = d
  /\ o.comma \in BOOLEAN
  /\ o.comma <=> d > 0 /\ Asked(data) # {}
  /\ \A e \in 1 .. d :
       /\ \A n \in Asked(data) : o.lines[e].dict[n] = LatestIn(w, n, e)
       /\ WellFormed(o.lines[e].text) <=> Readable(Asked(data), e)

ColumnTable(names, o, w, d) ==
  /\ o = [m |-> o.m, res |-> o.res]
  /\ d > 0 => DOMAIN o.m = names
  /\ \A n \in DOMAIN o.m :
       /\ o.m[n] \in Seq(Int) /\ Len(o.m[n]) = d
       /\ \A e \in 1 .. d : o.m[n][e] = LatestIn(w, n, e)

(* The columns of an observer of everything, of which the longest have d values. *)
LongestColumns(o, w, d) ==
  /\ o = [m |-> o.m, res |-> o.res]
  /\ \A n \in DOMAIN o.m : o.m[n] \in Seq(Int) /\ Len(o.m[n]) <= d
  /\ \A n \in w[1] \ Grids :
       /\ n \in DOMAIN o.m /\ Len(o.m[n]) = d
       /\ \A e \in 1 .. d : o.m[n][e] = LatestIn(w, n, e)

CopiedTable(o, w, d) ==
  /\ o = [m |-> o.m, res |-> o.res]
  /\ \A n \in DOMAIN o.m : o.m[n] \in Seq(Int) /\ Len(o.m[n]) <= d
  /\ d > 0 => \A n \in w[1] \ Grids :
       /\ n \in DOMAIN o.m /\ Len(o.m[n]) = d
       /\ \A e \in 1 .. d : o.m[n][e] = LatestIn(w, n, e)
  /\ w[1] \ Grids # {} =>
       /\ DOMAIN o.res = 1 .. d /\ Len(o.res) = d
       /\ \A e \in 1 .. d : \A n \in w[1] \ Grids :
            n \in DOMAIN o.res[e] /\ o.res[e][n] = LatestIn(w, n, e)

TableOf(observer, o, w, d) ==
  /\ observer.format = "csv" => CsvTable(observer.data, o, w, d)
  /\ observer.format = "json" => JsonTable(observer.data, o, w, d)
  /\ observer.format = "map" => ColumnTable(Asked(observer.data) \ Grids, o, w, d)
  /\ observer.format = "h5" => ColumnTable(Asked(observer.data), o, w, d)
  /\ observer.format = "everything" => CopiedTable(o, w, d)

-----------------------------------------------------------------------------

\* A name that is written at a date has that date for its latest.
LEMMA LatestNow ==
  ASSUME NEW w, NEW d \in Nat \ {0}, NEW n \in w[d]
  PROVE  LatestIn(w, n, d) = d
<1>1. d \in DatesIn(w, n, d) /\ \A f \in DatesIn(w, n, d) : f <= d /\ f \in Int
  BY DEF DatesIn
<1>2. \E e \in DatesIn(w, n, d) : \A f \in DatesIn(w, n, d) : f <= e
  BY <1>1
<1>3. LatestIn(w, n, d) \in DatesIn(w, n, d) /\ \A f \in DatesIn(w, n, d) : f <= LatestIn(w, n, d)
  BY <1>2 DEF LatestIn
<1> QED
  BY <1>1, <1>3

\* Otherwise it keeps the one it had.
LEMMA LatestBefore ==
  ASSUME NEW w, NEW d \in Nat, NEW n, n \notin w[d + 1]
  PROVE  LatestIn(w, n, d + 1) = LatestIn(w, n, d)
<1>1. DatesIn(w, n, d + 1) = DatesIn(w, n, d)
  BY DEF DatesIn
<1> QED
  BY <1>1 DEF LatestIn

\* It depends on what was written so far only.
LEMMA LatestStays ==
  ASSUME NEW v, NEW w, NEW d \in Nat, \A e \in 1 .. d : v[e] = w[e]
  PROVE  \A e \in 1 .. d : \A n : LatestIn(v, n, e) = LatestIn(w, n, e)
<1>1. \A e \in 1 .. d : \A n : DatesIn(v, n, e) = DatesIn(w, n, e)
  BY DEF DatesIn
<1> QED
  BY <1>1 DEF LatestIn

\* Observer::write leaves the closures of all names written so far.
LEMMA ClosuresNow ==
  ASSUME NEW i, NEW w, date \in Nat \ {0}, Output = w[date],
         ClosureTable(serialize[i], w, date - 1)
  PROVE  ClosureTable(Closures(i), w, date)
<1> DEFINE c == Closures(i)
           d == date - 1
<1>1. c = [n \in DOMAIN serialize[i] \union w[date] |->
             IF n \in w[date] THEN date ELSE serialize[i][n]]
  BY DEF Closures, With
<1>2. KnownBy(w, date) = KnownBy(w, d) \union w[date]
  <2>1. 1 .. date = 1 .. d \union {date}
    OBVIOUS
  <2> QED
    BY <2>1 DEF KnownBy
<1>3. DOMAIN c = KnownBy(w, date)
  BY <1>1, <1>2 DEF ClosureTable
<1>4. ASSUME NEW n \in KnownBy(w, date)
      PROVE  c[n] = LatestIn(w, n, date) /\ c[n] \in Int
  <2>1. CASE n \in w[date]
    BY <1>1, <1>2, <1>4, <2>1, LatestNow
  <2>2. CASE n \notin w[date]
    <3>1. c[n] = serialize[i][n] /\ n \in KnownBy(w, d)
      BY <1>1, <1>2, <1>3, <1>4, <2>2
    <3>2. serialize[i][n] = LatestIn(w, n, d) /\ serialize[i][n] \in Int
      BY <3>1 DEF ClosureTable
    <3>3. d \in Nat /\ d + 1 = date
      OBVIOUS
    <3>4. LatestIn(w, n, date) = LatestIn(w, n, d)
      <4> HIDE DEF d
      <4> QED
        BY <2>2, <3>3, LatestBefore
    <3> QED
      BY <3>1, <3>2, <3>4
  <2> QED
    BY <2>1, <2>2
<1> QED
  BY <1>3, <1>4 DEF ClosureTable

\* An observer all of whose names are known calls them all.
LEMMA CalledAll ==
  ASSUME NEW i, list[i].data \in Seq(Names), NEW closures, ~ Unknown(i, closures)
  PROVE  /\ ~ Everything(i) => /\ Called(i, closures) = list[i].data
                               /\ CalledSet(i, closures) = Asked(list[i].data)
                               /\ Asked(list[i].data) \subseteq DOMAIN closures
         /\ Everything(i) => CalledSet(i, closures) = DOMAIN closures
<1>1. CASE Everything(i)
  BY <1>1 DEF CalledSet
<1>2. CASE ~ Everything(i)
  <2> DEFINE data == list[i].data
             known(j) == data[j] \in DOMAIN closures
             upTo == {j \in DOMAIN data : \A k \in 1 .. j : known(k)}
  <2>1. DOMAIN data = 1 .. Len(data) /\ Len(data) \in Nat
    BY LenProperties
  <2>2. \A j \in DOMAIN data : known(j)
    BY <1>2 DEF Unknown
  <2>3. upTo = 1 .. Len(data)
    BY <2>1, <2>2
  <2>4. Cardinality(upTo) = Len(data)
    <3> HIDE DEF upTo
    <3>1. Cardinality(1 .. Len(data)) = IF 1 > Len(data) THEN 0 ELSE Len(data) - 1 + 1
      BY <2>1, FS_Interval
    <3> QED
      BY <2>1, <2>3, <3>1
  <2>5. Called(i, closures) = SubSeq(data, 1, Len(data))
    BY <2>4 DEF Called
  <2>6. Called(i, closures) = data
    BY <2>5, SubSeqFull
  <2> QED
    BY <1>2, <2>2, <2>6 DEF CalledSet, Asked
<1> QED
  BY <1>1, <1>2

-----------------------------------------------------------------------------

\* A csv file gets a line of the latest values.
LEMMA CsvGrows ==
  ASSUME NEW data \in Seq(Names), NEW d \in Nat, NEW w, NEW o, CsvTable(data, o, w, d), o.titles = data,
         NEW c, \A n \in Asked(data) : c[n] = LatestIn(w, n, d + 1) /\ c[n] \in Int
  PROVE  CsvTable(data, CsvLine(o, data, c), w, d + 1)
<1> DEFINE cell(n) == IF n \in Grids THEN Blank ELSE c[n]
           line == [j \in DOMAIN data |-> cell(data[j])]
           new == CsvLine(o, data, c)
<1>1. DOMAIN data = 1 .. Len(data) /\ Len(data) \in Nat
  BY LenProperties
<1>2. line \in Seq(Int) /\ Len(line) = Len(data)
  <2>1. \A j \in DOMAIN data : cell(data[j]) \in Int
    BY DEF Asked, Blank
  <2>2. line \in [1 .. Len(data) -> Int]
    BY <1>1, <2>1
  <2> HIDE DEF line
  <2>3. line \in Seq(Int)
    BY <1>1, <2>2, SeqDef
  <2>4. DOMAIN line = 1 .. Len(line) /\ Len(line) \in Nat
    BY <2>3, LenProperties
  <2> QED
    BY <1>1, <2>2, <2>3, <2>4
<1>3. \A j \in DOMAIN data : data[j] \notin Grids => line[j] = LatestIn(w, data[j], d + 1)
  BY DEF Asked
<1>4. new.titles = data /\ new.lines = Append(o.lines, line)
      /\ new = [titles |-> new.titles, lines |-> new.lines]
  <2>1. new = [o EXCEPT !.lines = Append(o.lines, line)]
    BY DEF CsvLine
  <2> HIDE DEF line, new
  <2> QED
    BY <2>1 DEF CsvTable
<1> HIDE DEF line, new
<1>5. o.lines \in Seq(Seq(Int)) /\ Len(o.lines) = d
  BY DEF CsvTable
<1>6. /\ new.lines \in Seq(Seq(Int)) /\ Len(new.lines) = d + 1
      /\ \A e \in 1 .. d : new.lines[e] = o.lines[e]
      /\ new.lines[d + 1] = line
  BY <1>2, <1>4, <1>5, AppendProperties
<1>7. ASSUME NEW e \in 1 .. d + 1
      PROVE  /\ Len(new.lines[e]) = Len(data)
             /\ \A j \in DOMAIN data : data[j] \notin Grids => new.lines[e][j] = LatestIn(w, data[j], e)
  <2>1. CASE e \in 1 .. d
    BY <1>6, <2>1 DEF CsvTable
  <2>2. CASE e = d + 1
    BY <1>2, <1>3, <1>6, <2>2
  <2> QED
    BY <2>1, <2>2
<1> QED
  BY <1>4, <1>6, <1>7 DEF CsvTable, new

\* The columns of a file grow by the latest values.
LEMMA ColumnsGrow ==
  ASSUME NEW names, NEW d \in Nat, NEW w, NEW o, ColumnTable(names, o, w, d), DOMAIN o.m = names,
         NEW c, \A n \in names : c[n] = LatestIn(w, n, d + 1) /\ c[n] \in Int
  PROVE  ColumnTable(names, GrowColumns(o, names, c), w, d + 1)
<1> DEFINE new == GrowColumns(o, names, c)
<1>1. /\ new = [m |-> new.m, res |-> new.res] /\ DOMAIN new.m = names
      /\ \A n \in names : new.m[n] = Append(o.m[n], c[n])
  <2> DEFINE column(n) == IF n \in DOMAIN o.m THEN o.m[n] ELSE <<>>
             grown == [n \in names |-> Append(column(n), c[n])]
             columns == With(o.m, grown)
  <2>1. new = [o EXCEPT !.m = columns]
    BY DEF GrowColumns
  <2>2. DOMAIN columns = names /\ \A n \in names : columns[n] = Append(o.m[n], c[n])
    BY DEF With
  <2> HIDE DEF columns, new
  <2>3. new = [m |-> columns, res |-> o.res]
    BY <2>1 DEF ColumnTable
  <2> QED
    BY <2>2, <2>3
<1> HIDE DEF new
<1>2. ASSUME NEW n \in names
      PROVE  /\ new.m[n] \in Seq(Int) /\ Len(new.m[n]) = d + 1
             /\ \A e \in 1 .. d + 1 : new.m[n][e] = LatestIn(w, n, e)
  <2>1. o.m[n] \in Seq(Int) /\ Len(o.m[n]) = d /\ \A e \in 1 .. d : o.m[n][e] = LatestIn(w, n, e)
    BY DEF ColumnTable
  <2>2. new.m[n] = Append(o.m[n], c[n]) /\ c[n] \in Int /\ c[n] = LatestIn(w, n, d + 1)
    BY <1>1
  <2>3. /\ new.m[n] \in Seq(Int) /\ Len(new.m[n]) = d + 1
        /\ \A e \in 1 .. d : new.m[n][e] = o.m[n][e]
        /\ new.m[n][d + 1] = c[n]
    BY <2>1, <2>2, AppendProperties
  <2>4. \A e \in 1 .. d + 1 : e \in 1 .. d \/ e = d + 1
    OBVIOUS
  <2> QED
    BY <2>1, <2>2, <2>3, <2>4
<1> QED
  BY <1>1, <1>2 DEF ColumnTable, new

\* An observer of everything gets a column for each name it sees for the first
\* time; the columns of the names written since the first date stay the longest.
LEMMA AllColumnsGrow ==
  ASSUME NEW d \in Nat, NEW w, NEW o, CopiedTable(o, w, d),
         NEW names, w[1] \ Grids \subseteq names,
         NEW c, \A n \in names : c[n] = LatestIn(w, n, d + 1) /\ c[n] \in Int
  PROVE  LongestColumns(GrowColumns(o, names, c), w, d + 1)
<1> DEFINE new == GrowColumns(o, names, c)
           column(n) == IF n \in DOMAIN o.m THEN o.m[n] ELSE <<>>
           grown == [n \in names |-> Append(column(n), c[n])]
           columns == With(o.m, grown)
<1>1. /\ DOMAIN columns = DOMAIN o.m \union names
      /\ \A n \in names : columns[n] = Append(column(n), c[n])
      /\ \A n \in DOMAIN o.m \ names : columns[n] = o.m[n]
  BY DEF With
<1>2. new = [m |-> columns, res |-> o.res]
  <2>1. new = [o EXCEPT !.m = columns]
    BY DEF GrowColumns
  <2> HIDE DEF columns, new
  <2> QED
    BY <2>1 DEF CopiedTable
<1> HIDE DEF columns, new
<1>3. ASSUME NEW n \in names
      PROVE  /\ column(n) \in Seq(Int) /\ Len(column(n)) <= d
             /\ columns[n] \in Seq(Int) /\ Len(columns[n]) = Len(column(n)) + 1
             /\ \A e \in 1 .. Len(column(n)) : columns[n][e] = column(n)[e]
             /\ columns[n][Len(column(n)) + 1] = c[n]
  <2>1. column(n) \in Seq(Int) /\ Len(column(n)) <= d
    BY EmptySeq DEF CopiedTable
  <2>2. columns[n] = Append(column(n), c[n]) /\ c[n] \in Int
    BY <1>1, <1>3
  <2> HIDE DEF column
  <2> QED
    BY <2>1, <2>2, AppendProperties
<1>4. ASSUME NEW n \in DOMAIN columns
      PROVE  columns[n] \in Seq(Int) /\ Len(columns[n]) <= d + 1
  <2>1. CASE n \in names
    <3> HIDE DEF column
    <3>1. Len(column(n)) \in Nat
      BY <1>3, <2>1, LenProperties
    <3> QED
      BY <1>3, <2>1, <3>1
  <2>2. CASE n \notin names
    <3>1. columns[n] \in Seq(Int) /\ Len(columns[n]) <= d
      BY <1>1, <1>4, <2>2 DEF CopiedTable
    <3>2. Len(columns[n]) \in Nat
      BY <3>1, LenProperties
    <3> QED
      BY <3>1, <3>2
  <2> QED
    BY <2>1, <2>2
<1>5. ASSUME NEW n \in w[1] \ Grids
      PROVE  /\ n \in DOMAIN columns /\ Len(columns[n]) = d + 1
             /\ \A e \in 1 .. d + 1 : columns[n][e] = LatestIn(w, n, e)
  <2>1. n \in names
    OBVIOUS
  <2>2. Len(column(n)) = d
    <3>1. CASE d = 0
      BY <1>3, <2>1, <3>1, LenProperties
    <3>2. CASE d > 0
      BY <3>2 DEF CopiedTable
    <3> QED
      BY <3>1, <3>2
  <2>3. \A e \in 1 .. d : column(n)[e] = LatestIn(w, n, e)
    BY DEF CopiedTable
  <2>4. \A e \in 1 .. d + 1 : e \in 1 .. d \/ e = d + 1
    OBVIOUS
  <2> HIDE DEF column
  <2> QED
    BY <1>1, <1>3, <2>1, <2>2, <2>3, <2>4
<1>6. new.m = columns /\ new = [m |-> new.m, res |-> new.res]
  BY <1>2
<1> QED
  BY <1>4, <1>5, <1>6 DEF LongestColumns, new

\* EverythingObserver::add copies the columns into one row per date.
LEMMA CopyIsAligned ==
  ASSUME NEW d \in Nat, NEW w, NEW o, LongestColumns(o, w, d + 1)
  PROVE  CopiedTable(CopyColumns(o), w, d + 1)
<1> DEFINE new == CopyColumns(o)
           rows == {Len(o.m[n]) : n \in DOMAIN o.m}
           last == CHOOSE r \in rows : \A s \in rows : s <= r
           row(r) == [n \in {c \in DOMAIN o.m : Len(o.m[c]) >= r} |-> o.m[n][r]]
           res == [r \in 1 .. last |-> row(r)]
<1>1. new = [m |-> o.m, res |-> res]
  <2>1. new = [o EXCEPT !.res = res]
    BY DEF CopyColumns
  <2> HIDE DEF new, res
  <2> QED
    BY <2>1 DEF LongestColumns
<1>2. ASSUME w[1] \ Grids # {}
      PROVE  /\ DOMAIN res = 1 .. d + 1 /\ Len(res) = d + 1
             /\ \A e \in 1 .. d + 1 : \A n \in w[1] \ Grids :
                  n \in DOMAIN res[e] /\ res[e][n] = LatestIn(w, n, e)
  <2>1. d + 1 \in rows /\ \A s \in rows : s \in Int /\ s <= d + 1
    BY <1>2, LenProperties DEF LongestColumns
  <2>2. last = d + 1
    <3> HIDE DEF rows
    <3>1. last \in rows /\ \A s \in rows : s <= last
      BY <2>1
    <3> HIDE DEF last
    <3> QED
      BY <2>1, <3>1
  <2>3. res = [r \in 1 .. d + 1 |-> row(r)]
    <3> HIDE DEF last
    <3> QED
      BY <2>2
  <2>4. DOMAIN res = 1 .. d + 1 /\ \A e \in 1 .. d + 1 : res[e] = row(e)
    <3> HIDE DEF row, res
    <3> QED
      BY <2>3
  <2>5. Len(res) = d + 1
    <3>0. res = [e \in 1 .. d + 1 |-> res[e]] /\ d + 1 \in Nat
      BY <2>3, <2>4
    <3> HIDE DEF res
    <3>1. res \in [1 .. d + 1 -> {res[e] : e \in 1 .. d + 1}]
      BY <3>0
    <3>2. res \in Seq({res[e] : e \in 1 .. d + 1})
      BY <3>1, SeqDef
    <3>3. DOMAIN res = 1 .. Len(res) /\ Len(res) \in Nat
      BY <3>2, LenProperties
    <3> QED
      BY <2>4, <3>3
  <2>6. ASSUME NEW e \in 1 .. d + 1, NEW n \in w[1] \ Grids
        PROVE  n \in DOMAIN row(e) /\ row(e)[n] = LatestIn(w, n, e)
    BY DEF LongestColumns
  <2> HIDE DEF res, row
  <2> QED
    BY <2>4, <2>5, <2>6
<1>3. new.m = o.m /\ new.res = res
  BY <1>1
<1> HIDE DEF res, new
<1> QED
  BY <1>1, <1>2, <1>3 DEF CopiedTable, LongestColumns, new

-----------------------------------------------------------------------------

Comma == ","
LeftBrace == "{"
RightBrace == "}"

Waves == "'waves'"

(* Double-quoted sections separated by single commas. *)
Sections(q) ==
  /\ q \in Seq(Marks) /\ Len(q) % 2 = 1
  /\ \A k \in 1 .. Len(q) : (q[k] = Comma) <=> (k % 2 = 0)
  /\ \A k \in 1 .. Len(q) : q[k] \notin {LeftBrace, RightBrace, Waves}

(* A text of one mark. *)
IsMark(t, x) == t \in Seq(Marks) /\ Len(t) = 1 /\ t[1] = x

\* Every mark is such a text.
LEMMA OneMark ==
  ASSUME NEW x \in Marks
  PROVE  IsMark(<<x>>, x)
BY DEF IsMark

\* A mark may follow a text.
LEMMA MarkAfter ==
  ASSUME NEW q \in Seq(Marks), NEW t, NEW x, IsMark(t, x)
  PROVE  /\ q \o t \in Seq(Marks) /\ Len(q \o t) = Len(q) + 1
         /\ \A k \in 1 .. Len(q) : (q \o t)[k] = q[k]
         /\ (q \o t)[Len(q) + 1] = x
<1>1. t \in Seq(Marks) /\ Len(t) = 1 /\ t[1] = x /\ Len(q) \in Nat
  BY LenProperties DEF IsMark
<1>2. /\ q \o t \in Seq(Marks)
      /\ Len(q \o t) = Len(q) + Len(t)
      /\ \A i \in 1 .. Len(q) + Len(t) :
           (q \o t)[i] = IF i <= Len(q) THEN q[i] ELSE t[i - Len(q)]
  BY <1>1, ConcatProperties
<1> QED
  BY <1>1, <1>2

\* A mark may precede a text.
LEMMA MarkBefore ==
  ASSUME NEW q \in Seq(Marks), NEW t, NEW x, IsMark(t, x)
  PROVE  /\ t \o q \in Seq(Marks) /\ Len(t \o q) = Len(q) + 1
         /\ \A k \in 1 .. Len(q) : (t \o q)[k + 1] = q[k]
         /\ (t \o q)[1] = x
<1>1. t \in Seq(Marks) /\ Len(t) = 1 /\ t[1] = x /\ Len(q) \in Nat
  BY LenProperties DEF IsMark
<1>2. /\ t \o q \in Seq(Marks)
      /\ Len(t \o q) = Len(t) + Len(q)
      /\ \A i \in 1 .. Len(t) + Len(q) :
           (t \o q)[i] = IF i <= Len(t) THEN t[i] ELSE q[i - Len(t)]
  BY <1>1, ConcatProperties
<1> QED
  BY <1>1, <1>2

\* Two texts make one.
LEMMA Joined ==
  ASSUME NEW a \in Seq(Marks), NEW b \in Seq(Marks)
  PROVE  a \o b \in Seq(Marks) /\ Len(a) \in Nat /\ Len(a \o b) = Len(a) + Len(b)
BY ConcatProperties, LenProperties

\* They are joined in any order.
LEMMA Regrouped ==
  ASSUME NEW a \in Seq(Marks), NEW b \in Seq(Marks), NEW c \in Seq(Marks)
  PROVE  (a \o b) \o c = a \o (b \o c)
BY ConcatAssociative

\* A section may follow, after a comma.
LEMMA OneMoreSection ==
  ASSUME NEW q, Sections(q), NEW comma, IsMark(comma, Comma),
         NEW t, NEW name, name \notin {Comma, LeftBrace, RightBrace, Waves}, IsMark(t, name)
  PROVE  Sections((q \o comma) \o t)
<1> DEFINE p == q \o comma
           r == p \o t
<1>1. q \in Seq(Marks) /\ Len(q) \in Nat /\ Len(q) % 2 = 1
  BY LenProperties DEF Sections
<1>2. /\ p \in Seq(Marks) /\ Len(p) = Len(q) + 1
      /\ \A k \in 1 .. Len(q) : p[k] = q[k]
      /\ p[Len(q) + 1] = Comma
  BY <1>1, MarkAfter
<1> HIDE DEF p
<1>3. /\ r \in Seq(Marks) /\ Len(r) = Len(p) + 1
      /\ \A k \in 1 .. Len(p) : r[k] = p[k]
      /\ r[Len(p) + 1] = name
  BY <1>2, MarkAfter
<1> HIDE DEF r
<1>4. Len(r) = Len(q) + 2 /\ Len(r) % 2 = 1
  BY <1>1, <1>2, <1>3
<1>5. ASSUME NEW k \in 1 .. Len(r)
      PROVE  ((r[k] = Comma) <=> (k % 2 = 0)) /\ r[k] \notin {LeftBrace, RightBrace, Waves}
  <2>1. CASE k \in 1 .. Len(q)
    BY <1>1, <1>2, <1>3, <1>4, <2>1 DEF Sections
  <2>2. CASE k = Len(q) + 1
    <3>1. r[k] = Comma /\ k % 2 = 0
      BY <1>1, <1>2, <1>3, <1>4, <2>2
    <3>2. Comma \notin {LeftBrace, RightBrace, Waves}
      BY DEF Comma, LeftBrace, RightBrace, Waves
    <3> QED
      BY <3>1, <3>2
  <2>3. CASE k = Len(q) + 2
    <3>1. r[k] = name /\ k % 2 = 1
      BY <1>1, <1>2, <1>3, <1>4, <2>3
    <3> QED
      BY <3>1
  <2> QED
    BY <1>1, <1>4, <2>1, <2>2, <2>3
<1> QED
  BY <1>3, <1>4, <1>5 DEF Sections, r, p

\* Between braces they are a dictionary.
LEMMA SectionsInBraces ==
  ASSUME NEW q, Sections(q), NEW open, IsMark(open, LeftBrace), NEW close, IsMark(close, RightBrace)
  PROVE  /\ (open \o q) \o close \in Seq(Marks)
         /\ WellFormed((open \o q) \o close)
<1> DEFINE p == open \o q
           text == p \o close
           inner == SubSeq(text, 2, Len(text) - 1)
<1>1. q \in Seq(Marks) /\ Len(q) \in Nat /\ Len(q) % 2 = 1
  BY LenProperties DEF Sections
<1>2. /\ p \in Seq(Marks) /\ Len(p) = Len(q) + 1 /\ p[1] = LeftBrace
      /\ \A k \in 1 .. Len(q) : p[k + 1] = q[k]
  BY <1>1, MarkBefore
<1> HIDE DEF p
<1>3. /\ text \in Seq(Marks) /\ Len(text) = Len(p) + 1 /\ text[Len(p) + 1] = RightBrace
      /\ \A k \in 1 .. Len(p) : text[k] = p[k]
  BY <1>2, MarkAfter
<1> HIDE DEF text
<1>4. Len(text) = Len(q) + 2
  BY <1>1, <1>2, <1>3
<1>5. \A k \in 1 .. Len(q) : text[k + 1] = q[k] /\ q[k] \in Marks
  BY <1>1, <1>2, <1>3, ElementOfSeq
<1>6. /\ Len(inner) = Len(q) /\ DOMAIN inner = 1 .. Len(q)
      /\ \A k \in 1 .. Len(q) : inner[k] = q[k]
  <2>1. \A i \in 2 .. Len(q) + 1 : i - 1 \in 1 .. Len(q) /\ (i - 1) + 1 = i
    BY <1>1
  <2>2. \A i \in 2 .. Len(q) + 1 : text[i] \in Marks
    BY <1>5, <2>1
  <2>3. inner = SubSeq(text, 2, Len(q) + 1)
    BY <1>1, <1>4
  <2> HIDE DEF inner
  <2>4. /\ inner \in Seq(Marks)
        /\ Len(inner) = IF 2 <= Len(q) + 1 THEN Len(q) + 1 - 2 + 1 ELSE 0
        /\ \A i \in 1 .. Len(q) + 1 - 2 + 1 : inner[i] = text[2 + i - 1]
    BY <1>1, <2>2, <2>3, SubSeqProperties
  <2>5. Len(inner) = Len(q) /\ \A i \in 1 .. Len(q) : inner[i] = text[i + 1]
    BY <1>1, <2>4
  <2>6. DOMAIN inner = 1 .. Len(inner)
    BY <2>4, LenProperties
  <2> QED
    BY <1>5, <2>5, <2>6
<1> HIDE DEF inner
<1>7. Len(text) > 1 /\ text[1] = LeftBrace /\ text[Len(text)] = RightBrace
  BY <1>1, <1>2, <1>3, <1>4
<1>8. /\ inner # <<>> => Len(inner) % 2 = 1
      /\ \A k \in DOMAIN inner : (inner[k] = Comma) <=> (k % 2 = 0)
      /\ \A k \in DOMAIN inner : inner[k] \notin {LeftBrace, RightBrace, Waves}
  BY <1>1, <1>6 DEF Sections
<1>9. WellFormed(text)
  BY <1>7, <1>8, Zenon DEF WellFormed, inner, Comma, LeftBrace, RightBrace, Waves
<1> QED
  BY <1>3, <1>9 DEF text, p

\* The same, in the order DictObserver writes them.
LEMMA SectionAdded ==
  ASSUME NEW q, Sections(q), NEW comma, IsMark(comma, Comma),
         NEW t, NEW name, name \notin {Comma, LeftBrace, RightBrace, Waves}, IsMark(t, name)
  PROVE  /\ comma \o t \in Seq(Marks)
         /\ Sections(q \o (comma \o t))
<1>1. q \in Seq(Marks) /\ comma \in Seq(Marks) /\ t \in Seq(Marks)
  BY DEF Sections, IsMark
<1>2. comma \o t \in Seq(Marks) /\ (q \o comma) \o t = q \o (comma \o t)
  BY <1>1, Joined, Regrouped
<1>3. Sections((q \o comma) \o t)
  BY OneMoreSection
<1> QED
  BY <1>2, <1>3

(* DictObserver::flush_after_write, section by section. *)
Has(o, kind) == DOMAIN o.dict \intersect kind # {}
CommaIf(b) == IF b THEN <<",">> ELSE <<>>
ScalarsOf(o) == IF Has(o, Scalars) THEN <<"scalars">> ELSE <<>>
EffortsOf(o) == IF Has(o, Wrenches) THEN CommaIf(Has(o, States)) \o <<"wrenches">> ELSE <<>>
BodiesOf(o) ==
  IF Has(o, States) \/ Has(o, Wrenches)
    THEN (CommaIf(o.comma \/ Has(o, Scalars)) \o <<"states">>) \o EffortsOf(o) ELSE <<>>
WavesOf(o) ==
  IF Has(o, Grids)
    THEN CommaIf(o.comma \/ Has(o, Scalars) \/ Has(o, States) \/ Has(o, Wrenches))
           \o <<"'waves'">>
    ELSE <<>>

\* Each mark is a text, and so is each section.
LEMMA MarksAreTexts ==
  /\ IsMark(<<"{">>, LeftBrace) /\ IsMark(<<"}">>, RightBrace) /\ IsMark(<<",">>, Comma)
  /\ IsMark(<<"scalars">>, "scalars") /\ IsMark(<<"states">>, "states")
  /\ IsMark(<<"wrenches">>, "wrenches") /\ IsMark(<<"'waves'">>, Waves)
  /\ \A name \in {"scalars", "states", "wrenches"} :
       name \notin {Comma, LeftBrace, RightBrace, Waves}
<1>1. /\ LeftBrace \in Marks /\ RightBrace \in Marks /\ Comma \in Marks
      /\ "scalars" \in Marks /\ "states" \in Marks /\ "wrenches" \in Marks
      /\ Waves \in Marks
  BY DEF Marks, LeftBrace, RightBrace, Comma, Waves
<1>2. \A name \in {"scalars", "states", "wrenches"} :
        name \notin {Comma, LeftBrace, RightBrace, Waves}
  BY DEF Comma, LeftBrace, RightBrace, Waves
<1> QED
  BY <1>1, <1>2, OneMark, Zenon DEF LeftBrace, RightBrace, Comma, Waves

\* The sections of any dictionary are sequences of marks.
LEMMA SectionsAreTexts ==
  ASSUME NEW o
  PROVE  /\ \A b : CommaIf(b) \in Seq(Marks)
         /\ ScalarsOf(o) \in Seq(Marks) /\ EffortsOf(o) \in Seq(Marks)
         /\ BodiesOf(o) \in Seq(Marks) /\ WavesOf(o) \in Seq(Marks)
<1> DEFINE one == <<"scalars">>
           two == <<"states">>
           three == <<"wrenches">>
           four == <<"'waves'">>
<1>1. /\ <<",">> \in Seq(Marks) /\ one \in Seq(Marks) /\ two \in Seq(Marks)
      /\ three \in Seq(Marks) /\ four \in Seq(Marks) /\ <<>> \in Seq(Marks)
  BY MarksAreTexts, EmptySeq DEF IsMark
<1>2. \A b : CommaIf(b) \in Seq(Marks)
  BY <1>1 DEF CommaIf
<1>3. ScalarsOf(o) \in Seq(Marks)
  BY <1>1 DEF ScalarsOf
<1>4. EffortsOf(o) = IF Has(o, Wrenches) THEN CommaIf(Has(o, States)) \o three ELSE <<>>
  BY DEF EffortsOf
<1>5. BodiesOf(o) = IF Has(o, States) \/ Has(o, Wrenches)
                      THEN (CommaIf(o.comma \/ Has(o, Scalars)) \o two) \o EffortsOf(o)
                      ELSE <<>>
  BY DEF BodiesOf
<1>6. WavesOf(o) =
        IF Has(o, Grids)
          THEN CommaIf(o.comma \/ Has(o, Scalars) \/ Has(o, States) \/ Has(o, Wrenches)) \o four
          ELSE <<>>
  BY DEF WavesOf
<1> HIDE DEF one, two, three, four
<1>7. EffortsOf(o) \in Seq(Marks)
  <2>1. CommaIf(Has(o, States)) \o three \in Seq(Marks)
    BY <1>1, <1>2, Joined
  <2> QED
    BY <1>1, <1>4, <2>1
<1>8. BodiesOf(o) \in Seq(Marks)
  <2> DEFINE comma == CommaIf(o.comma \/ Has(o, Scalars))
             start == comma \o two
  <2>1. comma \in Seq(Marks)
    BY <1>2
  <2> HIDE DEF comma
  <2>2. start \in Seq(Marks)
    BY <1>1, <2>1, Joined
  <2> HIDE DEF start
  <2>3. start \o EffortsOf(o) \in Seq(Marks)
    BY <1>7, <2>2, Joined
  <2> QED
    BY <1>1, <1>5, <2>3 DEF start, comma
<1>9. WavesOf(o) \in Seq(Marks)
  <2> DEFINE comma ==
        CommaIf(o.comma \/ Has(o, Scalars) \/ Has(o, States) \/ Has(o, Wrenches))
  <2>1. comma \in Seq(Marks)
    BY <1>2
  <2> HIDE DEF comma
  <2>2. comma \o four \in Seq(Marks)
    BY <1>1, <2>1, Joined
  <2> QED
    BY <1>1, <1>6, <2>2 DEF comma
<1> QED
  BY <1>2, <1>3, <1>7, <1>8, <1>9

\* A dictionary is its sections between braces, a sequence of marks.
LEMMA DictIsText ==
  ASSUME NEW o
  PROVE  /\ DictText(o) =
              (((<<"{">> \o ScalarsOf(o)) \o BodiesOf(o)) \o WavesOf(o)) \o <<"}">>
         /\ DictText(o) \in Seq(Marks)
<1> DEFINE open == <<"{">>
           close == <<"}">>
<1>1. DictText(o) = (((open \o ScalarsOf(o)) \o BodiesOf(o)) \o WavesOf(o)) \o close
  BY Zenon DEF DictText, ScalarsOf, BodiesOf, WavesOf, EffortsOf, CommaIf, Has
<1>2. open \in Seq(Marks) /\ close \in Seq(Marks)
  BY MarksAreTexts DEF IsMark
<1> HIDE DEF open, close
<1>3. open \o ScalarsOf(o) \in Seq(Marks)
  BY <1>2, SectionsAreTexts, ConcatProperties
<1>4. (open \o ScalarsOf(o)) \o BodiesOf(o) \in Seq(Marks)
  BY <1>3, SectionsAreTexts, ConcatProperties
<1>5. ((open \o ScalarsOf(o)) \o BodiesOf(o)) \o WavesOf(o) \in Seq(Marks)
  BY <1>4, SectionsAreTexts, ConcatProperties
<1>6. (((open \o ScalarsOf(o)) \o BodiesOf(o)) \o WavesOf(o)) \o close \in Seq(Marks)
  BY <1>2, <1>5, ConcatProperties
<1> QED
  BY <1>1, <1>6 DEF open, close

-----------------------------------------------------------------------------

\* In a text that is well formed the commas are at every second place, and
\* nothing is between single quotes.
LEMMA WellFormedMarks ==
  ASSUME NEW text \in Seq(Marks), WellFormed(text), NEW k \in 2 .. Len(text) - 1
  PROVE  text[k] # Waves /\ ((text[k] = Comma) <=> (k % 2 = 1))
<1> DEFINE inner == SubSeq(text, 2, Len(text) - 1)
<1>1. Len(text) \in Nat /\ k - 1 \in 1 .. Len(text) - 2 /\ 2 <= Len(text) - 1
  BY LenProperties
<1>2. \A i \in 2 .. Len(text) - 1 : text[i] \in Marks
  BY <1>1, ElementOfSeq
<1>3. /\ inner \in Seq(Marks) /\ Len(inner) = Len(text) - 2
      /\ \A i \in 1 .. Len(text) - 2 : inner[i] = text[2 + i - 1]
  BY <1>1, <1>2, SubSeqProperties
<1>4. \A i \in DOMAIN inner : (inner[i] = Comma <=> i % 2 = 0) /\ inner[i] # Waves
  BY Zenon DEF WellFormed, Comma, Waves
<1> HIDE DEF inner
<1>5. k - 1 \in DOMAIN inner /\ inner[k - 1] = text[k]
  BY <1>1, <1>3, LenProperties
<1>6. ((k - 1) % 2 = 0) <=> (k % 2 = 1)
  OBVIOUS
<1> QED
  BY <1>4, <1>5, <1>6

\* A text that starts with a mark is not empty.
LEMMA NotEmptyWith ==
  ASSUME NEW a \in Seq(Marks), NEW b \in Seq(Marks), Len(a) >= 1 \/ Len(b) >= 1
  PROVE  a \o b \in Seq(Marks) /\ Len(a \o b) >= 1
<1>1. Len(a) \in Nat /\ Len(b) \in Nat
  BY LenProperties
<1> QED
  BY <1>1, Joined

\* Where a mark between two texts is.
LEMMA MarkAt ==
  ASSUME NEW a \in Seq(Marks), NEW b \in Seq(Marks), NEW t, NEW x, IsMark(t, x)
  PROVE  /\ (a \o t) \o b \in Seq(Marks)
         /\ Len((a \o t) \o b) = Len(a) + 1 + Len(b)
         /\ ((a \o t) \o b)[Len(a) + 1] = x
<1> DEFINE p == a \o t
<1>1. p \in Seq(Marks) /\ Len(p) = Len(a) + 1 /\ p[Len(a) + 1] = x
  BY MarkAfter
<1>2. Len(a) \in Nat /\ Len(b) \in Nat
  BY LenProperties
<1> HIDE DEF p
<1>3. /\ p \o b \in Seq(Marks) /\ Len(p \o b) = Len(p) + Len(b)
      /\ \A i \in 1 .. Len(p) + Len(b) :
           (p \o b)[i] = IF i <= Len(p) THEN p[i] ELSE b[i - Len(p)]
  BY <1>1, ConcatProperties
<1>4. Len(a) + 1 \in 1 .. Len(p) + Len(b) /\ Len(a) + 1 <= Len(p)
  BY <1>1, <1>2
<1>5. (p \o b)[Len(a) + 1] = x
  BY <1>1, <1>3, <1>4
<1> QED
  BY <1>1, <1>3, <1>5 DEF p

\* The heights of a grid are between single quotes.
LEMMA GridsUnreadable ==
  ASSUME NEW o, Has(o, Grids)
  PROVE  ~ WellFormed(DictText(o))
<1> DEFINE open == <<"{">>
           close == <<"}">>
           quoted == <<"'waves'">>
           front == (open \o ScalarsOf(o)) \o BodiesOf(o)
           comma == CommaIf(o.comma \/ Has(o, Scalars) \/ Has(o, States) \/ Has(o, Wrenches))
           before == front \o comma
<1>1. DictText(o) = (front \o (comma \o quoted)) \o close
  BY DictIsText, Zenon DEF WavesOf
<1>2. /\ IsMark(open, LeftBrace) /\ IsMark(close, RightBrace) /\ IsMark(quoted, Waves)
      /\ open \in Seq(Marks) /\ close \in Seq(Marks) /\ quoted \in Seq(Marks)
      /\ Len(open) = 1 /\ Len(close) = 1
  BY MarksAreTexts DEF IsMark
<1>3. comma \in Seq(Marks)
  BY SectionsAreTexts
<1> HIDE DEF open, close, quoted, comma
<1>4. front \in Seq(Marks) /\ Len(front) >= 1
  <2> DEFINE begun == open \o ScalarsOf(o)
  <2>1. begun \in Seq(Marks) /\ Len(begun) >= 1
    <3>1. Len(open) >= 1 /\ ScalarsOf(o) \in Seq(Marks)
      BY <1>2, SectionsAreTexts
    <3> QED
      BY <1>2, <3>1, NotEmptyWith
  <2>2. front = begun \o BodiesOf(o)
    OBVIOUS
  <2> HIDE DEF begun, front
  <2> QED
    BY <2>1, <2>2, SectionsAreTexts, NotEmptyWith
<1> HIDE DEF front
<1>5. before \in Seq(Marks) /\ Len(before) >= 1
  BY <1>3, <1>4, NotEmptyWith
<1>6. DictText(o) = (before \o quoted) \o close
  <2>1. before \o quoted = front \o (comma \o quoted)
    BY <1>2, <1>3, <1>4, Regrouped
  <2> QED
    BY <1>1, <2>1
<1> HIDE DEF before
<1>7. /\ Len(DictText(o)) = Len(before) + 1 + 1
      /\ DictText(o)[Len(before) + 1] = Waves /\ DictText(o) \in Seq(Marks)
  <2>1. close \in Seq(Marks) /\ Len(close) = 1 /\ IsMark(quoted, Waves)
    BY <1>2
  <2> QED
    BY <1>5, <1>6, <2>1, MarkAt
<1>8. Len(before) + 1 \in 2 .. Len(DictText(o)) - 1
  BY <1>5, <1>7, LenProperties
<1> QED
  BY <1>7, <1>8, WellFormedMarks

\* A comma left by an earlier row, and no scalar to write before it.
LEMMA CommaUnreadable ==
  ASSUME NEW o, o.comma, ~ Has(o, Scalars), Has(o, States) \/ Has(o, Wrenches)
  PROVE  ~ WellFormed(DictText(o))
<1> DEFINE open == <<"{">>
           close == <<"}">>
           states == <<"states">>
           comma == <<",">>
           bodies == (comma \o states) \o EffortsOf(o)
           rest == states \o EffortsOf(o)
           end == WavesOf(o) \o close
           last == rest \o end
<1>1. DictText(o) = (((open \o <<>>) \o bodies) \o WavesOf(o)) \o close
  <2>1. ScalarsOf(o) = <<>> /\ BodiesOf(o) = bodies
    BY Zenon DEF ScalarsOf, BodiesOf, CommaIf
  <2> HIDE DEF bodies
  <2> QED
    BY <2>1, DictIsText, Zenon
<1>2. /\ IsMark(open, LeftBrace) /\ IsMark(states, "states") /\ IsMark(comma, Comma)
      /\ open \in Seq(Marks) /\ close \in Seq(Marks) /\ states \in Seq(Marks)
      /\ comma \in Seq(Marks) /\ Len(open) = 1 /\ Len(states) = 1
  BY MarksAreTexts DEF IsMark
<1>3. EffortsOf(o) \in Seq(Marks) /\ WavesOf(o) \in Seq(Marks)
  BY SectionsAreTexts
<1> HIDE DEF open, close, states, comma
<1>4. rest \in Seq(Marks) /\ Len(rest) >= 1
  <2>1. states \in Seq(Marks) /\ Len(states) >= 1
    BY <1>2
  <2> QED
    BY <1>3, <2>1, NotEmptyWith
<1>5. end \in Seq(Marks)
  BY <1>2, <1>3, Joined
<1>6. bodies = comma \o rest /\ open \o <<>> = open
  <2>1. bodies = comma \o rest
    BY <1>2, <1>3, Regrouped
  <2>2. open \o <<>> = open
    BY <1>2, ConcatEmptySeq
  <2> QED
    BY <2>1, <2>2
<1> HIDE DEF rest, bodies
<1>7. open \o bodies = (open \o comma) \o rest /\ open \o comma \in Seq(Marks)
  <2>1. open \in Seq(Marks) /\ comma \in Seq(Marks) /\ rest \in Seq(Marks)
    BY <1>2, <1>4
  <2>2. open \o comma \in Seq(Marks)
    BY <2>1, Joined, Zenon
  <2>3. (open \o comma) \o rest = open \o (comma \o rest)
    BY <2>1, Regrouped, Zenon
  <2> QED
    BY <1>6, <2>2, <2>3
<1>8. /\ open \o bodies \in Seq(Marks)
      /\ (((open \o comma) \o rest) \o WavesOf(o)) \o close = ((open \o comma) \o rest) \o end
  <2> DEFINE x == (open \o comma) \o rest
  <2>1. x \in Seq(Marks)
    BY <1>4, <1>7, Joined
  <2>2. open \o bodies = x
    BY <1>7
  <2> HIDE DEF x, end
  <2>3. (x \o WavesOf(o)) \o close = x \o (WavesOf(o) \o close)
    BY <1>2, <1>3, <2>1, Regrouped
  <2> QED
    BY <2>1, <2>2, <2>3 DEF x, end
<1> HIDE DEF end
<1>9. last \in Seq(Marks) /\ Len(last) >= 1
  BY <1>4, <1>5, NotEmptyWith
<1>10. ((open \o comma) \o rest) \o end = (open \o comma) \o last
  <2> DEFINE x == open \o comma
  <2>1. x \in Seq(Marks)
    BY <1>7
  <2> HIDE DEF x
  <2>2. (x \o rest) \o end = x \o (rest \o end)
    BY <1>4, <1>5, <2>1, Regrouped
  <2> QED
    BY <2>2 DEF x
<1>11. DictText(o) = (open \o comma) \o last
  BY <1>1, <1>6, <1>7, <1>8, <1>10
<1> HIDE DEF last
<1>12. /\ DictText(o) \in Seq(Marks) /\ Len(DictText(o)) = 1 + 1 + Len(last)
       /\ DictText(o)[1 + 1] = Comma
  <2> DEFINE text == (open \o comma) \o last
  <2>1. open \in Seq(Marks) /\ Len(open) = 1 /\ IsMark(comma, Comma)
    BY <1>2
  <2>2. /\ text \in Seq(Marks) /\ Len(text) = Len(open) + 1 + Len(last)
        /\ text[Len(open) + 1] = Comma
    BY <1>9, <2>1, MarkAt
  <2> HIDE DEF text
  <2>3. DictText(o) = text
    BY <1>11 DEF text
  <2> QED
    BY <2>1, <2>2, <2>3
<1>13. 2 \in 2 .. Len(DictText(o)) - 1 /\ DictText(o)[2] = Comma /\ 2 % 2 = 0
  BY <1>9, <1>12, LenProperties
<1> QED
  BY <1>12, <1>13, WellFormedMarks

\* Wrenches without states: there is no comma between the two sections.
LEMMA WrenchesUnreadable ==
  ASSUME NEW o, Has(o, Wrenches), ~ Has(o, States)
  PROVE  ~ WellFormed(DictText(o))
<1> DEFINE open == <<"{">>
           close == <<"}">>
           states == <<"states">>
           wrenches == <<"wrenches">>
           comma == CommaIf(o.comma \/ Has(o, Scalars))
           begun == open \o ScalarsOf(o)
           front == begun \o comma
           end == WavesOf(o) \o close
           one == front \o states
<1>1. DictText(o) =
        ((begun \o ((comma \o states) \o (<<>> \o wrenches))) \o WavesOf(o)) \o close
  <2>1. BodiesOf(o) = (comma \o states) \o (<<>> \o wrenches)
    BY Zenon DEF BodiesOf, EffortsOf, CommaIf
  <2> QED
    BY <2>1, DictIsText, Zenon
<1>2. /\ IsMark(states, "states") /\ IsMark(wrenches, "wrenches")
      /\ open \in Seq(Marks) /\ close \in Seq(Marks) /\ states \in Seq(Marks)
      /\ wrenches \in Seq(Marks) /\ Len(open) = 1 /\ Len(close) = 1
  BY MarksAreTexts DEF IsMark
<1>3. comma \in Seq(Marks) /\ WavesOf(o) \in Seq(Marks) /\ ScalarsOf(o) \in Seq(Marks)
  BY SectionsAreTexts
<1>4. "states" # Comma /\ "wrenches" # Comma
  BY DEF Comma
<1> HIDE DEF open, close, states, wrenches, comma
<1>5. begun \in Seq(Marks) /\ Len(begun) >= 1
  <2>1. Len(open) >= 1 /\ open \in Seq(Marks)
    BY <1>2
  <2> QED
    BY <1>3, <2>1, NotEmptyWith
<1> HIDE DEF begun
<1>6. front \in Seq(Marks) /\ Len(front) >= 1
  BY <1>3, <1>5, NotEmptyWith
<1>7. end \in Seq(Marks) /\ Len(end) >= 1
  <2>1. Len(close) >= 1 /\ close \in Seq(Marks)
    BY <1>2
  <2> QED
    BY <1>3, <2>1, NotEmptyWith
<1>8. one \in Seq(Marks) /\ Len(one) = Len(front) + 1
  BY <1>2, <1>6, MarkAfter
<1>9. begun \o ((comma \o states) \o (<<>> \o wrenches)) = one \o wrenches
  <2>1. <<>> \o wrenches = wrenches /\ comma \o states \in Seq(Marks)
    BY <1>2, <1>3, ConcatEmptySeq, Joined
  <2>2. /\ begun \in Seq(Marks) /\ comma \in Seq(Marks)
        /\ states \in Seq(Marks) /\ wrenches \in Seq(Marks)
    BY <1>2, <1>3, <1>5
  <2>3. begun \o ((comma \o states) \o wrenches) = (begun \o (comma \o states)) \o wrenches
    BY <2>1, <2>2, Regrouped, Zenon
  <2>4. begun \o (comma \o states) = (begun \o comma) \o states
    BY <2>2, Regrouped, Zenon
  <2> QED
    BY <2>1, <2>3, <2>4
<1> HIDE DEF front, one
<1>10. one \o wrenches \in Seq(Marks)
  BY <1>2, <1>8, Joined
<1>11. ((one \o wrenches) \o WavesOf(o)) \o close = (one \o wrenches) \o end
  <2> DEFINE x == one \o wrenches
  <2>1. x \in Seq(Marks)
    BY <1>10
  <2> HIDE DEF x
  <2>2. (x \o WavesOf(o)) \o close = x \o (WavesOf(o) \o close)
    BY <1>2, <1>3, <2>1, Regrouped
  <2> QED
    BY <2>2 DEF x
<1>12. DictText(o) = (one \o wrenches) \o end
  BY <1>1, <1>9, <1>11
<1> HIDE DEF end
<1>13. /\ DictText(o) \in Seq(Marks) /\ Len(DictText(o)) = Len(one) + 1 + Len(end)
       /\ DictText(o)[Len(one) + 1] = "wrenches"
  <2> DEFINE text == (one \o wrenches) \o end
             name == "wrenches"
  <2>1. IsMark(wrenches, name) /\ one \in Seq(Marks) /\ end \in Seq(Marks)
    BY <1>2, <1>7, <1>8
  <2>2. /\ text \in Seq(Marks) /\ Len(text) = Len(one) + 1 + Len(end)
        /\ text[Len(one) + 1] = name
    <3> HIDE DEF name
    <3> QED
      BY <2>1, MarkAt
  <2> HIDE DEF text
  <2>3. DictText(o) = text
    BY <1>12 DEF text
  <2> QED
    BY <2>2, <2>3
<1>14. DictText(o)[Len(one)] = "states"
  <2> DEFINE rest == wrenches \o end
  <2>1. rest \in Seq(Marks)
    BY <1>2, <1>7, Joined
  <2>2. DictText(o) = one \o rest
    <3>1. (one \o wrenches) \o end = one \o (wrenches \o end)
      BY <1>2, <1>7, <1>8, Regrouped
    <3> QED
      BY <1>12, <3>1
  <2> HIDE DEF rest
  <2>3. one = front \o states
    BY DEF one
  <2>4. ((front \o states) \o rest)[Len(front) + 1] = "states"
    <3>1. IsMark(states, "states")
      BY <1>2
    <3> QED
      BY <1>6, <2>1, <3>1, MarkAt
  <2> QED
    BY <1>8, <2>2, <2>3, <2>4
<1>15. ASSUME WellFormed(DictText(o))
       PROVE  FALSE
  <2> DEFINE k == Len(one)
  <2>1. k \in Nat /\ k >= 2 /\ k \in 2 .. Len(DictText(o)) - 1 /\ k + 1 \in 2 .. Len(DictText(o)) - 1
    BY <1>6, <1>7, <1>8, <1>13, LenProperties
  <2>2. DictText(o)[k] # Comma /\ DictText(o)[k + 1] # Comma
    BY <1>4, <1>13, <1>14
  <2> HIDE DEF k
  <2>3. k % 2 # 1 /\ (k + 1) % 2 # 1
    BY <1>13, <1>15, <2>1, <2>2, WellFormedMarks
  <2> QED
    BY <2>1, <2>3
<1> QED
  BY <1>15

-----------------------------------------------------------------------------

\* The sections of a dictionary that has a scalar, or whose first comma was
\* not set before, are separated by single commas.
LEMMA SectionsOfDict ==
  ASSUME NEW o, Has(o, Wrenches) => Has(o, States),
         \/ Has(o, Scalars)
         \/ Has(o, States) /\ ~ o.comma
  PROVE  Sections(ScalarsOf(o) \o BodiesOf(o))
<1> DEFINE scalars == <<"scalars">>
           states == <<"states">>
           wrenches == <<"wrenches">>
           comma == <<",">>
           efforts == IF Has(o, Wrenches) THEN comma \o wrenches ELSE <<>>
<1>1. /\ IsMark(scalars, "scalars") /\ IsMark(states, "states")
      /\ IsMark(wrenches, "wrenches") /\ IsMark(comma, Comma)
      /\ scalars \in Seq(Marks) /\ states \in Seq(Marks) /\ wrenches \in Seq(Marks)
      /\ comma \in Seq(Marks) /\ <<>> \in Seq(Marks)
  BY MarksAreTexts, EmptySeq DEF IsMark
<1>2. Sections(scalars) /\ Sections(states)
  <2>1. ASSUME NEW q, NEW name, IsMark(q, name),
               name \notin {Comma, LeftBrace, RightBrace, Waves}
        PROVE  Sections(q)
    BY <2>1 DEF Sections, IsMark
  <2> HIDE DEF scalars, states
  <2> QED
    BY <1>1, <2>1, MarksAreTexts
<1>3. Has(o, States) => EffortsOf(o) = efforts
  <2>1. CASE Has(o, Wrenches)
    BY <2>1, Zenon DEF EffortsOf, CommaIf
  <2>2. CASE ~ Has(o, Wrenches)
    BY <2>2, Zenon DEF EffortsOf
  <2> QED
    BY <2>1, <2>2
<1>4. ASSUME NEW q, Sections(q)
      PROVE  efforts \in Seq(Marks) /\ Sections(q \o efforts)
  <2> HIDE DEF comma, wrenches
  <2>1. CASE Has(o, Wrenches)
    BY <1>1, <1>4, <2>1, SectionAdded, MarksAreTexts
  <2>2. CASE ~ Has(o, Wrenches)
    <3>1. q \in Seq(Marks) /\ efforts = <<>>
      BY <1>4, <2>2 DEF Sections
    <3> HIDE DEF efforts
    <3> QED
      BY <1>1, <1>4, <3>1, ConcatEmptySeq
  <2> QED
    BY <2>1, <2>2
<1>5. CASE Has(o, Scalars) /\ Has(o, States)
  <2> DEFINE first == comma \o states
  <2>1. ScalarsOf(o) = scalars /\ BodiesOf(o) = first \o EffortsOf(o)
    BY <1>5, Zenon DEF ScalarsOf, BodiesOf, CommaIf
  <2> HIDE DEF scalars, comma, states, efforts
  <2>2. first \in Seq(Marks) /\ Sections(scalars \o first)
    BY <1>1, <1>2, SectionAdded, MarksAreTexts
  <2> HIDE DEF first
  <2>3. efforts \in Seq(Marks) /\ Sections((scalars \o first) \o efforts)
    BY <1>4, <2>2
  <2>4. (scalars \o first) \o efforts = scalars \o (first \o efforts)
    <3>1. scalars \in Seq(Marks) /\ first \in Seq(Marks) /\ efforts \in Seq(Marks)
      BY <1>1, <2>2, <2>3
    <3> QED
      BY <3>1, Regrouped, Zenon
  <2> QED
    BY <1>3, <1>5, <2>1, <2>3, <2>4
<1>6. CASE Has(o, Scalars) /\ ~ Has(o, States)
  <2>1. ScalarsOf(o) = scalars /\ BodiesOf(o) = <<>>
    BY <1>6, Zenon DEF ScalarsOf, BodiesOf
  <2> HIDE DEF scalars
  <2> QED
    BY <1>1, <1>2, <2>1, ConcatEmptySeq
<1>7. CASE ~ Has(o, Scalars)
  <2>1. ScalarsOf(o) = <<>> /\ BodiesOf(o) = (<<>> \o states) \o EffortsOf(o)
    BY <1>7, Zenon DEF ScalarsOf, BodiesOf, CommaIf
  <2> HIDE DEF states, efforts
  <2>2. <<>> \o states = states /\ efforts \in Seq(Marks) /\ Sections(states \o efforts)
    BY <1>1, <1>2, <1>4, ConcatEmptySeq
  <2>3. states \o efforts \in Seq(Marks)
    BY <2>2 DEF Sections
  <2>4. <<>> \o (states \o efforts) = states \o efforts
    BY <2>3, ConcatEmptySeq
  <2> QED
    BY <1>3, <1>7, <2>1, <2>2, <2>4
<1> QED
  BY <1>5, <1>6, <1>7

\* DictObserver::flush_after_write writes what a parser accepts if there is no
\* grid, no wrench without a state, and no comma left before what is written.
LEMMA DictIsWellFormed ==
  ASSUME NEW o, ~ Has(o, Grids), Has(o, Wrenches) => Has(o, States),
         o.comma => Has(o, Scalars) \/ ~ Has(o, States)
  PROVE  WellFormed(DictText(o))
<1> DEFINE open == <<"{">>
           close == <<"}">>
           q == ScalarsOf(o) \o BodiesOf(o)
<1>1. /\ IsMark(open, LeftBrace) /\ IsMark(close, RightBrace)
      /\ open \in Seq(Marks) /\ close \in Seq(Marks)
  BY MarksAreTexts DEF IsMark
<1>2. q \in Seq(Marks) /\ ScalarsOf(o) \in Seq(Marks) /\ BodiesOf(o) \in Seq(Marks)
  BY SectionsAreTexts, ConcatProperties
<1>3. DictText(o) = (((open \o ScalarsOf(o)) \o BodiesOf(o)) \o <<>>) \o close
  BY DictIsText, Zenon DEF WavesOf
<1> HIDE DEF open, close
<1>4. DictText(o) = (open \o q) \o close
  <2>1. (open \o ScalarsOf(o)) \o BodiesOf(o) = open \o q /\ open \o q \in Seq(Marks)
    <3>1. (open \o ScalarsOf(o)) \o BodiesOf(o) = open \o (ScalarsOf(o) \o BodiesOf(o))
      BY <1>1, <1>2, Regrouped
    <3>2. open \o q \in Seq(Marks)
      BY <1>1, <1>2, Joined
    <3> QED
      BY <3>1, <3>2
  <2> HIDE DEF q
  <2>2. (open \o q) \o <<>> = open \o q
    BY <2>1, ConcatEmptySeq
  <2> QED
    BY <1>3, <2>1, <2>2
<1>5. CASE Has(o, Scalars) \/ Has(o, States)
  <2>1. Sections(q)
    BY <1>5, SectionsOfDict
  <2> HIDE DEF q
  <2> QED
    BY <1>1, <1>4, <2>1, SectionsInBraces
<1>6. CASE ~ Has(o, Scalars) /\ ~ Has(o, States)
  <2>1. q = <<>> \o <<>>
    BY <1>6, Zenon DEF ScalarsOf, BodiesOf
  <2>2. <<>> \o <<>> = <<>> /\ open \o <<>> = open
    BY <1>1, EmptySeq, ConcatEmptySeq
  <2> HIDE DEF q
  <2>3. DictText(o) = open \o close
    BY <1>4, <2>1, <2>2
  <2>4. /\ Len(DictText(o)) = 2 /\ DictText(o)[1] = LeftBrace /\ DictText(o)[2] = RightBrace
        /\ DictText(o) \in Seq(Marks)
    <3>1. Len(open) = 1 /\ open[1] = LeftBrace
      BY <1>1 DEF IsMark
    <3> QED
      BY <1>1, <2>3, <3>1, MarkAfter
  <2>5. SubSeq(DictText(o), 2, Len(DictText(o)) - 1) = <<>>
    <3>1. SubSeq(DictText(o), 2, 1) = <<>>
      BY <2>4, SubSeqProperties
    <3> QED
      BY <2>4, <3>1
  <2> DEFINE text == DictText(o)
             inner == SubSeq(text, 2, Len(text) - 1)
  <2>6. inner = <<>> /\ DOMAIN inner = {}
    BY <2>5
  <2>7. Len(text) > 1 /\ text[1] = LeftBrace /\ text[Len(text)] = RightBrace
    BY <2>4
  <2> HIDE DEF text
  <2>8. WellFormed(text)
    <3> HIDE DEF inner
    <3>1. /\ inner # <<>> => Len(inner) % 2 = 1
          /\ \A k \in DOMAIN inner : (inner[k] = Comma) <=> (k % 2 = 0)
          /\ \A k \in DOMAIN inner : inner[k] \notin {LeftBrace, RightBrace, Waves}
      BY <2>6
    <3> QED
      BY <2>7, <3>1, Zenon DEF WellFormed, inner, Comma, LeftBrace, RightBrace, Waves
  <2> QED
    BY <2>8 DEF text
<1> QED
  BY <1>5, <1>6

\* And it writes nothing that a parser accepts otherwise.
LEMMA DictReadable ==
  ASSUME NEW o, DOMAIN o.dict \subseteq Names, o.comma \in BOOLEAN
  PROVE  WellFormed(DictText(o)) <=>
           /\ DOMAIN o.dict \intersect Grids = {}
           /\ DOMAIN o.dict \intersect Wrenches # {} => DOMAIN o.dict \intersect States # {}
           /\ o.comma /\ DOMAIN o.dict # {} => DOMAIN o.dict \intersect Scalars # {}
<1>1. DOMAIN o.dict # {} <=>
        Has(o, Scalars) \/ Has(o, States) \/ Has(o, Wrenches) \/ Has(o, Grids)
  <2>1. DOMAIN o.dict \subseteq UNION {Scalars, States, Wrenches, Grids}
    BY ObserversAssumption
  <2> QED
    BY <2>1 DEF Has
<1>2. ASSUME ~ Has(o, Grids), Has(o, Wrenches) => Has(o, States),
             o.comma => (DOMAIN o.dict # {} => Has(o, Scalars))
      PROVE  WellFormed(DictText(o))
  BY <1>1, <1>2, DictIsWellFormed
<1>3. ASSUME WellFormed(DictText(o))
      PROVE  /\ ~ Has(o, Grids)
             /\ Has(o, Wrenches) => Has(o, States)
             /\ o.comma => (DOMAIN o.dict # {} => Has(o, Scalars))
  BY <1>1, <1>3, GridsUnreadable, CommaUnreadable, WrenchesUnreadable
<1> QED
  BY <1>2, <1>3 DEF Has

\* JsonObserver and WebSocketObserver write a line of the latest values.
LEMMA JsonGrows ==
  ASSUME NEW data \in Seq(Names), NEW d \in Nat, NEW w, NEW o, JsonTable(data, o, w, d),
         NEW c, DOMAIN c = Asked(data), c = [n \in DOMAIN c |-> c[n]],
         \A n \in Asked(data) : c[n] = LatestIn(w, n, d + 1) /\ c[n] \in Int
  PROVE  JsonTable(data, JsonLine(o, c), w, d + 1)
<1> DEFINE dict == With(o.dict, c)
           filled == [o EXCEPT !.dict = dict]
           line == [text |-> o.text \o DictText(filled), dict |-> dict]
           comma == DictComma(filled)
           new == JsonLine(o, c)
<1>1. DOMAIN dict = Asked(data) /\ \A n \in Asked(data) : dict[n] = c[n]
  BY DEF With, JsonTable
<1>2. dict \in [Asked(data) -> Int]
  <2>1. dict = [n \in DOMAIN dict |-> dict[n]]
    BY DEF With
  <2> HIDE DEF dict
  <2> QED
    BY <1>1, <2>1
<1>7. new = [dict |-> dict, comma |-> comma, text |-> <<>>, lines |-> Append(o.lines, line)]
  BY DEF JsonLine
<1> HIDE DEF dict
<1>3. filled = [dict |-> dict, comma |-> o.comma, text |-> <<>>, lines |-> o.lines]
  BY DEF JsonTable
<1>4. DictText(filled) \in Seq(Marks)
  BY DictIsText
<1>5. line = [text |-> DictText(filled), dict |-> dict]
  <2>1. o.text = <<>> /\ filled.dict = dict
    BY <1>3 DEF JsonTable
  <2> HIDE DEF filled
  <2>2. <<>> \o DictText(filled) = DictText(filled)
    BY <1>4, ConcatEmptySeq
  <2> QED
    BY <2>1, <2>2
<1>6. /\ WellFormed(DictText(filled)) <=> Readable(Asked(data), d + 1)
      /\ comma \in BOOLEAN /\ (comma <=> d + 1 > 0 /\ Asked(data) # {})
  <2>1. /\ filled.dict = dict /\ filled.comma \in BOOLEAN
        /\ filled.comma <=> d > 0 /\ Asked(data) # {}
    <3>1. filled.dict = dict /\ filled.comma = o.comma
      BY <1>3
    <3> QED
      BY <3>1 DEF JsonTable
  <2>2. Asked(data) \subseteq Names
    BY ElementOfSeq, LenProperties DEF Asked
  <2> HIDE DEF filled
  <2>3. WellFormed(DictText(filled)) <=>
          /\ Asked(data) \intersect Grids = {}
          /\ Asked(data) \intersect Wrenches # {} => Asked(data) \intersect States # {}
          /\ filled.comma /\ Asked(data) # {} => Asked(data) \intersect Scalars # {}
    BY <1>1, <2>1, <2>2, DictReadable
  <2>4. (d > 0) <=> (d + 1 > 1)
    OBVIOUS
  <2>5. WellFormed(DictText(filled)) <=> Readable(Asked(data), d + 1)
    BY <2>1, <2>3, <2>4 DEF Readable
  <2>6. comma \in BOOLEAN /\ (comma <=> d + 1 > 0 /\ Asked(data) # {})
    <3>1. comma = (filled.comma \/ DOMAIN filled.dict # {})
      BY DEF DictComma
    <3>2. d + 1 > 0
      OBVIOUS
    <3> HIDE DEF comma
    <3> QED
      BY <1>1, <2>1, <3>1, <3>2
  <2> QED
    BY <2>5, <2>6
<1> HIDE DEF filled, line, comma, new
<1>8. line \in [text : Seq(Marks), dict : [Asked(data) -> Int]]
  BY <1>2, <1>4, <1>5
<1>9. o.lines \in Seq([text : Seq(Marks), dict : [Asked(data) -> Int]]) /\ Len(o.lines) = d
  BY DEF JsonTable
<1>10. /\ new.lines \in Seq([text : Seq(Marks), dict : [Asked(data) -> Int]])
       /\ Len(new.lines) = d + 1
       /\ \A e \in 1 .. d : new.lines[e] = o.lines[e]
       /\ new.lines[d + 1] = line
  <2>1. new.lines = Append(o.lines, line)
    BY <1>7
  <2> QED
    BY <1>8, <1>9, <2>1, AppendProperties
<1>11. ASSUME NEW e \in 1 .. d + 1
       PROVE  /\ \A n \in Asked(data) : new.lines[e].dict[n] = LatestIn(w, n, e)
              /\ WellFormed(new.lines[e].text) <=> Readable(Asked(data), e)
  <2>1. CASE e \in 1 .. d
    BY <1>10, <2>1 DEF JsonTable
  <2>2. CASE e = d + 1
    <3>1. new.lines[e].dict = dict /\ new.lines[e].text = DictText(filled)
      BY <1>5, <1>10, <2>2
    <3> QED
      BY <1>1, <1>6, <2>2, <3>1
  <2> QED
    BY <2>1, <2>2
<1>12. /\ new = [dict |-> new.dict, comma |-> new.comma, text |-> <<>>, lines |-> new.lines]
       /\ DOMAIN new.dict \subseteq Asked(data)
       /\ new.comma \in BOOLEAN /\ (new.comma <=> d + 1 > 0 /\ Asked(data) # {})
  BY <1>1, <1>6, <1>7
<1> QED
  BY <1>10, <1>11, <1>12 DEF JsonTable, new

-----------------------------------------------------------------------------

\* The tables depend on what was written so far only.
LEMMA TableStays ==
  ASSUME NEW v, NEW w, NEW d \in Nat \ {0}, \A e \in 1 .. d : v[e] = w[e],
         NEW observer, NEW o, TableOf(observer, o, w, d)
  PROVE  TableOf(observer, o, v, d)
<1>1. \A e \in 1 .. d : \A n : LatestIn(v, n, e) = LatestIn(w, n, e)
  BY LatestStays
<1>2. v[1] = w[1]
  OBVIOUS
<1>3. ASSUME NEW data, CsvTable(data, o, w, d) PROVE CsvTable(data, o, v, d)
  BY <1>1, <1>3 DEF CsvTable
<1>4. ASSUME NEW data, JsonTable(data, o, w, d) PROVE JsonTable(data, o, v, d)
  BY <1>1, <1>4 DEF JsonTable
<1>5. ASSUME NEW names, ColumnTable(names, o, w, d) PROVE ColumnTable(names, o, v, d)
  BY <1>1, <1>5 DEF ColumnTable
<1>6. ASSUME CopiedTable(o, w, d) PROVE CopiedTable(o, v, d)
  BY <1>1, <1>2, <1>6 DEF CopiedTable
<1> QED
  BY <1>3, <1>4, <1>5, <1>6 DEF TableOf

\* Nor do the closures.
LEMMA ClosuresStay ==
  ASSUME NEW v, NEW w, NEW d \in Nat \ {0}, \A e \in 1 .. d : v[e] = w[e],
         NEW c, ClosureTable(c, w, d)
  PROVE  ClosureTable(c, v, d)
<1>1. \A n : LatestIn(v, n, d) = LatestIn(w, n, d)
  <2>1. d \in 1 .. d
    OBVIOUS
  <2>2. \A e \in 1 .. d : \A n : LatestIn(v, n, e) = LatestIn(w, n, e)
    BY LatestStays
  <2> QED
    BY <2>1, <2>2
<1>2. KnownBy(v, d) = KnownBy(w, d)
  BY DEF KnownBy
<1> QED
  BY <1>1, <1>2 DEF ClosureTable

\* An observer that has been given its titles is a table of no row.
LEMMA TitledTable ==
  ASSUME NEW i, out[i] = NothingWritten(list[i].format), list[i].format \in Formats,
         NEW c, NEW w
  PROVE  TableOf(list[i], Initialize(i, c), w, 0)
<1> DEFINE o == Initialize(i, c)
<1>1. ASSUME list[i].format = "csv"
      PROVE  CsvTable(list[i].data, o, w, 0)
  <2>1. out[i] = [titles |-> <<>>, lines |-> <<>>]
    BY <1>1 DEF NothingWritten
  <2>2. o = [titles |-> Called(i, c), lines |-> <<>>]
    BY <1>1, <2>1 DEF Initialize, CsvTitles
  <2> HIDE DEF o
  <2> QED
    BY <2>2, EmptySeq DEF CsvTable
<1>2. ASSUME list[i].format = "json"
      PROVE  JsonTable(list[i].data, o, w, 0)
  <2>1. o = [dict |-> NoDates, comma |-> FALSE, text |-> <<>>, lines |-> <<>>]
    BY <1>2 DEF NothingWritten, Initialize
  <2>2. DOMAIN NoDates = {}
    BY DEF NoDates
  <2> HIDE DEF o
  <2> QED
    BY <2>1, <2>2, EmptySeq DEF JsonTable
<1>3. ASSUME list[i].format \notin {"csv", "json"}
      PROVE  /\ o = [m |-> o.m, res |-> <<>>]
             /\ \A n \in DOMAIN o.m : o.m[n] = <<>>
  <2> DEFINE columns == With([n \in {} |-> <<>>],
                             [n \in Columns(i, CalledSet(i, c)) |-> <<>>])
  <2>1. out[i] = [m |-> [n \in {} |-> <<>>], res |-> <<>>]
    BY <1>3 DEF NothingWritten
  <2>2. o = EmptyColumns(out[i], Columns(i, CalledSet(i, c)))
    BY <1>3 DEF Initialize
  <2>3. o = [m |-> columns, res |-> <<>>]
    BY <2>1, <2>2 DEF EmptyColumns
  <2>4. \A n \in DOMAIN columns : columns[n] = <<>>
    BY DEF With
  <2> HIDE DEF columns, o
  <2> QED
    BY <2>3, <2>4
<1>4. ASSUME NEW names, list[i].format \in {"map", "h5"}
      PROVE  ColumnTable(names, o, w, 0)
  <2> HIDE DEF o
  <2>1. o = [m |-> o.m, res |-> o.res]
    BY <1>3, <1>4
  <2>2. \A n \in DOMAIN o.m : o.m[n] = <<>>
    BY <1>3, <1>4
  <2>3. \A n \in DOMAIN o.m : o.m[n] \in Seq(Int) /\ Len(o.m[n]) = 0
    BY <2>2, EmptySeq, Zenon
  <2> QED
    BY <2>1, <2>3 DEF ColumnTable
<1>5. ASSUME list[i].format = "everything"
      PROVE  CopiedTable(o, w, 0)
  <2> HIDE DEF o
  <2>1. o = [m |-> o.m, res |-> o.res] /\ o.res = <<>>
    BY <1>3, <1>5
  <2>2. \A n \in DOMAIN o.m : o.m[n] \in Seq(Int) /\ Len(o.m[n]) <= 0
    <3>1. \A n \in DOMAIN o.m : o.m[n] = <<>>
      BY <1>3, <1>5
    <3>2. \A n \in DOMAIN o.m : o.m[n] \in Seq(Int) /\ Len(o.m[n]) = 0
      BY <3>1, EmptySeq, Zenon
    <3> QED
      BY <3>2
  <2>3. DOMAIN o.res = 1 .. 0 /\ Len(o.res) = 0
    BY <2>1, EmptySeq
  <2> QED
    BY <2>1, <2>2, <2>3 DEF CopiedTable
<1> QED
  BY <1>1, <1>2, <1>4, <1>5 DEF TableOf

(* It has the titles, or the columns, of its names. *)
Titled(observer, o) ==
  /\ observer.format = "csv" => o.titles = observer.data
  /\ observer.format = "map" => DOMAIN o.m = Asked(observer.data) \ Grids
  /\ observer.format = "h5" => DOMAIN o.m = Asked(observer.data)

\* The titles are those of all the names asked for, if all are known.
LEMMA TitledByInitialize ==
  ASSUME NEW i, out[i] = NothingWritten(list[i].format), list[i].data \in Seq(Names),
         NEW c, ~ Unknown(i, c)
  PROVE  Titled(list[i], Initialize(i, c))
<1> DEFINE o == Initialize(i, c)
           names == Columns(i, CalledSet(i, c))
<1>1. ASSUME list[i].format = "csv"
      PROVE  o.titles = list[i].data
  <2>1. out[i] = [titles |-> <<>>, lines |-> <<>>]
    BY <1>1 DEF NothingWritten
  <2>2. o = [titles |-> Called(i, c), lines |-> <<>>]
    BY <1>1, <2>1 DEF Initialize, CsvTitles
  <2>3. Called(i, c) = list[i].data
    BY <1>1, CalledAll DEF Everything
  <2> QED
    BY <2>2, <2>3
<1>2. ASSUME list[i].format \in {"map", "h5"}
      PROVE  DOMAIN o.m = names /\ CalledSet(i, c) = Asked(list[i].data)
  <2> DEFINE columns == With([n \in {} |-> <<>>], [n \in names |-> <<>>])
  <2>1. out[i] = [m |-> [n \in {} |-> <<>>], res |-> <<>>]
    BY <1>2 DEF NothingWritten
  <2>2. o = EmptyColumns(out[i], names)
    BY <1>2 DEF Initialize
  <2>3. o = [m |-> columns, res |-> <<>>]
    BY <2>1, <2>2 DEF EmptyColumns
  <2>4. DOMAIN columns = names
    BY DEF With
  <2>5. CalledSet(i, c) = Asked(list[i].data)
    BY <1>2, CalledAll DEF Everything
  <2> HIDE DEF columns, o, names
  <2> QED
    BY <2>3, <2>4, <2>5
<1> HIDE DEF o
<1>3. ASSUME list[i].format = "map"
      PROVE  DOMAIN o.m = Asked(list[i].data) \ Grids
  BY <1>2, <1>3 DEF Columns
<1>4. ASSUME list[i].format = "h5"
      PROVE  DOMAIN o.m = Asked(list[i].data)
  BY <1>2, <1>4 DEF Columns
<1> QED
  BY <1>1, <1>3, <1>4 DEF Titled, o

\* A table that has rows has its titles.
LEMMA RowsHaveTitles ==
  ASSUME NEW observer, NEW o, NEW w, NEW d \in Nat \ {0}, TableOf(observer, o, w, d)
  PROVE  Titled(observer, o)
<1>1. d > 0
  OBVIOUS
<1> QED
  BY <1>1 DEF TableOf, Titled, CsvTable, ColumnTable

\* Every format gets one more row of the latest values.
LEMMA SerializeGrows ==
  ASSUME NEW i, list[i].format \in Formats, list[i].data \in Seq(Names),
         NEW d \in Nat, NEW w, NEW c, ClosureTable(c, w, d + 1), ~ Unknown(i, c),
         NEW o, TableOf(list[i], o, w, d), Titled(list[i], o)
  PROVE  TableOf(list[i], Serialize(i, o, c), w, d + 1)
<1> DEFINE data == list[i].data
           new == Serialize(i, o, c)
           names == CalledSet(i, c)
<1>1. \A n \in DOMAIN c : c[n] = LatestIn(w, n, d + 1) /\ c[n] \in Int
  BY DEF ClosureTable
<1>2. list[i].format # "everything" => names = Asked(data) /\ Asked(data) \subseteq DOMAIN c
  BY CalledAll DEF Everything
<1>3. list[i].format = "everything" => names = DOMAIN c
  BY CalledAll DEF Everything
<1>4. ASSUME list[i].format = "csv"
      PROVE  CsvTable(data, new, w, d + 1)
  <2>1. new = CsvLine(o, data, c) /\ CsvTable(data, o, w, d) /\ o.titles = data
    BY <1>4 DEF Serialize, TableOf, Titled
  <2> QED
    BY <1>1, <1>2, <1>4, <2>1, CsvGrows
<1>5. ASSUME list[i].format = "json"
      PROVE  JsonTable(data, new, w, d + 1)
  <2> DEFINE called == [n \in names |-> c[n]]
  <2>1. new = JsonLine(o, called) /\ JsonTable(data, o, w, d)
    BY <1>5 DEF Serialize, TableOf
  <2>2. /\ DOMAIN called = Asked(data) /\ called = [n \in DOMAIN called |-> called[n]]
        /\ \A n \in Asked(data) : called[n] = LatestIn(w, n, d + 1) /\ called[n] \in Int
    BY <1>1, <1>2, <1>5
  <2> HIDE DEF called
  <2> QED
    BY <2>1, <2>2, JsonGrows
<1>6. ASSUME list[i].format = "map"
      PROVE  ColumnTable(Asked(data) \ Grids, new, w, d + 1)
  <2> DEFINE plain == Asked(data) \ Grids
  <2>1. new = GrowColumns(o, plain, c) /\ ColumnTable(plain, o, w, d) /\ DOMAIN o.m = plain
    BY <1>2, <1>6 DEF Serialize, Columns, TableOf, Titled
  <2>2. plain \subseteq DOMAIN c
    BY <1>2, <1>6
  <2> HIDE DEF plain, new
  <2>3. ColumnTable(plain, new, w, d + 1)
    BY <1>1, <2>1, <2>2, ColumnsGrow
  <2> QED
    BY <2>3 DEF plain
<1>7. ASSUME list[i].format = "h5"
      PROVE  ColumnTable(Asked(data), new, w, d + 1)
  <2>1. /\ new = GrowColumns(o, Asked(data), c)
        /\ ColumnTable(Asked(data), o, w, d) /\ DOMAIN o.m = Asked(data)
    BY <1>2, <1>7 DEF Serialize, Columns, TableOf, Titled
  <2> QED
    BY <1>1, <1>2, <1>7, <2>1, ColumnsGrow
<1>8. ASSUME list[i].format = "everything"
      PROVE  CopiedTable(new, w, d + 1)
  <2> DEFINE plain == names \ Grids
             grown == GrowColumns(o, plain, c)
  <2>0. CopiedTable(o, w, d)
    BY <1>8 DEF TableOf
  <2>1. new = CopyColumns(grown)
    BY <1>8 DEF Serialize, Columns
  <2>2. w[1] \ Grids \subseteq plain
    <3>1. 1 \in 1 .. d + 1
      OBVIOUS
    <3>2. w[1] \subseteq KnownBy(w, d + 1)
      BY <3>1 DEF KnownBy
    <3> QED
      BY <1>3, <1>8, <3>2 DEF ClosureTable
  <2>3. \A n \in plain : c[n] = LatestIn(w, n, d + 1) /\ c[n] \in Int
    BY <1>1, <1>3, <1>8
  <2> HIDE DEF plain
  <2>4. LongestColumns(grown, w, d + 1)
    BY <2>0, <2>2, <2>3, AllColumnsGrow
  <2> HIDE DEF grown
  <2> QED
    BY <2>1, <2>4, CopyIsAligned
<1> HIDE DEF new
<1> QED
  BY <1>4, <1>5, <1>6, <1>7, <1>8 DEF TableOf, new

-----------------------------------------------------------------------------

(***************************************************************************)
(* The inductive invariant: every observer is a table of as many rows as   *)
(* it was called, the one that fails included; and as long as the run goes *)
(* on, its closures are those of the names written so far.                 *)
(***************************************************************************)
WrittenNow ==
  /\ remote \subseteq Remote
  /\ written \in Seq(SUBSET Names) /\ Len(written) = date
  /\ written[date] = Output
  /\ Steady \subseteq written[1]

RowsIInv ==
  /\ ObsIInv
  /\ WrittenNow
  /\ \A i \in Index : TableOf(list[i], out[i], written, Done(i))
  /\ ~ failed => \A i \in Index : ClosureTable(serialize[i], written, Done(i))

\* Every observer of the list is asked for a sequence of names.
LEMMA ObserverType ==
  ASSUME list \in Lists
  PROVE  \A i \in Index : list[i].format \in Formats /\ list[i].data \in Seq(Names)
<1>1. list \in Seq([format : Formats, data : Seq(Names)])
  BY ObserversAssumption
<1>2. \A i \in 1 .. Len(list) : list[i] \in [format : Formats, data : Seq(Names)]
  BY <1>1, ElementOfSeq
<1> QED
  BY <1>2 DEF Index

\* An observer starts as a table of no row.
LEMMA NothingIsTable ==
  ASSUME NEW observer, observer.format \in Formats, NEW w
  PROVE  TableOf(observer, NothingWritten(observer.format), w, 0)
<1> DEFINE o == NothingWritten(observer.format)
<1>1. ASSUME observer.format = "csv"
      PROVE  CsvTable(observer.data, o, w, 0)
  <2>1. o = [titles |-> <<>>, lines |-> <<>>]
    BY <1>1 DEF NothingWritten
  <2> HIDE DEF o
  <2> QED
    BY <2>1, EmptySeq DEF CsvTable
<1>2. ASSUME observer.format = "json"
      PROVE  JsonTable(observer.data, o, w, 0)
  <2>1. o = [dict |-> NoDates, comma |-> FALSE, text |-> <<>>, lines |-> <<>>]
    BY <1>2 DEF NothingWritten
  <2>2. DOMAIN NoDates = {}
    BY DEF NoDates
  <2> HIDE DEF o
  <2> QED
    BY <2>1, <2>2, EmptySeq DEF JsonTable
<1>3. ASSUME observer.format \notin {"csv", "json"}
      PROVE  o = [m |-> o.m, res |-> o.res] /\ DOMAIN o.m = {} /\ o.res = <<>>
  <2> DEFINE none == [n \in {} |-> <<>>]
  <2>1. o = [m |-> none, res |-> <<>>]
    BY <1>3 DEF NothingWritten
  <2>2. DOMAIN none = {}
    OBVIOUS
  <2> HIDE DEF none, o
  <2> QED
    BY <2>1, <2>2
<1>4. ASSUME NEW names, observer.format \in {"map", "h5"}
      PROVE  ColumnTable(names, o, w, 0)
  <2> HIDE DEF o
  <2> QED
    BY <1>3, <1>4 DEF ColumnTable
<1>5. ASSUME observer.format = "everything"
      PROVE  CopiedTable(o, w, 0)
  <2> HIDE DEF o
  <2>1. DOMAIN o.res = 1 .. 0 /\ Len(o.res) = 0
    BY <1>3, <1>5, EmptySeq
  <2> QED
    BY <1>3, <1>5, <2>1 DEF CopiedTable
<1> HIDE DEF o
<1>6. TableOf(observer, o, w, 0)
  BY <1>1, <1>2, <1>4, <1>5 DEF TableOf
<1> QED
  BY <1>6 DEF o

\* Before the first date nothing is written.
LEMMA RowsInit == ObsInit => RowsIInv
<1> SUFFICES ASSUME ObsInit
             PROVE  RowsIInv
  OBVIOUS
<1>1. ObsIInv
  BY ObsInitInv
<1>2. list \in Lists /\ date = 1 /\ turn = 1 /\ written = <<Output>> /\ remote \subseteq Remote
  BY DEF ObsInit, Output
<1>3. Len(list) \in Nat /\ Index = 1 .. Len(list)
  BY <1>2, ListType
<1>4. \A i \in Index : Done(i) = 0
  BY <1>2, <1>3 DEF Done
<1>5. WrittenNow
  <2>1. Output \subseteq Names /\ Steady \subseteq Output
    BY <1>2 DEF Output, Names
  <2>2. written \in Seq(SUBSET Names) /\ Len(written) = 1 /\ written[1] = Output
    <3> HIDE DEF Output
    <3> QED
      BY <1>2, <2>1
  <2> QED
    BY <1>2, <2>1, <2>2 DEF WrittenNow
<1>6. ASSUME NEW i \in Index
      PROVE  TableOf(list[i], out[i], written, Done(i))
  <2>1. out[i] = NothingWritten(list[i].format)
    BY DEF ObsInit
  <2>2. list[i].format \in Formats
    BY <1>2, ObserverType
  <2> QED
    BY <1>4, <2>1, <2>2, NothingIsTable
<1>7. ASSUME NEW i \in Index
      PROVE  ClosureTable(serialize[i], written, Done(i))
  <2>1. serialize[i] = NoDates /\ DOMAIN NoDates = {}
    BY DEF ObsInit, NoDates
  <2>2. KnownBy(written, 0) = {}
    BY DEF KnownBy
  <2> QED
    BY <1>4, <2>1, <2>2 DEF ClosureTable
<1> QED
  BY <1>1, <1>5, <1>6, <1>7 DEF RowsIInv

\* The observer that is called gets a row, or its titles if it fails.
LEMMA RowsObserve ==
  ASSUME RowsIInv, ObserveOne
  PROVE  RowsIInv'
<1> DEFINE i == turn
           c == Closures(i)
           d == date - 1
           titled == IF initialized[i] THEN out[i] ELSE Initialize(i, c)
<1>1. ObsIInv'
  BY ObserveStep DEF RowsIInv
<1>2. /\ i \in Index /\ ~ failed
      /\ list' = list /\ date' = date /\ remote' = remote /\ written' = written
      /\ Index' = Index
      /\ serialize' = [serialize EXCEPT ![i] = c]
  BY DEF ObserveOne, Index
<1>3. ObsIInv /\ Running /\ WrittenNow
  BY <1>2 DEF RowsIInv, ObsIInv
<1>4. list \in Lists /\ Len(list) \in Nat /\ Index = 1 .. Len(list)
  BY <1>3, ListType DEF ObsIInv
<1>5. list[i].format \in Formats /\ list[i].data \in Seq(Names)
  BY <1>2, <1>4, ObserverType
<1>6. date \in Nat \ {0} /\ d \in Nat /\ d + 1 = date /\ Done(i) = d /\ i \in Int
  BY <1>2, <1>3, <1>4 DEF ObsIInv, Done
<1>7. ClosureTable(c, written, date)
  <2>1. ClosureTable(serialize[i], written, date - 1)
    BY <1>2, <1>6 DEF RowsIInv
  <2> QED
    BY <1>3, <1>6, <2>1, ClosuresNow DEF WrittenNow
<1>8. TableOf(list[i], out[i], written, d)
  BY <1>2, <1>6 DEF RowsIInv
<1>9. initialized[i] <=> date > 1
  BY <1>2, <1>3, <1>6 DEF Running
<1>10. ~ initialized[i] => d = 0 /\ out[i] = NothingWritten(list[i].format)
  BY <1>2, <1>3, <1>6, <1>9 DEF Running
<1>11. DOMAIN serialize = Index /\ DOMAIN out = Index
  BY <1>3 DEF ObsIInv
<1>12. WrittenNow'
  BY <1>2, <1>3 DEF WrittenNow, Output
<1>13. TableOf(list[i], titled, written, d)
  <2>1. CASE initialized[i]
    BY <1>8, <2>1
  <2>2. CASE ~ initialized[i]
    BY <1>5, <1>10, <2>2, TitledTable
  <2> QED
    BY <2>1, <2>2
<1>14. CASE Unknown(i, c)
  <2>1. ~ initialized[i]
    BY <1>2, <1>3, <1>14, KnownStaysKnown DEF Running
  <2>2. out' = [out EXCEPT ![i] = titled] /\ failed' = TRUE /\ turn' = turn
    BY <1>14, <2>1 DEF ObserveOne, Leave
  <2> HIDE DEF titled, d
  <2>3. ASSUME NEW j \in Index
        PROVE  TableOf(list[j], out'[j], written, Done(j)')
    <3>1. Done(j)' = Done(j)
      BY <1>2, <2>2 DEF Done
    <3>2. CASE j = i
      BY <1>6, <1>11, <1>13, <2>2, <3>1, <3>2
    <3>3. CASE j # i
      BY <1>11, <2>2, <3>1, <3>3 DEF RowsIInv
    <3> QED
      BY <3>2, <3>3
  <2> QED
    BY <1>1, <1>2, <1>12, <2>2, <2>3 DEF RowsIInv
<1>15. CASE ~ Unknown(i, c)
  <2> DEFINE new == Serialize(i, titled, c)
  <2>1. out' = [out EXCEPT ![i] = new] /\ failed' = failed /\ turn' = turn + 1
    BY <1>15 DEF ObserveOne
  <2>2. Titled(list[i], titled)
    <3>1. CASE initialized[i]
      <4>1. d \in Nat \ {0}
        BY <1>6, <1>9, <3>1
      <4> HIDE DEF d
      <4>2. Titled(list[i], out[i])
        BY <1>8, <4>1, RowsHaveTitles
      <4> QED
        BY <3>1, <4>2
    <3>2. CASE ~ initialized[i]
      BY <1>5, <1>10, <1>15, <3>2, TitledByInitialize
    <3> QED
      BY <3>1, <3>2
  <2>3. TableOf(list[i], new, written, date)
    <3>1. ClosureTable(c, written, d + 1)
      BY <1>6, <1>7
    <3> HIDE DEF titled, d, c
    <3>2. TableOf(list[i], new, written, d + 1)
      BY <1>5, <1>6, <1>13, <1>15, <2>2, <3>1, SerializeGrows
    <3> QED
      BY <1>6, <3>2
  <2> HIDE DEF new, c
  <2>4. ASSUME NEW j \in Index
        PROVE  /\ TableOf(list[j], out'[j], written, Done(j)')
               /\ ClosureTable(serialize'[j], written, Done(j)')
    <3>1. CASE j = i
      <4>1. Done(j)' = date /\ out'[j] = new /\ serialize'[j] = c
        BY <1>2, <1>6, <1>11, <2>1, <3>1 DEF Done
      <4> QED
        BY <1>7, <2>3, <3>1, <4>1
    <3>2. CASE j # i
      <4>1. Done(j)' = Done(j) /\ out'[j] = out[j] /\ serialize'[j] = serialize[j]
        BY <1>2, <1>4, <1>6, <1>11, <2>1, <3>2 DEF Done
      <4> QED
        BY <1>2, <4>1 DEF RowsIInv
    <3> QED
      BY <3>1, <3>2
  <2> QED
    BY <1>1, <1>2, <1>12, <2>1, <2>4 DEF RowsIInv
<1> QED
  BY <1>14, <1>15

\* At the next date more may be known; the rows stay.
LEMMA RowsNextDate ==
  ASSUME RowsIInv, NEW answer \in SUBSET Remote, NextDate(answer)
  PROVE  RowsIInv'
<1>1. ObsIInv'
  BY NextDateStep DEF RowsIInv
<1>2. ObsIInv /\ WrittenNow
  BY DEF RowsIInv
<1>3. /\ turn = Len(list) + 1 /\ remote' = answer /\ date' = date + 1 /\ turn' = 1
      /\ written' = Append(written, Steady \union answer)
      /\ list' = list /\ serialize' = serialize /\ out' = out /\ failed' = failed
      /\ Index' = Index
  BY DEF NextDate, Index
<1>4. list \in Lists /\ Len(list) \in Nat /\ Index = 1 .. Len(list)
  BY <1>2, ListType DEF ObsIInv
<1>5. date \in Nat \ {0} /\ ~ failed
  BY <1>2, <1>3, <1>4 DEF ObsIInv
<1>6. /\ written' \in Seq(SUBSET Names) /\ Len(written') = date + 1
      /\ \A e \in 1 .. date : written'[e] = written[e]
      /\ written'[date + 1] = Steady \union answer
  <2> DEFINE names == Steady \union answer
  <2>1. names \in SUBSET Names
    BY DEF Names
  <2>2. written \in Seq(SUBSET Names) /\ Len(written) = date
    BY <1>2 DEF WrittenNow
  <2>3. written' = Append(written, names)
    BY <1>3
  <2> HIDE DEF names
  <2>4. /\ written' \in Seq(SUBSET Names) /\ Len(written') = date + 1
        /\ \A e \in 1 .. date : written'[e] = written[e]
        /\ written'[date + 1] = names
    BY <2>1, <2>2, <2>3, AppendProperties
  <2> QED
    BY <2>4 DEF names
<1>7. WrittenNow'
  BY <1>2, <1>3, <1>5, <1>6 DEF WrittenNow, Output
<1>8. \A i \in Index : Done(i) = date /\ Done(i)' = date
  BY <1>3, <1>4, <1>5 DEF Done
<1>9. ASSUME NEW i \in Index
      PROVE  /\ TableOf(list[i], out[i], written', date)
             /\ ClosureTable(serialize[i], written', date)
  <2>1. TableOf(list[i], out[i], written, date) /\ ClosureTable(serialize[i], written, date)
    BY <1>5, <1>8 DEF RowsIInv
  <2> QED
    BY <1>5, <1>6, <2>1, TableStays, ClosuresStay
<1> QED
  BY <1>1, <1>3, <1>7, <1>8, <1>9 DEF RowsIInv

\* A step that changes nothing keeps them.
LEMMA RowsIdle ==
  ASSUME RowsIInv, UNCHANGED obsVars
  PROVE  RowsIInv'
<1>1. ObsIInv'
  BY ObsIdleStep DEF RowsIInv
<1>2. /\ list' = list /\ date' = date /\ turn' = turn /\ remote' = remote
      /\ serialize' = serialize /\ out' = out /\ failed' = failed /\ written' = written
  BY DEF obsVars
<1> QED
  BY <1>1, <1>2 DEF RowsIInv, WrittenNow, Output, Done, Index

\* Every observer is a table of the latest values, of as many rows as it was
\* called.
THEOREM RowsInvariant == ObsSpec => []RowsIInv
<1>1. ObsInit => RowsIInv
  BY RowsInit
<1>2. RowsIInv /\ [ObsNext]_obsVars => RowsIInv'
  BY RowsObserve, RowsNextDate, RowsIdle DEF ObsNext, ObsEnded
<1> QED
  BY <1>1, <1>2, PTL DEF ObsSpec

-----------------------------------------------------------------------------

\* The columns of a file have as many values as it has rows.
LEMMA ColumnCount ==
  ASSUME NEW i \in Index, list[i].format \in {"map", "h5"},
         NEW names, NEW w, NEW d \in Nat, ColumnTable(names, out[i], w, d)
  PROVE  /\ DOMAIN out[i].m # {} => RowCount(i) = d
         /\ DOMAIN out[i].m = {} => RowCount(i) = 0
<1> DEFINE lengths == {Len(out[i].m[n]) : n \in DOMAIN out[i].m}
<1>1. RowCount(i) = IF lengths = {} THEN 0
                    ELSE CHOOSE r \in lengths : \A s \in lengths : s <= r
  BY DEF RowCount
<1>2. \A n \in DOMAIN out[i].m : Len(out[i].m[n]) = d
  BY DEF ColumnTable
<1>3. CASE DOMAIN out[i].m # {}
  <2>1. lengths = {d}
    BY <1>2, <1>3
  <2> HIDE DEF lengths
  <2>2. (CHOOSE r \in lengths : \A s \in lengths : s <= r) = d
    BY <2>1
  <2> QED
    BY <1>1, <1>3, <2>1, <2>2
<1>4. CASE DOMAIN out[i].m = {}
  BY <1>1, <1>4
<1> QED
  BY <1>3, <1>4

\* For every list of observers, whatever they are asked for and whatever a
\* remote model writes at each date, each value of a csv, json, map or h5 file
\* is the one of its column that was written last at the date of its row.
THEOREM RowsAlwaysHoldLatestValues == ObsSpec => []RowsHoldLatestValues
<1>1. RowsIInv => RowsHoldLatestValues
  <2> SUFFICES ASSUME RowsIInv
               PROVE  RowsHoldLatestValues
    OBVIOUS
  <2>1. list \in Lists /\ date \in Nat \ {0}
    BY DEF RowsIInv, ObsIInv
  <2>2. \A n, e : LatestIn(written, n, e) = Latest(n, e)
    BY DEF LatestIn, DatesIn, Latest, DatesOf
  <2>3. ASSUME NEW i \in Index
        PROVE  /\ list[i].format \in Formats /\ list[i].data \in Seq(Names)
               /\ TableOf(list[i], out[i], written, Done(i)) /\ Done(i) \in Nat
    BY <2>1, ObserverType DEF RowsIInv, Done
  <2>4. ASSUME NEW i \in Index, list[i].format = "csv", NEW d \in DOMAIN out[i].lines
        PROVE  /\ Len(out[i].lines[d]) = Len(out[i].titles)
               /\ \A j \in DOMAIN out[i].titles :
                    out[i].titles[j] \notin Grids
                      => out[i].lines[d][j] = Latest(out[i].titles[j], d)
    <3>1. CsvTable(list[i].data, out[i], written, Done(i))
      BY <2>3, <2>4 DEF TableOf
    <3>2. DOMAIN out[i].lines = 1 .. Done(i)
      BY <3>1, LenProperties DEF CsvTable
    <3>3. d \in 1 .. Done(i) /\ out[i].titles = list[i].data
      BY <2>3, <3>1, <3>2 DEF CsvTable
    <3> QED
      BY <2>2, <3>1, <3>3 DEF CsvTable
  <2>5. ASSUME NEW i \in Index, list[i].format = "json", NEW d \in DOMAIN out[i].lines,
               NEW j \in DOMAIN list[i].data
        PROVE  /\ list[i].data[j] \in DOMAIN out[i].lines[d].dict
               /\ out[i].lines[d].dict[list[i].data[j]] = Latest(list[i].data[j], d)
    <3>1. JsonTable(list[i].data, out[i], written, Done(i))
      BY <2>3, <2>5 DEF TableOf
    <3>2. DOMAIN out[i].lines = 1 .. Done(i)
      BY <3>1, LenProperties DEF JsonTable
    <3>3. out[i].lines[d] \in [text : Seq(Marks), dict : [Asked(list[i].data) -> Int]]
      BY <3>1, <3>2, ElementOfSeq DEF JsonTable
    <3>4. list[i].data[j] \in Asked(list[i].data)
      BY DEF Asked
    <3> QED
      BY <2>2, <3>1, <3>2, <3>3, <3>4 DEF JsonTable
  <2>6. ASSUME NEW i \in Index, list[i].format \in {"map", "h5"}, NEW n \in DOMAIN out[i].m
        PROVE  Len(out[i].m[n]) = RowCount(i) /\ Tracks(out[i].m[n], n)
    <3>1. PICK names : ColumnTable(names, out[i], written, Done(i))
      BY <2>3, <2>6 DEF TableOf
    <3>2. RowCount(i) = Done(i)
      BY <2>3, <2>6, <3>1, ColumnCount
    <3>3. out[i].m[n] \in Seq(Int) /\ Len(out[i].m[n]) = Done(i)
      BY <3>1 DEF ColumnTable
    <3>4. DOMAIN out[i].m[n] = 1 .. Done(i)
      BY <3>3, LenProperties
    <3> QED
      BY <2>2, <3>1, <3>2, <3>3, <3>4 DEF ColumnTable, Tracks
  <2> QED
    BY <2>3, <2>4, <2>5, <2>6, Zenon DEF RowsHoldLatestValues
<1> QED
  BY <1>1, RowsInvariant, PTL

(* Every observer has something to write in a column of its own: t and the *)
(* states are always written, and a map or an h5 file is asked for values  *)
(* it has columns for.                                                     *)
EveryObserverHasColumns ==
  /\ Steady \ Grids # {}
  /\ \A l \in Lists : \A i \in DOMAIN l :
       /\ l[i].format = "map" => Asked(l[i].data) \ Grids # {}
       /\ l[i].format = "h5" => Asked(l[i].data) # {}

\* An observer has written as many rows as it was called.
LEMMA RowsAreCalls ==
  ASSUME RowsIInv, EveryObserverHasColumns, NEW i \in Index
  PROVE  RowCount(i) = Done(i)
<1>1. list \in Lists /\ date \in Nat \ {0} /\ WrittenNow
  BY DEF RowsIInv, ObsIInv
<1>2. list[i].format \in Formats /\ TableOf(list[i], out[i], written, Done(i)) /\ Done(i) \in Nat
  BY <1>1, ObserverType DEF RowsIInv, Done
<1>3. CASE list[i].format = "csv"
  BY <1>2, <1>3 DEF TableOf, CsvTable, RowCount
<1>4. CASE list[i].format = "json"
  BY <1>2, <1>4 DEF TableOf, JsonTable, RowCount
<1>5. CASE list[i].format = "everything"
  <2>1. written[1] \ Grids # {}
    BY <1>1 DEF WrittenNow, EveryObserverHasColumns
  <2>2. Len(out[i].res) = Done(i)
    BY <1>2, <1>5, <2>1 DEF TableOf, CopiedTable
  <2> QED
    BY <1>5, <2>2 DEF RowCount
<1>6. CASE list[i].format \in {"map", "h5"}
  <2>1. i \in DOMAIN list
    <3>1. list \in Seq([format : Formats, data : Seq(Names)])
      BY <1>1, ObserversAssumption
    <3> QED
      BY <3>1, LenProperties DEF Index
  <2>2. PICK names : ColumnTable(names, out[i], written, Done(i)) /\ names # {}
    <3>1. CASE list[i].format = "map"
      <4>1. Asked(list[i].data) \ Grids # {}
        BY <1>1, <2>1, <3>1 DEF EveryObserverHasColumns
      <4> QED
        BY <1>2, <3>1, <4>1 DEF TableOf
    <3>2. CASE list[i].format = "h5"
      <4>1. Asked(list[i].data) # {}
        BY <1>1, <2>1, <3>2 DEF EveryObserverHasColumns
      <4> QED
        BY <1>2, <3>2, <4>1 DEF TableOf
    <3> QED
      BY <1>6, <3>1, <3>2
  <2>3. CASE DOMAIN out[i].m = {}
    <3>1. Done(i) = 0
      BY <1>2, <2>2, <2>3 DEF ColumnTable
    <3> QED
      BY <1>2, <1>6, <2>2, <2>3, <3>1, ColumnCount
  <2>4. CASE DOMAIN out[i].m # {}
    BY <1>2, <1>6, <2>2, <2>4, ColumnCount
  <2> QED
    BY <2>3, <2>4
<1> QED
  BY <1>2, <1>3, <1>4, <1>5, <1>6 DEF Formats

\* The observers of a list are never more than one date apart, whatever they
\* write, whatever a remote model writes, and when one of them fails too.
THEOREM ListAlwaysInStep ==
  ASSUME EveryObserverHasColumns
  PROVE  ObsSpec => []ListInStep
<1>1. RowsIInv => ListInStep
  BY RowsAreCalls DEF ListInStep, Done
<1> QED
  BY <1>1, RowsInvariant, PTL

\* Each row of the results a server makes its reply of has the values of its
\* own date, for the names written since the first one.
THEOREM ReplyRowsAlwaysAligned == ObsSpec => []RowsOfReplyAligned
<1>1. RowsIInv => RowsOfReplyAligned
  <2> SUFFICES ASSUME RowsIInv, NEW i \in Index, Everything(i),
                      NEW d \in DOMAIN out[i].res, NEW n \in written[1] \ Grids
               PROVE  n \in DOMAIN out[i].res[d] /\ out[i].res[d][n] = Latest(n, d)
    BY DEF RowsOfReplyAligned
  <2>1. CopiedTable(out[i], written, Done(i))
    BY DEF RowsIInv, TableOf, Everything
  <2>2. d \in 1 .. Done(i)
    BY <2>1 DEF CopiedTable
  <2>3. LatestIn(written, n, d) = Latest(n, d)
    BY DEF LatestIn, DatesIn, Latest, DatesOf
  <2> QED
    BY <2>1, <2>2, <2>3 DEF CopiedTable
<1> QED
  BY <1>1, RowsInvariant, PTL

\* Which rows of a JSON file, which messages to the websocket, a parser
\* accepts, for every list of observers: those asked for neither wave heights
\* nor wrenches without states, and after the first date those asked for a
\* scalar or for nothing.
THEOREM JsonAlwaysReadableAsAsked == ObsSpec => []JsonReadableAsAsked
<1>1. RowsIInv => JsonReadableAsAsked
  <2> SUFFICES ASSUME RowsIInv, NEW i \in Index, list[i].format = "json",
                      NEW d \in DOMAIN out[i].lines
               PROVE  WellFormed(out[i].lines[d].text) <=> Readable(Asked(list[i].data), d)
    BY DEF JsonReadableAsAsked
  <2>1. JsonTable(list[i].data, out[i], written, Done(i))
    BY DEF RowsIInv, TableOf
  <2>2. d \in 1 .. Done(i)
    BY <2>1, LenProperties DEF JsonTable
  <2> QED
    BY <2>1, <2>2 DEF JsonTable
<1> QED
  BY <1>1, RowsInvariant, PTL
=============================================================================
