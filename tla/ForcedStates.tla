----------------------------- MODULE ForcedStates -----------------------------
(***************************************************************************)
(* The blocked degrees of freedom (BlockedDOF): the tables of a body, from *)
(* the YAML file or from other files, are checked and kept by state when   *)
(* the simulator is built; at each date they replace the states they are   *)
(* given for.  All tables are piecewise constant.                          *)
(***************************************************************************)
EXTENDS Integers, Sequences, FiniteSetsExt

CONSTANTS
  Inputs,        \* sequences of bodies, as the YAML file describes them
  Free,          \* the value of a velocity nothing forces
  LastDate       \* bound on the dates: 1 .. LastDate

Velocities == {"u", "v", "w", "p", "q", "r"}

Table == {table \in [state : Velocities, t : Seq(Int), value : Seq(Int)] :
            table.t # <<>> /\ Len(table.value) = Len(table.t)}

ASSUME ForcedAssumption ==
  /\ LastDate \in Nat
  /\ \A input \in Inputs : \A b \in DOMAIN input :
       input[b].yaml \in Seq(Table) /\ input[b].csv \in Seq(Table)

VARIABLES
  bodies,    \* the input
  pc,        \* "read", "built" or "refused"
  blocked,   \* blocked[b]: the tables of body b by state, with their bounds
  date,
  velocity   \* velocity[b]: the states of body b after forcing

forcedVars == <<bodies, pc, blocked, date, velocity>>

ForcedInit ==
  /\ bodies \in Inputs
  /\ pc = "read"
  /\ blocked = <<>>
  /\ date = 0
  /\ velocity = <<>>

-----------------------------------------------------------------------------

(* read_table_from_csv: the state of the table is left at its default. *)
FromCsv(table) == [table EXCEPT !.state = "u"]

(* A slip: the tables of the files are not compared with the others. *)
DefinedTwiceInASection(body) ==
  \E section \in {body.yaml, body.csv} : \E i, j \in DOMAIN section :
    i # j /\ section[i].state = section[j].state

(* check_states_are_not_defined_twice *)
DefinedTwice(body) ==
  LET given == body.yaml \o body.csv
  IN  \E i, j \in DOMAIN given : i # j /\ given[i].state = given[j].state

(* build_tables *)
Tables(body) == body.yaml \o [i \in DOMAIN body.csv |-> FromCsv(body.csv[i])]

DatesOf(table) == {table.t[k] : k \in DOMAIN table.t}

(* get_forced_states, get_tmin and get_tmax: the last table of a state wins. *)
TablesOf(body) ==
  LET tables == Tables(body)
      last(s) == CHOOSE i \in DOMAIN tables :
                   tables[i].state = s /\ \A j \in DOMAIN tables : j > i => tables[j].state # s
  IN  [s \in {tables[i].state : i \in DOMAIN tables} |->
         [table |-> tables[last(s)],
          tmin  |-> Min(DatesOf(tables[last(s)])),
          tmax  |-> Max(DatesOf(tables[last(s)]))]]

(* The constructors of the bodies. *)
BuildTables ==
  /\ pc = "read"
  /\ IF \E b \in DOMAIN bodies : DefinedTwice(bodies[b])
       THEN pc' = "refused" /\ UNCHANGED blocked
       ELSE pc' = "built" /\ blocked' = [b \in DOMAIN bodies |-> TablesOf(bodies[b])]
  /\ UNCHANGED <<bodies, date, velocity>>

-----------------------------------------------------------------------------

(* Of the ssc library: the value given for the last date not after t. *)
PiecewiseConstant(table, t) ==
  table.value[Max({k \in DOMAIN table.t : table.t[k] <= t})]

(* BlockedDOF::force_states *)
Forced(v, dof, t) ==
  [s \in Velocities |->
     IF s \in DOMAIN dof /\ dof[s].tmin <= t /\ t <= dof[s].tmax
       THEN PiecewiseConstant(dof[s].table, t) ELSE v[s]]

(* The next date: the states of each body are forced. *)
ForceStates ==
  /\ pc = "built" /\ date < LastDate
  /\ date' = date + 1
  /\ velocity' = [b \in DOMAIN bodies |->
                    Forced([s \in Velocities |-> Free], blocked[b], date')]
  /\ UNCHANGED <<bodies, pc, blocked>>

ForcedNext == BuildTables \/ ForceStates

ForcedSpec == ForcedInit /\ [][ForcedNext]_forcedVars

-----------------------------------------------------------------------------

\* "state: nom de l'état à forcer" (reperes_et_conventions.md:574): at each
\* date a state has the value of every table given for it that covers the
\* date, from the YAML file or from another file, and is free if none does.
ForcedAsTabulated ==
  date > 0 => \A b \in DOMAIN bodies :
    LET given == bodies[b].yaml \o bodies[b].csv
        covers(i) == \E k, l \in DOMAIN given[i].t :
                       given[i].t[k] <= date /\ date <= given[i].t[l]
    IN  \A s \in Velocities :
          LET tables == {i \in DOMAIN given : given[i].state = s /\ covers(i)}
          IN  /\ \A i \in tables : velocity[b][s] = PiecewiseConstant(given[i], date)
              /\ tables = {} => velocity[b][s] = Free
=============================================================================
