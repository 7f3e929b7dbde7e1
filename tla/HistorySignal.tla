--------------------------- MODULE HistorySignal ---------------------------
(***************************************************************************)
(* What the queries of a History answer, compared with the whole signal    *)
(* that was recorded into it.  The signal is kept in a variable of its own *)
(* that forgets nothing; between two samples it is the line through them,  *)
(* and before the first one the first value.                               *)
(***************************************************************************)
EXTENDS Histories

VARIABLE signal \* signal[o]: every sample recorded since the last reset

sampledVars == <<h, raised, signal>>

(***************************************************************************)
(* The values of every unit interval are needed twice as fine as those of  *)
(* the samples for the trapezes to be whole numbers: the integrals below   *)
(* are twice the integrals of the code.                                    *)
(***************************************************************************)
Trapeze2(xa, ya, xb, yb) == (xb - xa) * (ya + yb)

(* The sums of the members of term after a, up to each index of a .. b. *)
RunningSum(term, a, b) ==
  LET sum[i \in a .. b] == IF i = a THEN 0 ELSE sum[i - 1] + term[i] IN sum

(* Between the pair at idx and each later one. *)
Integrals2(L, idx) ==
  RunningSum([i \in idx + 1 .. Len(L) - 1 |->
                Trapeze2(At(L, i - 1).t, At(L, i - 1).v, At(L, i).t, At(L, i).v)],
             idx, Len(L) - 1)

(* integrate(idx): from the pair at idx to the last one *)
Integrate2(L, idx) == Integrals2(L, idx)[Len(L) - 1]

(* std::min(T, get_duration()), and a slip: T seconds, recorded or not *)
DurationAsked(hist, T) == T
AveragedDuration(hist, T) == IF T < Duration(hist) THEN T ELSE Duration(hist)

(***************************************************************************)
(* average(T), for T >= 0 (a negative T throws), as the fraction sum/over: *)
(* the code divides the integral by the duration actually covered, and the *)
(* integrals here are twice those of the code.  It integrates nothing when *)
(* there are less than two pairs, or when that duration is zero.           *)
(***************************************************************************)
IntegralSince2(hist, t) ==
  LET idx == BracketingPosition(hist.L, t)
  IN  Trapeze2(t, InterpolateInInterval(hist.L, idx, t),
               At(hist.L, idx).t, At(hist.L, idx).v)
        + Integrate2(hist.L, idx)

Average(hist, T) ==
  LET covered == AveragedDuration(hist, T)
  IN  IF hist.L = <<>> THEN [sum |-> 0, over |-> 1]
      ELSE IF Len(hist.L) = 1 THEN [sum |-> FirstOf(hist.L).v, over |-> 1]
      ELSE IF covered = 0 THEN [sum |-> LastOf(hist.L).v, over |-> 1]
      ELSE [sum  |-> IntegralSince2(hist, CurrentTime(hist) - covered),
            over |-> 2 * covered]

(***************************************************************************)
(* The loops of get_dates and get_values: what has been pushed back once   *)
(* they are past the pair k, of the members of item at the places in kept. *)
(***************************************************************************)
PushedBack(kept, item) ==
  LET pushed[k \in 0 .. Len(item)] ==
        IF k = 0 THEN <<>>
        ELSE IF k \in kept THEN Append(pushed[k - 1], item[k])
        ELSE pushed[k - 1]
  IN  pushed

DatesOf(L) == [i \in 1 .. Len(L) |-> L[i].t]
ValuesOf(L) == [i \in 1 .. Len(L) |-> L[i].v]

(* A slip of one of the two loops: the date exactly tmax ago is not sent. *)
DatesAfter(hist, tmax) ==
  LET kept == {i \in 1 .. Len(hist.L) : tmax > CurrentTime(hist) - hist.L[i].t}
  IN  IF tmax = 0 THEN <<CurrentTime(hist)>>
      ELSE PushedBack(kept, DatesOf(hist.L))[Len(hist.L)]

(***************************************************************************)
(* get_dates(tmax) and get_values(tmax): what a remote force model is sent *)
(* for a state, each filtered by a loop of its own.  Zero asks for the     *)
(* current value alone.                                                    *)
(***************************************************************************)
DatesSince(hist, tmax) ==
  LET kept == {i \in 1 .. Len(hist.L) : tmax >= CurrentTime(hist) - hist.L[i].t}
  IN  IF tmax = 0 THEN <<CurrentTime(hist)>>
      ELSE PushedBack(kept, DatesOf(hist.L))[Len(hist.L)]

ValuesSince(hist, tmax) ==
  LET kept == {i \in 1 .. Len(hist.L) : tmax >= CurrentTime(hist) - hist.L[i].t}
  IN  IF tmax = 0 THEN <<ValueAgo(hist, 0)>>
      ELSE PushedBack(kept, ValuesOf(hist.L))[Len(hist.L)]

-----------------------------------------------------------------------------

SignalInit == Init /\ signal = [o \in Objects |-> {}]

(* A second value for an instant replaces the first one, as in the code. *)
SignalRecord(o, t, v) ==
  LET date == SnapToBack(h[o], t)
  IN  /\ Record(o, t, v)
      /\ signal' = [signal EXCEPT ![o] = {s \in @ : s.t # date}
                                           \union {[t |-> date, v |-> v]}]

SignalReset(o) == Reset(o) /\ signal' = [signal EXCEPT ![o] = {}]

SignalAssign(o, source) ==
  /\ Assign(o, source)
  /\ signal' = [signal EXCEPT ![o] = signal[source]]

SignalNext ==
  \E o \in Objects :
    \/ \E t \in Dates, v \in Values : SignalRecord(o, t, v)
    \/ \E t \in Dates : RecordOutOfOrder(o, t) /\ UNCHANGED signal
    \/ SignalReset(o)
    \/ \E source \in Objects : SignalAssign(o, source)

SignalSpec == SignalInit /\ [][SignalNext]_sampledVars

-----------------------------------------------------------------------------

(* The recorded signal at any date up to the current one. *)
SignalAt(samples, t) ==
  LET before == {s \in samples : s.t <= t}
      after  == {s \in samples : s.t >= t}
      newest == CHOOSE s \in before : \A r \in before : r.t <= s.t
      oldest == CHOOSE s \in after : \A r \in after : s.t <= r.t
  IN  IF before = {} THEN oldest.v
      ELSE IF newest.t = t THEN newest.v
      ELSE OnLine(newest, oldest, t)

Integral2(samples, from, to) ==
  RunningSum([t \in from + 1 .. to |->
                Trapeze2(t - 1, SignalAt(samples, t - 1), t, SignalAt(samples, t))],
             from, to)[to]

NonEmpty == {o \in Objects : h[o].L # <<>>}

(***************************************************************************)
(* The durations that reach back into hist to its pair i or less, and that *)
(* operator() does not take for the length of the window.                  *)
(***************************************************************************)
AgoUpTo(hist, i) ==
  {tau \in 0 .. CurrentTime(hist) - hist.L[i].t : hist.Tmax - tau >= Eps}

\* Behind the second pair of the vector every answer is the recorded signal,
\* however many times the window was shifted, its start made up, or an
\* instant recorded again: an error at the start never spreads inwards.  And
\* beyond the window a force model reads zero, never an old value.
InnerWindowIsExact ==
  \A o \in NonEmpty : Len(h[o].L) > 1 =>
    /\ \A tau \in AgoUpTo(h[o], 2) :
         ValueAgo(h[o], tau) = SignalAt(signal[o], CurrentTime(h[o]) - tau)
    /\ \A extra \in Eps .. Eps + 2 : ValueAgo(h[o], h[o].Tmax + extra) = 0

(***************************************************************************)
(* The first pair of the vector is on the recorded signal: it was recorded *)
(* itself, or the last shift read the value it made up inside the interval *)
(* number 1, and not past its end.                                         *)
(***************************************************************************)
StartsOnSignal(o) == FirstOf(h[o].L).v = SignalAt(signal[o], FirstOf(h[o].L).t)

\* average(T) is the mean of the recorded signal over the last T seconds, and
\* over all that the window holds when T is longer than that (Duration + 1
\* stands for every longer T).  Only when the window starts off the signal
\* (StartsOnSignal) may a T that reaches into its first interval be wrong: the
\* error of the made-up pair never spreads to a shorter average.
AverageIsExact ==
  \A o \in NonEmpty : \A T \in 0 .. Duration(h[o]) + 1 :
    LET now      == CurrentTime(h[o])
        recorded == now - FirstOf(h[o].L).t
        covered  == IF T <= recorded THEN T ELSE recorded
        clear    == Len(h[o].L) > 1 /\ now - covered >= h[o].L[2].t
    IN  clear \/ StartsOnSignal(o) =>
          Average(h[o], T) =
            IF covered = 0 THEN [sum |-> SignalAt(signal[o], now), over |-> 1]
            ELSE [sum |-> Integral2(signal[o], now - covered, now), over |-> 2 * covered]

\* The two answers sent to a remote force model for a duration tmax, filtered
\* by two loops, agree: as many dates as values, dates in order and inside
\* tmax, each date with the value recorded for it, or dated at the very start
\* of the window, where a pair may be made up.  And no sample that is recorded
\* inside tmax and inside the window is left out.
SentHistoryIsComplete ==
  \A o \in NonEmpty : \A tmax \in 0 .. h[o].Tmax :
    LET dates  == DatesSince(h[o], tmax)
        values == ValuesSince(h[o], tmax)
        sent   == [i \in 1 .. Len(dates) |-> [t |-> dates[i], v |-> values[i]]]
        now    == CurrentTime(h[o])
    IN  /\ Len(values) = Len(dates)
        /\ \A i, j \in 1 .. Len(dates) : i < j => dates[i] < dates[j]
        /\ \A i \in 1 .. Len(dates) :
             /\ dates[i] >= now - tmax
             /\ sent[i] \in signal[o] \/ dates[i] = now - h[o].Tmax
        /\ \A s \in signal[o] :
             s.t >= now - tmax => \E i \in 1 .. Len(dates) : sent[i] = s
=============================================================================
