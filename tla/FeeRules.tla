------------------------------ MODULE FeeRules ------------------------------
(***************************************************************************)
(* The rules of membership fees (package fees): which periods an interval  *)
(* has, which model fits a member's age, and the pro-rata amount.          *)
(*                                                                         *)
(* Time is counted in months from 1.  A year has YearLen months (12 in the *)
(* code) so that instances can be small; an interval is the number of its  *)
(* months and divides the year.  A member's entry is the month it joins,   *)
(* its exit the first month without it, whichever days these fall on.      *)
(***************************************************************************)
EXTENDS Integers, FiniteSets, FiniteSetsExt

CONSTANT YearLen

ASSUME YearLenAssumption == YearLen \in Nat \ {0}

Year(m) == (m - 1) \div YearLen

(* A model is a record [name, cents, interval, limited, lo, hi, proRata];  *)
(* one with an age limit takes part in the selection by age.  A limit that *)
(* is missing is the 0 or the 200 of span; negative ages are left out.     *)
FitsAge(m, age) == age \in m.lo .. m.hi
Span(m) == m.hi - m.lo

(* The narrowest age range wins, then the first name. *)
Preferred(m, n) == Span(m) < Span(n) \/ (Span(m) = Span(n) /\ m.name <= n.name)

EveryFitting(models, age) == {m \in models : m.limited /\ FitsAge(m, age)}
(* The models an age selects: none, or one. *)
SelectByAge(models, age) ==
  LET fits == {m \in models : m.limited /\ FitsAge(m, age)}
  IN {m \in fits : \A n \in fits : Preferred(m, n)}

Overlaps(p, q) == p.start <= q.end /\ q.start <= p.end

(* The periods that start in the months from .. to; the last may end later. *)
Periods(interval, from, to) ==
  {[start |-> s, end |-> s + interval - 1] : s \in {m \in from .. to : (m - 1) % interval = 0}}

Between(ms, start, end) == ms.entry <= end /\ ms.exit > start
ActiveIn(ms, p) == Between(ms, p.start, p.end)
ActiveMonths(ms, p) == Cardinality({m \in p.start .. p.end : Between(ms, m, m)})

(* Rounded half up; without pro rata the full amount. *)
Amount(m, p, ms) ==
  IF m.proRata /\ ActiveMonths(ms, p) < m.interval
  THEN (m.cents * ActiveMonths(ms, p) + m.interval \div 2) \div m.interval
  ELSE m.cents
=============================================================================
