---------------------------- MODULE OfficeProofs ----------------------------
(***************************************************************************)
(* Proofs about Office, the database of one device: what is charged to     *)
(* members, what is collected from them, what is lent to them, and which   *)
(* rows outlive what they belong to.                                       *)
(***************************************************************************)
EXTENDS Office, FiniteSetTheorems, TLAPS

-----------------------------------------------------------------------------
(* Arithmetic of periods and years.                                        *)

(* No remainder, so a multiple.                                            *)
LEMMA Divisible ==
  ASSUME NEW n \in Nat, NEW i \in Nat \ {0}, n % i = 0
  PROVE  \E q \in Nat : n = i * q
<1>1. ASSUME NEW q, q = n \div i PROVE q \in Nat /\ n = i * q
  BY <1>1
<1> QED BY <1>1

(* Multiplication keeps the order.                                         *)
LEMMA Times ==
  ASSUME NEW a \in Int, NEW b \in Int, NEW i \in Nat, a <= b
  PROVE  i * a <= i * b /\ i * a \in Int /\ i * b \in Int
OBVIOUS

(* A multiple below a multiple is a whole step below it.                   *)
LEMMA MultiplesApart ==
  ASSUME NEW i \in Nat \ {0}, NEW a \in Nat, NEW c \in Nat, i * a < i * c
  PROVE  i * a + i <= i * c
<1>1. a < c
  <2> SUFFICES ASSUME c <= a PROVE FALSE
    OBVIOUS
  <2> QED BY Times
<1>2. i * (a + 1) <= i * c
  BY <1>1, Times
<1>3. i * (a + 1) = i * a + i
  OBVIOUS
<1> QED BY <1>2, <1>3

(* Periods of the same interval do not overlap (FeeRules, Periods).        *)
LEMMA PeriodsApart ==
  ASSUME NEW i \in Nat \ {0}, NEW s \in Nat \ {0}, NEW t \in Nat \ {0},
         (s - 1) % i = 0, (t - 1) % i = 0, s < t
  PROVE  s + i - 1 < t
<1>1. PICK a \in Nat : s - 1 = i * a
  BY Divisible
<1>2. PICK b \in Nat : t - 1 = i * b
  BY Divisible
<1>3. i * a + i <= i * b
  BY <1>1, <1>2, MultiplesApart
<1> QED BY <1>1, <1>2, <1>3

(* The months of a year.                                                   *)
LEMMA YearBounds ==
  ASSUME NEW s \in Nat \ {0}
  PROVE  Year(s) \in Nat /\ YearLen * Year(s) < s /\ s <= YearLen * Year(s) + YearLen
<1> SUFFICES ASSUME NEW n \in Nat, n = s - 1, NEW y, NEW r, y = n \div YearLen, r = n % YearLen
             PROVE  y \in Nat /\ YearLen * y < s /\ s <= YearLen * y + YearLen
  BY DEF Year
<1>2. y \in Nat /\ r \in 0 .. YearLen - 1 /\ n = YearLen * y + r
  <2>1. y \in Nat
    BY YearLenAssumption
  <2>2. r \in 0 .. YearLen - 1
    BY YearLenAssumption
  <2> QED BY <2>1, <2>2, YearLenAssumption
<1>3. YearLen * y \in Nat
  BY <1>2, YearLenAssumption
<1>4. YearLen * y < s /\ s <= YearLen * y + YearLen
  BY <1>2, <1>3, YearLenAssumption
<1> QED BY <1>2, <1>4

(* A period ends in the year it starts in, as its interval divides a year. *)
LEMMA YearsApart ==
  ASSUME NEW i \in Nat \ {0}, YearLen % i = 0,
         NEW s \in Nat \ {0}, NEW t \in Nat \ {0}, (s - 1) % i = 0, Year(s) < Year(t)
  PROVE  s + i - 1 < t
<1>1. PICK a \in Nat : s - 1 = i * a
  <2>1. s - 1 \in Nat
    OBVIOUS
  <2> QED BY <2>1, Divisible
<1>2. PICK b \in Nat : YearLen = i * b
  BY Divisible, YearLenAssumption
<1> DEFINE y == Year(s)
           z == Year(t)
<1>3. y \in Nat /\ s <= YearLen * y + YearLen
  BY YearBounds
<1>4. z \in Nat /\ YearLen * z < t
  BY YearBounds
<1>5. y + 1 <= z
  BY <1>3, <1>4
<1> HIDE DEF y, z
<1>6. YearLen * (y + 1) <= YearLen * z /\ YearLen * z \in Int
  BY <1>3, <1>4, <1>5, Times, YearLenAssumption
<1>7. YearLen * (y + 1) = YearLen * y + YearLen
  BY <1>3, YearLenAssumption
<1>8. YearLen * (y + 1) = i * (b * (y + 1))
  BY <1>2, <1>3
<1> DEFINE c == b * (y + 1)
<1>9. c \in Nat /\ YearLen * (y + 1) = i * c
  BY <1>2, <1>3, <1>8
<1> HIDE DEF c
<1>10. i * a < i * c
  BY <1>1, <1>3, <1>7, <1>9
<1>11. i * a + i <= i * c
  BY <1>9, <1>10, MultiplesApart
<1>12. YearLen * (y + 1) \in Int
  BY <1>9
<1> HIDE DEF c
<1> QED BY <1>1, <1>4, <1>6, <1>9, <1>11, <1>12
-----------------------------------------------------------------------------
(* The plan of a billing run.                                              *)

(* Live models have different names (WriteModel).                          *)
ModelsInv ==
  /\ models \in [ModelId -> Tariffs \cup {NoTariff}]
  /\ \A i, j \in LiveModels : models[i].name = models[j].name => i = j

(* One model at most applies to a member in a year (modelFor).             *)
LEMMA OneModel ==
  ASSUME ModelsInv, NEW m, NEW year, NEW i \in ModelsFor(m, year), NEW j \in ModelsFor(m, year)
  PROVE  i = j /\ i \in LiveModels
<1>1. CASE assigned[m] = "exempt"
  BY <1>1 DEF ModelsFor
<1>2. CASE assigned[m] = "auto"
  <2> DEFINE live == {models[k] : k \in LiveModels}
  <2>1. /\ i \in LiveModels /\ j \in LiveModels
        /\ models[i] \in SelectByAge(live, AgeIn(m, year))
        /\ models[j] \in SelectByAge(live, AgeIn(m, year))
    BY <1>2 DEF ModelsFor
  <2>2. Preferred(models[i], models[j]) /\ Preferred(models[j], models[i])
    BY <2>1 DEF SelectByAge
  <2>3. models[i] \in Tariffs /\ models[j] \in Tariffs
    BY <2>1 DEF ModelsInv, LiveModels
  <2>4. ASSUME NEW t \in Tariffs PROVE t.name \in Nat /\ t.lo \in Nat /\ t.hi \in Nat
    BY FeeLedgerAssumption DEF FeeLedgerAssumption
  <2>5. ASSUME NEW t \in Tariffs, NEW u \in Tariffs, Preferred(t, u), Preferred(u, t)
        PROVE  t.name = u.name
    <3>1. Span(t) = Span(u)
      BY <2>4, <2>5 DEF Preferred, Span
    <3>2. t.name <= u.name /\ u.name <= t.name
      BY <2>4, <2>5, <3>1 DEF Preferred, Span
    <3> QED BY <2>4, <3>2
  <2>6. models[i].name = models[j].name
    BY <2>2, <2>3, <2>5
  <2> QED BY <2>1, <2>6 DEF ModelsInv
<1>3. CASE assigned[m] # "exempt" /\ assigned[m] # "auto"
  BY <1>3 DEF ModelsFor
<1> QED BY <1>1, <1>2, <1>3

(* What is known of an obligation: its member, its model, its period.      *)
LEMMA OwedIs ==
  ASSUME ModelsInv, NEW m, NEW from \in Nat \ {0}, NEW to \in Nat, NEW o \in Owed(m, from, to)
  PROVE  /\ o.member = m /\ o.model \in LiveModels
         /\ o.period.start \in from .. to
         /\ o.period.end = o.period.start + models[o.model].interval - 1
         /\ (o.period.start - 1) % models[o.model].interval = 0
         /\ models[o.model].interval \in Nat \ {0}
         /\ YearLen % models[o.model].interval = 0
         /\ o.model \in ModelsFor(m, Year(o.period.start))
         /\ o = [member |-> m, model |-> o.model,
                 period |-> [start |-> o.period.start,
                             end |-> o.period.start + models[o.model].interval - 1]]
<1>1. o.model \in ModelsFor(m, Year(o.period.start))
  BY DEF Owed
<1>2. PICK i \in LiveModels :
        \E p \in Periods(models[i].interval, from, to) : o = [member |-> m, model |-> i, period |-> p]
  BY DEF Owed
<1>6. PICK p \in Periods(models[i].interval, from, to) : o = [member |-> m, model |-> i, period |-> p]
  BY <1>2
<1>3. PICK s \in from .. to : (s - 1) % models[i].interval = 0
                              /\ p = [start |-> s, end |-> s + models[i].interval - 1]
  BY DEF Periods
<1>4. models[i] \in Tariffs
  BY DEF ModelsInv, LiveModels
<1>5. ASSUME NEW t \in Tariffs PROVE t.interval \in Nat \ {0} /\ YearLen % t.interval = 0
  BY FeeLedgerAssumption, YearLenAssumption DEF FeeLedgerAssumption
<1> QED BY <1>1, <1>3, <1>4, <1>5, <1>6

(* The earlier of two obligations of a member ends before the later one.   *)
LEMMA OwedInOrder ==
  ASSUME ModelsInv, NEW m, NEW from \in Nat \ {0}, NEW to \in Nat,
         NEW o \in Owed(m, from, to), NEW p \in Owed(m, from, to), o.period.start < p.period.start
  PROVE  o.period.end < p.period.start
<1> DEFINE s == o.period.start
           t == p.period.start
           i == models[o.model].interval
           j == models[p.model].interval
<1>1. s \in Nat \ {0} /\ i \in Nat \ {0} /\ (s - 1) % i = 0 /\ YearLen % i = 0 /\ o.period.end = s + i - 1
  BY OwedIs
<1>2. t \in Nat \ {0} /\ j \in Nat \ {0} /\ (t - 1) % j = 0 /\ YearLen % j = 0
  BY OwedIs
<1>3. Year(s) = Year(t) => i = j
  <2> SUFFICES ASSUME Year(s) = Year(t) PROVE o.model = p.model
    OBVIOUS
  <2>1. o.model \in ModelsFor(m, Year(s)) /\ p.model \in ModelsFor(m, Year(t))
    BY OwedIs
  <2> HIDE DEF s, t
  <2> QED BY <2>1, OneModel
<1>4. s < t
  OBVIOUS
<1> HIDE DEF s, t, i, j
<1>5. Year(s) \in Nat /\ Year(t) \in Nat
  BY <1>1, <1>2, YearBounds
<1>6. CASE Year(s) = Year(t)
  BY <1>1, <1>2, <1>3, <1>4, <1>6, PeriodsApart DEF t
<1>7. CASE Year(s) < Year(t)
  BY <1>1, <1>2, <1>7, YearsApart DEF t
<1>8. CASE Year(t) < Year(s)
  <2>1. t + j - 1 < s
    BY <1>1, <1>2, <1>8, YearsApart
  <2> QED BY <2>1, <1>1, <1>2, <1>4
<1> QED BY <1>5, <1>6, <1>7, <1>8

(* Two obligations of a member start in different months and do not        *)
(* overlap.                                                                *)
LEMMA OwedApart ==
  ASSUME ModelsInv, NEW m, NEW from \in Nat \ {0}, NEW to \in Nat,
         NEW o \in Owed(m, from, to), NEW p \in Owed(m, from, to), o # p
  PROVE  o.period.start # p.period.start /\ ~ Overlaps(o.period, p.period)
<1> DEFINE s == o.period.start
           t == p.period.start
<1>1. s \in Nat /\ t \in Nat /\ o.period.end \in Int /\ p.period.end \in Int
  BY OwedIs
<1>2. s # t
  <2> SUFFICES ASSUME s = t PROVE FALSE
    OBVIOUS
  <2>1. o.model \in ModelsFor(m, Year(s)) /\ p.model \in ModelsFor(m, Year(t))
    BY OwedIs
  <2>2. o.model = p.model
    <3> HIDE DEF s, t
    <3> QED BY <2>1, OneModel
  <2>3. o = [member |-> m, model |-> o.model, period |-> [start |-> s, end |-> s + models[o.model].interval - 1]]
    BY OwedIs
  <2>4. p = [member |-> m, model |-> p.model, period |-> [start |-> t, end |-> t + models[p.model].interval - 1]]
    BY OwedIs
  <2> HIDE DEF s, t
  <2> QED BY <2>2, <2>3, <2>4
<1>3. s < t => o.period.end < t
  BY OwedInOrder
<1>4. t < s => p.period.end < s
  BY OwedInOrder
<1> QED BY <1>1, <1>2, <1>3, <1>4 DEF Overlaps

(* A multiple has no remainder.                                            *)
LEMMA NoRemainder ==
  ASSUME NEW i \in Nat \ {0}, NEW q \in Nat, NEW n \in Nat, n = i * q
  PROVE  n % i = 0
<1> SUFFICES ASSUME NEW d, NEW t, d = n \div i, t = n % i PROVE t = 0
  OBVIOUS
<1>1. d \in Nat
  OBVIOUS
<1>2. t \in 0 .. i - 1
  OBVIOUS
<1>3. n = i * d + t
  BY <1>1, <1>2
<1>4. i * d \in Nat
  BY <1>1
<1>5. t # 0 => i * d + i <= i * q
  BY <1>1, <1>2, <1>3, <1>4, MultiplesApart
<1> QED BY <1>2, <1>3, <1>4, <1>5

(* Every month of a membership a model applies to lies in a period that    *)
(* starts in the same year.                                                *)
LEMMA StartOfPeriod ==
  ASSUME NEW i \in Nat \ {0}, YearLen % i = 0, NEW month \in Nat \ {0}
  PROVE  \E s \in 1 .. month : (s - 1) % i = 0 /\ month <= s + i - 1 /\ Year(s) = Year(month)
<1> SUFFICES ASSUME NEW n \in Nat, n = month - 1, NEW q, NEW r, q = n \div i, r = n % i
             PROVE  \E s \in 1 .. month : (s - 1) % i = 0 /\ month <= s + i - 1 /\ Year(s) = Year(month)
  OBVIOUS
<1>1. q \in Nat
  OBVIOUS
<1>2. r \in 0 .. i - 1
  OBVIOUS
<1>3. n = i * q + r
  BY <1>1, <1>2
<1> DEFINE s == month - r
<1>4. s - 1 = i * q /\ i * q \in Nat
  BY <1>1, <1>2, <1>3
<1>5. s \in Nat \ {0} /\ s <= month /\ month = s + r
  BY <1>2, <1>4
<1>6. (s - 1) % i = 0
  <2>1. \A k \in Nat : k = i * q => k % i = 0
    BY <1>1, NoRemainder
  <2> QED BY <2>1, <1>4
<1> HIDE DEF s
<1>7. ~ (Year(s) < Year(month))
  BY <1>2, <1>5, <1>6, YearsApart
<1>8. ~ (Year(month) < Year(s))
  <2> SUFFICES ASSUME Year(month) < Year(s) PROVE FALSE
    OBVIOUS
  <2>1. ASSUME NEW y \in Nat, NEW z \in Nat, y = Year(month), z = Year(s) PROVE FALSE
    <3>1. month <= YearLen * y + YearLen /\ YearLen * z < s
      BY <1>5, <2>1, YearBounds
    <3>2. y + 1 <= z
      BY <2>1
    <3>3. YearLen * (y + 1) <= YearLen * z /\ YearLen * z \in Int
      BY <3>2, Times, YearLenAssumption
    <3>4. YearLen * (y + 1) = YearLen * y + YearLen /\ YearLen * y \in Int
      BY YearLenAssumption
    <3> QED BY <1>5, <3>1, <3>3, <3>4, YearLenAssumption
  <2> QED BY <1>5, <2>1, YearBounds
<1>9. Year(s) = Year(month)
  BY <1>5, <1>7, <1>8, YearBounds
<1> QED BY <1>2, <1>5, <1>6, <1>9

CoreInv == core \in [Member -> [age : Nat, entry : Nat, exit : Nat]]

LEMMA NoGapHolds ==
  ASSUME ModelsInv, CoreInv
  PROVE  NoGapNoOverlap
<1> SUFFICES ASSUME NEW m \in Member
             PROVE  \E owed \in {Owed(m, 1, LastMonth)} :
                      /\ \A o, p \in owed : o # p => ~ Overlaps(o.period, p.period)
                      /\ \A month \in 1 .. LastMonth :
                           ModelsFor(m, Year(month)) # {} /\ Between(Facts(m), month, month)
                             => \E o \in owed : month \in o.period.start .. o.period.end
  BY DEF NoGapNoOverlap
<1> USE FeeLedgerAssumption DEF FeeLedgerAssumption
<1>1. \A o, p \in Owed(m, 1, LastMonth) : o # p => ~ Overlaps(o.period, p.period)
  BY OwedApart
<1>2. ASSUME NEW month \in 1 .. LastMonth, NEW i \in ModelsFor(m, Year(month)), Between(Facts(m), month, month)
      PROVE  \E o \in Owed(m, 1, LastMonth) : month \in o.period.start .. o.period.end
  <2>1. i \in LiveModels
    BY OneModel
  <2> DEFINE k == models[i].interval
  <2>2. k \in Nat \ {0} /\ YearLen % k = 0
    <3>1. models[i] \in Tariffs
      BY <2>1 DEF ModelsInv, LiveModels
    <3> QED BY <3>1, YearLenAssumption
  <2> HIDE DEF k
  <2>3. PICK s \in 1 .. month : (s - 1) % k = 0 /\ month <= s + k - 1 /\ Year(s) = Year(month)
    BY <2>2, StartOfPeriod
  <2> DEFINE p == [start |-> s, end |-> s + k - 1]
             o == [member |-> m, model |-> i, period |-> p]
  <2>4. p \in Periods(k, 1, LastMonth)
    BY <2>3 DEF Periods
  <2>5. ActiveIn(Facts(m), p)
    <3>1. Facts(m).entry \in Nat /\ Facts(m).exit \in Nat
      BY DEF CoreInv, Facts
    <3>2. p.start = s /\ p.end = s + k - 1
      OBVIOUS
    <3> HIDE DEF p
    <3> QED BY <1>2, <2>2, <2>3, <3>1, <3>2 DEF ActiveIn, Between
  <2>6. o \in Owed(m, 1, LastMonth)
    <3>1. o.period = p /\ o.model = i /\ o.period.start = s
      OBVIOUS
    <3>2. o \in UNION {{[member |-> m, model |-> j, period |-> x] : x \in Periods(models[j].interval, 1, LastMonth)}
                       : j \in LiveModels}
      <4>1. p \in Periods(models[i].interval, 1, LastMonth)
        BY <2>4 DEF k
      <4> HIDE DEF p
      <4>2. o \in {[member |-> m, model |-> i, period |-> x] : x \in Periods(models[i].interval, 1, LastMonth)}
        BY <4>1
      <4> HIDE DEF o
      <4> QED BY <2>1, <4>2
    <3> HIDE DEF o, p
    <3> QED BY <1>2, <2>3, <2>5, <3>1, <3>2 DEF Owed
  <2>7. month \in o.period.start .. o.period.end
    BY <2>2, <2>3
  <2> QED BY <2>6, <2>7
<1> QED BY <1>1, <1>2

(* Ranking a finite set by an order R gives every rank once. *)
Order(S, R) ==
  /\ \A o, p \in S : o # p => <<o, p>> \in R \/ <<p, o>> \in R
  /\ \A o \in S : <<o, o>> \notin R
  /\ \A o, p, q \in S : <<o, p>> \in R /\ <<p, q>> \in R => <<o, q>> \in R
Ranked(S, R, o) == Cardinality({p \in S : <<p, o>> \in R})

LEMMA Ranks ==
  ASSUME NEW S, IsFiniteSet(S), NEW R, Order(S, R)
  PROVE  /\ Cardinality(S) \in Nat
         /\ \A o \in S : Ranked(S, R, o) \in 0 .. Cardinality(S) - 1
         /\ \A o, p \in S : Ranked(S, R, o) = Ranked(S, R, p) => o = p
         /\ \A k \in 1 .. Cardinality(S) : \E o \in S : Ranked(S, R, o) = k - 1
<1> DEFINE below(o) == {p \in S : <<p, o>> \in R}
           n == Cardinality(S)
           rank == [o \in S |-> Cardinality(below(o))]
<1>1. n \in Nat
  BY FS_CardinalityType
<1>2. ASSUME NEW o \in S
      PROVE  IsFiniteSet(below(o)) /\ Cardinality(below(o)) \in 0 .. n - 1
  <2>1. below(o) \in SUBSET S /\ o \notin below(o)
    BY DEF Order
  <2>2. IsFiniteSet(below(o)) /\ Cardinality(below(o)) <= n /\ Cardinality(below(o)) # n
    BY <2>1, FS_Subset
  <2>3. Cardinality(below(o)) \in Nat
    BY <2>2, FS_CardinalityType
  <2> QED BY <1>1, <2>2, <2>3
<1>3. \A o \in S : Ranked(S, R, o) = Cardinality(below(o))
  BY DEF Ranked
<1>4. ASSUME NEW o \in S, NEW p \in S, <<o, p>> \in R
      PROVE  below(o) \in SUBSET below(p) /\ o \in below(p) /\ o \notin below(o)
  BY <1>4 DEF Order
<1> HIDE DEF below
<1>5. ASSUME NEW o \in S, NEW p \in S, <<o, p>> \in R
      PROVE  Cardinality(below(o)) < Cardinality(below(p))
  <2> DEFINE A == below(o)
             B == below(p)
  <2>1. Cardinality(below(o)) \in Nat /\ IsFiniteSet(below(p)) /\ Cardinality(below(p)) \in Nat
    BY <1>1, <1>2
  <2>2. IsFiniteSet(B) /\ Cardinality(A) \in Nat /\ Cardinality(B) \in Nat
    BY <2>1
  <2>3. A \in SUBSET B /\ A # B
    BY <1>4, <1>5
  <2> HIDE DEF A, B
  <2>4. Cardinality(A) <= Cardinality(B) /\ Cardinality(A) # Cardinality(B)
    BY <2>2, <2>3, FS_Subset
  <2> QED BY <2>2, <2>4 DEF A, B
<1>6. ASSUME NEW o \in S, NEW p \in S, Cardinality(below(o)) = Cardinality(below(p)) PROVE o = p
  <2>1. Cardinality(below(o)) \in Int /\ Cardinality(below(p)) \in Int
    BY <1>1, <1>2
  <2>2. ~ (Cardinality(below(o)) < Cardinality(below(p))) /\ ~ (Cardinality(below(p)) < Cardinality(below(o)))
    BY <1>6, <2>1
  <2>3. <<o, p>> \notin R /\ <<p, o>> \notin R
    BY <1>5, <2>2
  <2> QED BY <2>3 DEF Order
<1>7. rank \in Injection(S, 0 .. n - 1)
  <2>1. rank \in [S -> 0 .. n - 1]
    BY <1>2
  <2>2. ASSUME NEW o \in S, NEW p \in S, rank[o] = rank[p] PROVE o = p
    BY <1>6, <2>2
  <2> QED BY <2>1, <2>2 DEF Injection, IsInjective
<1>8. IsFiniteSet(0 .. n - 1) /\ Cardinality(0 .. n - 1) = n
  BY <1>1, FS_Interval
<1>9. rank \in Surjection(S, 0 .. n - 1)
  <2> HIDE DEF rank, n
  <2> QED BY <1>7, <1>8, FS_Injection DEF n
<1>10. ASSUME NEW k \in 1 .. n PROVE \E o \in S : Cardinality(below(o)) = k - 1
  <2>1. k - 1 \in 0 .. n - 1
    BY <1>1
  <2> QED BY <1>9, <2>1 DEF Surjection
<1> QED BY <1>1, <1>2, <1>3, <1>6, <1>10

(* So the k-th of a plan exists, and is the k-th of no other k (PlanOrder).*)
LEMMA PlanRanks ==
  ASSUME NEW plan, IsFiniteSet(plan),
         \A o, p \in plan : o # p => PlannedBefore(o, p) \/ PlannedBefore(p, o),
         \A o \in plan : ~ PlannedBefore(o, o),
         \A o, p, q \in plan : PlannedBefore(o, p) /\ PlannedBefore(p, q) => PlannedBefore(o, q)
  PROVE  /\ Cardinality(plan) \in Nat
         /\ \A k \in 1 .. Cardinality(plan) : PlanOrder(plan)[k] \in plan
         /\ \A k, l \in 1 .. Cardinality(plan) : PlanOrder(plan)[k] = PlanOrder(plan)[l] => k = l
<1> DEFINE R == {w \in plan \X plan : PlannedBefore(w[1], w[2])}
           n == Cardinality(plan)
<1>1. \A o, p \in plan : <<o, p>> \in R <=> PlannedBefore(o, p)
  OBVIOUS
<1>2. ASSUME NEW o \in plan PROVE Ranked(plan, R, o) = Cardinality({p \in plan : PlannedBefore(p, o)})
  <2>1. {p \in plan : <<p, o>> \in R} = {p \in plan : PlannedBefore(p, o)}
    BY <1>1
  <2> HIDE DEF R
  <2> QED BY <2>1 DEF Ranked
<1> HIDE DEF R
<1>3. /\ n \in Nat
      /\ \A k \in 1 .. n : \E o \in plan : Ranked(plan, R, o) = k - 1
  <2>1. Order(plan, R)
    BY <1>1 DEF Order
  <2> QED BY <2>1, Ranks
<1>4. ASSUME NEW k \in 1 .. n
      PROVE  PlanOrder(plan)[k] \in plan /\ Ranked(plan, R, PlanOrder(plan)[k]) = k - 1
  <2>1. PICK o \in plan : Ranked(plan, R, o) = k - 1
    BY <1>3
  <2> DEFINE is(c) == Cardinality({p \in plan : PlannedBefore(p, c)}) = k - 1
  <2>2. is(o)
    BY <1>2, <2>1
  <2>3. PlanOrder(plan)[k] = CHOOSE c \in plan : is(c)
    BY DEF PlanOrder
  <2>4. ASSUME NEW c \in plan, is(c) PROVE Ranked(plan, R, c) = k - 1
    BY <1>2, <2>4
  <2> HIDE DEF is
  <2>5. PlanOrder(plan)[k] \in plan /\ is(PlanOrder(plan)[k])
    BY <2>2, <2>3
  <2> QED BY <2>4, <2>5
<1>5. ASSUME NEW k \in 1 .. n, NEW l \in 1 .. n, PlanOrder(plan)[k] = PlanOrder(plan)[l] PROVE k = l
  <2>1. k - 1 = l - 1
    BY <1>4, <1>5
  <2> QED BY <1>3, <2>1
<1> QED BY <1>3, <1>4, <1>5

(* And so does the k-th of a set of numbers, and every one of it is one.   *)
OfNumbers(S) == \A i \in S : i \in Nat

LEMMA NumberRanks ==
  ASSUME NEW S, IsFiniteSet(S), OfNumbers(S)
  PROVE  /\ Cardinality(S) \in Nat
         /\ \A k \in 1 .. Cardinality(S) : Nth(S, k) \in S /\ Cardinality({i \in S : i < Nth(S, k)}) = k - 1
         /\ \A f \in S : \E k \in 1 .. Cardinality(S) :
              /\ Nth(S, k) = f
              /\ \A l \in 1 .. Cardinality(S) : Nth(S, l) = f => l = k
<1> DEFINE R == {w \in S \X S : w[1] < w[2]}
           n == Cardinality(S)
<1>1. \A f, g \in S : <<f, g>> \in R <=> f < g
  OBVIOUS
<1>2. ASSUME NEW f \in S PROVE Ranked(S, R, f) = Cardinality({g \in S : g < f})
  <2>1. {g \in S : <<g, f>> \in R} = {g \in S : g < f}
    BY <1>1
  <2> HIDE DEF R
  <2> QED BY <2>1 DEF Ranked
<1> HIDE DEF R
<1>3. /\ n \in Nat
      /\ \A f \in S : Ranked(S, R, f) \in 0 .. n - 1
      /\ \A f, g \in S : Ranked(S, R, f) = Ranked(S, R, g) => f = g
      /\ \A k \in 1 .. n : \E f \in S : Ranked(S, R, f) = k - 1
  <2>1. Order(S, R)
    BY <1>1 DEF Order, OfNumbers
  <2> QED BY <2>1, Ranks
<1>4. ASSUME NEW k \in 1 .. n
      PROVE  Nth(S, k) \in S /\ Ranked(S, R, Nth(S, k)) = k - 1
  <2>1. PICK f \in S : Ranked(S, R, f) = k - 1
    BY <1>3
  <2>2. Cardinality({g \in S : g < f}) = k - 1
    BY <1>2, <2>1
  <2>3. Nth(S, k) \in S /\ Cardinality({g \in S : g < Nth(S, k)}) = k - 1
    BY <2>2 DEF Nth
  <2> QED BY <1>2, <2>3
<1>5. ASSUME NEW f \in S
      PROVE  \E k \in 1 .. n : Nth(S, k) = f /\ \A l \in 1 .. n : Nth(S, l) = f => l = k
  <2> DEFINE r == Ranked(S, R, f)
  <2>1. r \in 0 .. n - 1
    BY <1>3
  <2>2. r + 1 \in 1 .. n /\ (r + 1) - 1 = r
    BY <1>3, <2>1
  <2>3. Nth(S, r + 1) = f
    BY <1>3, <1>4, <2>2
  <2>4. ASSUME NEW l \in 1 .. n, Nth(S, l) = f PROVE l = r + 1
    <3>1. r = l - 1
      BY <1>4, <2>4
    <3> QED BY <1>3, <3>1
  <2> QED BY <2>2, <2>3, <2>4
<1>6. ASSUME NEW k \in 1 .. n
      PROVE  Cardinality({i \in S : i < Nth(S, k)}) = k - 1
  BY <1>2, <1>4
<1> QED BY <1>3, <1>4, <1>5, <1>6

LEMMA MembersAreNumbers == Member \subseteq Nat \ {Nobody} /\ IsFiniteSet(Member)
BY ClubRecordsAssumption DEF ClubRecordsAssumption

(* A plan is a finite set of obligations of live members; they do not      *)
(* overlap each other or what is charged already, and come in an order     *)
(* (planFeeRun).                                                           *)
LEMMA PlanHolds ==
  ASSUME ModelsInv, NEW from \in Nat \ {0}, NEW to \in Nat, NEW plan, plan = Plan(from, to)
  PROVE  /\ \A o \in plan : /\ o.member \in LiveMembers
                            /\ \A c \in Charged(o.member) : ~ Overlaps(o.period, c)
         /\ \A o, p \in plan : o # p /\ o.member = p.member => ~ Overlaps(o.period, p.period)
         /\ Cardinality(plan) \in Nat
         /\ \A k \in 1 .. Cardinality(plan) : PlanOrder(plan)[k] \in plan
         /\ \A k, l \in 1 .. Cardinality(plan) : PlanOrder(plan)[k] = PlanOrder(plan)[l] => k = l
<1>1. ASSUME NEW o \in plan
      PROVE  /\ o.member \in LiveMembers
             /\ o \in Owed(o.member, from, to)
             /\ \A c \in Charged(o.member) : ~ Overlaps(o.period, c)
             /\ o.period.start \in from .. to
  <2>1. PICK m \in LiveMembers : o \in Owed(m, from, to)
    BY DEF Plan
  <2>2. o.member = m /\ o.period.start \in from .. to
    BY <2>1, OwedIs
  <2> QED BY <2>1, <2>2 DEF Plan
<1>2. ASSUME NEW o \in plan, NEW p \in plan, o # p, o.member = p.member
      PROVE  o.period.start # p.period.start /\ ~ Overlaps(o.period, p.period)
  <2>1. o \in Owed(o.member, from, to) /\ p \in Owed(o.member, from, to)
    BY <1>1, <1>2
  <2> QED BY <1>2, <2>1, OwedApart
<1>3. ASSUME NEW o \in plan PROVE o.member \in Nat /\ o.period.start \in Nat
  <2>1. o.member \in Member
    BY <1>1 DEF LiveMembers
  <2>2. o.period.start \in from .. to
    BY <1>1
  <2>3. o.member \in Nat
    BY <2>1, MembersAreNumbers
  <2>4. o.period.start \in Nat
    BY <2>2
  <2> QED BY <2>3, <2>4
<1>4. IsFiniteSet(plan)
  <2> DEFINE key == [o \in plan |-> <<o.member, o.period.start>>]
             T == Member \X (from .. to)
  <2>1. IsFiniteSet(T)
    <3>1. IsFiniteSet(Member) /\ IsFiniteSet(from .. to)
      BY MembersAreNumbers, FS_Interval
    <3> QED BY <3>1, FS_Product
  <2>2. key \in [plan -> T]
    <3>1. ASSUME NEW o \in plan PROVE <<o.member, o.period.start>> \in T
      BY <1>1 DEF LiveMembers
    <3> QED BY <3>1
  <2>3. ASSUME NEW o \in plan, NEW p \in plan, key[o] = key[p] PROVE o = p
    <3>1. o.member = p.member /\ o.period.start = p.period.start
      BY <2>3
    <3> QED BY <1>2, <3>1
  <2>4. key \in Injection(plan, T)
    <3> HIDE DEF T
    <3> QED BY <2>2, <2>3 DEF Injection, IsInjective
  <2> HIDE DEF key, T
  <2> QED BY <2>1, <2>4, FS_Injection
<1>5. \A o, p \in plan : o # p => PlannedBefore(o, p) \/ PlannedBefore(p, o)
  BY <1>2, <1>3 DEF PlannedBefore
<1>6. \A o \in plan : ~ PlannedBefore(o, o)
  BY <1>3 DEF PlannedBefore
<1>7. \A o, p, q \in plan : PlannedBefore(o, p) /\ PlannedBefore(p, q) => PlannedBefore(o, q)
  <2> SUFFICES ASSUME NEW o \in plan, NEW p \in plan, NEW q \in plan, PlannedBefore(o, p), PlannedBefore(p, q)
               PROVE  PlannedBefore(o, q)
    OBVIOUS
  <2>1. /\ o.member \in Nat /\ o.period.start \in Nat /\ p.member \in Nat /\ p.period.start \in Nat
        /\ q.member \in Nat /\ q.period.start \in Nat
    BY <1>3
  <2> QED BY <2>1 DEF PlannedBefore
<1>8. /\ Cardinality(plan) \in Nat
      /\ \A k \in 1 .. Cardinality(plan) : PlanOrder(plan)[k] \in plan
      /\ \A k, l \in 1 .. Cardinality(plan) : PlanOrder(plan)[k] = PlanOrder(plan)[l] => k = l
  BY <1>4, <1>5, <1>6, <1>7, PlanRanks
<1> QED BY <1>1, <1>2, <1>8
-----------------------------------------------------------------------------
(* Tables whose rows are in the order of their ids.                        *)

Rows(s) == Len(s) \in Nat /\ s = [i \in 1 .. Len(s) |-> s[i]]

LEMMA RowsAreSeq ==
  ASSUME NEW s, Rows(s), NEW S, \A i \in 1 .. Len(s) : s[i] \in S
  PROVE  s \in Seq(S) /\ DOMAIN s = 1 .. Len(s) /\ Len(s) \in Nat
<1>1. Len(s) \in Nat /\ s \in [1 .. Len(s) -> S]
  BY DEF Rows
<1> QED BY <1>1

LEMMA SeqIsRows ==
  ASSUME NEW S, NEW s \in Seq(S)
  PROVE  Rows(s)
BY DEF Rows

LEMMA RowIds ==
  ASSUME NEW s, Rows(s)
  PROVE  DOMAIN s = 1 .. Len(s) /\ Len(s) \in Nat
BY DEF Rows

LEMMA EmptyRows == Rows(<< >>) /\ Len(<< >>) = 0 /\ DOMAIN << >> = {}
BY DEF Rows

(* A row is added at the end.                                              *)
Added(t, s, x) == t = Append(s, x)

LEMMA RowAdded ==
  ASSUME NEW s, Rows(s), NEW x, NEW t, Added(t, s, x)
  PROVE  /\ Rows(t) /\ DOMAIN s \subseteq DOMAIN t
         /\ \A i \in DOMAIN s : t[i] = s[i]
         /\ \A i \in DOMAIN t \ DOMAIN s : i = Len(s) + 1 /\ t[i] = x
<1> USE DEF Added
<1> DEFINE S == {s[i] : i \in 1 .. Len(s)} \cup {x}
<1>1. x \in S /\ \A i \in 1 .. Len(s) : s[i] \in S
  OBVIOUS
<1> HIDE DEF S
<1>3. s \in Seq(S) /\ DOMAIN s = 1 .. Len(s) /\ Len(s) \in Nat
  BY <1>1, RowsAreSeq
<1>2. t \in Seq(S) /\ Len(t) = Len(s) + 1 /\ t[Len(s) + 1] = x /\ \A i \in 1 .. Len(s) : t[i] = s[i]
  BY <1>1, <1>3
<1>4. Rows(t)
  BY <1>2, SeqIsRows
<1>5. DOMAIN t = 1 .. Len(s) + 1
  BY <1>2, <1>3, <1>4, RowIds
<1> QED BY <1>2, <1>3, <1>4, <1>5

(* Rows are added at the end.                                              *)
Joined(t, s, f) == t = s \o f
Numbered(f, n) == f = [k \in 1 .. n |-> f[k]]

LEMMA RowsAdded ==
  ASSUME NEW s, Rows(s), NEW n \in Nat, NEW f, Numbered(f, n), NEW t, Joined(t, s, f)
  PROVE  /\ Rows(t) /\ DOMAIN s \subseteq DOMAIN t
         /\ \A i \in DOMAIN s : t[i] = s[i]
         /\ \A i \in DOMAIN t \ DOMAIN s : \E k \in 1 .. n : i = Len(s) + k /\ t[i] = f[k]
<1> DEFINE S == {s[i] : i \in 1 .. Len(s)} \cup {f[k] : k \in 1 .. n}
<1> USE DEF Joined
<1>1. s \in Seq(S) /\ DOMAIN s = 1 .. Len(s) /\ Len(s) \in Nat
  <2>1. \A i \in 1 .. Len(s) : s[i] \in S
    OBVIOUS
  <2> HIDE DEF S
  <2> QED BY <2>1, RowsAreSeq
<1>2. f \in Seq(S) /\ Len(f) = n
  <2>1. f \in [1 .. n -> S]
    BY DEF Numbered
  <2> HIDE DEF S
  <2> QED BY <2>1
<1> HIDE DEF S
<1>3. t \in Seq(S) /\ Len(t) = Len(s) + n
  <2>1. s \in Seq(S)
    BY <1>1
  <2> QED BY <1>2, <2>1
<1>4. \A i \in 1 .. Len(s) : t[i] = s[i]
  BY <1>1, <1>2
<1>5. \A k \in 1 .. n : t[Len(s) + k] = f[k]
  BY <1>1, <1>2
<1>6. Rows(t)
  BY <1>3, SeqIsRows
<1>7. DOMAIN t = 1 .. Len(s) + n
  BY <1>3, <1>6, RowIds
<1>8. ASSUME NEW i \in DOMAIN t, i \notin DOMAIN s PROVE \E k \in 1 .. n : i = Len(s) + k
  <2>1. ASSUME NEW L \in Nat, i \in 1 .. L + n, i \notin 1 .. L PROVE \E k \in 1 .. n : i = L + k
    <3>1. i - L \in 1 .. n /\ i = L + (i - L)
      BY <2>1
    <3> QED BY <3>1
  <2> QED BY <1>1, <1>7, <1>8, <2>1
<1>9. 1 .. Len(s) \subseteq 1 .. Len(s) + n
  BY <1>1
<1> QED BY <1>1, <1>4, <1>5, <1>6, <1>7, <1>8, <1>9

LEMMA RowsAtEnd ==
  ASSUME NEW s, Rows(s), NEW n \in Nat, NEW f, Numbered(f, n), NEW t, Joined(t, s, f)
  PROVE  \A k \in 1 .. n : Len(s) + k \in DOMAIN t /\ t[Len(s) + k] = f[k]
<1> DEFINE S == {s[i] : i \in 1 .. Len(s)} \cup {f[k] : k \in 1 .. n}
<1> USE DEF Joined
<1>1. \A i \in 1 .. Len(s) : s[i] \in S
  OBVIOUS
<1>2. f \in [1 .. n -> S]
  BY DEF Numbered
<1> HIDE DEF S
<1>3. s \in Seq(S) /\ Len(s) \in Nat
  BY <1>1, RowsAreSeq
<1>4. f \in Seq(S) /\ Len(f) = n
  BY <1>2
<1>5. t \in Seq(S) /\ Len(t) = Len(s) + n
  <2>1. s \in Seq(S)
    BY <1>3
  <2> QED BY <1>4, <2>1
<1>7. \A k \in 1 .. n : t[Len(s) + k] = f[k]
  BY <1>3, <1>4
<1>6. \A k \in 1 .. n : Len(s) + k \in 1 .. Len(t)
  BY <1>3, <1>5
<1> QED BY <1>5, <1>6, <1>7

(* Rows are changed in place.                                              *)
LEMMA RowsChanged ==
  ASSUME NEW s, Rows(s), NEW t, t = [i \in DOMAIN s |-> t[i]]
  PROVE  Rows(t) /\ Len(t) = Len(s) /\ DOMAIN t = DOMAIN s
<1>1. DOMAIN s = 1 .. Len(s) /\ Len(s) \in Nat
  BY RowIds
<1> DEFINE S == {t[i] : i \in 1 .. Len(s)}
<1>2. t \in [1 .. Len(s) -> S]
  BY <1>1
<1>3. t \in Seq(S) /\ Len(t) = Len(s)
  <2> HIDE DEF S
  <2> QED BY <1>1, <1>2
<1> QED BY <1>1, <1>3, SeqIsRows
-----------------------------------------------------------------------------
(* Fees.                                                                   *)

FeeRow(r) ==
  /\ DOMAIN r = {"member", "amount", "due", "paid", "live", "run", "period", "chargedTo"}
  /\ r = [x \in DOMAIN r |-> r[x]]

(* Live fees are owed by live members, and those of billing runs do not    *)
(* overlap.                                                                *)
FeesInv ==
  /\ Rows(fees)
  /\ \A f \in DOMAIN fees : FeeRow(fees[f])
  /\ \A f \in LiveFees : fees[f].member \in LiveMembers
  /\ ChargedOnce

(* What an operation may do to a fee without charging its member again.    *)
Follows(r, old) ==
  /\ FeeRow(r)
  /\ r.period = old.period /\ r.chargedTo = old.chargedTo /\ r.run \in {0, old.run}
  /\ r.live => old.live

LEMMA FeesStay ==
  ASSUME FeesInv, fees' = [f \in DOMAIN fees |-> fees'[f]],
         \A f \in DOMAIN fees : /\ Follows(fees'[f], fees[f])
                                /\ fees'[f].live => fees'[f].member \in LiveMembers'
  PROVE  FeesInv'
<1>1. Rows(fees)' /\ DOMAIN fees' = DOMAIN fees
  BY RowsChanged DEF FeesInv
<1>2. \A f \in DOMAIN fees' : FeeRow(fees'[f])
  BY <1>1 DEF Follows
<1>3. \A f \in LiveFees' : fees'[f].member \in LiveMembers'
  BY <1>1 DEF LiveFees
<1>4. ChargedOnce'
  <2> SUFFICES ASSUME NEW m \in Member, NEW f \in ChargedTo(m)', NEW g \in ChargedTo(m)', f # g
               PROVE  ~ Overlaps(fees'[f].period, fees'[g].period)
    BY DEF ChargedOnce
  <2>1. ASSUME NEW h \in ChargedTo(m)' PROVE h \in ChargedTo(m) /\ fees'[h].period = fees[h].period
    BY <1>1, <2>1 DEF ChargedTo, LiveFees, Follows
  <2>2. f \in ChargedTo(m) /\ g \in ChargedTo(m) /\ fees'[f].period = fees[f].period /\ fees'[g].period = fees[g].period
    BY <2>1
  <2> QED BY <2>2 DEF FeesInv, ChargedOnce
<1> QED BY <1>1, <1>2, <1>3, <1>4 DEF FeesInv

(* Settling, confirming and reopening only change paid dates.              *)
LEMMA OnlyPaid ==
  ASSUME FeesInv, LiveMembers \subseteq LiveMembers', fees' = [f \in DOMAIN fees |-> fees'[f]],
         \A f \in DOMAIN fees : fees'[f] = fees[f] \/ \E date : fees'[f] = [fees[f] EXCEPT !.paid = date]
  PROVE  FeesInv'
<1>1. ASSUME NEW f \in DOMAIN fees
      PROVE  Follows(fees'[f], fees[f]) /\ (fees'[f].live => fees'[f].member \in LiveMembers')
  <2>1. FeeRow(fees[f]) /\ (fees[f].live => fees[f].member \in LiveMembers')
    BY DEF FeesInv, LiveFees
  <2>2. ASSUME NEW date, fees'[f] = [fees[f] EXCEPT !.paid = date]
        PROVE  Follows(fees'[f], fees[f]) /\ (fees'[f].live => fees'[f].member \in LiveMembers')
    BY <2>1, <2>2 DEF Follows, FeeRow
  <2>3. CASE fees'[f] = fees[f]
    BY <2>1, <2>3 DEF Follows, FeeRow
  <2> QED BY <2>2, <2>3
<1> QED BY <1>1, FeesStay

LEMMA SameFees ==
  ASSUME FeesInv, LiveMembers \subseteq LiveMembers', UNCHANGED fees
  PROVE  FeesInv'
<1>1. fees' = [f \in DOMAIN fees |-> fees'[f]]
  BY DEF FeesInv, Rows
<1>2. ASSUME NEW f \in DOMAIN fees
      PROVE  Follows(fees'[f], fees[f]) /\ (fees'[f].live => fees'[f].member \in LiveMembers')
  BY DEF Follows, FeesInv, LiveFees
<1> QED BY <1>1, <1>2, FeesStay

(* A billing run charges what it planned, to live members.                 *)
LEMMA RunCharges ==
  ASSUME FeesInv, ModelsInv, NEW range \in Ranges, CreateFeeRun(range.from, range.to), UNCHANGED LiveMembers,
         Len(runs) \in Nat
  PROVE  FeesInv'
<1> DEFINE from == range.from
           to == range.to
<1>1. from \in Nat \ {0} /\ to \in Nat
  BY FeeLedgerAssumption DEF FeeLedgerAssumption
<1> HIDE DEF from, to
<1>2. PICK plan \in {Plan(from, to)} :
        fees' = fees \o [k \in 1 .. Cardinality(plan) |->
                           LET o == PlanOrder(plan)[k]
                           IN NewFee(o.member, Amount(models[o.model], o.period, Facts(o.member)),
                                     Max({from, o.period.start}), Len(runs) + 1, o.period)]
  BY DEF CreateFeeRun, from, to
<1> DEFINE n == Cardinality(plan)
           at(k) == PlanOrder(plan)[k]
           new == [k \in 1 .. n |-> LET o == at(k)
                                    IN NewFee(o.member, Amount(models[o.model], o.period, Facts(o.member)),
                                              Max({from, o.period.start}), Len(runs) + 1, o.period)]
<1>3. /\ \A o \in plan : /\ o.member \in LiveMembers
                         /\ \A c \in Charged(o.member) : ~ Overlaps(o.period, c)
      /\ \A o, p \in plan : o # p /\ o.member = p.member => ~ Overlaps(o.period, p.period)
      /\ n \in Nat
      /\ \A k \in 1 .. n : at(k) \in plan
      /\ \A k, l \in 1 .. n : at(k) = at(l) => k = l
  BY <1>1, PlanHolds
<1>4. ASSUME NEW k \in 1 .. n
      PROVE  /\ FeeRow(new[k]) /\ new[k].live /\ new[k].run # 0
             /\ new[k].member = at(k).member /\ new[k].chargedTo = at(k).member /\ new[k].period = at(k).period
  BY DEF NewFee, FeeRow
<1>5. Numbered(new, n) /\ Joined(fees', fees, new)
  BY <1>2 DEF Numbered, Joined
<1> HIDE DEF new, at, n
<1>6. /\ Rows(fees') /\ DOMAIN fees \subseteq DOMAIN fees'
      /\ \A f \in DOMAIN fees : fees'[f] = fees[f]
      /\ \A f \in DOMAIN fees' \ DOMAIN fees : \E k \in 1 .. n : f = Len(fees) + k /\ fees'[f] = new[k]
  <2>1. Rows(fees) /\ n \in Nat
    BY <1>3 DEF FeesInv
  <2> QED BY <1>5, <2>1, RowsAdded
<1>7. \A f \in DOMAIN fees' : FeeRow(fees'[f])
  BY <1>4, <1>6 DEF FeesInv
<1>8. \A f \in LiveFees' : fees'[f].member \in LiveMembers'
  <2> SUFFICES ASSUME NEW f \in DOMAIN fees', fees'[f].live PROVE fees'[f].member \in LiveMembers
    BY DEF LiveFees
  <2>1. CASE f \in DOMAIN fees
    BY <1>6, <2>1 DEF FeesInv, LiveFees
  <2>2. ASSUME NEW k \in 1 .. n, fees'[f] = new[k] PROVE fees'[f].member \in LiveMembers
    <3>1. at(k).member \in LiveMembers
      BY <1>3
    <3>2. fees'[f].member = at(k).member
      BY <1>4, <1>6, <2>2
    <3> QED BY <3>1, <3>2
  <2> QED BY <1>6, <2>1, <2>2
<1>9. ASSUME NEW m \in Member, NEW f \in ChargedTo(m)', NEW g \in ChargedTo(m)', f # g
      PROVE  ~ Overlaps(fees'[f].period, fees'[g].period)
  <2>1. ASSUME NEW h \in ChargedTo(m)'
        PROVE  \/ h \in ChargedTo(m) /\ fees'[h].period = fees[h].period /\ fees[h].period \in Charged(m)
               \/ /\ h \notin DOMAIN fees
                  /\ \E k \in 1 .. n : h = Len(fees) + k /\ at(k).member = m /\ fees'[h].period = at(k).period
    <3>1. h \in DOMAIN fees' /\ fees'[h].live /\ fees'[h].run # 0 /\ fees'[h].chargedTo = m
      BY <2>1 DEF ChargedTo, LiveFees
    <3>2. CASE h \in DOMAIN fees
      <4>1. fees'[h] = fees[h]
        BY <1>6, <3>2
      <4>2. h \in ChargedTo(m) /\ fees[h].period \in Charged(m)
        BY <3>1, <3>2, <4>1 DEF ChargedTo, LiveFees, Charged
      <4>3. QED
        BY <4>1, <4>2
    <3>3. CASE h \notin DOMAIN fees
      <4>1. PICK k \in 1 .. n : h = Len(fees) + k /\ fees'[h] = new[k]
        BY <1>6, <3>1, <3>3
      <4>2. new[k].chargedTo = at(k).member /\ new[k].period = at(k).period
        BY <1>4
      <4>3. at(k).member = m /\ fees'[h].period = at(k).period
        BY <3>1, <4>1, <4>2
      <4>4. QED
        BY <3>3, <4>1, <4>3
    <3>4. QED
      BY <3>2, <3>3
  <2>2. CASE f \in DOMAIN fees /\ g \in DOMAIN fees
    <3>1. f \in ChargedTo(m) /\ g \in ChargedTo(m) /\ fees'[f].period = fees[f].period /\ fees'[g].period = fees[g].period
      BY <1>9, <2>1, <2>2
    <3> QED BY <1>9, <3>1 DEF FeesInv, ChargedOnce
  <2>3. ASSUME NEW c \in Charged(m), NEW k \in 1 .. n, at(k).member = m
        PROVE  ~ Overlaps(c, at(k).period) /\ ~ Overlaps(at(k).period, c)
    BY <1>3, <2>3 DEF Overlaps
  <2>4. ASSUME NEW k \in 1 .. n, NEW l \in 1 .. n, at(k).member = m, at(l).member = m, k # l
        PROVE  ~ Overlaps(at(k).period, at(l).period)
    BY <1>3, <2>4
  <2>5. CASE ~ (f \in DOMAIN fees /\ g \in DOMAIN fees)
    <3>1. \/ f \in ChargedTo(m) /\ fees'[f].period = fees[f].period /\ fees[f].period \in Charged(m)
          \/ \E k \in 1 .. n : f = Len(fees) + k /\ at(k).member = m /\ fees'[f].period = at(k).period
      BY <2>1
    <3>2. \/ g \in ChargedTo(m) /\ fees'[g].period = fees[g].period /\ fees[g].period \in Charged(m)
          \/ \E k \in 1 .. n : g = Len(fees) + k /\ at(k).member = m /\ fees'[g].period = at(k).period
      BY <2>1
    <3>3. ChargedTo(m) \subseteq DOMAIN fees
      BY DEF ChargedTo, LiveFees
    <3> QED BY <1>9, <2>3, <2>4, <2>5, <3>1, <3>2, <3>3
  <2> QED BY <2>2, <2>5
<1>10. ChargedOnce'
  BY <1>9 DEF ChargedOnce
<1> QED BY <1>6, <1>7, <1>8, <1>10 DEF FeesInv

LEMMA FeeByHand ==
  ASSUME FeesInv, UNCHANGED LiveMembers, NEW m, NEW amount, NEW paid, CreateFee(m, amount, paid)
  PROVE  FeesInv'
<1> DEFINE row == [NewFee(m, amount, 1, 0, NoPeriod) EXCEPT !.paid = paid]
<1>1. FeeRow(row) /\ row.run = 0 /\ row.member = m /\ m \in LiveMembers
  BY DEF NewFee, FeeRow, CreateFee
<1>2. Added(fees', fees, row) /\ Rows(fees)
  BY DEF CreateFee, FeesInv, Added
<1> HIDE DEF row
<1>3. /\ Rows(fees') /\ DOMAIN fees \subseteq DOMAIN fees'
      /\ \A f \in DOMAIN fees : fees'[f] = fees[f]
      /\ \A f \in DOMAIN fees' \ DOMAIN fees : f = Len(fees) + 1 /\ fees'[f] = row
  BY <1>2, RowAdded
<1>4. \A f \in DOMAIN fees' : FeeRow(fees'[f])
  BY <1>1, <1>3 DEF FeesInv
<1>5. \A f \in LiveFees' : fees'[f].member \in LiveMembers'
  BY <1>1, <1>3 DEF LiveFees, FeesInv
<1>6. ASSUME NEW n \in Member, NEW f \in ChargedTo(n)'
      PROVE  f \in ChargedTo(n) /\ fees'[f].period = fees[f].period
  BY <1>1, <1>3, <1>6 DEF ChargedTo, LiveFees
<1>7. ChargedOnce'
  BY <1>6 DEF ChargedOnce, FeesInv
<1> QED BY <1>3, <1>4, <1>5, <1>7 DEF FeesInv

(* An operation that leaves fees as they are or deletes them.              *)
LEMMA OnlyDeleted ==
  ASSUME FeesInv, LiveMembers \subseteq LiveMembers', fees' = [f \in DOMAIN fees |-> fees'[f]],
         \A f \in DOMAIN fees : fees'[f] = fees[f] \/ \E stays : fees'[f] = [fees[f] EXCEPT !.live = stays] /\ (stays => fees[f].live)
  PROVE  FeesInv'
<1>1. ASSUME NEW f \in DOMAIN fees
      PROVE  Follows(fees'[f], fees[f]) /\ (fees'[f].live => fees'[f].member \in LiveMembers')
  <2>1. FeeRow(fees[f]) /\ (fees[f].live => fees[f].member \in LiveMembers')
    BY DEF FeesInv, LiveFees
  <2>2. CASE fees'[f] = fees[f]
    BY <2>1, <2>2 DEF Follows
  <2>3. ASSUME NEW stays, fees'[f] = [fees[f] EXCEPT !.live = stays], stays => fees[f].live
        PROVE  Follows(fees'[f], fees[f]) /\ (fees'[f].live => fees'[f].member \in LiveMembers')
    <3>1. FeeRow(fees'[f]) /\ fees'[f].live = stays /\ fees'[f].member = fees[f].member
          /\ fees'[f].period = fees[f].period /\ fees'[f].chargedTo = fees[f].chargedTo /\ fees'[f].run = fees[f].run
      BY <2>1, <2>3 DEF FeeRow
    <3> QED BY <2>1, <2>3, <3>1 DEF Follows
  <2> QED BY <2>2, <2>3
<1> QED BY <1>1, FeesStay

LEMMA FeeEdited ==
  ASSUME FeesInv, UNCHANGED LiveMembers, UpdateFee
  PROVE  FeesInv'
<1>1. CASE form.fee \in LiveFees /\ form.member \in LiveMembers
  <2> DEFINE k == form.fee
             row == [fees[k] EXCEPT !.member = form.member, !.amount = form.amount, !.paid = form.paid]
  <2>1. fees' = [fees EXCEPT ![k] = row] /\ k \in DOMAIN fees
    BY <1>1 DEF UpdateFee, LiveFees
  <2>2. FeeRow(fees[k]) /\ fees[k].live
    BY <1>1 DEF FeesInv, LiveFees
  <2>3. Follows(row, fees[k]) /\ row.member = form.member
    BY <2>2 DEF Follows, FeeRow
  <2> HIDE DEF row, k
  <2>4. fees' = [f \in DOMAIN fees |-> fees'[f]]
    BY <2>1
  <2>5. ASSUME NEW f \in DOMAIN fees
        PROVE  Follows(fees'[f], fees[f]) /\ (fees'[f].live => fees'[f].member \in LiveMembers')
    <3>1. CASE f = k
      BY <1>1, <2>1, <2>3, <3>1
    <3>2. CASE f # k
      <4>1. fees'[f] = fees[f]
        BY <2>1, <3>2
      <4> QED BY <4>1 DEF Follows, FeesInv, LiveFees
    <3> QED BY <3>1, <3>2
  <2> QED BY <2>4, <2>5, FeesStay
<1>2. CASE ~ (form.fee \in LiveFees /\ form.member \in LiveMembers)
  BY <1>2, SameFees DEF UpdateFee
<1> QED BY <1>1, <1>2

(* Deleting a member deletes its fees and unlinks those charged to it.     *)
LEMMA FeesOfDeleted ==
  ASSUME FeesInv, NEW m \in Member, DeleteFinancesOf(m), LiveMembers' = LiveMembers \ {m}
  PROVE  FeesInv'
<1>1. fees' = [f \in DOMAIN fees |-> [fees[f] EXCEPT !.live = @ /\ fees[f].member # m,
                                                    !.run = IF fees[f].chargedTo = m THEN 0 ELSE @]]
  BY DEF DeleteFinancesOf
<1>2. fees' = [f \in DOMAIN fees |-> fees'[f]]
  BY <1>1
<1>3. ASSUME NEW f \in DOMAIN fees
      PROVE  Follows(fees'[f], fees[f]) /\ (fees'[f].live => fees'[f].member \in LiveMembers')
  <2>1. FeeRow(fees[f]) /\ (fees[f].live => fees[f].member \in LiveMembers)
    BY DEF FeesInv, LiveFees
  <2>2. fees'[f] = [fees[f] EXCEPT !.live = fees[f].live /\ fees[f].member # m,
                                   !.run = IF fees[f].chargedTo = m THEN 0 ELSE fees[f].run]
    BY <1>1
  <2>3. /\ FeeRow(fees'[f]) /\ fees'[f].live = (fees[f].live /\ fees[f].member # m)
        /\ fees'[f].member = fees[f].member /\ fees'[f].run = (IF fees[f].chargedTo = m THEN 0 ELSE fees[f].run)
        /\ fees'[f].period = fees[f].period /\ fees'[f].chargedTo = fees[f].chargedTo
    BY <2>1, <2>2 DEF FeeRow
  <2> QED BY <2>1, <2>3 DEF Follows
<1> QED BY <1>2, <1>3, FeesStay

(* What a request does to fees: charges a run, adds, edits or deletes some,*)
(* or changes when they were paid.                                         *)
LEMMA FeeSteps ==
  ASSUME FeesNext, Rows(fees)
  PROVE  \/ UNCHANGED fees
         \/ \E range \in Ranges : CreateFeeRun(range.from, range.to)
         \/ \E m, paid : \E amount \in Amounts : CreateFee(m, amount, paid)
         \/ UpdateFee
         \/ /\ fees' = [f \in DOMAIN fees |-> fees'[f]]
            /\ \A f \in DOMAIN fees : fees'[f] = fees[f] \/ \E stays : fees'[f] = [fees[f] EXCEPT !.live = stays] /\ (stays => fees[f].live)
         \/ /\ fees' = [f \in DOMAIN fees |-> fees'[f]]
            /\ \A f \in DOMAIN fees : fees'[f] = fees[f] \/ \E date : fees'[f] = [fees[f] EXCEPT !.paid = date]
<1> DEFINE SomeDeleted ==
             /\ fees' = [f \in DOMAIN fees |-> fees'[f]]
             /\ \A f \in DOMAIN fees : fees'[f] = fees[f] \/ \E stays : fees'[f] = [fees[f] EXCEPT !.live = stays] /\ (stays => fees[f].live)
           SomePaid ==
             /\ fees' = [f \in DOMAIN fees |-> fees'[f]]
             /\ \A f \in DOMAIN fees : fees'[f] = fees[f] \/ \E date : fees'[f] = [fees[f] EXCEPT !.paid = date]
<1>1. CASE ModelRequest
  BY <1>1 DEF ModelRequest, CreateFeeModel, UpdateFeeModel, WriteModel, DeleteFeeModel
<1>2. CASE AssignmentRequest
  BY <1>2 DEF AssignmentRequest, SetFeeAssignment
<1>3. ASSUME NEW r \in DOMAIN runs, DeleteFeeRun(r) PROVE SomeDeleted
  <2> DEFINE open == {f \in FeesOfRun(r) : fees[f].paid = 0}
  <2>1. fees' = [f \in DOMAIN fees |-> [fees[f] EXCEPT !.live = @ /\ f \notin open]]
    BY <1>3 DEF DeleteFeeRun
  <2> HIDE DEF open
  <2>2. ASSUME NEW f \in DOMAIN fees
        PROVE  \E stays : fees'[f] = [fees[f] EXCEPT !.live = stays] /\ (stays => fees[f].live)
    <3>1. fees'[f] = [fees[f] EXCEPT !.live = fees[f].live /\ f \notin open]
      BY <2>1
    <3> QED BY <3>1
  <2> QED BY <2>1, <2>2
<1>4. CASE RunRequest
  BY <1>3, <1>4 DEF RunRequest
<1>5. ASSUME NEW g \in DOMAIN fees, DeleteFee(g) PROVE SomeDeleted
  <2>1. fees' = [fees EXCEPT ![g].live = FALSE]
    BY <1>5 DEF DeleteFee
  <2>2. ASSUME NEW f \in DOMAIN fees
        PROVE  fees'[f] = fees[f] \/ \E stays : fees'[f] = [fees[f] EXCEPT !.live = stays] /\ (stays => fees[f].live)
    <3>1. CASE f = g
      BY <2>1, <3>1
    <3>2. CASE f # g
      BY <2>1, <3>2
    <3> QED BY <3>1, <3>2
  <2> QED BY <2>1, <2>2
<1>6. ASSUME ResetFinance PROVE SomeDeleted
  <2>1. fees' = [f \in DOMAIN fees |-> [fees[f] EXCEPT !.live = FALSE]]
    BY <1>6 DEF ResetFinance
  <2> QED BY <2>1
<1>7. CASE FeeRequest
  <2>1. CASE \E m \in Member, amount \in Amounts, paid \in {0} \cup Dates :
               CreateFee(m, amount, paid) \/ \E f \in DOMAIN fees : LoadFee(f, m, amount, paid)
    BY <2>1 DEF LoadFee
  <2>2. CASE \E f \in DOMAIN fees : DeleteFee(f)
    BY <1>5, <2>2
  <2>3. CASE ResetFinance
    BY <1>6, <2>3
  <2> QED BY <1>7, <2>1, <2>2, <2>3 DEF FeeRequest
<1>8. CASE MandateRequest
  BY <1>8 DEF MandateRequest, SetSEPACreditor, SetMandateReference
<1>9. ASSUME NEW d, NEW date, ConfirmSEPARun(d, date) PROVE SomePaid
  BY <1>9 DEF ConfirmSEPARun
<1>10. CASE CollectionRequest
  <2>1. CASE \E fs \in SUBSET {f \in DOMAIN fees : Collectable(f)} : CreateSEPARun(fs)
    BY <2>1 DEF CreateSEPARun
  <2>2. CASE \E d \in DOMAIN debits : CancelSEPARun(d)
    BY <2>2 DEF CancelSEPARun
  <2>3. CASE \E d \in DOMAIN debits : \E date \in Dates : ConfirmSEPARun(d, date)
    BY <1>9, <2>3
  <2> QED BY <1>10, <2>1, <2>2, <2>3 DEF CollectionRequest
<1>11. CASE ImportRequest
  BY <1>11 DEF ImportRequest, ImportTransaction
<1>12. ASSUME NEW t, fees' = WithoutTx(fees, links, t) PROVE SomePaid
  BY <1>12 DEF WithoutTx
<1>13. CASE TransactionRequest
  BY <1>12, <1>13 DEF TransactionRequest, UpdateTransaction, DeleteTransaction
<1>14. ASSUME NEW t, NEW alloc, Confirm(t, alloc) PROVE SomePaid
  BY <1>14 DEF Confirm, SettleAll
<1>15. CASE ReconciliationRequest
  BY <1>12, <1>14, <1>15 DEF ReconciliationRequest, ConfirmReconciliation, DismissReconciliation, ReopenReconciliation, StartCertain
<1>16. CASE MatchCertain
  BY <1>16 DEF MatchCertain
<1>17. CASE ConfirmCertain
  BY <1>14, <1>17 DEF ConfirmCertain
<1> QED BY <1>1, <1>2, <1>4, <1>7, <1>8, <1>10, <1>11, <1>13, <1>15, <1>16, <1>17 DEF FeesNext
-----------------------------------------------------------------------------
(* People and households.                                                  *)

ContactRow(c) ==
  /\ DOMAIN c = {"live", "email", "address"} /\ c = [x \in DOMAIN c |-> c[x]]
  /\ c.live \in BOOLEAN
BankRow(b) ==
  /\ DOMAIN b = {"live", "account"} /\ b = [x \in DOMAIN b |-> b[x]]
  /\ b.live \in BOOLEAN
HouseRow(h) ==
  /\ DOMAIN h = {"state", "payer", "address", "bank"} /\ h = [x \in DOMAIN h |-> h[x]]
  /\ h.payer \in Member \cup {Nobody} /\ h.address \in BOOLEAN /\ h.bank \in BOOLEAN

(* Writing and copying contact data and bank details.                      *)
LEMMA ContactWritten ==
  ASSUME NEW r, ContactRow(r), NEW c \in Contacts
  PROVE  ContactRow(WrittenContact(r, c))
<1>1. CASE c = NoContact
  BY <1>1 DEF WrittenContact, ContactRow
<1>2. CASE c # NoContact
  BY <1>2 DEF WrittenContact, ContactRow
<1> QED BY <1>1, <1>2

LEMMA BankWritten ==
  ASSUME NEW r, BankRow(r), NEW account
  PROVE  BankRow(WrittenBank(r, account))
BY DEF WrittenBank, BankRow

Address(r) == IF r.live THEN r.address ELSE 0
Account(r) == IF r.live THEN r.account ELSE 0

LEMMA AddressCopied ==
  ASSUME NEW r, ContactRow(r), NEW address
  PROVE  ContactRow(CopyAddress(r, address)) /\ Address(CopyAddress(r, address)) = address
<1>1. CASE r.live
  BY <1>1 DEF CopyAddress, ContactRow, Address
<1>2. CASE ~ r.live /\ address = 0
  BY <1>2 DEF CopyAddress, ContactRow, Address
<1>3. CASE ~ r.live /\ address # 0
  BY <1>3 DEF CopyAddress, ContactRow, Address
<1> QED BY <1>1, <1>2, <1>3 DEF ContactRow

LEMMA BankCopied ==
  ASSUME NEW r, BankRow(r), NEW account
  PROVE  BankRow(CopyBank(r, account)) /\ Account(CopyBank(r, account)) = account
BY DEF CopyBank, WrittenBank, BankRow, Account

(* The live members of a household that shares something have the same.    *)
SameAddress(L, C, H, B) ==
  \A m, n \in L : Home(H, B, m) # 0 /\ Home(H, B, n) = Home(H, B, m) /\ H[Home(H, B, m)].address
                    => Address(C[m]) = Address(C[n])
SameAccount(L, A, H, B) ==
  \A m, n \in L : Home(H, B, m) # 0 /\ Home(H, B, n) = Home(H, B, m) /\ H[Home(H, B, m)].bank
                    => Account(A[m]) = Account(A[n])

LEMMA Agreement ==
  SharedDataAgrees <=> SameAddress(LiveMembers, contact, households, belongs)
                       /\ SameAccount(LiveMembers, bank, households, belongs)
BY DEF SharedDataAgrees, SameAddress, SameAccount, AddressIn, AccountIn, Address, Account

(* Sharing the data of a member makes those of its household agree, when   *)
(* those of all others did.                                                *)
LEMMA AddressShared ==
  ASSUME NEW C, \A n \in Member : ContactRow(C[n]), NEW H, NEW B, NEW source \in Member,
         \A m, n \in LiveMembers : /\ Home(H, B, m) # 0 /\ Home(H, B, n) = Home(H, B, m)
                                   /\ Home(H, B, m) # Home(H, B, source) /\ H[Home(H, B, m)].address
                                   => Address(C[m]) = Address(C[n])
  PROVE  LET D == ShareAddress(C, H, B, source)
         IN  /\ D = [n \in Member |-> D[n]]
             /\ \A n \in Member : ContactRow(D[n]) /\ (n \notin LiveMembers => D[n] = C[n])
             /\ SameAddress(LiveMembers, D, H, B)
<1> DEFINE D == ShareAddress(C, H, B, source)
           Copied(n) == n \in Receivers(H, B, source) /\ H[B[source]].address
<1>1. D = [n \in Member |-> IF Copied(n) THEN CopyAddress(C[n], AddressIn(C, source)) ELSE C[n]]
  BY DEF ShareAddress
<1>2. ASSUME NEW n \in Member
      PROVE  /\ Copied(n) => ContactRow(D[n]) /\ Address(D[n]) = Address(C[source])
             /\ ~ Copied(n) => ContactRow(D[n]) /\ D[n] = C[n]
  <2>1. Copied(n) => D[n] = CopyAddress(C[n], Address(C[source]))
    BY <1>1 DEF AddressIn, Address
  <2>2. ~ Copied(n) => D[n] = C[n]
    BY <1>1
  <2> HIDE DEF D, Copied
  <2> QED BY <2>1, <2>2, AddressCopied
<1>3. \A n \in Member : n \notin LiveMembers => ~ Copied(n)
  BY DEF Receivers
<1>4. ~ Copied(source)
  BY DEF Receivers
<1>5. ASSUME NEW m \in LiveMembers, NEW n \in LiveMembers, Home(H, B, m) # 0, Home(H, B, n) = Home(H, B, m),
             H[Home(H, B, m)].address
      PROVE  Address(D[m]) = Address(D[n])
  <2>1. m \in Member /\ n \in Member
    BY DEF LiveMembers
  <2>2. B[m] = Home(H, B, m) /\ B[n] = Home(H, B, m)
    BY <1>5 DEF Home
  <2>3. CASE Home(H, B, m) = Home(H, B, source)
    <3>1. B[source] = Home(H, B, m) /\ Home(H, B, source) # 0
      BY <1>5, <2>3 DEF Home
    <3>2. (m # source => Copied(m)) /\ (n # source => Copied(n))
      BY <1>5, <2>2, <3>1 DEF Receivers
    <3> HIDE DEF D, Copied
    <3> QED BY <1>2, <1>4, <2>1, <3>2
  <2>4. CASE Home(H, B, m) # Home(H, B, source)
    <3>1. ~ Copied(m) /\ ~ Copied(n)
      BY <2>2, <2>4 DEF Receivers, Home
    <3>2. D[m] = C[m] /\ D[n] = C[n]
      <4> HIDE DEF D, Copied
      <4> QED BY <1>2, <2>1, <3>1
    <3> QED BY <1>5, <2>4, <3>2
  <2> QED BY <2>3, <2>4
<1>6. D = [n \in Member |-> D[n]]
  BY <1>1
<1> HIDE DEF D, Copied
<1>7. SameAddress(LiveMembers, D, H, B)
  BY <1>5 DEF SameAddress
<1> QED BY <1>2, <1>3, <1>6, <1>7 DEF D

LEMMA AccountShared ==
  ASSUME NEW A, \A n \in Member : BankRow(A[n]), NEW H, NEW B, NEW source \in Member,
         \A m, n \in LiveMembers : /\ Home(H, B, m) # 0 /\ Home(H, B, n) = Home(H, B, m)
                                   /\ Home(H, B, m) # Home(H, B, source) /\ H[Home(H, B, m)].bank
                                   => Account(A[m]) = Account(A[n])
  PROVE  LET D == ShareBank(A, H, B, source)
         IN  /\ D = [n \in Member |-> D[n]]
             /\ \A n \in Member : BankRow(D[n]) /\ (n \notin LiveMembers => D[n] = A[n])
             /\ SameAccount(LiveMembers, D, H, B)
<1> DEFINE D == ShareBank(A, H, B, source)
           Copied(n) == n \in Receivers(H, B, source) /\ H[B[source]].bank
<1>1. D = [n \in Member |-> IF Copied(n) THEN CopyBank(A[n], AccountIn(A, source)) ELSE A[n]]
  BY DEF ShareBank
<1>2. ASSUME NEW n \in Member
      PROVE  /\ Copied(n) => BankRow(D[n]) /\ Account(D[n]) = Account(A[source])
             /\ ~ Copied(n) => BankRow(D[n]) /\ D[n] = A[n]
  <2>1. Copied(n) => D[n] = CopyBank(A[n], Account(A[source]))
    BY <1>1 DEF AccountIn, Account
  <2>2. ~ Copied(n) => D[n] = A[n]
    BY <1>1
  <2> HIDE DEF D, Copied
  <2> QED BY <2>1, <2>2, BankCopied
<1>3. \A n \in Member : n \notin LiveMembers => ~ Copied(n)
  BY DEF Receivers
<1>4. ~ Copied(source)
  BY DEF Receivers
<1>5. ASSUME NEW m \in LiveMembers, NEW n \in LiveMembers, Home(H, B, m) # 0, Home(H, B, n) = Home(H, B, m),
             H[Home(H, B, m)].bank
      PROVE  Account(D[m]) = Account(D[n])
  <2>1. m \in Member /\ n \in Member
    BY DEF LiveMembers
  <2>2. B[m] = Home(H, B, m) /\ B[n] = Home(H, B, m)
    BY <1>5 DEF Home
  <2>3. CASE Home(H, B, m) = Home(H, B, source)
    <3>1. B[source] = Home(H, B, m) /\ Home(H, B, source) # 0
      BY <1>5, <2>3 DEF Home
    <3>2. (m # source => Copied(m)) /\ (n # source => Copied(n))
      BY <1>5, <2>2, <3>1 DEF Receivers
    <3> HIDE DEF D, Copied
    <3> QED BY <1>2, <1>4, <2>1, <3>2
  <2>4. CASE Home(H, B, m) # Home(H, B, source)
    <3>1. ~ Copied(m) /\ ~ Copied(n)
      BY <2>2, <2>4 DEF Receivers, Home
    <3>2. D[m] = A[m] /\ D[n] = A[n]
      <4> HIDE DEF D, Copied
      <4> QED BY <1>2, <2>1, <3>1
    <3> QED BY <1>5, <2>4, <3>2
  <2> QED BY <2>3, <2>4
<1>6. D = [n \in Member |-> D[n]]
  BY <1>1
<1> HIDE DEF D, Copied
<1>7. SameAccount(LiveMembers, D, H, B)
  BY <1>5 DEF SameAccount
<1> QED BY <1>2, <1>3, <1>6, <1>7 DEF D

FunctionOn(f, S) == f = [x \in S |-> f[x]]

(* Rows are rows, only live members have live ones, who pays for a         *)
(* household lives in it, and what is shared agrees.                       *)
PeopleInv ==
  /\ FunctionOn(members, Member) /\ FunctionOn(contact, Member) /\ FunctionOn(bank, Member)
  /\ FunctionOn(belongs, Member) /\ FunctionOn(adjust, Member) /\ FunctionOn(households, Household)
  /\ \A m \in Member : ContactRow(contact[m]) /\ BankRow(bank[m])
  /\ \A h \in Household : HouseRow(households[h])
  /\ \A m \in Member : belongs[m] \in Household \cup {0}
  /\ \A m \in Member \ LiveMembers : ~ contact[m].live /\ ~ bank[m].live /\ belongs[m] = 0 /\ ~ adjust[m]
  /\ \A h \in Household :
       households[h].state = "live" /\ households[h].payer # Nobody => belongs[households[h].payer] = h
  /\ SharedDataAgrees

LEMMA MemberCreated ==
  ASSUME PeopleInv, NEW m \in Member, NEW k, NEW c \in Contacts, NEW account, CreateMember(m, k, c, account)
  PROVE  PeopleInv' /\ LiveMembers \subseteq LiveMembers'
<1>1. /\ members[m] = "absent" /\ members' = [members EXCEPT ![m] = "live"]
      /\ contact' = [contact EXCEPT ![m] = WrittenContact(contact[m], c)]
      /\ bank' = [bank EXCEPT ![m] = WrittenBank(bank[m], account)]
      /\ UNCHANGED <<households, belongs, adjust>>
  BY DEF CreateMember, families, merits
<1>2. m \notin LiveMembers /\ LiveMembers' = LiveMembers \cup {m}
  BY <1>1 DEF LiveMembers, PeopleInv, FunctionOn
<1>3. /\ FunctionOn(members, Member)' /\ FunctionOn(contact, Member)' /\ FunctionOn(bank, Member)'
      /\ FunctionOn(belongs, Member)' /\ FunctionOn(adjust, Member)' /\ FunctionOn(households, Household)'
  BY <1>1 DEF PeopleInv, FunctionOn
<1>4. ASSUME NEW n \in Member
      PROVE  /\ ContactRow(contact'[n]) /\ BankRow(bank'[n])
             /\ n # m => contact'[n] = contact[n] /\ bank'[n] = bank[n]
  <2>1. CASE n = m
    <3>1. contact'[n] = WrittenContact(contact[m], c) /\ bank'[n] = WrittenBank(bank[m], account)
      BY <1>1, <2>1 DEF PeopleInv, FunctionOn
    <3>2. ContactRow(contact[m]) /\ BankRow(bank[m])
      BY DEF PeopleInv
    <3> QED BY <2>1, <3>1, <3>2, ContactWritten, BankWritten
  <2>2. CASE n # m
    <3>1. contact'[n] = contact[n] /\ bank'[n] = bank[n]
      BY <1>1, <2>2 DEF PeopleInv, FunctionOn
    <3> QED BY <3>1 DEF PeopleInv
  <2> QED BY <2>1, <2>2
<1>5. /\ \A h \in Household : HouseRow(households'[h])
      /\ \A n \in Member : belongs'[n] \in Household \cup {0}
  BY <1>1 DEF PeopleInv
<1>6. \A n \in Member \ LiveMembers' : ~ contact'[n].live /\ ~ bank'[n].live /\ belongs'[n] = 0 /\ ~ adjust'[n]
  BY <1>1, <1>2, <1>4 DEF PeopleInv
<1>7. \A h \in Household :
        households'[h].state = "live" /\ households'[h].payer # Nobody => belongs'[households'[h].payer] = h
  BY <1>1 DEF PeopleInv
<1>8. SharedDataAgrees'
  <2>1. belongs[m] = 0
    BY <1>2 DEF PeopleInv
  <2>2. ASSUME NEW n \in LiveMembers', Home(households', belongs', n) # 0
        PROVE  n \in LiveMembers /\ contact'[n] = contact[n] /\ bank'[n] = bank[n]
    <3>1. n # m
      BY <1>1, <2>1, <2>2 DEF Home
    <3>2. n \in LiveMembers /\ n \in Member
      BY <1>2, <3>1 DEF LiveMembers
    <3> QED BY <1>4, <3>1, <3>2
  <2>3. households' = households /\ belongs' = belongs
    BY <1>1
  <2> QED BY <2>2, <2>3 DEF SharedDataAgrees, PeopleInv, AddressIn, AccountIn
<1> QED BY <1>2, <1>3, <1>4, <1>5, <1>6, <1>7, <1>8 DEF PeopleInv

LEMMA MemberUpdated ==
  ASSUME PeopleInv, NEW m \in Member, NEW k, NEW c \in Contacts, NEW account, UpdateMember(m, k, c, account)
  PROVE  PeopleInv' /\ LiveMembers' = LiveMembers
<1> DEFINE C == [contact EXCEPT ![m] = WrittenContact(contact[m], c)]
           A == [bank EXCEPT ![m] = WrittenBank(bank[m], account)]
<1>1. /\ m \in LiveMembers /\ UNCHANGED <<members, households, belongs, adjust>>
      /\ contact' = ShareAddress(C, households, belongs, m)
      /\ bank' = ShareBank(A, households, belongs, m)
  BY DEF UpdateMember, families, merits
<1>2. LiveMembers' = LiveMembers
  BY <1>1 DEF LiveMembers
<1>3. ASSUME NEW n \in Member
      PROVE  /\ ContactRow(C[n]) /\ BankRow(A[n])
             /\ n # m => C[n] = contact[n] /\ A[n] = bank[n]
  <2>1. ContactRow(contact[n]) /\ BankRow(bank[n])
    BY DEF PeopleInv
  <2>2. CASE n = m
    <3>1. C[n] = WrittenContact(contact[n], c) /\ A[n] = WrittenBank(bank[n], account)
      BY <2>2 DEF PeopleInv, FunctionOn
    <3> HIDE DEF C, A
    <3> QED BY <2>1, <2>2, <3>1, ContactWritten, BankWritten
  <2>3. CASE n # m
    <3>1. C[n] = contact[n] /\ A[n] = bank[n]
      BY <2>3 DEF PeopleInv, FunctionOn
    <3> HIDE DEF C, A
    <3> QED BY <2>1, <3>1
  <2> QED BY <2>2, <2>3
<1> HIDE DEF C, A
<1>4. ASSUME NEW a \in LiveMembers, NEW b \in LiveMembers,
             Home(households, belongs, a) # 0, Home(households, belongs, b) = Home(households, belongs, a),
             Home(households, belongs, a) # Home(households, belongs, m)
      PROVE  /\ households[Home(households, belongs, a)].address => Address(C[a]) = Address(C[b])
             /\ households[Home(households, belongs, a)].bank => Account(A[a]) = Account(A[b])
  <2>1. a # m /\ b # m /\ a \in Member /\ b \in Member
    BY <1>4 DEF LiveMembers
  <2>2. C[a] = contact[a] /\ C[b] = contact[b] /\ A[a] = bank[a] /\ A[b] = bank[b]
    BY <1>3, <2>1
  <2> QED BY <1>4, <2>2 DEF PeopleInv, SharedDataAgrees, AddressIn, AccountIn, Address, Account
<1>5. /\ contact' = [n \in Member |-> contact'[n]]
      /\ \A n \in Member : ContactRow(contact'[n]) /\ (n \notin LiveMembers => contact'[n] = C[n])
      /\ SameAddress(LiveMembers, contact', households, belongs)
  BY <1>1, <1>3, <1>4, AddressShared
<1>6. /\ bank' = [n \in Member |-> bank'[n]]
      /\ \A n \in Member : BankRow(bank'[n]) /\ (n \notin LiveMembers => bank'[n] = A[n])
      /\ SameAccount(LiveMembers, bank', households, belongs)
  BY <1>1, <1>3, <1>4, AccountShared
<1>7. SharedDataAgrees'
  BY <1>1, <1>2, <1>5, <1>6 DEF SharedDataAgrees, SameAddress, SameAccount, AddressIn, AccountIn, Address, Account
<1>8. /\ FunctionOn(members, Member)' /\ FunctionOn(contact, Member)' /\ FunctionOn(bank, Member)'
      /\ FunctionOn(belongs, Member)' /\ FunctionOn(adjust, Member)' /\ FunctionOn(households, Household)'
  BY <1>1, <1>5, <1>6 DEF PeopleInv, FunctionOn
<1>9. \A n \in Member \ LiveMembers' : ~ contact'[n].live /\ ~ bank'[n].live /\ belongs'[n] = 0 /\ ~ adjust'[n]
  BY <1>1, <1>2, <1>3, <1>5, <1>6 DEF PeopleInv
<1>10. /\ \A n \in Member : ContactRow(contact[n])' /\ BankRow(bank[n])'
       /\ \A h \in Household : HouseRow(households[h])'
       /\ \A n \in Member : belongs'[n] \in Household \cup {0}
  BY <1>1, <1>5, <1>6 DEF PeopleInv
<1>11. \A h \in Household :
         households'[h].state = "live" /\ households'[h].payer # Nobody => belongs'[households'[h].payer] = h
  BY <1>1 DEF PeopleInv
<1> QED BY <1>2, <1>7, <1>8, <1>9, <1>10, <1>11 DEF PeopleInv

LEMMA MemberDeleted ==
  ASSUME PeopleInv, NEW m \in Member, DeleteRecordsOf(m)
  PROVE  PeopleInv' /\ LiveMembers' = LiveMembers \ {m}
<1>1. /\ m \in LiveMembers /\ members' = [members EXCEPT ![m] = "deleted"]
      /\ contact' = [contact EXCEPT ![m].live = FALSE] /\ bank' = [bank EXCEPT ![m].live = FALSE]
      /\ belongs' = [belongs EXCEPT ![m] = 0] /\ adjust' = [adjust EXCEPT ![m] = FALSE]
      /\ households' = PayerGone(m)
  BY DEF DeleteRecordsOf
<1>2. LiveMembers' = LiveMembers \ {m}
  BY <1>1 DEF LiveMembers, PeopleInv, FunctionOn
<1>3. /\ FunctionOn(members, Member)' /\ FunctionOn(contact, Member)' /\ FunctionOn(bank, Member)'
      /\ FunctionOn(belongs, Member)' /\ FunctionOn(adjust, Member)' /\ FunctionOn(households, Household)'
  BY <1>1 DEF PeopleInv, FunctionOn, PayerGone
<1>4. ASSUME NEW n \in Member
      PROVE  /\ ContactRow(contact'[n]) /\ BankRow(bank'[n])
             /\ n = m => ~ contact'[n].live /\ ~ bank'[n].live /\ belongs'[n] = 0 /\ ~ adjust'[n]
             /\ n # m => /\ contact'[n] = contact[n] /\ bank'[n] = bank[n]
                         /\ belongs'[n] = belongs[n] /\ adjust'[n] = adjust[n]
  <2>1. ContactRow(contact[n]) /\ BankRow(bank[n])
    BY DEF PeopleInv
  <2>2. CASE n = m
    <3>1. /\ contact'[n] = [contact[n] EXCEPT !.live = FALSE] /\ bank'[n] = [bank[n] EXCEPT !.live = FALSE]
          /\ belongs'[n] = 0 /\ adjust'[n] = FALSE
      BY <1>1, <2>2 DEF PeopleInv, FunctionOn
    <3> QED BY <2>1, <2>2, <3>1 DEF ContactRow, BankRow
  <2>3. CASE n # m
    <3>1. contact'[n] = contact[n] /\ bank'[n] = bank[n] /\ belongs'[n] = belongs[n] /\ adjust'[n] = adjust[n]
      BY <1>1, <2>3 DEF PeopleInv, FunctionOn
    <3> QED BY <2>1, <2>3, <3>1
  <2> QED BY <2>2, <2>3
<1>5. ASSUME NEW h \in Household
      PROVE  /\ HouseRow(households'[h])
             /\ households'[h].state = households[h].state
             /\ households'[h].address = households[h].address /\ households'[h].bank = households[h].bank
             /\ households'[h].payer \in {Nobody, households[h].payer}
             /\ households[h].state = "live" => households'[h].payer # m
  <2>1. HouseRow(households[h])
    BY DEF PeopleInv
  <2>2. CASE households[h].payer = m /\ households[h].state = "live"
    <3>1. households'[h] = [households[h] EXCEPT !.payer = Nobody]
      BY <1>1, <2>2 DEF PayerGone
    <3> QED BY <2>1, <2>2, <3>1, MembersAreNumbers DEF HouseRow
  <2>3. CASE ~ (households[h].payer = m /\ households[h].state = "live")
    <3>1. households'[h] = households[h]
      BY <1>1, <2>3 DEF PayerGone
    <3> QED BY <2>1, <2>3, <3>1
  <2> QED BY <2>2, <2>3
<1>6. \A n \in Member \ LiveMembers' : ~ contact'[n].live /\ ~ bank'[n].live /\ belongs'[n] = 0 /\ ~ adjust'[n]
  BY <1>2, <1>4 DEF PeopleInv
<1>7. ASSUME NEW h \in Household, households'[h].state = "live", households'[h].payer # Nobody
      PROVE  belongs'[households'[h].payer] = h
  <2>1. households[h].state = "live" /\ households'[h].payer = households[h].payer /\ households[h].payer # m
    BY <1>5, <1>7
  <2>2. households[h].payer \in Member /\ belongs[households[h].payer] = h
    BY <1>7, <2>1 DEF PeopleInv, HouseRow
  <2> QED BY <1>4, <2>1, <2>2
<1>8. SharedDataAgrees'
  <2> SUFFICES ASSUME NEW a \in LiveMembers', NEW b \in LiveMembers', NEW h, h = Home(households', belongs', a),
                      h # 0, Home(households', belongs', b) = h
               PROVE  /\ households'[h].address => AddressIn(contact', a) = AddressIn(contact', b)
                      /\ households'[h].bank => AccountIn(bank', a) = AccountIn(bank', b)
    BY DEF SharedDataAgrees
  <2>1. a \in LiveMembers /\ b \in LiveMembers /\ a # m /\ b # m /\ a \in Member /\ b \in Member
    BY <1>2 DEF LiveMembers
  <2>2. /\ contact'[a] = contact[a] /\ contact'[b] = contact[b] /\ bank'[a] = bank[a] /\ bank'[b] = bank[b]
        /\ belongs'[a] = belongs[a] /\ belongs'[b] = belongs[b]
    BY <1>4, <2>1
  <2>3. h \in Household => households'[h].state = households[h].state /\ households'[h].address = households[h].address
                           /\ households'[h].bank = households[h].bank
    BY <1>5
  <2>4. belongs[a] = h /\ belongs[b] = h /\ households'[h].state = "live"
    BY <2>2 DEF Home
  <2>5. h \in Household
    BY <2>1, <2>4 DEF PeopleInv
  <2>6. Home(households, belongs, a) = h /\ Home(households, belongs, b) = h
    BY <2>3, <2>4, <2>5 DEF Home
  <2> QED BY <2>1, <2>2, <2>3, <2>5, <2>6 DEF PeopleInv, SharedDataAgrees, AddressIn, AccountIn
<1>9. \A n \in Member : belongs'[n] \in Household \cup {0}
  BY <1>4 DEF PeopleInv
<1> QED BY <1>2, <1>3, <1>4, <1>5, <1>6, <1>7, <1>8, <1>9 DEF PeopleInv

LEMMA HouseholdWritten ==
  ASSUME PeopleInv, NEW h \in Household, NEW row, HouseRow(row), row.state = "live",
         NEW ms, NEW source \in ms, WriteHousehold(h, row, ms, source), UNCHANGED adjust
  PROVE  PeopleInv' /\ LiveMembers' = LiveMembers
<1>1. /\ ms # {} /\ ms \subseteq LiveMembers /\ row.payer \in ms \cup {Nobody}
      /\ \A m \in ms : Home(households, belongs, m) \in {0, h}
      /\ households' = [households EXCEPT ![h] = row]
      /\ belongs' = [m \in Member |-> IF m \in ms THEN h ELSE IF belongs[m] = h THEN 0 ELSE belongs[m]]
      /\ contact' = ShareAddress(contact, households', belongs', source)
      /\ bank' = ShareBank(bank, households', belongs', source)
      /\ UNCHANGED <<members, adjust>>
  BY DEF WriteHousehold, people
<1>2. LiveMembers' = LiveMembers /\ ms \subseteq Member /\ 0 \notin Household
  BY <1>1, ClubRecordsAssumption DEF LiveMembers, ClubRecordsAssumption
<1>3. ASSUME NEW g \in Household
      PROVE  HouseRow(households'[g]) /\ (g = h => households'[g] = row) /\ (g # h => households'[g] = households[g])
  <2>1. (g = h => households'[g] = row) /\ (g # h => households'[g] = households[g])
    BY <1>1 DEF PeopleInv, FunctionOn
  <2> QED BY <2>1 DEF PeopleInv
<1>4. ASSUME NEW n \in Member
      PROVE  /\ belongs'[n] \in Household \cup {0}
             /\ n \in ms => belongs'[n] = h
             /\ n \notin ms => /\ belongs'[n] \in {0, belongs[n]} /\ belongs'[n] # h
                               /\ belongs[n] # h => belongs'[n] = belongs[n]
  <2>1. belongs'[n] = IF n \in ms THEN h ELSE IF belongs[n] = h THEN 0 ELSE belongs[n]
    BY <1>1
  <2> QED BY <1>2, <2>1 DEF PeopleInv
<1>5. source \in Member /\ Home(households', belongs', source) = h
  BY <1>2, <1>3, <1>4 DEF Home
<1>6. ASSUME NEW a \in LiveMembers, NEW b \in LiveMembers,
             Home(households', belongs', a) # 0, Home(households', belongs', b) = Home(households', belongs', a),
             Home(households', belongs', a) # Home(households', belongs', source)
      PROVE  /\ households'[Home(households', belongs', a)].address => Address(contact[a]) = Address(contact[b])
             /\ households'[Home(households', belongs', a)].bank => Account(bank[a]) = Account(bank[b])
  <2>1. a \in Member /\ b \in Member
    BY DEF LiveMembers
  <2> DEFINE g == Home(households', belongs', a)
  <2>2. g # h /\ g # 0 /\ belongs'[a] = g /\ belongs'[b] = g /\ households'[g].state = "live"
    BY <1>5, <1>6 DEF Home
  <2>3. g \in Household /\ households'[g] = households[g]
    BY <1>3, <1>4, <2>1, <2>2
  <2>4. belongs[a] = g /\ belongs[b] = g
    BY <1>4, <2>1, <2>2
  <2>5. Home(households, belongs, a) = g /\ Home(households, belongs, b) = g
    BY <2>2, <2>3, <2>4 DEF Home
  <2> HIDE DEF g
  <2>6. /\ households[g].address => AddressIn(contact, a) = AddressIn(contact, b)
        /\ households[g].bank => AccountIn(bank, a) = AccountIn(bank, b)
    BY <2>2, <2>5 DEF PeopleInv, SharedDataAgrees
  <2>7. /\ households'[g].address => Address(contact[a]) = Address(contact[b])
        /\ households'[g].bank => Account(bank[a]) = Account(bank[b])
    BY <2>3, <2>6 DEF AddressIn, AccountIn, Address, Account
  <2> QED BY <2>7 DEF g
<1>7. /\ contact' = [n \in Member |-> contact'[n]]
      /\ \A n \in Member : ContactRow(contact'[n]) /\ (n \notin LiveMembers => contact'[n] = contact[n])
      /\ SameAddress(LiveMembers, contact', households', belongs')
  <2>1. \A n \in Member : ContactRow(contact[n])
    BY DEF PeopleInv
  <2> DEFINE H == households'
             B == belongs'
             D == ShareAddress(contact, H, B, source)
  <2>2. \A m, n \in LiveMembers : /\ Home(H, B, m) # 0 /\ Home(H, B, n) = Home(H, B, m)
                                   /\ Home(H, B, m) # Home(H, B, source) /\ H[Home(H, B, m)].address
                                   => Address(contact[m]) = Address(contact[n])
    BY <1>6
  <2>3. contact' = D
    BY <1>1
  <2> HIDE DEF H, B
  <2>4. /\ D = [n \in Member |-> D[n]]
        /\ \A n \in Member : ContactRow(D[n]) /\ (n \notin LiveMembers => D[n] = contact[n])
        /\ SameAddress(LiveMembers, D, H, B)
    BY <1>5, <2>1, <2>2, AddressShared
  <2> HIDE DEF D
  <2> QED BY <2>3, <2>4 DEF H, B
<1>8. /\ bank' = [n \in Member |-> bank'[n]]
      /\ \A n \in Member : BankRow(bank'[n]) /\ (n \notin LiveMembers => bank'[n] = bank[n])
      /\ SameAccount(LiveMembers, bank', households', belongs')
  <2>1. \A n \in Member : BankRow(bank[n])
    BY DEF PeopleInv
  <2> DEFINE H == households'
             B == belongs'
             D == ShareBank(bank, H, B, source)
  <2>2. \A m, n \in LiveMembers : /\ Home(H, B, m) # 0 /\ Home(H, B, n) = Home(H, B, m)
                                   /\ Home(H, B, m) # Home(H, B, source) /\ H[Home(H, B, m)].bank
                                   => Account(bank[m]) = Account(bank[n])
    BY <1>6
  <2>3. bank' = D
    BY <1>1
  <2> HIDE DEF H, B
  <2>4. /\ D = [n \in Member |-> D[n]]
        /\ \A n \in Member : BankRow(D[n]) /\ (n \notin LiveMembers => D[n] = bank[n])
        /\ SameAccount(LiveMembers, D, H, B)
    BY <1>5, <2>1, <2>2, AccountShared
  <2> HIDE DEF D
  <2> QED BY <2>3, <2>4 DEF H, B
<1>9. SharedDataAgrees'
  BY <1>2, <1>7, <1>8 DEF SharedDataAgrees, SameAddress, SameAccount, AddressIn, AccountIn, Address, Account
<1>10. /\ FunctionOn(members, Member)' /\ FunctionOn(contact, Member)' /\ FunctionOn(bank, Member)'
       /\ FunctionOn(belongs, Member)' /\ FunctionOn(adjust, Member)' /\ FunctionOn(households, Household)'
  <2>1. FunctionOn(members, Member)' /\ FunctionOn(adjust, Member)' /\ FunctionOn(households, Household)'
    BY <1>1 DEF PeopleInv, FunctionOn
  <2>2. FunctionOn(belongs, Member)'
    BY <1>1 DEF FunctionOn
  <2>3. FunctionOn(contact, Member)' /\ FunctionOn(bank, Member)'
    BY <1>7, <1>8 DEF FunctionOn
  <2> QED BY <2>1, <2>2, <2>3
<1>11. ASSUME NEW n \in Member \ LiveMembers'
       PROVE  ~ contact'[n].live /\ ~ bank'[n].live /\ belongs'[n] = 0 /\ ~ adjust'[n]
  <2>1. n \in Member /\ n \notin LiveMembers /\ n \notin ms
    BY <1>1, <1>2
  <2>2. ~ contact[n].live /\ ~ bank[n].live /\ belongs[n] = 0 /\ ~ adjust[n]
    BY <2>1 DEF PeopleInv
  <2>3. contact'[n] = contact[n] /\ bank'[n] = bank[n] /\ belongs'[n] \in {0, belongs[n]} /\ adjust' = adjust
    BY <1>1, <1>4, <1>7, <1>8, <2>1
  <2> QED BY <2>2, <2>3
<1>12. ASSUME NEW g \in Household, households'[g].state = "live", households'[g].payer # Nobody
       PROVE  belongs'[households'[g].payer] = g
  <2>1. CASE g = h
    BY <1>1, <1>2, <1>3, <1>4, <1>12, <2>1
  <2>2. CASE g # h
    <3> DEFINE p == households[g].payer
    <3>0. households'[g] = households[g]
      BY <1>3, <2>2
    <3>a. HouseRow(households[g])
      BY DEF PeopleInv
    <3>b. p \in Member \cup {Nobody} /\ p # Nobody /\ households[g].state = "live"
      BY <1>12, <3>0, <3>a DEF HouseRow
    <3>1. p = households'[g].payer /\ p \in Member /\ belongs[p] = g /\ households[g].state = "live"
      BY <3>0, <3>b DEF PeopleInv
    <3> HIDE DEF p
    <3>2. Home(households, belongs, p) = g
      BY <1>2, <3>1 DEF Home
    <3>3. p \notin ms
      BY <1>1, <1>2, <2>2, <3>2
    <3> QED BY <1>4, <2>2, <3>1, <3>3
  <2> QED BY <2>1, <2>2
<1> QED BY <1>2, <1>3, <1>4, <1>7, <1>8, <1>9, <1>10, <1>11, <1>12 DEF PeopleInv

LEMMA HouseholdDeleted ==
  ASSUME PeopleInv, NEW h \in Household, DeleteHousehold(h)
  PROVE  PeopleInv' /\ LiveMembers' = LiveMembers
<1>1. /\ households' = [households EXCEPT ![h].state = "deleted"]
      /\ belongs' = [m \in Member |-> IF belongs[m] = h THEN 0 ELSE belongs[m]]
      /\ UNCHANGED <<members, contact, bank, adjust>>
  BY DEF DeleteHousehold, people, merits
<1>2. LiveMembers' = LiveMembers
  BY <1>1 DEF LiveMembers
<1>3. ASSUME NEW g \in Household
      PROVE  /\ HouseRow(households'[g])
             /\ g = h => households'[g].state = "deleted"
             /\ g # h => households'[g] = households[g]
  <2>1. HouseRow(households[g])
    BY DEF PeopleInv
  <2>2. CASE g = h
    <3>1. households'[g] = [households[g] EXCEPT !.state = "deleted"]
      BY <1>1, <2>2 DEF PeopleInv, FunctionOn
    <3> QED BY <2>1, <2>2, <3>1 DEF HouseRow
  <2>3. CASE g # h
    <3>1. households'[g] = households[g]
      BY <1>1, <2>3 DEF PeopleInv, FunctionOn
    <3> QED BY <2>1, <2>3, <3>1
  <2> QED BY <2>2, <2>3
<1>4. ASSUME NEW n \in Member
      PROVE  /\ belongs'[n] \in Household \cup {0} /\ belongs'[n] \in {0, belongs[n]}
             /\ belongs[n] # h => belongs'[n] = belongs[n]
  <2>1. belongs'[n] = IF belongs[n] = h THEN 0 ELSE belongs[n]
    BY <1>1
  <2> QED BY <2>1 DEF PeopleInv
<1>5. /\ FunctionOn(members, Member)' /\ FunctionOn(contact, Member)' /\ FunctionOn(bank, Member)'
      /\ FunctionOn(belongs, Member)' /\ FunctionOn(adjust, Member)' /\ FunctionOn(households, Household)'
  BY <1>1 DEF PeopleInv, FunctionOn
<1>6. \A n \in Member \ LiveMembers' : ~ contact'[n].live /\ ~ bank'[n].live /\ belongs'[n] = 0 /\ ~ adjust'[n]
  BY <1>1, <1>2, <1>4 DEF PeopleInv
<1>7. ASSUME NEW g \in Household, households'[g].state = "live", households'[g].payer # Nobody
      PROVE  belongs'[households'[g].payer] = g
  <2>1. g # h /\ households'[g] = households[g]
    BY <1>3, <1>7
  <2>2. households[g].payer \in Member /\ belongs[households[g].payer] = g
    BY <1>7, <2>1 DEF PeopleInv, HouseRow
  <2> QED BY <1>4, <2>1, <2>2
<1>8. SharedDataAgrees'
  <2> SUFFICES ASSUME NEW a \in LiveMembers, NEW b \in LiveMembers, NEW g, g = Home(households', belongs', a),
                      g # 0, Home(households', belongs', b) = g
               PROVE  /\ households'[g].address => AddressIn(contact, a) = AddressIn(contact, b)
                      /\ households'[g].bank => AccountIn(bank, a) = AccountIn(bank, b)
    BY <1>1, <1>2 DEF SharedDataAgrees
  <2>1. a \in Member /\ b \in Member
    BY DEF LiveMembers
  <2>2. belongs'[a] = g /\ belongs'[b] = g /\ households'[g].state = "live"
    BY DEF Home
  <2>3. g \in Household /\ households'[g] = households[g]
    BY <1>3, <1>4, <2>1, <2>2
  <2>4. belongs[a] = g /\ belongs[b] = g
    BY <1>4, <2>1, <2>2
  <2>5. Home(households, belongs, a) = g /\ Home(households, belongs, b) = g
    BY <2>2, <2>3, <2>4 DEF Home
  <2> QED BY <2>3, <2>5 DEF PeopleInv, SharedDataAgrees
<1> QED BY <1>1, <1>2, <1>3, <1>4, <1>5, <1>6, <1>7, <1>8 DEF PeopleInv

(* What leaves members, their data and their households alone.             *)
LEMMA PeopleSame ==
  ASSUME PeopleInv, UNCHANGED <<members, contact, bank, belongs, households>>,
         FunctionOn(adjust', Member), \A m \in Member \ LiveMembers : ~ adjust'[m]
  PROVE  PeopleInv' /\ LiveMembers' = LiveMembers
<1>1. LiveMembers' = LiveMembers
  BY DEF LiveMembers
<1>2. SharedDataAgrees'
  BY <1>1 DEF PeopleInv, SharedDataAgrees, Home, AddressIn, AccountIn
<1>3. QED
  BY <1>1, <1>2 DEF PeopleInv

LEMMA PeopleRecords ==
  ASSUME PeopleInv, RecordsNext
  PROVE  PeopleInv' /\ LiveMembers \subseteq LiveMembers'
<1>1. CASE MemberRequest
  BY <1>1, MemberCreated, MemberUpdated DEF MemberRequest
<1>2. CASE HouseholdRequest
  <2>1. PICK h \in Household :
          \/ \E payer \in Member \cup {Nobody}, shared \in Sharings :
               \E row \in {[state |-> "live", payer |-> payer, address |-> shared.address, bank |-> shared.bank]} :
                 /\ HouseholdAccess(row)
                 /\ \E ms \in SUBSET LiveMembers : \E source \in ms :
                      CreateHousehold(h, row, ms, source) \/ UpdateHousehold(h, row, ms, source)
          \/ DeleteHousehold(h)
    BY <1>2 DEF HouseholdRequest
  <2>2. CASE DeleteHousehold(h)
    BY <2>2, HouseholdDeleted
  <2>3. ASSUME NEW payer \in Member \cup {Nobody}, NEW shared \in Sharings,
               NEW row, row = [state |-> "live", payer |-> payer, address |-> shared.address, bank |-> shared.bank],
               NEW ms \in SUBSET LiveMembers, NEW source \in ms,
               CreateHousehold(h, row, ms, source) \/ UpdateHousehold(h, row, ms, source)
        PROVE  PeopleInv' /\ LiveMembers \subseteq LiveMembers'
    <3>1. shared.address \in BOOLEAN /\ shared.bank \in BOOLEAN
      BY <2>3, ClubRecordsAssumption DEF ClubRecordsAssumption
    <3>2. HouseRow(row) /\ row.state = "live"
      BY <2>3, <3>1 DEF HouseRow
    <3>3. WriteHousehold(h, row, ms, source)
      BY <2>3 DEF CreateHousehold, UpdateHousehold
    <3>4. UNCHANGED adjust
      BY <3>3 DEF WriteHousehold, merits
    <3>5. QED
      BY <3>2, <3>3, <3>4, HouseholdWritten
  <2>4. QED
    BY <2>1, <2>2, <2>3
<1>3. CASE GuardianRequest
  BY <1>3, PeopleSame DEF GuardianRequest, CreateGuardian, DeleteGuardian, people, merits, PeopleInv
<1>4. CASE GroupRequest
  BY <1>4, PeopleSame
     DEF GroupRequest, CreateNamed, SetNamedMembers, people, families, merits, PeopleInv
<1>5. CASE TypeRequest
  BY <1>5, PeopleSame
     DEF TypeRequest, CreateQualificationType, DeleteQualificationType, people, families, PeopleInv
<1>6. CASE QualificationRequest
  BY <1>6, PeopleSame
     DEF QualificationRequest, ReadQualificationType, DeleteQualification, people, families, PeopleInv
<1>7. CASE CreateQualification
  BY <1>7, PeopleSame DEF CreateQualification, people, families, PeopleInv
<1>8. CASE HonorRequest
  <2>1. CASE \E m \in Member, milestone \in Milestones : CreateHonor(m, milestone)
    BY <2>1, PeopleSame DEF CreateHonor, people, families, PeopleInv
  <2>2. CASE \E i \in DOMAIN honors : DeleteHonor(i)
    BY <2>2, PeopleSame DEF DeleteHonor, people, families, PeopleInv
  <2>3. ASSUME NEW m \in Member, SetMembershipAdjust(m)
        PROVE  PeopleInv' /\ LiveMembers \subseteq LiveMembers'
    <3>1. adjust' = [adjust EXCEPT ![m] = TRUE] /\ m \in LiveMembers
      BY <2>3 DEF SetMembershipAdjust
    <3>2. FunctionOn(adjust', Member) /\ \A n \in Member \ LiveMembers : ~ adjust'[n]
      BY <3>1 DEF PeopleInv, FunctionOn
    <3>3. UNCHANGED <<members, contact, bank, belongs, households>>
      BY <2>3 DEF SetMembershipAdjust, people, families
    <3>4. QED
      BY <3>2, <3>3, PeopleSame
  <2>4. QED
    BY <1>8, <2>1, <2>2, <2>3 DEF HonorRequest
<1>9. CASE \E s \in scopes : LoseScope(s)
  BY <1>9, PeopleSame DEF LoseScope, people, families, merits, PeopleInv
<1>10. QED
  BY <1>1, <1>2, <1>3, <1>4, <1>5, <1>6, <1>7, <1>8, <1>9 DEF RecordsNext

(* Only deleting a member takes a live one away.                           *)
LEMMA PeopleStep ==
  ASSUME PeopleInv, [Next]_vars
  PROVE  /\ PeopleInv'
         /\ \/ LiveMembers \subseteq LiveMembers'
            \/ \E m \in Member : DeleteMember(m) /\ LiveMembers' = LiveMembers \ {m}
<1>1. CASE RecordsNext
  BY <1>1, PeopleRecords
<1>2. CASE UNCHANGED recordVars
  BY <1>2, PeopleSame DEF recordVars, people, families, merits, PeopleInv
<1>3. ASSUME NEW m \in Member, DeleteMember(m)
      PROVE  PeopleInv' /\ LiveMembers' = LiveMembers \ {m}
  BY <1>3, MemberDeleted DEF DeleteMember
<1>4. ASSUME NEW g \in Group, DeleteNamed(g)
      PROVE  PeopleInv' /\ LiveMembers' = LiveMembers
  BY <1>4, PeopleSame DEF DeleteNamed, DeleteGroupLinks, people, families, merits, PeopleInv
<1>5. QED
  BY <1>1, <1>2, <1>3, <1>4 DEF Next, vars

LEMMA PeopleAtFirst ==
  ASSUME Init
  PROVE  PeopleInv
<1>1. RecordsInit
  BY DEF Init
<1>2. /\ FunctionOn(members, Member) /\ FunctionOn(contact, Member) /\ FunctionOn(bank, Member)
      /\ FunctionOn(belongs, Member) /\ FunctionOn(adjust, Member) /\ FunctionOn(households, Household)
  BY <1>1 DEF RecordsInit, FunctionOn
<1>3. LiveMembers = Founders
  BY <1>1, ClubRecordsAssumption DEF RecordsInit, LiveMembers, ClubRecordsAssumption
<1>4. ASSUME NEW m \in Member
      PROVE  /\ contact[m] = [live |-> m \in Founders, email |-> 1, address |-> 0]
             /\ bank[m] = [live |-> m \in Founders, account |-> IF m \in Founders THEN Max(Accounts) ELSE 0]
             /\ belongs[m] = IF m \in Founders THEN 1 ELSE 0
             /\ adjust[m] = FALSE
  BY <1>1 DEF RecordsInit
<1>5. ASSUME NEW m \in Member
      PROVE  ContactRow(contact[m]) /\ BankRow(bank[m]) /\ (m \notin Founders => ~ contact[m].live /\ ~ bank[m].live)
  <2>1. contact[m] = [live |-> m \in Founders, email |-> 1, address |-> 0]
    BY <1>4
  <2>2. PICK account : bank[m] = [live |-> m \in Founders, account |-> account]
    BY <1>4
  <2>3. (m \in Founders) \in BOOLEAN
    OBVIOUS
  <2>4. ContactRow(contact[m])
    BY <2>1, <2>3 DEF ContactRow
  <2>5. BankRow(bank[m])
    BY <2>2, <2>3 DEF BankRow
  <2>6. m \notin Founders => ~ contact[m].live /\ ~ bank[m].live
    <3>1. contact[m].live = (m \in Founders)
      BY <2>1
    <3>2. bank[m].live = (m \in Founders)
      BY <2>2
    <3>3. QED
      BY <3>1, <3>2
  <2>7. QED
    BY <2>4, <2>5, <2>6
<1>6. ASSUME NEW h \in Household
      PROVE  HouseRow(households[h]) /\ households[h].payer = Nobody /\ ~ households[h].address /\ ~ households[h].bank
  BY <1>1 DEF RecordsInit, NoHousehold, HouseRow
<1>7. \A m \in Member : belongs[m] \in Household \cup {0}
  BY <1>4, ClubRecordsAssumption DEF ClubRecordsAssumption
<1>8. \A m \in Member \ LiveMembers : ~ contact[m].live /\ ~ bank[m].live /\ belongs[m] = 0 /\ ~ adjust[m]
  BY <1>3, <1>4, <1>5
<1>9. SharedDataAgrees
  <2>1. \A m \in LiveMembers : Home(households, belongs, m) = 0 \/ Home(households, belongs, m) \in Household
    BY <1>7 DEF Home, LiveMembers
  <2>2. QED
    BY <1>6, <2>1 DEF SharedDataAgrees
<1>10. QED
  BY <1>2, <1>5, <1>6, <1>7, <1>8, <1>9 DEF PeopleInv

(* Whatever requests do to members, contact data, accounts and households, *)
(* members of a household that shares data have the same: also one who     *)
(* moves in, one whose row was removed, and after the payer is deleted     *)
(* (shareHouseholdData).                                                   *)
THEOREM SharingAgrees == Spec => []SharedDataAgrees
<1>1. Init => PeopleInv
  BY PeopleAtFirst
<1>2. PeopleInv /\ [Next]_vars => PeopleInv'
  BY PeopleStep
<1>3. PeopleInv => SharedDataAgrees
  BY DEF PeopleInv
<1>4. QED
  BY <1>1, <1>2, <1>3, PTL DEF Spec
-----------------------------------------------------------------------------
(* Tables whose rows belong to something: a row that is live says in one   *)
(* of its columns whom it belongs to.                                      *)
Row(r, names) == DOMAIN r = names /\ r = [x \in DOMAIN r |-> r[x]]
Table(s, names) == Rows(s) /\ \A i \in DOMAIN s : Row(s[i], names)
Belong(s, column, owners) == \A i \in DOMAIN s : s[i].live => s[i][column] \in owners

LEMMA NoRowsYet ==
  ASSUME NEW names, NEW column, NEW owners
  PROVE  Table(<< >>, names) /\ Belong(<< >>, column, owners)
BY EmptyRows DEF Table, Belong

(* A row added belongs to one of the owners there are.                     *)
LEMMA TableAdded ==
  ASSUME NEW s, NEW names, Table(s, names), NEW x, Row(x, names), NEW t, Added(t, s, x)
  PROVE  Table(t, names)
BY RowAdded DEF Table

LEMMA BelongAdded ==
  ASSUME NEW s, Rows(s), NEW column, NEW owners, Belong(s, column, owners),
         NEW x, x[column] \in owners, NEW t, Added(t, s, x)
  PROVE  Belong(t, column, owners)
BY RowAdded DEF Belong

(* Rows that belong to whom is gone are deleted, others may be.            *)
Deleted(t, s, gone) == t = RowsWithout(s, gone)

LEMMA TableWithout ==
  ASSUME NEW s, NEW names, Table(s, names), "live" \in names, NEW gone, NEW t, Deleted(t, s, gone)
  PROVE  /\ Table(t, names) /\ DOMAIN t = DOMAIN s
         /\ \A i \in DOMAIN s : /\ \A x \in names \ {"live"} : t[i][x] = s[i][x]
                                /\ t[i].live => s[i].live /\ i \notin gone
<1>1. t = [i \in DOMAIN s |-> [s[i] EXCEPT !.live = @ /\ i \notin gone]]
  BY DEF Deleted, RowsWithout
<1>2. t = [i \in DOMAIN s |-> t[i]]
  BY <1>1
<1>3. Rows(t) /\ DOMAIN t = DOMAIN s
  BY <1>2, RowsChanged DEF Table
<1>4. ASSUME NEW i \in DOMAIN s
      PROVE  /\ Row(t[i], names)
             /\ \A x \in names \ {"live"} : t[i][x] = s[i][x]
             /\ t[i].live => s[i].live /\ i \notin gone
  <2>1. t[i] = [s[i] EXCEPT !.live = s[i].live /\ i \notin gone]
    BY <1>1
  <2>2. Row(s[i], names)
    BY DEF Table
  <2>3. QED
    BY <2>1, <2>2 DEF Row
<1>5. QED
  BY <1>3, <1>4 DEF Table

LEMMA BelongWithout ==
  ASSUME NEW s, NEW names, Table(s, names), "live" \in names, NEW gone, NEW t, Deleted(t, s, gone),
         NEW column \in names \ {"live"}, NEW owners, Belong(s, column, owners), NEW stay,
         \A i \in DOMAIN s : s[i][column] \in owners \ stay => i \in gone
  PROVE  Belong(t, column, stay)
BY TableWithout DEF Belong

(* A single row is deleted.                                                *)
RowDeleted(t, s, d) == t = [s EXCEPT ![d].live = FALSE]

LEMMA OneDeleted ==
  ASSUME NEW s, NEW names, Table(s, names), "live" \in names, NEW d \in DOMAIN s, NEW t, RowDeleted(t, s, d)
  PROVE  /\ Table(t, names) /\ DOMAIN t = DOMAIN s
         /\ \A i \in DOMAIN s : /\ \A x \in names \ {"live"} : t[i][x] = s[i][x]
                                /\ t[i].live => s[i].live /\ i # d
<1>1. t = [s EXCEPT ![d] = [s[d] EXCEPT !.live = FALSE]]
  BY DEF RowDeleted
<1>2. t = [i \in DOMAIN s |-> t[i]]
  BY <1>1 DEF Table, Rows
<1>3. Rows(t) /\ DOMAIN t = DOMAIN s
  BY <1>2, RowsChanged DEF Table
<1>4. ASSUME NEW i \in DOMAIN s
      PROVE  /\ Row(t[i], names)
             /\ \A x \in names \ {"live"} : t[i][x] = s[i][x]
             /\ t[i].live => s[i].live /\ i # d
  <2>1. Row(s[i], names)
    BY DEF Table
  <2>2. CASE i # d
    BY <1>1, <2>1, <2>2 DEF Table, Rows
  <2>3. CASE i = d
    <3>1. t[d] = [s[d] EXCEPT !.live = FALSE]
      BY <1>1
    <3>2. QED
      BY <2>1, <2>3, <3>1 DEF Row
  <2>4. QED
    BY <2>2, <2>3
<1>5. QED
  BY <1>3, <1>4 DEF Table

LEMMA BelongOneDeleted ==
  ASSUME NEW s, NEW names, Table(s, names), "live" \in names, NEW d \in DOMAIN s, NEW t, RowDeleted(t, s, d),
         NEW column \in names \ {"live"}, NEW owners, Belong(s, column, owners)
  PROVE  Belong(t, column, owners)
BY OneDeleted DEF Belong
-----------------------------------------------------------------------------
(* Guardians, qualifications and honors.                                   *)

GuardianColumns == {"member", "guardian", "live"}
QualColumns == {"member", "type", "live"}
HonorColumns == {"member", "milestone", "live"}

MeritsInv ==
  /\ Table(guardians, GuardianColumns)
  /\ Belong(guardians, "member", LiveMembers) /\ Belong(guardians, "guardian", LiveMembers \cup {Nobody})
  /\ Table(quals, QualColumns) /\ Belong(quals, "member", LiveMembers)
  /\ Table(honors, HonorColumns) /\ Belong(honors, "member", LiveMembers)

LEMMA BelongToMore ==
  ASSUME NEW s, NEW column, NEW owners, NEW more, owners \subseteq more, Belong(s, column, owners)
  PROVE  Belong(s, column, more)
BY DEF Belong

LEMMA MeritsSame ==
  ASSUME MeritsInv, LiveMembers \subseteq LiveMembers', UNCHANGED <<guardians, quals, honors>>
  PROVE  MeritsInv'
<1>1. LiveMembers \cup {Nobody} \subseteq LiveMembers' \cup {Nobody}
  OBVIOUS
<1>2. QED
  BY <1>1, BelongToMore DEF MeritsInv

LEMMA MeritsRecords ==
  ASSUME MeritsInv, RecordsNext, LiveMembers \subseteq LiveMembers'
  PROVE  MeritsInv'
<1>a. LiveMembers \cup {Nobody} \subseteq LiveMembers' \cup {Nobody}
  OBVIOUS
<1>b. "live" \in GuardianColumns /\ "live" \in QualColumns /\ "live" \in HonorColumns
  BY DEF GuardianColumns, QualColumns, HonorColumns
<1>c. /\ "member" \in GuardianColumns \ {"live"} /\ "guardian" \in GuardianColumns \ {"live"}
      /\ "member" \in QualColumns \ {"live"} /\ "member" \in HonorColumns \ {"live"}
  BY DEF GuardianColumns, QualColumns, HonorColumns
<1>3. CASE MemberRequest
  <2>1. PICK m \in Member, c \in Contacts, account \in {0} \cup Accounts :
          \E k \in Range(Cores[m]) : CreateMember(m, k, c, account) \/ UpdateMember(m, k, c, account)
    BY <1>3 DEF MemberRequest
  <2>2. PICK k : CreateMember(m, k, c, account) \/ UpdateMember(m, k, c, account)
    BY <2>1
  <2>3. UNCHANGED <<guardians, quals, honors>>
    BY <2>2 DEF CreateMember, UpdateMember, families, merits
  <2>4. QED
    BY <2>3, MeritsSame
<1>4. CASE HouseholdRequest
  <2>1. UNCHANGED <<guardians, merits>>
    <3>1. \A h, row, ms, source : WriteHousehold(h, row, ms, source) => UNCHANGED <<guardians, merits>>
      BY DEF WriteHousehold
    <3>2. \A h : DeleteHousehold(h) => UNCHANGED <<guardians, merits>>
      BY DEF DeleteHousehold
    <3>3. QED
      BY <1>4, <3>1, <3>2 DEF HouseholdRequest, CreateHousehold, UpdateHousehold
  <2>2. UNCHANGED <<guardians, quals, honors>>
    BY <2>1 DEF merits
  <2>3. QED
    BY <2>2, MeritsSame
<1>5. CASE GuardianRequest
  <2>1. UNCHANGED <<quals, honors>>
    BY <1>5 DEF GuardianRequest, CreateGuardian, DeleteGuardian, merits
  <2>2. ASSUME NEW m \in Member, NEW guardian \in Member \cup {Nobody}, CreateGuardian(m, guardian)
        PROVE  MeritsInv'
    <3> DEFINE x == [member |-> m, guardian |-> guardian, live |-> TRUE]
    <3>1. Row(x, GuardianColumns) /\ x["member"] = m /\ x["guardian"] = guardian
      BY DEF Row, GuardianColumns
    <3>2. m \in LiveMembers /\ guardian \in LiveMembers \cup {Nobody} /\ Added(guardians', guardians, x)
      BY <2>2 DEF CreateGuardian, Added
    <3> HIDE DEF x
    <3>3. Table(guardians', GuardianColumns)
      BY <3>1, <3>2, TableAdded DEF MeritsInv
    <3>4. Belong(guardians', "member", LiveMembers)
      BY <3>1, <3>2, BelongAdded DEF MeritsInv, Table
    <3>5. Belong(guardians', "guardian", LiveMembers \cup {Nobody})
      BY <3>1, <3>2, BelongAdded DEF MeritsInv, Table
    <3>6. QED
      BY <2>1, <3>3, <3>4, <3>5, <1>a, BelongToMore DEF MeritsInv
  <2>3. ASSUME NEW i \in DOMAIN guardians, DeleteGuardian(i)
        PROVE  MeritsInv'
    <3>1. RowDeleted(guardians', guardians, i)
      BY <2>3 DEF DeleteGuardian, RowDeleted
    <3>2. Table(guardians', GuardianColumns)
      BY <3>1, <1>b, OneDeleted DEF MeritsInv
    <3>3. Belong(guardians', "member", LiveMembers)
      BY <3>1, <1>b, <1>c, BelongOneDeleted DEF MeritsInv
    <3>4. Belong(guardians', "guardian", LiveMembers \cup {Nobody})
      BY <3>1, <1>b, <1>c, BelongOneDeleted DEF MeritsInv
    <3>5. QED
      BY <2>1, <3>2, <3>3, <3>4, <1>a, BelongToMore DEF MeritsInv
  <2>4. QED
    BY <1>5, <2>2, <2>3 DEF GuardianRequest
<1>6. CASE GroupRequest
  BY <1>6, MeritsSame DEF GroupRequest, CreateNamed, SetNamedMembers, families, merits
<1>7. CASE TypeRequest
  <2>1. ASSUME NEW q \in QualType, CreateQualificationType(q)
        PROVE  MeritsInv'
    BY <2>1, MeritsSame DEF CreateQualificationType, families
  <2>2. ASSUME NEW q \in QualType, DeleteQualificationType(q)
        PROVE  MeritsInv'
    <3> DEFINE gone == {i \in DOMAIN quals : quals[i].type = q}
    <3>1. Deleted(quals', quals, gone) /\ UNCHANGED <<guardians, honors>>
      BY <2>2 DEF DeleteQualificationType, Deleted, families
    <3> HIDE DEF gone
    <3>2. Table(quals', QualColumns)
      BY <3>1, <1>b, TableWithout DEF MeritsInv
    <3>3. Belong(quals', "member", LiveMembers)
      BY <3>1, <1>b, <1>c, BelongWithout DEF MeritsInv
    <3>4. QED
      BY <3>1, <3>2, <3>3, <1>a, BelongToMore DEF MeritsInv
  <2>3. QED
    BY <1>7, <2>1, <2>2 DEF TypeRequest
<1>8. CASE QualificationRequest
  <2>1. ASSUME NEW m \in Member, NEW q \in QualType, ReadQualificationType(m, q)
        PROVE  MeritsInv'
    BY <2>1, MeritsSame DEF ReadQualificationType, families
  <2>2. ASSUME NEW i \in DOMAIN quals, DeleteQualification(i)
        PROVE  MeritsInv'
    <3>1. RowDeleted(quals', quals, i) /\ UNCHANGED <<guardians, honors>>
      BY <2>2 DEF DeleteQualification, RowDeleted, families
    <3>2. Table(quals', QualColumns) /\ Belong(quals', "member", LiveMembers)
      BY <3>1, <1>b, <1>c, OneDeleted, BelongOneDeleted DEF MeritsInv
    <3>3. QED
      BY <3>1, <3>2, <1>a, BelongToMore DEF MeritsInv
  <2>3. QED
    BY <1>8, <2>1, <2>2 DEF QualificationRequest
<1>9. CASE CreateQualification
  <2>1. UNCHANGED <<guardians, honors>>
    BY <1>9 DEF CreateQualification, families
  <2>2. CASE issuing.member \in LiveMembers
    <3> DEFINE x == [member |-> issuing.member, type |-> issuing.type, live |-> TRUE]
    <3>1. Row(x, QualColumns) /\ x["member"] = issuing.member
      BY DEF Row, QualColumns
    <3>2. Added(quals', quals, x)
      BY <1>9, <2>2 DEF CreateQualification, Added
    <3> HIDE DEF x
    <3>3. Table(quals', QualColumns) /\ Belong(quals', "member", LiveMembers)
      BY <2>2, <3>1, <3>2, TableAdded, BelongAdded DEF MeritsInv, Table
    <3>4. QED
      BY <2>1, <3>3, <1>a, BelongToMore DEF MeritsInv
  <2>3. CASE issuing.member \notin LiveMembers
    BY <1>9, <2>1, <2>3, MeritsSame DEF CreateQualification
  <2>4. QED
    BY <2>2, <2>3
<1>10. CASE HonorRequest
  <2>1. ASSUME NEW m \in Member, NEW milestone \in Milestones, CreateHonor(m, milestone)
        PROVE  MeritsInv'
    <3> DEFINE x == [member |-> m, milestone |-> milestone, live |-> TRUE]
    <3>1. Row(x, HonorColumns) /\ x["member"] = m
      BY DEF Row, HonorColumns
    <3>2. Added(honors', honors, x) /\ m \in LiveMembers /\ UNCHANGED <<guardians, quals>>
      BY <2>1 DEF CreateHonor, Added, families
    <3> HIDE DEF x
    <3>3. Table(honors', HonorColumns) /\ Belong(honors', "member", LiveMembers)
      BY <3>1, <3>2, TableAdded, BelongAdded DEF MeritsInv, Table
    <3>4. QED
      BY <3>2, <3>3, <1>a, BelongToMore DEF MeritsInv
  <2>2. ASSUME NEW i \in DOMAIN honors, DeleteHonor(i)
        PROVE  MeritsInv'
    <3>1. RowDeleted(honors', honors, i) /\ UNCHANGED <<guardians, quals>>
      BY <2>2 DEF DeleteHonor, RowDeleted, families
    <3>2. Table(honors', HonorColumns) /\ Belong(honors', "member", LiveMembers)
      BY <3>1, <1>b, <1>c, OneDeleted, BelongOneDeleted DEF MeritsInv
    <3>3. QED
      BY <3>1, <3>2, <1>a, BelongToMore DEF MeritsInv
  <2>3. ASSUME NEW m \in Member, SetMembershipAdjust(m)
        PROVE  MeritsInv'
    BY <2>3, MeritsSame DEF SetMembershipAdjust, families
  <2>4. QED
    BY <1>10, <2>1, <2>2, <2>3 DEF HonorRequest
<1>11. CASE \E s \in scopes : LoseScope(s)
  BY <1>11, MeritsSame DEF LoseScope, families, merits
<1>12. QED
  BY <1>3, <1>4, <1>5, <1>6, <1>7, <1>8, <1>9, <1>10, <1>11 DEF RecordsNext

(* Deleting a member deletes what belongs to it, also as a guardian.       *)
LEMMA MeritsOfDeleted ==
  ASSUME MeritsInv, NEW m \in Member, DeleteRecordsOf(m), LiveMembers' = LiveMembers \ {m}
  PROVE  MeritsInv'
<1> DEFINE g == {i \in DOMAIN guardians : m \in {guardians[i].member, guardians[i].guardian}}
           q == {i \in DOMAIN quals : quals[i].member = m}
           h == {i \in DOMAIN honors : honors[i].member = m}
<1>1. Deleted(guardians', guardians, g) /\ Deleted(quals', quals, q) /\ Deleted(honors', honors, h)
  BY DEF DeleteRecordsOf, Deleted
<1>2. "live" \in GuardianColumns /\ "live" \in QualColumns /\ "live" \in HonorColumns
  BY DEF GuardianColumns, QualColumns, HonorColumns
<1>3. /\ "member" \in GuardianColumns \ {"live"} /\ "guardian" \in GuardianColumns \ {"live"}
      /\ "member" \in QualColumns \ {"live"} /\ "member" \in HonorColumns \ {"live"}
  BY DEF GuardianColumns, QualColumns, HonorColumns
<1>4. /\ \A i \in DOMAIN guardians : guardians[i]["member"] \in LiveMembers \ (LiveMembers \ {m}) => i \in g
      /\ \A i \in DOMAIN guardians :
           guardians[i]["guardian"] \in (LiveMembers \cup {Nobody}) \ ((LiveMembers \ {m}) \cup {Nobody}) => i \in g
      /\ \A i \in DOMAIN quals : quals[i]["member"] \in LiveMembers \ (LiveMembers \ {m}) => i \in q
      /\ \A i \in DOMAIN honors : honors[i]["member"] \in LiveMembers \ (LiveMembers \ {m}) => i \in h
  OBVIOUS
<1> HIDE DEF g, q, h
<1>5. Table(guardians', GuardianColumns) /\ Table(quals', QualColumns) /\ Table(honors', HonorColumns)
  BY <1>1, <1>2, TableWithout DEF MeritsInv
<1>6. Belong(guardians', "member", LiveMembers \ {m})
  BY <1>1, <1>2, <1>3, <1>4, BelongWithout DEF MeritsInv
<1>7. Belong(guardians', "guardian", (LiveMembers \ {m}) \cup {Nobody})
  BY <1>1, <1>2, <1>3, <1>4, BelongWithout DEF MeritsInv
<1>8. Belong(quals', "member", LiveMembers \ {m}) /\ Belong(honors', "member", LiveMembers \ {m})
  BY <1>1, <1>2, <1>3, <1>4, BelongWithout DEF MeritsInv
<1>9. QED
  BY <1>5, <1>6, <1>7, <1>8 DEF MeritsInv
-----------------------------------------------------------------------------
(* Payments: a payment row keeps its shape, and only Confirm adds some.    *)
LinkColumns == {"fee", "tx", "live", "prior", "amount"}
LinksInv == Table(links, LinkColumns) /\ DOMAIN txs = DOMAIN Entries

(* What Confirm adds: one row for each fee, at the end.                    *)
LinkAmount(t, alloc, f) == IF Entries[t].isReturn THEN -alloc[f] ELSE alloc[f]

LEMMA LinksAdded ==
  ASSUME LinksInv, FeesInv, NEW t, NEW alloc, DOMAIN alloc \subseteq LiveFees, NEW L, L = LinksWith(t, alloc)
  PROVE  /\ Table(L, LinkColumns) /\ DOMAIN links \subseteq DOMAIN L
         /\ \A l \in DOMAIN links : L[l] = links[l]
         /\ \A l \in DOMAIN L \ DOMAIN links :
              L[l].tx = t /\ L[l].fee \in DOMAIN alloc /\ l > Len(links) /\ L[l].amount = LinkAmount(t, alloc, L[l].fee)
         /\ \A f \in DOMAIN alloc : \E l \in DOMAIN L :
              /\ l > Len(links) /\ L[l].tx = t /\ L[l].fee = f /\ L[l].live /\ L[l].prior = fees[f].paid
              /\ \A k \in DOMAIN L \ DOMAIN links : L[k].fee = f => k = l
<1> DEFINE S == DOMAIN alloc
           n == Cardinality(S)
           new(f) == [fee |-> f, tx |-> t, live |-> TRUE, prior |-> fees[f].paid,
                      amount |-> IF Entries[t].isReturn THEN -alloc[f] ELSE alloc[f]]
           added == [k \in 1 .. n |-> new(Nth(DOMAIN alloc, k))]
<1>1. S \subseteq Nat /\ IsFiniteSet(S)
  <2>1. DOMAIN fees = 1 .. Len(fees) /\ Len(fees) \in Nat
    BY RowIds DEF FeesInv
  <2>2. IsFiniteSet(1 .. Len(fees)) /\ S \in SUBSET (1 .. Len(fees))
    BY <2>1, FS_Interval DEF LiveFees
  <2> QED BY <2>1, <2>2, FS_Subset
<1>2. /\ n \in Nat
      /\ \A k \in 1 .. n : Nth(DOMAIN alloc, k) \in S
      /\ \A f \in S : \E k \in 1 .. n : Nth(DOMAIN alloc, k) = f /\ \A l \in 1 .. n : Nth(DOMAIN alloc, l) = f => l = k
  BY <1>1, NumberRanks DEF OfNumbers
<1>3. Rows(links) /\ DOMAIN links = 1 .. Len(links) /\ Len(links) \in Nat
  BY RowIds DEF LinksInv, Table
<1>4. Joined(L, links, added) /\ Numbered(added, n)
  BY DEF Joined, Numbered, LinksWith
<1>5. \A k \in 1 .. n : added[k] = new(Nth(DOMAIN alloc, k))
  OBVIOUS
<1> HIDE DEF added, n, S
<1>6. /\ Rows(L) /\ DOMAIN links \subseteq DOMAIN L
      /\ \A l \in DOMAIN links : L[l] = links[l]
      /\ \A l \in DOMAIN L \ DOMAIN links : \E k \in 1 .. n : l = Len(links) + k /\ L[l] = added[k]
  BY <1>2, <1>3, <1>4, RowsAdded
<1>7. \A k \in 1 .. n : Len(links) + k \in DOMAIN L /\ L[Len(links) + k] = added[k]
  BY <1>2, <1>3, <1>4, RowsAtEnd
<1>8. ASSUME NEW f
      PROVE  /\ Row(new(f), LinkColumns)
             /\ new(f).tx = t /\ new(f).fee = f /\ new(f).live /\ new(f).prior = fees[f].paid
             /\ new(f).amount = LinkAmount(t, alloc, f)
  BY DEF Row, LinkColumns, LinkAmount
<1> HIDE DEF new
<1>9. ASSUME NEW l \in DOMAIN L, l \notin DOMAIN links
      PROVE  /\ Row(L[l], LinkColumns) /\ L[l].tx = t /\ L[l].fee \in S /\ l > Len(links)
             /\ L[l].amount = LinkAmount(t, alloc, L[l].fee)
             /\ \E k \in 1 .. n : l = Len(links) + k /\ L[l].fee = Nth(DOMAIN alloc, k)
  <2>1. PICK k \in 1 .. n : l = Len(links) + k /\ L[l] = added[k]
    BY <1>6, <1>9
  <2>2. L[l] = new(Nth(DOMAIN alloc, k)) /\ Nth(DOMAIN alloc, k) \in S
    BY <1>2, <1>5, <2>1
  <2>3. l > Len(links)
    BY <1>2, <1>3, <2>1
  <2> QED BY <1>8, <2>1, <2>2, <2>3
<1>10. Table(L, LinkColumns)
  BY <1>6, <1>9 DEF Table, LinksInv
<1>11. ASSUME NEW f \in S
       PROVE  \E l \in DOMAIN L :
                /\ l > Len(links) /\ L[l].tx = t /\ L[l].fee = f /\ L[l].live /\ L[l].prior = fees[f].paid
                /\ \A k \in DOMAIN L \ DOMAIN links : L[k].fee = f => k = l
  <2>1. PICK k \in 1 .. n : Nth(DOMAIN alloc, k) = f /\ \A l \in 1 .. n : Nth(DOMAIN alloc, l) = f => l = k
    BY <1>2
  <2> DEFINE l == Len(links) + k
  <2>2. l \in DOMAIN L /\ L[l] = new(f)
    BY <1>5, <1>7, <2>1
  <2>3. l > Len(links)
    BY <1>2, <1>3
  <2>4. ASSUME NEW j \in DOMAIN L \ DOMAIN links, L[j].fee = f PROVE j = l
    BY <1>9, <2>1, <2>4
  <2> HIDE DEF l
  <2> QED BY <1>8, <2>2, <2>3, <2>4
<1> QED BY <1>6, <1>9, <1>10, <1>11 DEF S

(* Reopening right after confirming: every fee finds the row that Confirm  *)
(* added for it, and in it its paid date from before (removePayments).     *)
LEMMA UndoGives ==
  ASSUME LinksInv, FeesInv, NEW t, Assigned(t) = {}, NEW alloc, Confirmable(t, alloc),
         NEW L, L = LinksWith(t, alloc), NEW F, F = SettleAll(fees, L, DOMAIN alloc)
  PROVE  WithoutTx(F, L, t) = fees
<1> DEFINE S == DOMAIN alloc
<1>1. S \subseteq LiveFees
  BY DEF Confirmable, Takes
<1>2. /\ Table(L, LinkColumns) /\ DOMAIN links \subseteq DOMAIN L
      /\ \A l \in DOMAIN links : L[l] = links[l]
      /\ \A l \in DOMAIN L \ DOMAIN links : L[l].tx = t /\ L[l].fee \in S /\ l > Len(links)
      /\ \A f \in S : \E l \in DOMAIN L :
           /\ l > Len(links) /\ L[l].tx = t /\ L[l].fee = f /\ L[l].live /\ L[l].prior = fees[f].paid
           /\ \A k \in DOMAIN L \ DOMAIN links : L[k].fee = f => k = l
  BY <1>1, LinksAdded
<1>3. DOMAIN links = 1 .. Len(links) /\ Len(links) \in Nat /\ DOMAIN L \subseteq Nat
  <2>1. DOMAIN L = 1 .. Len(L) /\ Len(L) \in Nat
    BY <1>2, RowIds DEF Table
  <2> QED BY <2>1, RowIds DEF LinksInv, Table
<1>4. ASSUME NEW l \in DOMAIN links, links[l].live, links[l].tx = t PROVE ~ fees[links[l].fee].live
  BY <1>4 DEF Assigned, LinksOfTx
<1>5. /\ F = [f \in DOMAIN fees |-> F[f]]
      /\ \A f \in DOMAIN fees : /\ FeeRow(fees[f]) /\ F[f].live = fees[f].live
                                /\ f \notin S => F[f] = fees[f]
                                /\ \E date : F[f] = [fees[f] EXCEPT !.paid = date]
  <2>1. F = [f \in DOMAIN fees |-> IF f \in S /\ fees[f].live THEN [fees[f] EXCEPT !.paid = Settled(fees, L, f)]
                                   ELSE fees[f]]
    BY DEF SettleAll
  <2>2. ASSUME NEW f \in DOMAIN fees
        PROVE  /\ FeeRow(fees[f]) /\ F[f].live = fees[f].live
               /\ f \notin S => F[f] = fees[f]
               /\ \E date : F[f] = [fees[f] EXCEPT !.paid = date]
    <3>1. FeeRow(fees[f])
      BY DEF FeesInv
    <3>2. fees[f] = [fees[f] EXCEPT !.paid = fees[f].paid]
      BY <3>1 DEF FeeRow
    <3>3. F[f] = fees[f] \/ F[f] = [fees[f] EXCEPT !.paid = Settled(fees, L, f)]
      BY <2>1
    <3>4. \E date : F[f] = [fees[f] EXCEPT !.paid = date]
      BY <3>2, <3>3
    <3>5. F[f].live = fees[f].live
      BY <3>1, <3>4 DEF FeeRow
    <3> QED BY <2>1, <3>1, <3>4, <3>5
  <2> HIDE DEF S
  <2> QED BY <2>1, <2>2
<1> DEFINE of(f) == {l \in LinksOfTx(L, t) : L[l].fee = f}
<1>6. ASSUME NEW f \in LiveFees, f \notin S PROVE f \notin {L[l].fee : l \in LinksOfTx(L, t)}
  BY <1>2, <1>4, <1>6 DEF LinksOfTx, LiveFees
<1>7. ASSUME NEW f \in S PROVE f \in {L[l].fee : l \in LinksOfTx(L, t)} /\ PaidWithout(F, L, t, f) = fees[f].paid
  <2>1. PICK l \in DOMAIN L : /\ l > Len(links) /\ L[l].tx = t /\ L[l].fee = f /\ L[l].live
                              /\ L[l].prior = fees[f].paid
                              /\ \A k \in DOMAIN L \ DOMAIN links : L[k].fee = f => k = l
    BY <1>2
  <2>2. l \in LinksOfTx(L, t)
    BY <2>1 DEF LinksOfTx
  <2>3. ASSUME NEW k, k \in of(f) PROVE k = l
    <3>1. k \in DOMAIN L /\ L[k].live /\ L[k].tx = t /\ L[k].fee = f
      BY <2>3 DEF LinksOfTx
    <3>2. k \notin DOMAIN links
      BY <1>1, <1>2, <1>4, <3>1 DEF LiveFees
    <3> QED BY <2>1, <3>1, <3>2
  <2>4. of(f) = {l}
    BY <2>1, <2>2, <2>3
  <2>5. Min(of(f)) = l
    BY <1>3, <2>4 DEF Min
  <2>6. ASSUME NEW k \in LinksOf(Unlinked(L, t), f), k > l PROVE FALSE
    <3> DEFINE U == Unlinked(L, t)
    <3>1. k \in DOMAIN U /\ U[k].live
      BY DEF LinksOf
    <3>2. k \in DOMAIN L /\ U[k] = [L[k] EXCEPT !.live = L[k].live /\ L[k].tx # t]
      BY <3>1 DEF Unlinked
    <3>3. Row(L[k], LinkColumns)
      BY <1>2, <3>2 DEF Table
    <3> HIDE DEF U
    <3>4. L[k].tx # t
      BY <3>1, <3>2, <3>3 DEF Row, LinkColumns
    <3>5. k \in DOMAIN links
      BY <1>2, <3>2, <3>4
    <3> QED BY <1>3, <2>1, <2>6, <3>5
  <2>7. PaidWithout(F, L, t, f) = L[l].prior
    <3>1. Min({k \in LinksOfTx(L, t) : L[k].fee = f}) = l
      BY <2>5
    <3> HIDE DEF of
    <3> QED BY <2>6, <3>1 DEF PaidWithout
  <2> QED BY <2>1, <2>2, <2>7
<1> DEFINE G == WithoutTx(F, L, t)
<1>8. G = [f \in DOMAIN F |-> IF f \in {L[l].fee : l \in LinksOfTx(L, t)} /\ F[f].live
                              THEN [F[f] EXCEPT !.paid = PaidWithout(F, L, t, f)] ELSE F[f]]
  BY DEF WithoutTx
<1>9. DOMAIN F = DOMAIN fees /\ Rows(fees)
  BY <1>5 DEF FeesInv
<1> HIDE DEF G, S, of
<1>10. ASSUME NEW f \in DOMAIN fees PROVE G[f] = fees[f]
  <2>1. CASE f \in S
    <3>1. fees[f].live
      BY <1>1, <2>1 DEF LiveFees
    <3>2. G[f] = [F[f] EXCEPT !.paid = fees[f].paid]
      BY <1>5, <1>7, <1>8, <1>9, <2>1, <3>1
    <3>3. PICK date : F[f] = [fees[f] EXCEPT !.paid = date]
      BY <1>5
    <3> QED BY <1>5, <3>2, <3>3 DEF FeeRow
  <2>2. CASE f \notin S
    <3>1. F[f] = fees[f]
      BY <1>5, <2>2
    <3>2. CASE fees[f].live
      BY <1>6, <1>8, <1>9, <2>2, <3>1, <3>2 DEF LiveFees
    <3>3. CASE ~ fees[f].live
      BY <1>8, <1>9, <3>1, <3>3
    <3> QED BY <3>2, <3>3
  <2> QED BY <2>1, <2>2
<1>11. fees = [f \in DOMAIN fees |-> fees[f]]
  BY <1>9 DEF Rows
<1>12. G = [f \in DOMAIN fees |-> G[f]]
  BY <1>8, <1>9
<1> QED BY <1>10, <1>11, <1>12 DEF G

LEMMA UndoHolds ==
  ASSUME LinksInv, FeesInv
  PROVE  UndoRestores
<1> SUFFICES ASSUME NEW t \in LiveTxs, Assigned(t) = {}, NEW alloc, Confirmable(t, alloc)
             PROVE  WithoutTx(SettleAll(fees, LinksWith(t, alloc), DOMAIN alloc), LinksWith(t, alloc), t) = fees
  BY DEF UndoRestores
<1> QED BY UndoGives

(* Deleting payments only sets their flag.                                 *)
LEMMA OnlyFlags ==
  ASSUME NEW s, Table(s, LinkColumns), NEW t, t = [l \in DOMAIN s |-> t[l]],
         \A l \in DOMAIN s : \E stays : t[l] = [s[l] EXCEPT !.live = stays]
  PROVE  Table(t, LinkColumns)
<1>1. Rows(t) /\ DOMAIN t = DOMAIN s
  BY RowsChanged DEF Table
<1>2. ASSUME NEW l \in DOMAIN s
      PROVE  Row(t[l], LinkColumns)
  <2>1. PICK stays : t[l] = [s[l] EXCEPT !.live = stays]
    OBVIOUS
  <2>2. Row(s[l], LinkColumns)
    BY DEF Table
  <2> QED BY <2>1, <2>2 DEF Row, LinkColumns
<1> QED BY <1>1, <1>2 DEF Table

(* What a request does to payments and to the bank statement.              *)
StatementKept == UNCHANGED links /\ DOMAIN txs' = DOMAIN txs
PaymentsGone ==
  /\ DOMAIN txs' = DOMAIN txs
  /\ links' = [l \in DOMAIN links |-> links'[l]]
  /\ \A l \in DOMAIN links : \E stays : links'[l] = [links[l] EXCEPT !.live = stays]

LEMMA LinkSteps ==
  ASSUME FeesNext
  PROVE  StatementKept \/ PaymentsGone \/ \E t, alloc : Confirm(t, alloc)
<1>1. ASSUME UNCHANGED <<links, txs>> PROVE StatementKept
  BY <1>1 DEF StatementKept
<1>2. CASE ModelRequest
  BY <1>1, <1>2 DEF ModelRequest, CreateFeeModel, UpdateFeeModel, WriteModel, DeleteFeeModel, statement
<1>3. CASE AssignmentRequest
  BY <1>1, <1>3 DEF AssignmentRequest, SetFeeAssignment, statement
<1>4. CASE RunRequest
  BY <1>1, <1>4 DEF RunRequest, CreateFeeRun, DeleteFeeRun, statement
<1>5. CASE FeeRequest
  <2>1. \A m, amount, paid : CreateFee(m, amount, paid) => StatementKept
    BY <1>1 DEF CreateFee, statement
  <2>2. \A f, m, amount, paid : LoadFee(f, m, amount, paid) => StatementKept
    BY <1>1 DEF LoadFee, statement
  <2>3. \A f : DeleteFee(f) => PaymentsGone
    <3>1. ASSUME NEW f, DeleteFee(f) PROVE PaymentsGone
      <4>1. links' = [l \in DOMAIN links |-> [links[l] EXCEPT !.live = @ /\ links[l].fee # f]] /\ txs' = txs
        BY <3>1 DEF DeleteFee
      <4> QED BY <4>1 DEF PaymentsGone
    <3> QED BY <3>1
  <2>4. ResetFinance => PaymentsGone
    BY DEF ResetFinance, PaymentsGone
  <2> HIDE DEF StatementKept, PaymentsGone
  <2> QED BY <1>5, <2>1, <2>2, <2>3, <2>4 DEF FeeRequest
<1>6. CASE UpdateFee
  BY <1>1, <1>6 DEF UpdateFee, statement
<1>7. CASE MandateRequest
  BY <1>1, <1>7 DEF MandateRequest, SetSEPACreditor, SetMandateReference, statement
<1>8. CASE CollectionRequest
  <2>1. \A fs : CreateSEPARun(fs) => StatementKept
    BY <1>1 DEF CreateSEPARun, statement
  <2>2. \A d : CancelSEPARun(d) => StatementKept
    BY <1>1 DEF CancelSEPARun, statement
  <2>3. \A d, date : ConfirmSEPARun(d, date) => StatementKept
    BY <1>1 DEF ConfirmSEPARun, statement
  <2> QED BY <1>8, <2>1, <2>2, <2>3 DEF CollectionRequest
<1>9. CASE ImportRequest
  BY <1>9 DEF ImportRequest, ImportTransaction, StatementKept
<1>10. \A t : links' = Unlinked(links, t) /\ DOMAIN txs' = DOMAIN txs => PaymentsGone
  BY DEF Unlinked, PaymentsGone
<1>11. CASE TransactionRequest
  <2>1. \A t, amount, income : UpdateTransaction(t, amount, income) => StatementKept
    BY DEF UpdateTransaction, StatementKept
  <2>2. \A t : DeleteTransaction(t) => PaymentsGone
    <3>1. \A t : DeleteTransaction(t) => links' = Unlinked(links, t) /\ DOMAIN txs' = DOMAIN txs
      BY DEF DeleteTransaction
    <3> QED BY <1>10, <3>1
  <2> QED BY <1>11, <2>1, <2>2 DEF TransactionRequest
<1>12. CASE ReconciliationRequest
  <2>1. \A t : DismissReconciliation(t) => StatementKept
    BY DEF DismissReconciliation, StatementKept
  <2>2. \A t : ReopenReconciliation(t) => PaymentsGone
    <3>1. \A t : ReopenReconciliation(t) => links' = Unlinked(links, t) /\ DOMAIN txs' = DOMAIN txs
      BY DEF ReopenReconciliation
    <3> QED BY <1>10, <3>1
  <2>3. StartCertain => StatementKept
    BY <1>1 DEF StartCertain, statement
  <2>4. \A t, alloc : ConfirmReconciliation(t, alloc) => Confirm(t, alloc)
    BY DEF ConfirmReconciliation
  <2> QED BY <1>12, <2>1, <2>2, <2>3, <2>4 DEF ReconciliationRequest
<1>13. CASE MatchCertain
  BY <1>1, <1>13 DEF MatchCertain, statement
<1>14. CASE ConfirmCertain
  BY <1>1, <1>14 DEF ConfirmCertain, statement
<1> QED
  BY <1>2, <1>3, <1>4, <1>5, <1>6, <1>7, <1>8, <1>9, <1>11, <1>12, <1>13, <1>14 DEF FeesNext

LEMMA LinksStep ==
  ASSUME LinksInv, FeesInv, [Next]_vars
  PROVE  LinksInv'
<1>1. CASE StatementKept
  BY <1>1 DEF StatementKept, LinksInv
<1>2. CASE PaymentsGone
  <2>1. Table(links', LinkColumns)
    BY <1>2, OnlyFlags DEF LinksInv, PaymentsGone
  <2> QED BY <1>2, <2>1 DEF LinksInv, PaymentsGone
<1>3. ASSUME NEW t, NEW alloc, Confirm(t, alloc) PROVE LinksInv'
  <2>1. DOMAIN alloc \subseteq LiveFees
    BY <1>3 DEF Confirm, Confirmable, Takes
  <2>2. links' = LinksWith(t, alloc) /\ DOMAIN txs' = DOMAIN txs
    BY <1>3 DEF Confirm
  <2>3. Table(links', LinkColumns)
    BY <2>1, <2>2, LinksAdded
  <2> QED BY <2>2, <2>3 DEF LinksInv
<1>4. CASE UNCHANGED <<links, txs>>
  BY <1>1, <1>4 DEF StatementKept
<1>5. CASE UNCHANGED feeVars
  BY <1>4, <1>5 DEF feeVars, statement
<1>6. ASSUME NEW m \in Member, DeleteMember(m) PROVE UNCHANGED <<links, txs>>
  BY <1>6 DEF DeleteMember, DeleteFinancesOf, statement
<1>7. ASSUME NEW g \in Group, DeleteNamed(g) PROVE UNCHANGED feeVars
  BY <1>7 DEF DeleteNamed
<1>8. FeesNext => LinksInv'
  BY <1>1, <1>2, <1>3, LinkSteps
<1> QED
  BY <1>4, <1>5, <1>6, <1>7, <1>8 DEF Next, vars

LEMMA LinksAtFirst ==
  ASSUME Init
  PROVE  LinksInv
<1>1. links = << >> /\ txs = [t \in DOMAIN Entries |-> Absent]
  BY DEF Init, FeesInit
<1> QED BY <1>1, NoRowsYet DEF LinksInv
-----------------------------------------------------------------------------
(* The ledger: fee models, assignments, mandates, billing and debit runs.  *)

AssignedInv ==
  /\ FunctionOn(assigned, Member) /\ FunctionOn(mandate, Member)
  /\ \A m \in Member \ LiveMembers : assigned[m] = "auto" /\ mandate[m] = 0

DebitColumns == {"live", "paid", "items"}
DebitsInv == Table(debits, DebitColumns) /\ OneCollection

(* What a request does to them.                                            *)
LEMMA LedgerSteps ==
  ASSUME FeesNext
  PROVE  \/ UNCHANGED <<models, assigned, runs, debits, mandate>>
         \/ \E i \in ModelId : DeleteFeeModel(i) \/ \E tariff \in Tariffs : WriteModel(i, tariff)
         \/ \E m \in Member : \E mode : SetFeeAssignment(m, mode)
         \/ \E from, to : CreateFeeRun(from, to)
         \/ \E r \in DOMAIN runs : DeleteFeeRun(r)
         \/ ResetFinance
         \/ \E m \in Member : \E ref : SetMandateReference(m, ref)
         \/ \E fs : CreateSEPARun(fs)
         \/ \E d \in DOMAIN debits : CancelSEPARun(d) \/ \E date \in Dates : ConfirmSEPARun(d, date)
<1> DEFINE Same == UNCHANGED <<models, assigned, runs, debits, mandate>>
<1>1. CASE ModelRequest
  BY <1>1 DEF ModelRequest, CreateFeeModel, UpdateFeeModel
<1>2. CASE AssignmentRequest
  BY <1>2 DEF AssignmentRequest
<1>3. CASE RunRequest
  BY <1>3 DEF RunRequest
<1>4. CASE FeeRequest
  <2>1. \A m, amount, paid : CreateFee(m, amount, paid) => Same
    BY DEF CreateFee, billing, collection
  <2>2. \A f, m, amount, paid : LoadFee(f, m, amount, paid) => Same
    BY DEF LoadFee, billing, collection
  <2>3. \A f : DeleteFee(f) => Same
    BY DEF DeleteFee, billing, collection
  <2> HIDE DEF Same
  <2>4. Same \/ ResetFinance \/ \E m, amount, paid : CreateFee(m, amount, paid)
    BY <1>4, <2>1, <2>2, <2>3 DEF FeeRequest
  <2>5. QED
    BY <2>1, <2>4 DEF Same
<1>5. CASE UpdateFee
  BY <1>5 DEF UpdateFee, billing, collection
<1>6. CASE MandateRequest
  BY <1>6 DEF MandateRequest, SetSEPACreditor, billing
<1>7. CASE CollectionRequest
  BY <1>7 DEF CollectionRequest
<1>8. CASE ImportRequest
  BY <1>8 DEF ImportRequest, ImportTransaction, billing, collection
<1>9. CASE TransactionRequest
  <2>1. \A t, amount, income : UpdateTransaction(t, amount, income) => Same
    BY DEF UpdateTransaction, billing, collection
  <2>2. \A t : DeleteTransaction(t) => Same
    BY DEF DeleteTransaction, billing, collection
  <2> HIDE DEF Same
  <2>3. Same
    BY <1>9, <2>1, <2>2 DEF TransactionRequest
  <2>4. QED
    BY <2>3 DEF Same
<1>10. \A t, alloc : Confirm(t, alloc) => Same
  BY DEF Confirm, billing, collection
<1>11. CASE ReconciliationRequest
  <2>1. \A t : DismissReconciliation(t) => Same
    BY DEF DismissReconciliation, billing, collection
  <2>2. \A t : ReopenReconciliation(t) => Same
    BY DEF ReopenReconciliation, billing, collection
  <2>3. StartCertain => Same
    BY DEF StartCertain, billing, collection
  <2> HIDE DEF Same
  <2>4. Same
    BY <1>10, <1>11, <2>1, <2>2, <2>3 DEF ReconciliationRequest, ConfirmReconciliation
  <2>5. QED
    BY <2>4 DEF Same
<1>12. CASE MatchCertain
  BY <1>12 DEF MatchCertain, billing, collection
<1>13. CASE ConfirmCertain
  BY <1>10, <1>13 DEF ConfirmCertain, billing, collection
<1>14. QED
  BY <1>1, <1>2, <1>3, <1>4, <1>5, <1>6, <1>7, <1>8, <1>9, <1>11, <1>12, <1>13 DEF FeesNext

LEMMA ModelsSame ==
  ASSUME ModelsInv, UNCHANGED models
  PROVE  ModelsInv'
BY DEF ModelsInv, LiveModels

LEMMA ModelWritten ==
  ASSUME ModelsInv, NEW i \in ModelId, NEW tariff \in Tariffs, WriteModel(i, tariff)
  PROVE  ModelsInv'
<1>1. models' = [models EXCEPT ![i] = tariff] /\ ~ NameTaken(i, tariff.name)
  BY DEF WriteModel
<1>2. models' \in [ModelId -> Tariffs \cup {NoTariff}]
  BY <1>1 DEF ModelsInv
<1>3. tariff # NoTariff
  BY FeeLedgerAssumption DEF FeeLedgerAssumption
<1>4. LiveModels' = LiveModels \cup {i}
  BY <1>1, <1>3 DEF ModelsInv, LiveModels
<1>5. ASSUME NEW j \in LiveModels \cup {i}, NEW k \in LiveModels \cup {i}, models'[j].name = models'[k].name
      PROVE  j = k
  <2>1. models'[i] = tariff /\ \A l \in LiveModels \ {i} : models'[l] = models[l] /\ models[l].name # tariff.name
    BY <1>1 DEF ModelsInv, LiveModels, NameTaken
  <2>2. QED
    BY <1>5, <2>1 DEF ModelsInv
<1>6. QED
  BY <1>2, <1>4, <1>5 DEF ModelsInv

LEMMA ModelDeleted ==
  ASSUME ModelsInv, NEW i \in ModelId, DeleteFeeModel(i)
  PROVE  ModelsInv'
<1>1. models' = [models EXCEPT ![i] = NoTariff]
  BY DEF DeleteFeeModel
<1>2. LiveModels' \subseteq LiveModels /\ \A j \in LiveModels' : models'[j] = models[j]
  BY <1>1 DEF ModelsInv, LiveModels
<1>3. models' \in [ModelId -> Tariffs \cup {NoTariff}]
  BY <1>1 DEF ModelsInv
<1>4. QED
  BY <1>2, <1>3 DEF ModelsInv

LEMMA AssignedSame ==
  ASSUME AssignedInv, LiveMembers \subseteq LiveMembers', UNCHANGED <<assigned, mandate>>
  PROVE  AssignedInv'
BY DEF AssignedInv

(* A debit run takes fees that no other one waits for.                     *)
LEMMA DebitsCreated ==
  ASSUME DebitsInv, NEW fs, CreateSEPARun(fs)
  PROVE  DebitsInv'
<1> DEFINE taken == [f \in fs |-> [amount |-> CollectedAmount(f), member |-> fees[f].member,
                                   mandate |-> mandate[fees[f].member],
                                   first |-> ~ MandateUsed(fees[f].member)]]
           x == [live |-> TRUE, paid |-> 0, items |-> taken]
<1>1. Added(debits', debits, x)
  BY DEF CreateSEPARun, Added
<1>2. DOMAIN taken = fs
  OBVIOUS
<1> HIDE DEF taken
<1>3. Row(x, DebitColumns) /\ x.items = taken
  BY DEF Row, DebitColumns
<1>4. \A f \in fs : ~ InCollection(f)
  BY DEF CreateSEPARun, Collectable, Candidates
<1> HIDE DEF x
<1>5. Rows(debits) /\ \A d \in DOMAIN debits : Row(debits[d], DebitColumns)
  BY DEF DebitsInv, Table
<1>6. Table(debits', DebitColumns)
  BY <1>1, <1>3, TableAdded DEF DebitsInv
<1>7. /\ \A d \in DOMAIN debits : debits'[d] = debits[d]
      /\ \A d \in DOMAIN debits' \ DOMAIN debits : d = Len(debits) + 1 /\ debits'[d] = x
  BY <1>1, <1>5, RowAdded
<1>8. \A d \in DOMAIN debits :
        debits[d].live /\ debits[d].paid = 0 => fs \cap DOMAIN debits[d].items = {}
  BY <1>4 DEF InCollection
<1>9. OneCollection'
  <2> SUFFICES ASSUME NEW d \in DOMAIN debits', NEW e \in DOMAIN debits', d # e,
                      debits'[d].live, debits'[d].paid = 0, debits'[e].live, debits'[e].paid = 0
               PROVE  DOMAIN debits'[d].items \cap DOMAIN debits'[e].items = {}
    BY DEF OneCollection
  <2>1. CASE d \in DOMAIN debits /\ e \in DOMAIN debits
    BY <2>1, <1>7 DEF DebitsInv, OneCollection
  <2>2. CASE d \in DOMAIN debits /\ e \notin DOMAIN debits
    BY <2>2, <1>2, <1>3, <1>7, <1>8
  <2>3. CASE d \notin DOMAIN debits /\ e \in DOMAIN debits
    BY <2>3, <1>2, <1>3, <1>7, <1>8
  <2>4. CASE d \notin DOMAIN debits /\ e \notin DOMAIN debits
    BY <2>4, <1>7
  <2>5. QED
    BY <2>1, <2>2, <2>3, <2>4
<1>10. QED
  BY <1>6, <1>9 DEF DebitsInv

(* Cancelling a run and confirming it take it out of those waiting.        *)
LEMMA DebitsEnded ==
  ASSUME DebitsInv, NEW d \in DOMAIN debits, CancelSEPARun(d) \/ \E date \in Dates : ConfirmSEPARun(d, date)
  PROVE  DebitsInv'
<1>0. Rows(debits) /\ \A e \in DOMAIN debits : Row(debits[e], DebitColumns)
  BY DEF DebitsInv, Table
<1>1. \/ debits' = [debits EXCEPT ![d] = [debits[d] EXCEPT !.live = FALSE]]
      \/ \E date \in Dates : debits' = [debits EXCEPT ![d] = [debits[d] EXCEPT !.paid = date]]
  BY DEF CancelSEPARun, ConfirmSEPARun
<1>2. debits' = [e \in DOMAIN debits |-> debits'[e]] /\ \A e \in DOMAIN debits \ {d} : debits'[e] = debits[e]
  BY <1>0, <1>1 DEF Rows
<1>3. \/ debits'[d] = [debits[d] EXCEPT !.live = FALSE]
      \/ \E date \in Dates : debits'[d] = [debits[d] EXCEPT !.paid = date]
  BY <1>0, <1>1 DEF Rows
<1>4. Row(debits'[d], DebitColumns) /\ debits'[d].items = debits[d].items
      /\ (~ debits'[d].live \/ debits'[d].paid \in Dates)
  <2>1. Row(debits[d], DebitColumns)
    BY <1>0
  <2>2. QED
    BY <1>3, <2>1 DEF Row, DebitColumns
<1>5. Rows(debits') /\ DOMAIN debits' = DOMAIN debits
  BY <1>0, <1>2, RowsChanged
<1>6. Table(debits', DebitColumns)
  BY <1>0, <1>2, <1>4, <1>5 DEF Table
<1>7. 0 \notin Dates
  BY FeeLedgerAssumption DEF FeeLedgerAssumption
<1>8. OneCollection'
  BY <1>2, <1>4, <1>5, <1>7 DEF DebitsInv, OneCollection
<1>9. QED
  BY <1>6, <1>8 DEF DebitsInv

LedgerInv == ModelsInv /\ Rows(runs) /\ AssignedInv /\ DebitsInv

LEMMA LedgerSame ==
  ASSUME LedgerInv, LiveMembers \subseteq LiveMembers', UNCHANGED <<models, assigned, runs, debits, mandate>>
  PROVE  LedgerInv'
BY ModelsSame, AssignedSame DEF LedgerInv, DebitsInv, OneCollection

LEMMA LedgerRequest ==
  ASSUME LedgerInv, FeesNext, UNCHANGED LiveMembers
  PROVE  LedgerInv'
<1>1. CASE UNCHANGED <<models, assigned, runs, debits, mandate>>
  BY <1>1, LedgerSame
<1>2. ASSUME UNCHANGED <<debits>> PROVE DebitsInv'
  BY <1>2 DEF LedgerInv, DebitsInv, OneCollection
<1>3. ASSUME NEW i \in ModelId, DeleteFeeModel(i) \/ \E tariff \in Tariffs : WriteModel(i, tariff)
      PROVE  LedgerInv'
  <2>1. UNCHANGED <<runs, debits, mandate>>
    BY <1>3 DEF DeleteFeeModel, WriteModel, collection
  <2>2. ModelsInv'
    BY <1>3, ModelWritten, ModelDeleted DEF LedgerInv
  <2>3. AssignedInv'
    BY <1>3, <2>1 DEF LedgerInv, AssignedInv, DeleteFeeModel, WriteModel, FunctionOn
  <2>4. QED
    BY <1>2, <2>1, <2>2, <2>3 DEF LedgerInv
<1>4. ASSUME NEW m \in Member, NEW mode, SetFeeAssignment(m, mode)
      PROVE  LedgerInv'
  <2>1. UNCHANGED <<models, runs, debits, mandate>> /\ m \in LiveMembers /\ assigned' = [assigned EXCEPT ![m] = mode]
    BY <1>4 DEF SetFeeAssignment, collection
  <2>2. AssignedInv'
    BY <2>1 DEF LedgerInv, AssignedInv, FunctionOn
  <2>3. QED
    BY <1>2, <2>1, <2>2, ModelsSame DEF LedgerInv
<1>5. ASSUME UNCHANGED <<models, assigned, debits, mandate>>, Rows(runs')
      PROVE  LedgerInv'
  BY <1>2, <1>5, ModelsSame, AssignedSame DEF LedgerInv
<1>6. ASSUME NEW from, NEW to, CreateFeeRun(from, to)
      PROVE  LedgerInv'
  <2>1. Added(runs', runs, TRUE) /\ UNCHANGED <<models, assigned, debits, mandate>>
    BY <1>6 DEF CreateFeeRun, Added, collection
  <2>2. QED
    BY <1>5, <2>1, RowAdded DEF LedgerInv
<1>7. ASSUME NEW r \in DOMAIN runs, DeleteFeeRun(r)
      PROVE  LedgerInv'
  <2>1. runs' = [runs EXCEPT ![r] = runs'[r]] /\ UNCHANGED <<models, assigned, debits, mandate>>
    BY <1>7 DEF DeleteFeeRun, collection, LedgerInv, Rows
  <2>2. runs' = [i \in DOMAIN runs |-> runs'[i]]
    BY <2>1 DEF LedgerInv, Rows
  <2>3. QED
    BY <1>5, <2>1, <2>2, RowsChanged DEF LedgerInv
<1>8. ASSUME ResetFinance
      PROVE  LedgerInv'
  <2>1. runs' = [r \in DOMAIN runs |-> FALSE] /\ UNCHANGED <<models, assigned, debits, mandate>>
    BY <1>8 DEF ResetFinance, collection
  <2>2. QED
    BY <1>5, <2>1, RowsChanged DEF LedgerInv
<1>9. ASSUME NEW m \in Member, NEW ref, SetMandateReference(m, ref)
      PROVE  LedgerInv'
  <2>1. UNCHANGED <<models, assigned, runs, debits>> /\ m \in LiveMembers /\ mandate' = [mandate EXCEPT ![m] = ref]
    BY <1>9 DEF SetMandateReference, billing
  <2>2. AssignedInv'
    BY <2>1 DEF LedgerInv, AssignedInv, FunctionOn
  <2>3. QED
    BY <1>2, <2>1, <2>2, ModelsSame DEF LedgerInv
<1>10. ASSUME UNCHANGED <<models, assigned, runs, mandate>>, DebitsInv'
       PROVE  LedgerInv'
  BY <1>10, ModelsSame, AssignedSame DEF LedgerInv
<1>11. ASSUME NEW fs, CreateSEPARun(fs)
       PROVE  LedgerInv'
  BY <1>10, <1>11, DebitsCreated DEF LedgerInv, CreateSEPARun, billing
<1>12. ASSUME NEW d \in DOMAIN debits, CancelSEPARun(d) \/ \E date \in Dates : ConfirmSEPARun(d, date)
       PROVE  LedgerInv'
  <2>1. UNCHANGED <<models, assigned, runs, mandate>>
    BY <1>12 DEF CancelSEPARun, ConfirmSEPARun, billing
  <2>2. QED
    BY <1>10, <1>12, <2>1, DebitsEnded DEF LedgerInv
<1>13. QED
  BY <1>1, <1>3, <1>4, <1>6, <1>7, <1>8, <1>9, <1>11, <1>12, LedgerSteps

(* Deleting a member takes its assignment and its mandate.                 *)
LEMMA LedgerOfDeleted ==
  ASSUME LedgerInv, NEW m \in Member, DeleteFinancesOf(m), LiveMembers' = LiveMembers \ {m}
  PROVE  LedgerInv'
<1>1. /\ UNCHANGED <<models, runs, debits>>
      /\ assigned' = [assigned EXCEPT ![m] = "auto"] /\ mandate' = [mandate EXCEPT ![m] = 0]
  BY DEF DeleteFinancesOf
<1>2. AssignedInv'
  BY <1>1 DEF LedgerInv, AssignedInv, FunctionOn
<1>3. DebitsInv'
  BY <1>1 DEF LedgerInv, DebitsInv, OneCollection
<1>4. QED
  BY <1>1, <1>2, <1>3, ModelsSame DEF LedgerInv

(* Every step keeps the ledger.                                            *)
LEMMA LedgerStep ==
  ASSUME LedgerInv, PeopleInv, [Next]_vars
  PROVE  LedgerInv'
<1>1. CASE FeesNext /\ UNCHANGED recordVars
  <2>1. UNCHANGED LiveMembers
    BY <1>1 DEF recordVars, people, LiveMembers
  <2>2. QED
    BY <1>1, <2>1, LedgerRequest
<1>2. CASE UNCHANGED feeVars /\ LiveMembers \subseteq LiveMembers'
  BY <1>2, LedgerSame DEF feeVars, billing, collection
<1>3. ASSUME NEW m \in Member, DeleteMember(m)
      PROVE  LedgerInv'
  BY <1>3, MemberDeleted, LedgerOfDeleted DEF DeleteMember
<1>4. CASE RecordsNext /\ UNCHANGED feeVars
  BY <1>2, <1>4, PeopleRecords
<1>5. CASE UNCHANGED <<recordVars, feeVars>>
  BY <1>2, <1>5 DEF recordVars, people, LiveMembers
<1>6. ASSUME NEW g \in Group, DeleteNamed(g)
      PROVE  LedgerInv'
  BY <1>2, <1>6 DEF DeleteNamed, DeleteGroupLinks, people, LiveMembers
<1>7. QED
  BY <1>1, <1>3, <1>4, <1>5, <1>6 DEF Next, vars

LEMMA LedgerAtFirst ==
  ASSUME Init
  PROVE  LedgerInv
<1>1. FeesInit /\ RecordsInit
  BY DEF Init
<1>2. LiveModels = {} /\ ModelsInv
  BY <1>1 DEF FeesInit, LiveModels, ModelsInv
<1>3. Rows(runs)
  BY <1>1, EmptyRows DEF FeesInit
<1>4. AssignedInv
  BY <1>1 DEF FeesInit, AssignedInv, FunctionOn
<1>5. debits = << >>
  BY <1>1 DEF FeesInit
<1>6. DebitsInv
  BY <1>5, EmptyRows DEF DebitsInv, Table, OneCollection
<1>7. QED
  BY <1>2, <1>3, <1>4, <1>6 DEF LedgerInv

(* The core data of a member is one of what it can be.                     *)
LEMMA CoreWritten ==
  ASSUME CoreInv, NEW m \in Member, NEW k \in Range(Cores[m]), core' = [core EXCEPT ![m] = k]
  PROVE  CoreInv'
<1> DEFINE S == [age : Nat, entry : Nat, exit : Nat]
<1>1. Cores[m] \in Seq(S)
  BY ClubRecordsAssumption DEF ClubRecordsAssumption
<1> HIDE DEF S
<1>2. k \in S
  <2>1. PICK i \in DOMAIN Cores[m] : k = Cores[m][i]
    BY DEF Range
  <2>2. QED
    BY <1>1, <2>1
<1>3. QED
  BY <1>2 DEF CoreInv, S

LEMMA CoreStep ==
  ASSUME CoreInv, [Next]_vars
  PROVE  CoreInv'
<1>1. CASE UNCHANGED core
  BY <1>1 DEF CoreInv
<1>2. CASE MemberRequest
  <2>1. PICK m \in Member, c \in Contacts, account \in {0} \cup Accounts :
          \E k \in Range(Cores[m]) : CreateMember(m, k, c, account) \/ UpdateMember(m, k, c, account)
    BY <1>2 DEF MemberRequest
  <2>2. PICK k \in Range(Cores[m]) : CreateMember(m, k, c, account) \/ UpdateMember(m, k, c, account)
    BY <2>1
  <2>3. core' = [core EXCEPT ![m] = k]
    BY <2>2 DEF CreateMember, UpdateMember
  <2>4. QED
    BY <2>3, CoreWritten
<1>3. CASE RecordsNext /\ ~ MemberRequest
  <2>1. CASE HouseholdRequest
    <3>1. \A h, row, ms, source : WriteHousehold(h, row, ms, source) => UNCHANGED core
      BY DEF WriteHousehold
    <3>2. \A h : DeleteHousehold(h) => UNCHANGED core
      BY DEF DeleteHousehold, people
    <3>3. QED
      BY <1>1, <2>1, <3>1, <3>2 DEF HouseholdRequest, CreateHousehold, UpdateHousehold
  <2>2. CASE GuardianRequest
    BY <1>1, <2>2 DEF GuardianRequest, CreateGuardian, DeleteGuardian, people
  <2>3. CASE GroupRequest
    BY <1>1, <2>3 DEF GroupRequest, CreateNamed, SetNamedMembers, people
  <2>4. CASE TypeRequest
    BY <1>1, <2>4 DEF TypeRequest, CreateQualificationType, DeleteQualificationType, people
  <2>5. CASE QualificationRequest
    BY <1>1, <2>5 DEF QualificationRequest, ReadQualificationType, DeleteQualification, people
  <2>6. CASE CreateQualification
    BY <1>1, <2>6 DEF CreateQualification, people
  <2>7. CASE HonorRequest
    BY <1>1, <2>7 DEF HonorRequest, CreateHonor, DeleteHonor, SetMembershipAdjust, people
  <2>8. CASE \E s \in scopes : LoseScope(s)
    BY <1>1, <2>8 DEF LoseScope, people
  <2>9. QED
    BY <1>3, <2>1, <2>2, <2>3, <2>4, <2>5, <2>6, <2>7, <2>8 DEF RecordsNext
<1>4. CASE UNCHANGED recordVars
  BY <1>1, <1>4 DEF recordVars, people
<1>5. ASSUME NEW m \in Member, DeleteMember(m)
      PROVE  CoreInv'
  BY <1>1, <1>5 DEF DeleteMember, DeleteRecordsOf
<1>6. ASSUME NEW g \in Group, DeleteNamed(g)
      PROVE  CoreInv'
  BY <1>1, <1>6 DEF DeleteNamed, DeleteGroupLinks, people
<1>7. QED
  BY <1>2, <1>3, <1>4, <1>5, <1>6 DEF Next, vars

LEMMA CoreAtFirst ==
  ASSUME Init
  PROVE  CoreInv
<1>1. core = [m \in Member |-> Cores[m][1]]
  BY DEF Init, RecordsInit
<1>2. ASSUME NEW m \in Member
      PROVE  Cores[m][1] \in [age : Nat, entry : Nat, exit : Nat]
  <2> DEFINE S == [age : Nat, entry : Nat, exit : Nat]
  <2>1. Cores[m] \in Seq(S) /\ Cores[m] # << >>
    BY ClubRecordsAssumption DEF ClubRecordsAssumption
  <2> HIDE DEF S
  <2>2. Cores[m][1] \in S
    BY <2>1
  <2>3. QED
    BY <2>2 DEF S
<1>3. QED
  BY <1>1, <1>2 DEF CoreInv

LEMMA FeesStep ==
  ASSUME FeesInv, LedgerInv, PeopleInv, [Next]_vars
  PROVE  FeesInv'
<1>1. CASE FeesNext /\ UNCHANGED recordVars
  <2>1. LiveMembers' = LiveMembers
    BY <1>1 DEF recordVars, people, LiveMembers
  <2>2. Rows(fees) /\ Len(runs) \in Nat /\ ModelsInv
    BY DEF FeesInv, LedgerInv, Rows
  <2>3. QED
    BY <1>1, <2>1, <2>2, FeeSteps, SameFees, RunCharges, FeeByHand, FeeEdited, OnlyDeleted, OnlyPaid
<1>2. CASE UNCHANGED feeVars /\ LiveMembers \subseteq LiveMembers'
  BY <1>2, SameFees DEF feeVars
<1>3. ASSUME NEW m \in Member, DeleteMember(m)
      PROVE  FeesInv'
  BY <1>3, MemberDeleted, FeesOfDeleted DEF DeleteMember
<1>4. CASE RecordsNext /\ UNCHANGED feeVars
  BY <1>2, <1>4, PeopleRecords
<1>5. CASE UNCHANGED <<recordVars, feeVars>>
  BY <1>2, <1>5 DEF recordVars, people, LiveMembers
<1>6. ASSUME NEW g \in Group, DeleteNamed(g)
      PROVE  FeesInv'
  BY <1>2, <1>6 DEF DeleteNamed, DeleteGroupLinks, people, LiveMembers
<1>7. QED
  BY <1>1, <1>3, <1>4, <1>5, <1>6 DEF Next, vars

LEMMA FeesAtFirst ==
  ASSUME Init
  PROVE  FeesInv
<1>1. fees = << >>
  BY DEF Init, FeesInit
<1>2. LiveFees = {}
  BY <1>1, EmptyRows DEF LiveFees
<1>3. QED
  BY <1>1, <1>2, EmptyRows DEF FeesInv, ChargedOnce, ChargedTo

(* Members, what they owe and what is done about it.                       *)
MoneyInv == PeopleInv /\ CoreInv /\ LedgerInv /\ FeesInv

LEMMA MoneyAtFirst ==
  ASSUME Init
  PROVE  MoneyInv
BY PeopleAtFirst, CoreAtFirst, LedgerAtFirst, FeesAtFirst DEF MoneyInv

LEMMA MoneyStep ==
  ASSUME MoneyInv, [Next]_vars
  PROVE  MoneyInv'
BY PeopleStep, CoreStep, LedgerStep, FeesStep DEF MoneyInv

(* However billing runs, corrections by hand, edits, resets and deletions  *)
(* follow each other, no month is charged twice to a member (CreateFeeRun, *)
(* chargedPeriods).                                                        *)
THEOREM MonthsChargedOnce == Spec => []ChargedOnce
<1>1. Init => MoneyInv
  BY MoneyAtFirst
<1>2. MoneyInv /\ [Next]_vars => MoneyInv'
  BY MoneyStep
<1>3. MoneyInv => ChargedOnce
  BY DEF MoneyInv, FeesInv
<1>4. QED
  BY <1>1, <1>2, <1>3, PTL DEF Spec

(* In every state what a member owes has neither a gap nor an overlap: one *)
(* model at most applies to it in a year, and the periods of a model end   *)
(* in the year they start in (modelFor, planFeeRun).                       *)
THEOREM OwedWithoutGap == Spec => []NoGapNoOverlap
<1>1. Init => MoneyInv
  BY MoneyAtFirst
<1>2. MoneyInv /\ [Next]_vars => MoneyInv'
  BY MoneyStep
<1>3. MoneyInv => NoGapNoOverlap
  BY NoGapHolds DEF MoneyInv, LedgerInv
<1>4. QED
  BY <1>1, <1>2, <1>3, PTL DEF Spec

(* No fee waits for the bank in two debit runs (CreateSEPARun).            *)
THEOREM CollectedOnce == Spec => []OneCollection
<1>1. Init => MoneyInv
  BY MoneyAtFirst
<1>2. MoneyInv /\ [Next]_vars => MoneyInv'
  BY MoneyStep
<1>3. MoneyInv => OneCollection
  BY DEF MoneyInv, LedgerInv, DebitsInv
<1>4. QED
  BY <1>1, <1>2, <1>3, PTL DEF Spec

(* Every confirmation can be taken back: reopening the entry right away    *)
(* gives all its fees the paid dates they had, as each payment row keeps   *)
(* the date from before it and the entry has no other row (removePayments).*)
THEOREM ConfirmedCanBeUndone == Spec => []UndoRestores
<1>1. Init => MoneyInv /\ LinksInv
  BY MoneyAtFirst, LinksAtFirst
<1>2. MoneyInv /\ LinksInv /\ [Next]_vars => (MoneyInv /\ LinksInv)'
  BY MoneyStep, LinksStep DEF MoneyInv
<1>3. MoneyInv /\ LinksInv => UndoRestores
  BY UndoHolds DEF MoneyInv
<1>4. QED
  BY <1>1, <1>2, <1>3, PTL DEF Spec
-----------------------------------------------------------------------------
(* Groups, events, audiences and attendance.                               *)

AudienceInv ==
  /\ FunctionOn(groups, Group) /\ FunctionOn(events, EventId)
  /\ \A e \in EventId : "state" \in DOMAIN events[e]
  /\ \A a \in audience : a[1] \in LiveEvents /\ a[2] \in LiveGroups
  /\ \A x \in exceptions : x[1] \in LiveEvents
  /\ \A a \in attendance : a.member \in LiveMembers

(* Only DeleteNamed takes a live group away.                               *)
LEMMA GroupsRecords ==
  ASSUME FunctionOn(groups, Group), RecordsNext
  PROVE  FunctionOn(groups', Group) /\ LiveGroups \subseteq LiveGroups'
<1>1. CASE UNCHANGED groups
  BY <1>1 DEF LiveGroups
<1>2. CASE MemberRequest
  <2>1. PICK m, k, c, account : CreateMember(m, k, c, account) \/ UpdateMember(m, k, c, account)
    BY <1>2 DEF MemberRequest
  <2>2. QED
    BY <1>1, <2>1 DEF CreateMember, UpdateMember
<1>3. CASE HouseholdRequest
  <2>1. \A h, row, ms, source : WriteHousehold(h, row, ms, source) => UNCHANGED groups
    BY DEF WriteHousehold, teams
  <2>2. \A h : DeleteHousehold(h) => UNCHANGED groups
    BY DEF DeleteHousehold, teams
  <2>3. QED
    BY <1>1, <1>3, <2>1, <2>2 DEF HouseholdRequest, CreateHousehold, UpdateHousehold
<1>4. CASE GuardianRequest
  BY <1>1, <1>4 DEF GuardianRequest, CreateGuardian, DeleteGuardian, teams
<1>5. CASE GroupRequest
  <2>1. ASSUME NEW g \in Group, CreateNamed(g)
        PROVE  FunctionOn(groups', Group) /\ LiveGroups \subseteq LiveGroups'
    BY <2>1 DEF CreateNamed, LiveGroups, FunctionOn
  <2>2. ASSUME NEW g \in Group, NEW ms \in SUBSET Member, SetNamedMembers(g, ms)
        PROVE  FunctionOn(groups', Group) /\ LiveGroups \subseteq LiveGroups'
    BY <1>1, <2>2 DEF SetNamedMembers
  <2>3. QED
    BY <1>5, <2>1, <2>2 DEF GroupRequest
<1>6. CASE TypeRequest
  BY <1>1, <1>6 DEF TypeRequest, CreateQualificationType, DeleteQualificationType, teams
<1>7. CASE QualificationRequest
  BY <1>1, <1>7 DEF QualificationRequest, ReadQualificationType, DeleteQualification, teams
<1>8. CASE CreateQualification
  BY <1>1, <1>8 DEF CreateQualification, teams
<1>9. CASE HonorRequest
  BY <1>1, <1>9 DEF HonorRequest, CreateHonor, DeleteHonor, SetMembershipAdjust, teams
<1>10. CASE \E s \in scopes : LoseScope(s)
  BY <1>1, <1>10 DEF LoseScope, teams
<1>11. QED
  BY <1>2, <1>3, <1>4, <1>5, <1>6, <1>7, <1>8, <1>9, <1>10 DEF RecordsNext

LEMMA AudienceSame ==
  ASSUME AudienceInv, UNCHANGED <<events, audience, exceptions, attendance>>,
         FunctionOn(groups', Group), LiveGroups \subseteq LiveGroups', LiveMembers \subseteq LiveMembers'
  PROVE  AudienceInv'
<1>1. LiveEvents' = LiveEvents
  BY DEF LiveEvents
<1>2. QED
  BY <1>1 DEF AudienceInv

LEMMA EventWritten ==
  ASSUME AudienceInv, UNCHANGED <<groups, members>>, NEW e \in EventId, NEW c, NEW gs, WriteEvent(e, c, gs)
  PROVE  AudienceInv'
<1> DEFINE row == [state |-> "live", start |-> c.start, end |-> c.end, allDay |-> c.allDay,
                   recurrence |-> c.recurrence, until |-> c.until]
<1>1. /\ events' = [events EXCEPT ![e] = row] /\ UNCHANGED <<exceptions, attendance>>
      /\ audience' = (audience \ RowsOf(audience, e)) \cup ({e} \X gs) /\ gs \subseteq LiveGroups
  BY DEF WriteEvent
<1>2. row.state = "live" /\ "state" \in DOMAIN row
  OBVIOUS
<1> HIDE DEF row
<1>3. LiveEvents' = LiveEvents \cup {e} /\ FunctionOn(events', EventId)
  BY <1>1, <1>2 DEF AudienceInv, FunctionOn, LiveEvents
<1>4. \A d \in EventId : "state" \in DOMAIN events'[d]
  BY <1>1, <1>2 DEF AudienceInv, FunctionOn
<1>5. \A a \in audience' : a[1] \in LiveEvents \cup {e} /\ a[2] \in LiveGroups
  BY <1>1 DEF AudienceInv
<1>6. LiveGroups' = LiveGroups /\ LiveMembers' = LiveMembers
  BY DEF LiveGroups, LiveMembers
<1>7. QED
  BY <1>1, <1>3, <1>4, <1>5, <1>6 DEF AudienceInv

(* The rows of an event go with it.                                        *)
LEMMA EventDeleted ==
  ASSUME AudienceInv, UNCHANGED <<groups, members>>, NEW e \in EventId, DeleteEvent(e)
  PROVE  AudienceInv'
<1>1. /\ events' = [events EXCEPT ![e] = [events[e] EXCEPT !.state = "deleted"]]
      /\ audience' = audience \ RowsOf(audience, e) /\ exceptions' = exceptions \ RowsOf(exceptions, e)
      /\ attendance' = {a \in attendance : a.event # e}
  BY DEF DeleteEvent
<1>2. events'[e] = [events[e] EXCEPT !.state = "deleted"] /\ \A d \in EventId \ {e} : events'[d] = events[d]
  BY <1>1 DEF AudienceInv, FunctionOn
<1>3. events'[e].state = "deleted" /\ "state" \in DOMAIN events'[e]
  BY <1>2 DEF AudienceInv
<1>4. FunctionOn(events', EventId) /\ LiveEvents' = LiveEvents \ {e}
  BY <1>1, <1>2, <1>3 DEF AudienceInv, FunctionOn, LiveEvents
<1>5. \A d \in EventId : "state" \in DOMAIN events'[d]
  BY <1>2, <1>3 DEF AudienceInv
<1>6. LiveGroups' = LiveGroups /\ LiveMembers' = LiveMembers
  BY DEF LiveGroups, LiveMembers
<1>7. \A a \in audience' : a[1] \in LiveEvents' /\ a[2] \in LiveGroups'
  BY <1>1, <1>4, <1>6 DEF AudienceInv, RowsOf
<1>8. \A x \in exceptions' : x[1] \in LiveEvents'
  BY <1>1, <1>4 DEF AudienceInv, RowsOf
<1>9. QED
  BY <1>1, <1>4, <1>5, <1>6, <1>7, <1>8 DEF AudienceInv

LEMMA AudienceRequest ==
  ASSUME AudienceInv, UNCHANGED <<groups, members>>, CalendarNext
  PROVE  AudienceInv'
<1>1. LiveGroups' = LiveGroups /\ LiveMembers' = LiveMembers
  BY DEF LiveGroups, LiveMembers
<1>2. CASE EventRequest
  <2>1. ASSUME NEW e \in EventId, NEW c \in Series, NEW gs \in SUBSET Group,
               CreateEvent(e, c, gs) \/ UpdateEvent(e, c, gs)
        PROVE  AudienceInv'
    BY <2>1, EventWritten DEF CreateEvent, UpdateEvent
  <2>2. ASSUME NEW e \in EventId, NEW day \in EventDays, NEW excluded \in BOOLEAN,
               SetEventException(e, day, excluded)
        PROVE  AudienceInv'
    <3>1. /\ e \in LiveEvents /\ UNCHANGED <<events, audience, attendance>>
          /\ exceptions' \subseteq exceptions \cup {<<e, day>>}
      BY <2>2 DEF SetEventException
    <3>2. LiveEvents' = LiveEvents
      BY <3>1 DEF LiveEvents
    <3>3. QED
      BY <1>1, <3>1, <3>2 DEF AudienceInv
  <2>3. QED
    BY <1>2, <2>1, <2>2, EventDeleted DEF EventRequest
<1>3. CASE AttendanceRequest
  BY <1>1, <1>3, AudienceSame DEF AttendanceRequest, FindOccurrence, AudienceInv
<1>4. CASE SetAttendance
  <2>1. UNCHANGED <<events, exceptions, audience>>
    BY <1>4 DEF SetAttendance
  <2>2. ASSUME NEW a \in attendance'
        PROVE  a.member \in LiveMembers
    BY <1>4, <2>2 DEF SetAttendance, AudienceInv
  <2>3. LiveEvents' = LiveEvents
    BY <2>1 DEF LiveEvents
  <2>4. QED
    BY <1>1, <2>1, <2>2, <2>3 DEF AudienceInv
<1>5. CASE TaskRequest
  BY <1>1, <1>5, AudienceSame DEF TaskRequest, AudienceInv
<1>6. QED
  BY <1>2, <1>3, <1>4, <1>5 DEF CalendarNext

(* Every step keeps what events and groups own.                            *)
LEMMA AudienceStep ==
  ASSUME AudienceInv, PeopleInv, [Next]_vars
  PROVE  AudienceInv'
<1>1. CASE CalendarNext /\ UNCHANGED recordVars
  BY <1>1, AudienceRequest DEF recordVars, people, teams
<1>2. CASE RecordsNext /\ UNCHANGED calendarVars
  BY <1>2, PeopleRecords, GroupsRecords, AudienceSame DEF calendarVars, AudienceInv
<1>3. CASE UNCHANGED <<recordVars, calendarVars>>
  BY <1>3, AudienceSame DEF recordVars, people, teams, calendarVars, LiveGroups, LiveMembers, AudienceInv
<1>4. ASSUME NEW m \in Member, DeleteMember(m)
      PROVE  AudienceInv'
  <2>1. LiveMembers' = LiveMembers \ {m} /\ UNCHANGED groups
    BY <1>4, MemberDeleted DEF DeleteMember, DeleteRecordsOf
  <2>2. attendance' = {a \in attendance : a.member # m} /\ UNCHANGED <<events, exceptions, audience>>
    BY <1>4 DEF DeleteMember, DeleteAttendanceOf
  <2>3. LiveGroups' = LiveGroups /\ LiveEvents' = LiveEvents
    BY <2>1, <2>2 DEF LiveGroups, LiveEvents
  <2>4. QED
    BY <2>1, <2>2, <2>3 DEF AudienceInv
<1>5. ASSUME NEW g \in Group, DeleteNamed(g)
      PROVE  AudienceInv'
  <2>1. groups' = [groups EXCEPT ![g] = "deleted"] /\ UNCHANGED members
    BY <1>5 DEF DeleteNamed, DeleteGroupLinks, people
  <2>2. audience' = {a \in audience : a[2] # g} /\ UNCHANGED <<events, exceptions, attendance>>
    BY <1>5 DEF DeleteNamed, DeleteAudienceOf
  <2>3. LiveGroups' = LiveGroups \ {g} /\ FunctionOn(groups', Group)
    BY <2>1 DEF LiveGroups, AudienceInv, FunctionOn
  <2>4. LiveMembers' = LiveMembers /\ LiveEvents' = LiveEvents
    BY <2>1, <2>2 DEF LiveMembers, LiveEvents
  <2>5. QED
    BY <2>2, <2>3, <2>4 DEF AudienceInv
<1>6. QED
  BY <1>1, <1>2, <1>3, <1>4, <1>5 DEF Next, vars

LEMMA AudienceAtFirst ==
  ASSUME Init
  PROVE  AudienceInv
BY DEF Init, RecordsInit, CalendarInit, AudienceInv, FunctionOn
-----------------------------------------------------------------------------
(* Items, loans and maintenance.                                           *)

LoanColumns == {"item", "member", "returned", "live"}
MaintenanceColumns == {"item", "live"}
StatusRow(r) == DOMAIN r = {"live", "condition"} /\ r = [x \in DOMAIN r |-> r[x]]

ItemsInv ==
  /\ FunctionOn(items, ItemId) /\ FunctionOn(itemStatus, ItemId)
  /\ \A x \in ItemId : StatusRow(itemStatus[x]) /\ (x \notin LiveItems => ~ itemStatus[x].live)
  /\ Table(maintenance, MaintenanceColumns) /\ Belong(maintenance, "item", LiveItems)
LoansInv ==
  /\ Table(loans, LoanColumns)
  /\ Belong(loans, "member", LiveMembers) /\ Belong(loans, "item", LiveItems)

LEMMA LoanColumnsAre ==
  /\ "live" \in LoanColumns /\ "member" \in LoanColumns \ {"live"} /\ "item" \in LoanColumns \ {"live"}
  /\ "returned" \in LoanColumns \ {"live"}
  /\ "live" \in MaintenanceColumns /\ "item" \in MaintenanceColumns \ {"live"}
BY DEF LoanColumns, MaintenanceColumns

LEMMA LoansSame ==
  ASSUME LoansInv, UNCHANGED loans, LiveMembers \subseteq LiveMembers', LiveItems \subseteq LiveItems'
  PROVE  LoansInv'
BY BelongToMore DEF LoansInv

LEMMA ItemsSame ==
  ASSUME ItemsInv, UNCHANGED <<items, itemStatus, maintenance>>
  PROVE  ItemsInv' /\ LiveItems' = LiveItems
BY DEF ItemsInv, LiveItems

(* An item enters the inventory.                                           *)
LEMMA ItemCreated ==
  ASSUME ItemsInv, NEW x \in ItemId, CreateItem(x)
  PROVE  ItemsInv' /\ LiveItems \subseteq LiveItems'
<1>1. items' = [items EXCEPT ![x] = "live"] /\ UNCHANGED <<itemStatus, maintenance>>
  BY DEF CreateItem
<1>2. FunctionOn(items', ItemId) /\ LiveItems' = LiveItems \cup {x}
  BY <1>1 DEF ItemsInv, FunctionOn, LiveItems
<1>3. Belong(maintenance', "item", LiveItems')
  BY <1>1, <1>2 DEF ItemsInv, Belong
<1>4. QED
  BY <1>1, <1>2, <1>3 DEF ItemsInv

(* It goes with its condition, its loans and its maintenance.              *)
LEMMA ItemDeleted ==
  ASSUME ItemsInv, LoansInv, NEW x \in ItemId, DeleteItem(x), UNCHANGED members
  PROVE  ItemsInv' /\ LoansInv'
<1> DEFINE l == {i \in DOMAIN loans : loans[i].item = x}
           k == {i \in DOMAIN maintenance : maintenance[i].item = x}
<1>1. /\ items' = [items EXCEPT ![x] = "deleted"]
      /\ itemStatus' = [itemStatus EXCEPT ![x] = [itemStatus[x] EXCEPT !.live = FALSE]]
      /\ Deleted(loans', loans, l) /\ Deleted(maintenance', maintenance, k)
  BY DEF DeleteItem, Deleted
<1>2. FunctionOn(items', ItemId) /\ LiveItems' = LiveItems \ {x}
  BY <1>1 DEF ItemsInv, FunctionOn, LiveItems
<1>3. itemStatus'[x] = [itemStatus[x] EXCEPT !.live = FALSE]
      /\ (\A y \in ItemId \ {x} : itemStatus'[y] = itemStatus[y]) /\ FunctionOn(itemStatus', ItemId)
  BY <1>1 DEF ItemsInv, FunctionOn
<1>4. StatusRow(itemStatus'[x]) /\ itemStatus'[x].live = FALSE
  BY <1>3 DEF ItemsInv, StatusRow
<1>5. \A y \in ItemId : StatusRow(itemStatus'[y]) /\ (y \notin LiveItems' => ~ itemStatus'[y].live)
  BY <1>2, <1>3, <1>4 DEF ItemsInv
<1>6. /\ \A i \in DOMAIN loans : loans[i]["item"] \in LiveItems \ (LiveItems \ {x}) => i \in l
      /\ \A i \in DOMAIN loans : loans[i]["member"] \in LiveMembers \ LiveMembers => i \in l
      /\ \A i \in DOMAIN maintenance : maintenance[i]["item"] \in LiveItems \ (LiveItems \ {x}) => i \in k
  OBVIOUS
<1> HIDE DEF l, k
<1>7. Table(loans', LoanColumns) /\ Table(maintenance', MaintenanceColumns)
  BY <1>1, LoanColumnsAre, TableWithout DEF ItemsInv, LoansInv
<1>8. Belong(loans', "item", LiveItems \ {x})
  BY <1>1, <1>6, LoanColumnsAre, BelongWithout DEF LoansInv
<1>9. Belong(loans', "member", LiveMembers)
  BY <1>1, <1>6, LoanColumnsAre, BelongWithout DEF LoansInv
<1>10. Belong(maintenance', "item", LiveItems \ {x})
  BY <1>1, <1>6, LoanColumnsAre, BelongWithout DEF ItemsInv
<1>11. LiveMembers' = LiveMembers
  BY DEF LiveMembers
<1>12. QED
  BY <1>2, <1>3, <1>5, <1>7, <1>8, <1>9, <1>10, <1>11 DEF ItemsInv, LoansInv

(* A condition or a maintenance is recorded of live items.                 *)
LEMMA StatusWritten ==
  ASSUME ItemsInv, NEW x \in LiveItems, NEW condition,
         itemStatus' = [itemStatus EXCEPT ![x] = [live |-> TRUE, condition |-> condition]], UNCHANGED items,
         Table(maintenance', MaintenanceColumns), Belong(maintenance', "item", LiveItems)
  PROVE  ItemsInv' /\ LiveItems' = LiveItems
<1> DEFINE row == [live |-> TRUE, condition |-> condition]
<1>1. StatusRow(row)
  BY DEF StatusRow
<1> HIDE DEF row
<1>2. itemStatus' = [itemStatus EXCEPT ![x] = row]
  BY DEF row
<1>3. LiveItems' = LiveItems
  BY DEF LiveItems
<1>4. FunctionOn(itemStatus', ItemId)
      /\ \A y \in ItemId : itemStatus'[y] = IF y = x THEN row ELSE itemStatus[y]
  BY <1>2 DEF ItemsInv, FunctionOn
<1>5. \A y \in ItemId : StatusRow(itemStatus'[y]) /\ (y \notin LiveItems => ~ itemStatus'[y].live)
  BY <1>1, <1>4 DEF ItemsInv
<1>6. QED
  BY <1>3, <1>4, <1>5 DEF ItemsInv

LEMMA MaintenanceKept ==
  ASSUME ItemsInv, MaintenanceRequest
  PROVE  ItemsInv' /\ LiveItems' = LiveItems
<1>1. ASSUME NEW x \in ItemId, RecordMaintenance(x)
      PROVE  ItemsInv' /\ LiveItems' = LiveItems
  <2> DEFINE row == [item |-> x, live |-> TRUE]
  <2>1. x \in LiveItems /\ Added(maintenance', maintenance, row) /\ UNCHANGED items
    BY <1>1 DEF RecordMaintenance, Added
  <2>2. PICK given : itemStatus' = [itemStatus EXCEPT ![x] = [live |-> TRUE, condition |-> given]]
    BY <1>1 DEF RecordMaintenance
  <2>3. Row(row, MaintenanceColumns) /\ row["item"] = x
    BY DEF Row, MaintenanceColumns
  <2> HIDE DEF row
  <2>4. Table(maintenance', MaintenanceColumns) /\ Belong(maintenance', "item", LiveItems)
    BY <2>1, <2>3, TableAdded, BelongAdded DEF ItemsInv, Table
  <2>5. QED
    BY <2>1, <2>2, <2>4, StatusWritten
<1>2. ASSUME NEW x \in ItemId, NEW condition \in Conditions, SetItemStatus(x, condition)
      PROVE  ItemsInv' /\ LiveItems' = LiveItems
  <2>1. /\ x \in LiveItems /\ UNCHANGED <<items, maintenance>>
        /\ itemStatus' = [itemStatus EXCEPT ![x] = [live |-> TRUE, condition |-> condition]]
    BY <1>2 DEF SetItemStatus
  <2>2. Table(maintenance', MaintenanceColumns) /\ Belong(maintenance', "item", LiveItems)
    BY <2>1 DEF ItemsInv
  <2>3. QED
    BY <2>1, <2>2, StatusWritten
<1>3. ASSUME NEW i \in DOMAIN maintenance, DeleteMaintenance(i)
      PROVE  ItemsInv' /\ LiveItems' = LiveItems
  <2>1. RowDeleted(maintenance', maintenance, i) /\ UNCHANGED <<items, itemStatus>>
    BY <1>3 DEF DeleteMaintenance, RowDeleted
  <2>2. Table(maintenance', MaintenanceColumns) /\ Belong(maintenance', "item", LiveItems)
    BY <2>1, LoanColumnsAre, OneDeleted, BelongOneDeleted DEF ItemsInv
  <2>3. LiveItems' = LiveItems
    BY <2>1 DEF LiveItems
  <2>4. QED
    BY <2>1, <2>2, <2>3 DEF ItemsInv
<1>4. QED
  BY <1>1, <1>2, <1>3 DEF MaintenanceRequest

(* An accepted edit of a loan writes the form over it.                     *)
LEMMA FormWritten ==
  ASSUME Table(loans, LoanColumns), loanForm.loan \in DOMAIN loans, WriteForm
  PROVE  /\ Table(loans', LoanColumns) /\ DOMAIN loans' = DOMAIN loans
         /\ \A i \in DOMAIN loans \ {loanForm.loan} : loans'[i] = loans[i]
         /\ loans'[loanForm.loan].item = loanForm.item /\ loans'[loanForm.loan].member = loanForm.member
         /\ loans'[loanForm.loan].returned = loanForm.returned
         /\ loans'[loanForm.loan].live = loans[loanForm.loan].live
<1> DEFINE i == loanForm.loan
           r == [loans[i] EXCEPT !.item = loanForm.item, !.member = loanForm.member, !.returned = loanForm.returned]
<1>1. loans' = [loans EXCEPT ![i] = r]
  BY DEF WriteForm
<1>2. Rows(loans) /\ \A j \in DOMAIN loans : Row(loans[j], LoanColumns)
  BY DEF Table
<1>3. Row(loans[i], LoanColumns)
  BY <1>2
<1>4. /\ Row(r, LoanColumns) /\ r.item = loanForm.item /\ r.member = loanForm.member
      /\ r.returned = loanForm.returned /\ r.live = loans[i].live
  BY <1>3 DEF Row, LoanColumns
<1> HIDE DEF r
<1>5. loans' = [j \in DOMAIN loans |-> loans'[j]] /\ \A j \in DOMAIN loans : loans'[j] = IF j = i THEN r ELSE loans[j]
  BY <1>1, <1>2 DEF Rows
<1>6. Rows(loans') /\ DOMAIN loans' = DOMAIN loans
  BY <1>2, <1>5, RowsChanged
<1>7. Table(loans', LoanColumns)
  BY <1>2, <1>4, <1>5, <1>6 DEF Table
<1>8. QED
  BY <1>4, <1>5, <1>6, <1>7

LEMMA LoanEdited ==
  ASSUME LoansInv, UpdateLoan, UNCHANGED members
  PROVE  LoansInv'
<1>1. LiveMembers' = LiveMembers /\ LiveItems' = LiveItems
  BY DEF UpdateLoan, LiveMembers, LiveItems
<1>2. CASE UNCHANGED loans
  BY <1>1, <1>2, LoansSame
<1>3. CASE Accepted /\ WriteForm /\ loanForm.loan \in DOMAIN loans
  BY <1>1, <1>3, FormWritten DEF LoansInv, Belong, Accepted
<1>4. CASE WriteForm /\ loanForm.loan \notin DOMAIN loans
  <2>1. loans' = loans
    BY <1>4 DEF WriteForm, LoansInv, Table, Rows
  <2>2. QED
    BY <1>2, <2>1
<1>5. QED
  BY <1>2, <1>3, <1>4 DEF UpdateLoan

LEMMA LoansKept ==
  ASSUME LoansInv, LoanRequest, UNCHANGED members
  PROVE  LoansInv' /\ UNCHANGED <<items, itemStatus, maintenance>>
<1>1. ASSUME NEW x \in ItemId, NEW m \in Member, CreateLoan(x, m)
      PROVE  LoansInv' /\ UNCHANGED <<items, itemStatus, maintenance>>
  <2> DEFINE row == [item |-> x, member |-> m, returned |-> FALSE, live |-> TRUE]
  <2>1. /\ m \in LiveMembers /\ x \in LiveItems /\ Added(loans', loans, row)
        /\ UNCHANGED <<items, itemStatus, maintenance>>
    BY <1>1 DEF CreateLoan, Added
  <2>2. Row(row, LoanColumns) /\ row["item"] = x /\ row["member"] = m
    BY DEF Row, LoanColumns
  <2> HIDE DEF row
  <2>3. Table(loans', LoanColumns)
    BY <2>1, <2>2, TableAdded DEF LoansInv
  <2>4. Belong(loans', "item", LiveItems) /\ Belong(loans', "member", LiveMembers)
    BY <2>1, <2>2, BelongAdded DEF LoansInv, Table
  <2>5. LiveMembers' = LiveMembers /\ LiveItems' = LiveItems
    BY <2>1 DEF LiveMembers, LiveItems
  <2>6. QED
    BY <2>1, <2>3, <2>4, <2>5 DEF LoansInv
<1>2. ASSUME NEW i, NEW x, NEW m, NEW returned, LoadLoan(i, x, m, returned)
      PROVE  LoansInv' /\ UNCHANGED <<items, itemStatus, maintenance>>
  BY <1>2, LoansSame DEF LoadLoan, LiveMembers, LiveItems
<1>3. ASSUME NEW i \in DOMAIN loans, DeleteLoan(i)
      PROVE  LoansInv' /\ UNCHANGED <<items, itemStatus, maintenance>>
  <2>1. RowDeleted(loans', loans, i) /\ UNCHANGED <<items, itemStatus, maintenance>>
    BY <1>3 DEF DeleteLoan, RowDeleted
  <2>2. Table(loans', LoanColumns)
    BY <2>1, LoanColumnsAre, OneDeleted DEF LoansInv
  <2>3. Belong(loans', "item", LiveItems) /\ Belong(loans', "member", LiveMembers)
    BY <2>1, LoanColumnsAre, BelongOneDeleted DEF LoansInv
  <2>4. LiveMembers' = LiveMembers /\ LiveItems' = LiveItems
    BY <2>1 DEF LiveMembers, LiveItems
  <2>5. QED
    BY <2>1, <2>2, <2>3, <2>4 DEF LoansInv
<1>4. QED
  BY <1>1, <1>2, <1>3 DEF LoanRequest

LEMMA InventoryStep ==
  ASSUME ItemsInv, LoansInv, PeopleInv, [Next]_vars
  PROVE  ItemsInv' /\ LoansInv'
<1>1. CASE InventoryNext /\ UNCHANGED recordVars
  <2>0. UNCHANGED members
    BY <1>1 DEF recordVars, people
  <2>1. CASE ItemRequest
    <3>1. ASSUME NEW x \in ItemId, CreateItem(x)
          PROVE  ItemsInv' /\ LoansInv'
      <4>1. UNCHANGED loans /\ LiveMembers \subseteq LiveMembers'
        BY <2>0, <3>1 DEF CreateItem, LiveMembers
      <4>2. QED
        BY <3>1, <4>1, ItemCreated, LoansSame
    <3>2. QED
      BY <2>0, <2>1, <3>1, ItemDeleted DEF ItemRequest
  <2>2. CASE LoanRequest
    BY <2>0, <2>2, LoansKept, ItemsSame
  <2>3. CASE UpdateLoan
    BY <2>0, <2>3, LoanEdited, ItemsSame DEF UpdateLoan
  <2>4. CASE MaintenanceRequest
    <3>1. UNCHANGED loans /\ LiveMembers \subseteq LiveMembers'
      BY <2>0, <2>4 DEF MaintenanceRequest, RecordMaintenance, SetItemStatus, DeleteMaintenance, LiveMembers
    <3>2. QED
      BY <2>4, <3>1, MaintenanceKept, LoansSame
  <2>5. QED
    BY <1>1, <2>1, <2>2, <2>3, <2>4 DEF InventoryNext
<1>2. CASE UNCHANGED inventoryVars /\ LiveMembers \subseteq LiveMembers'
  BY <1>2, ItemsSame, LoansSame DEF inventoryVars
<1>3. ASSUME NEW m \in Member, DeleteMember(m)
      PROVE  ItemsInv' /\ LoansInv'
  <2> DEFINE l == {i \in DOMAIN loans : loans[i].member = m}
  <2>1. LiveMembers' = LiveMembers \ {m}
    BY <1>3, MemberDeleted DEF DeleteMember
  <2>2. Deleted(loans', loans, l) /\ UNCHANGED <<items, itemStatus, maintenance>>
    BY <1>3 DEF DeleteMember, DeleteLoansOf, Deleted
  <2>3. /\ \A i \in DOMAIN loans : loans[i]["member"] \in LiveMembers \ (LiveMembers \ {m}) => i \in l
        /\ \A i \in DOMAIN loans : loans[i]["item"] \in LiveItems \ LiveItems => i \in l
    OBVIOUS
  <2> HIDE DEF l
  <2>4. Table(loans', LoanColumns)
    BY <2>2, LoanColumnsAre, TableWithout DEF LoansInv
  <2>5. Belong(loans', "member", LiveMembers \ {m})
    BY <2>2, <2>3, LoanColumnsAre, BelongWithout DEF LoansInv
  <2>6. Belong(loans', "item", LiveItems)
    BY <2>2, <2>3, LoanColumnsAre, BelongWithout DEF LoansInv
  <2>7. QED
    BY <2>1, <2>2, <2>4, <2>5, <2>6, ItemsSame DEF LoansInv
<1>4. CASE RecordsNext /\ UNCHANGED inventoryVars
  BY <1>2, <1>4, PeopleRecords
<1>5. CASE UNCHANGED <<recordVars, inventoryVars>>
  BY <1>2, <1>5 DEF recordVars, people, LiveMembers
<1>6. ASSUME NEW g \in Group, DeleteNamed(g)
      PROVE  ItemsInv' /\ LoansInv'
  BY <1>2, <1>6 DEF DeleteNamed, DeleteGroupLinks, people, LiveMembers
<1>7. QED
  BY <1>1, <1>3, <1>4, <1>5, <1>6 DEF Next, vars

LEMMA InventoryAtFirst ==
  ASSUME Init
  PROVE  ItemsInv /\ LoansInv
<1>1. InventoryInit
  BY DEF Init
<1>2. \A x \in ItemId : itemStatus[x] = [live |-> FALSE, condition |-> "ready"]
  BY <1>1 DEF InventoryInit
<1>3. \A x \in ItemId : StatusRow(itemStatus[x]) /\ ~ itemStatus[x].live
  BY <1>2 DEF StatusRow
<1>4. FunctionOn(items, ItemId) /\ FunctionOn(itemStatus, ItemId)
  BY <1>1 DEF InventoryInit, FunctionOn
<1>5. loans = << >> /\ maintenance = << >>
  BY <1>1 DEF InventoryInit
<1>6. QED
  BY <1>3, <1>4, <1>5, NoRowsYet DEF ItemsInv, LoansInv
-----------------------------------------------------------------------------
(* The whole database.                                                     *)

OfficeInv == MoneyInv /\ MeritsInv /\ AudienceInv /\ ItemsInv /\ LoansInv

LEMMA OfficeAtFirst ==
  ASSUME Init
  PROVE  OfficeInv
<1>1. guardians = << >> /\ quals = << >> /\ honors = << >>
  BY DEF Init, RecordsInit
<1>2. MeritsInv
  BY <1>1, NoRowsYet DEF MeritsInv
<1>3. QED
  BY <1>2, MoneyAtFirst, AudienceAtFirst, InventoryAtFirst DEF OfficeInv

LEMMA MeritsStep ==
  ASSUME MeritsInv, PeopleInv, [Next]_vars
  PROVE  MeritsInv'
<1>1. CASE RecordsNext
  BY <1>1, PeopleRecords, MeritsRecords
<1>2. CASE UNCHANGED recordVars
  BY <1>2, MeritsSame DEF recordVars, people, families, merits, LiveMembers
<1>3. ASSUME NEW m \in Member, DeleteMember(m)
      PROVE  MeritsInv'
  BY <1>3, MemberDeleted, MeritsOfDeleted DEF DeleteMember
<1>4. ASSUME NEW g \in Group, DeleteNamed(g)
      PROVE  MeritsInv'
  BY <1>4, MeritsSame DEF DeleteNamed, DeleteGroupLinks, people, families, merits, LiveMembers
<1>5. QED
  BY <1>1, <1>2, <1>3, <1>4 DEF Next, vars

LEMMA OfficeStep ==
  ASSUME OfficeInv, [Next]_vars
  PROVE  OfficeInv'
BY MoneyStep, MeritsStep, AudienceStep, InventoryStep DEF OfficeInv, MoneyInv

LEMMA OfficeHolds ==
  ASSUME OfficeInv
  PROVE  NoOrphans
<1>1. \A m \in Member \ LiveMembers : ~ contact[m].live /\ ~ bank[m].live /\ belongs[m] = 0 /\ ~ adjust[m]
  BY DEF OfficeInv, MoneyInv, PeopleInv
<1>2. \A i \in DOMAIN guardians :
        guardians[i].live => {guardians[i].member, guardians[i].guardian} \subseteq LiveMembers \cup {Nobody}
  <2>1. ASSUME NEW i \in DOMAIN guardians, guardians[i].live
        PROVE  guardians[i].member \in LiveMembers /\ guardians[i].guardian \in LiveMembers \cup {Nobody}
    BY <2>1 DEF OfficeInv, MeritsInv, Belong
  <2>2. QED
    BY <2>1
<1>3. \A rows \in {quals, honors} : \A i \in DOMAIN rows : rows[i].live => rows[i].member \in LiveMembers
  BY DEF OfficeInv, MeritsInv, Belong
<1>4. \A h \in Household :
        households[h].state = "live" /\ households[h].payer # Nobody => belongs[households[h].payer] = h
  BY DEF OfficeInv, MoneyInv, PeopleInv
<1>5. RecordsOfLiveMembers
  BY <1>1, <1>2, <1>3, <1>4 DEF RecordsOfLiveMembers
<1>6. \A f \in LiveFees : fees[f].member \in LiveMembers
  BY DEF OfficeInv, MoneyInv, FeesInv
<1>7. \A m \in Member \ LiveMembers : assigned[m] = "auto" /\ mandate[m] = 0
  BY DEF OfficeInv, MoneyInv, LedgerInv, AssignedInv
<1>8. /\ \A a \in attendance : a.member \in LiveMembers
      /\ \A a \in audience : a[1] \in LiveEvents /\ a[2] \in LiveGroups
      /\ \A x \in exceptions : x[1] \in LiveEvents
  BY DEF OfficeInv, AudienceInv
<1>9. \A i \in DOMAIN loans : loans[i].live => loans[i].member \in LiveMembers /\ loans[i].item \in LiveItems
  BY DEF OfficeInv, LoansInv, Belong
<1>10. /\ \A i \in DOMAIN maintenance : maintenance[i].live => maintenance[i].item \in LiveItems
       /\ \A x \in ItemId \ LiveItems : ~ itemStatus[x].live
  BY DEF OfficeInv, ItemsInv, Belong
<1>11. QED
  BY <1>5, <1>6, <1>7, <1>8, <1>9, <1>10 DEF NoOrphans

(* A row is live only as long as what it belongs to, across all tables and *)
(* also while requests have read what is deleted before they write         *)
(* (DeleteMember, DeleteNamed, DeleteEvent, DeleteItem).                   *)
THEOREM NoRowIsOrphaned == Spec => []NoOrphans
<1>1. Init => OfficeInv
  BY OfficeAtFirst
<1>2. OfficeInv /\ [Next]_vars => OfficeInv'
  BY OfficeStep
<1>3. OfficeInv => NoOrphans
  BY OfficeHolds
<1>4. QED
  BY <1>1, <1>2, <1>3, PTL DEF Spec

-----------------------------------------------------------------------------
(* What a step does to loans.                                              *)

(* A loan that was not open goes out, or an open one moves to another item.*)
GoesOut(i) ==
  /\ i \in DOMAIN loans' /\ OpenLoan(loans'[i])
  /\ ~(i \in DOMAIN loans /\ OpenLoan(loans[i]) /\ loans[i].item = loans'[i].item)
PutBack(i) == i \in DOMAIN loans /\ Overtaken(i) /\ loans[i].item = loans'[i].item

(* Deleting loans lets none go out.                                        *)
LEMMA NoneGoesOut ==
  ASSUME DOMAIN loans' = DOMAIN loans,
         \A i \in DOMAIN loans : /\ \A x \in LoanColumns \ {"live"} : loans'[i][x] = loans[i][x]
                                 /\ loans'[i].live => loans[i].live,
         NEW i
  PROVE  ~ GoesOut(i)
BY LoanColumnsAre DEF GoesOut, OpenLoan

LEMMA LoansGoOutReady ==
  ASSUME LoansInv, [Next]_vars, NEW i, GoesOut(i)
  PROVE  ReadyItem(loans'[i].item) \/ PutBack(i)
<1>0. Table(loans, LoanColumns) /\ "live" \in LoanColumns
  BY LoanColumnsAre DEF LoansInv
<1>1. CASE UNCHANGED loans
  BY <1>1 DEF GoesOut
<1>2. CASE ItemRequest
  <2>1. ASSUME NEW x \in ItemId, DeleteItem(x)
        PROVE  FALSE
    <3> DEFINE gone == {j \in DOMAIN loans : loans[j].item = x}
    <3>1. Deleted(loans', loans, gone)
      BY <2>1 DEF DeleteItem, Deleted
    <3> HIDE DEF gone
    <3>2. QED
      BY <1>0, <3>1, TableWithout, NoneGoesOut
  <2>2. QED
    BY <1>1, <1>2, <2>1 DEF ItemRequest, CreateItem
<1>3. CASE LoanRequest
  <2>1. ASSUME NEW x \in ItemId, NEW m \in Member, CreateLoan(x, m)
        PROVE  ReadyItem(loans'[i].item)
    <3> DEFINE row == [item |-> x, member |-> m, returned |-> FALSE, live |-> TRUE]
    <3>1. Added(loans', loans, row) /\ ReadyItem(x)
      BY <2>1 DEF CreateLoan, Added
    <3>2. row.item = x
      OBVIOUS
    <3> HIDE DEF row
    <3>3. /\ \A j \in DOMAIN loans : loans'[j] = loans[j]
          /\ \A j \in DOMAIN loans' \ DOMAIN loans : loans'[j] = row
      BY <1>0, <3>1, RowAdded DEF Table
    <3>4. i \in DOMAIN loans' \ DOMAIN loans
      BY <3>3 DEF GoesOut
    <3>5. QED
      BY <3>1, <3>2, <3>3, <3>4
  <2>2. ASSUME NEW d \in DOMAIN loans, DeleteLoan(d)
        PROVE  FALSE
    <3>1. RowDeleted(loans', loans, d)
      BY <2>2 DEF DeleteLoan, RowDeleted
    <3>2. QED
      BY <1>0, <3>1, OneDeleted, NoneGoesOut
  <2>3. QED
    BY <1>1, <1>3, <2>1, <2>2 DEF LoanRequest, LoadLoan
<1>4. CASE UpdateLoan
  <2>1. CASE loanForm.loan \notin DOMAIN loans /\ WriteForm
    <3>1. loans' = loans
      BY <1>0, <2>1 DEF WriteForm, Table, Rows
    <3>2. QED
      BY <1>1, <3>1
  <2>2. CASE /\ loanForm.loan \in DOMAIN loans /\ WriteForm /\ Accepted
             /\ \/ loans[loanForm.loan].item = loanForm.item
                \/ loanForm.returned
                \/ ReadyItem(loanForm.item)
    <3>1. i = loanForm.loan
      BY <1>0, <2>2, FormWritten DEF GoesOut
    <3>2. /\ loans'[i].item = loanForm.item /\ loans'[i].returned = loanForm.returned
          /\ loans'[i].live = loans[i].live /\ i \in DOMAIN loans
      BY <1>0, <2>2, <3>1, FormWritten
    <3>3. ~ loanForm.returned /\ loans[i].live
      BY <3>2 DEF GoesOut, OpenLoan
    <3>4. CASE ReadyItem(loanForm.item)
      BY <3>2, <3>4
    <3>5. CASE loans[loanForm.loan].item = loanForm.item
      <4>1. loans[i].returned
        BY <3>1, <3>2, <3>3, <3>5 DEF GoesOut, OpenLoan
      <4>2. QED
        BY <3>1, <3>2, <3>3, <3>5, <4>1 DEF PutBack, Overtaken
    <3>6. QED
      BY <2>2, <3>3, <3>4, <3>5
  <2>3. QED
    BY <1>1, <1>4, <2>1, <2>2 DEF UpdateLoan
<1>5. CASE MaintenanceRequest
  BY <1>1, <1>5 DEF MaintenanceRequest, RecordMaintenance, SetItemStatus, DeleteMaintenance
<1>6. ASSUME NEW m \in Member, DeleteMember(m)
      PROVE  FALSE
  <2> DEFINE gone == {j \in DOMAIN loans : loans[j].member = m}
  <2>1. Deleted(loans', loans, gone)
    BY <1>6 DEF DeleteMember, DeleteLoansOf, Deleted
  <2> HIDE DEF gone
  <2>2. QED
    BY <1>0, <2>1, TableWithout, NoneGoesOut
<1>7. CASE UNCHANGED inventoryVars
  BY <1>1, <1>7 DEF inventoryVars
<1>8. ASSUME NEW g \in Group, DeleteNamed(g)
      PROVE  UNCHANGED inventoryVars
  BY <1>8 DEF DeleteNamed
<1>9. QED
  BY <1>2, <1>3, <1>4, <1>5, <1>6, <1>7, <1>8 DEF Next, vars, InventoryNext

(* A loan that opens, or moves to another item, finds it ready; only an    *)
(* edit loaded before a return puts the loan back as it was (CreateLoan,   *)
(* UpdateLoan, requireReadyItem).                                          *)
THEOREM LoansFindItemsReady == Spec => LentWhenReady
<1>1. Init => OfficeInv
  BY OfficeAtFirst
<1>2. OfficeInv /\ [Next]_vars => OfficeInv'
  BY OfficeStep
<1> DEFINE Ready == \A i \in DOMAIN loans' :
                      OpenLoan(loans'[i]) /\ ~(i \in DOMAIN loans /\ OpenLoan(loans[i]) /\ loans[i].item = loans'[i].item)
                        => \/ ReadyItem(loans'[i].item)
                           \/ i \in DOMAIN loans /\ Overtaken(i) /\ loans[i].item = loans'[i].item
<1>3. OfficeInv /\ [Next]_vars => [Ready]_inventoryVars
  BY LoansGoOutReady DEF OfficeInv, GoesOut, PutBack
<1>4. QED
  BY <1>1, <1>2, <1>3, PTL DEF Spec, LentWhenReady
=============================================================================
