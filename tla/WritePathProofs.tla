-------------------------- MODULE WritePathProofs ---------------------------
(***************************************************************************)
(* Proofs about what follows from a local write beside its rows: the       *)
(* timestamps of the changes (module DeviceClock, for every bound, drift   *)
(* limit and set of received timestamps), the flags of values that two     *)
(* rows share (module UniqueConflicts, for all rows, values and clocks)    *)
(* and the stream that takes the changes to the other devices (module      *)
(* Streams, for any number of authors, readers, ops and attempts).         *)
(***************************************************************************)
EXTENDS DeviceClock, UniqueConflicts, Streams, FiniteSetTheorems, SequenceTheorems, WellFoundedInduction, TLAPS

(* The clock of a device: the properties, and where it stands.             *)
DeviceInv == TypeOK /\ IssuedIncreases /\ ClockNearWall /\ ClockInv

(* Clock.Now returns a timestamp that is after the last one, within the    *)
(* counter's width.                                                        *)
LEMMA TickedIsLater ==
  ASSUME NEW last \in Timestamp, CanTick(last), wall \in Nat
  PROVE  Ticked(last) \in Timestamp /\ Earlier(last, Ticked(last))
  BY ClockAssumption DEF CanTick, Ticked, Timestamp, Earlier

(* The order of timestamps is a strict linear order. *)
LEMMA EarlierTransitive ==
  ASSUME NEW a \in Timestamp, NEW b \in Timestamp, NEW c \in Timestamp
  PROVE  /\ ~ Earlier(b, a) /\ Earlier(b, c) => Earlier(a, c)
         /\ Earlier(a, b) /\ ~ Earlier(c, b) => Earlier(a, c)
         /\ ~ Earlier(b, a) /\ ~ Earlier(c, b) => ~ Earlier(c, a)
         /\ Earlier(a, b) => ~ Earlier(b, a)
  BY DEF Timestamp, Earlier

(* Restore and Observe never move a clock back. *)
LEMMA LaterIsUpperBound ==
  ASSUME NEW a \in Timestamp, NEW b \in Timestamp
  PROVE  /\ Later(a, b) \in Timestamp
         /\ ~ Earlier(Later(a, b), a)
         /\ ~ Earlier(Later(a, b), b)
         /\ Later(a, b) \in {a, b}
  BY DEF Timestamp, Earlier, Later

LEMMA InitDevice == Init => DeviceInv
  <1> SUFFICES ASSUME Init PROVE DeviceInv
    OBVIOUS
  <1>1. TypeOK
    BY ClockAssumption DEF Init, TypeOK, Timestamp, Zero
  <1>2. IssuedIncreases
    BY DEF Init, IssuedIncreases
  <1>3. ClockNearWall
    BY ClockAssumption DEF Init, ClockNearWall, Zero
  <1>4. ClockInv
    BY ClockAssumption DEF Init, ClockInv, Writing, Earlier, Zero
  <1> QED
    BY <1>1, <1>2, <1>3, <1>4 DEF DeviceInv

LEMMA BeginWritePreserves == ASSUME DeviceInv, BeginWrite PROVE DeviceInv'
  <1> USE DEF DeviceInv, BeginWrite
  <1>1. TypeOK'
    BY LaterIsUpperBound DEF TypeOK
  <1>2. IssuedIncreases'
    BY DEF IssuedIncreases, Earlier
  <1>3. ClockNearWall'
    BY LaterIsUpperBound DEF ClockNearWall, TypeOK, Timestamp
  <1>4. ClockInv'
    BY LaterIsUpperBound DEF TypeOK, ClockInv, Writing
  <1> QED
    BY <1>1, <1>2, <1>3, <1>4

LEMMA DrawPreserves == ASSUME DeviceInv, Draw PROVE DeviceInv'
  <1> USE DEF DeviceInv, Draw
  <1> DEFINE t == Ticked(mem)
  <1>1. /\ t \in Timestamp
        /\ Earlier(mem, t)
    BY TickedIsLater DEF TypeOK
  <1>2. TypeOK'
    BY <1>1 DEF TypeOK
  <1>3. IssuedIncreases'
    BY DEF IssuedIncreases
  <1>4. ClockNearWall'
    BY ClockAssumption DEF ClockNearWall, ClockInv, TypeOK, Timestamp, Ticked
  <1>5. Len(drawn') = Len(drawn) + 1 /\ drawn'[Len(drawn) + 1] = t
    BY <1>1 DEF TypeOK
  <1>6. \A i \in 1 .. Len(drawn) : drawn'[i] = drawn[i] /\ drawn[i] \in Timestamp
    BY <1>1 DEF TypeOK
  <1>7. disk \in Timestamp /\ mem \in Timestamp /\ ~ Earlier(mem, disk)
    BY DEF TypeOK, ClockInv, Writing
  <1>8. \A i \in 1 .. Len(drawn') :
            Earlier(disk, drawn'[i]) /\ ~ Earlier(mem', drawn'[i])
    <2> SUFFICES ASSUME NEW i \in 1 .. Len(drawn')
                 PROVE  Earlier(disk, drawn'[i]) /\ ~ Earlier(t, drawn'[i])
      OBVIOUS
    <2>1. CASE i = Len(drawn) + 1
      BY <2>1, <1>1, <1>5, <1>7, EarlierTransitive DEF Earlier
    <2>2. CASE i # Len(drawn) + 1
      <3>1. i \in 1 .. Len(drawn)
        BY <2>2, <1>5 DEF TypeOK
      <3>2. Earlier(disk, drawn[i]) /\ ~ Earlier(mem, drawn[i])
        BY <3>1 DEF ClockInv
      <3>3. drawn[i] \in Timestamp /\ drawn'[i] = drawn[i]
        BY <3>1, <1>6
      <3> QED
        BY <3>2, <3>3, <1>1, <1>7 DEF Timestamp, Earlier
    <2> QED
      BY <2>1, <2>2
  <1>9. \A i, j \in 1 .. Len(drawn') : i < j => Earlier(drawn'[i], drawn'[j])
    <2> SUFFICES ASSUME NEW i \in 1 .. Len(drawn'), NEW j \in 1 .. Len(drawn'), i < j
                 PROVE  Earlier(drawn'[i], drawn'[j])
      OBVIOUS
    <2>1. i \in 1 .. Len(drawn)
      BY <1>5 DEF TypeOK
    <2>2. CASE j = Len(drawn) + 1
      <3>1. ~ Earlier(mem, drawn[i])
        BY <2>1 DEF ClockInv
      <3> QED
        BY <3>1, <2>1, <2>2, <1>1, <1>5, <1>6, <1>7, EarlierTransitive
    <2>3. CASE j # Len(drawn) + 1
      <3>1. j \in 1 .. Len(drawn)
        BY <2>3, <1>5 DEF TypeOK
      <3> QED
        BY <3>1, <2>1, <1>6 DEF ClockInv
    <2> QED
      BY <2>2, <2>3
  <1>10. ClockInv'
    BY <1>1, <1>7, <1>8, <1>9, EarlierTransitive DEF ClockInv, Writing
  <1> QED
    BY <1>2, <1>3, <1>4, <1>10

LEMMA CommitPreserves == ASSUME DeviceInv, Commit PROVE DeviceInv'
  <1> USE DEF DeviceInv, Commit
  <1> DEFINE n == Len(issued)
             m == Len(drawn)
  <1>1. TypeOK'
    BY DEF TypeOK
  <1>2. /\ n \in Nat /\ m \in Nat
        /\ Len(issued') = n + m
        /\ \A i \in 1 .. n : issued'[i] = issued[i] /\ issued[i] \in Timestamp
        /\ \A i \in (n + 1) .. (n + m) : /\ i - n \in 1 .. m
                                         /\ issued'[i] = drawn[i - n]
                                         /\ drawn[i - n] \in Timestamp
    BY DEF TypeOK
  <1>3. disk \in Timestamp /\ mem \in Timestamp /\ ~ Earlier(mem, disk) /\ disk' \in {disk, mem}
    BY DEF TypeOK, ClockInv, Writing
  <1>4. disk' = mem \/ m = 0
    BY DEF TypeOK
  <1>5. IssuedIncreases'
    <2> SUFFICES ASSUME NEW i \in 1 .. (n + m), NEW j \in 1 .. (n + m), i < j
                 PROVE  Earlier(issued'[i], issued'[j])
      BY <1>2 DEF IssuedIncreases
    <2>1. CASE j \in 1 .. n
      BY <2>1, <1>2 DEF IssuedIncreases
    <2>2. CASE i \in 1 .. n /\ j \notin 1 .. n
      <3>1. j \in (n + 1) .. (n + m)
        BY <2>2, <1>2
      <3>2. ~ Earlier(disk, issued[i]) /\ Earlier(disk, drawn[j - n])
        BY <2>2, <3>1, <1>2 DEF ClockInv
      <3> QED
        BY <2>2, <3>1, <3>2, <1>2, <1>3, EarlierTransitive
    <2>3. CASE i \notin 1 .. n
      <3>1. i \in (n + 1) .. (n + m) /\ j \in (n + 1) .. (n + m) /\ i - n < j - n
        BY <2>3, <1>2
      <3> QED
        BY <3>1, <1>2 DEF ClockInv
    <2> QED
      BY <2>1, <2>2, <2>3, <1>2
  <1>6. ClockNearWall'
    BY <1>3 DEF ClockNearWall
  <1>7. \A i \in 1 .. Len(issued') : ~ Earlier(disk', issued'[i])
    <2> SUFFICES ASSUME NEW i \in 1 .. (n + m)
                 PROVE  ~ Earlier(disk', issued'[i])
      BY <1>2
    <2>1. CASE i \in 1 .. n
      BY <2>1, <1>2, <1>3, EarlierTransitive DEF ClockInv
    <2>2. CASE i \notin 1 .. n
      <3>1. i \in (n + 1) .. (n + m)
        BY <2>2, <1>2
      <3> QED
        BY <3>1, <1>2, <1>4 DEF ClockInv
    <2> QED
      BY <2>1, <2>2
  <1>8. \A r \in followed' : ~ Earlier(disk', r)
    BY <1>3, EarlierTransitive, ClockAssumption DEF ClockInv, TypeOK
  <1>9. ClockInv'
    BY <1>7, <1>8 DEF ClockInv, Writing
  <1> QED
    BY <1>1, <1>5, <1>6, <1>9

LEMMA EndEventPreserves == ASSUME DeviceInv, EndEvent PROVE DeviceInv'
  <1> USE DEF DeviceInv, EndEvent
  <1> DEFINE t == Ticked(disk)
             n == Len(issued)
  <1>1. t \in Timestamp /\ Earlier(disk, t) /\ disk \in Timestamp
    BY TickedIsLater DEF TypeOK
  <1>2. TypeOK'
    BY <1>1 DEF TypeOK
  <1>3. /\ n \in Nat
        /\ Len(issued') = n + 1 /\ issued'[n + 1] = t
        /\ \A i \in 1 .. n : issued'[i] = issued[i] /\ issued[i] \in Timestamp
    BY <1>1 DEF TypeOK
  <1>4. \A i \in 1 .. n : Earlier(issued[i], t)
    BY <1>1, <1>3, EarlierTransitive DEF ClockInv
  <1>5. IssuedIncreases'
    BY <1>3, <1>4 DEF IssuedIncreases
  <1>6. ClockNearWall'
    BY ClockAssumption DEF ClockNearWall, ClockInv, TypeOK, Timestamp, Ticked
  <1>7. \A i \in 1 .. Len(issued') : ~ Earlier(disk', issued'[i])
    BY <1>1, <1>3, <1>4, EarlierTransitive
  <1>8. \A r \in followed : ~ Earlier(t, r)
    BY <1>1, EarlierTransitive, ClockAssumption DEF ClockInv, TypeOK
  <1>9. drawn = <<>>
    BY DEF ClockInv, Writing
  <1>10. ClockInv'
    BY <1>7, <1>8, <1>9 DEF ClockInv, Writing
  <1> QED
    BY <1>2, <1>5, <1>6, <1>10

LEMMA ObservePreserves == ASSUME DeviceInv, NEW r \in Received, Observe(r) PROVE DeviceInv'
  <1> USE DEF DeviceInv, Observe
  <1>1. r \in Timestamp /\ disk \in Timestamp
    BY ClockAssumption DEF TypeOK
  <1>2. /\ Later(disk, r) \in Timestamp
        /\ ~ Earlier(Later(disk, r), disk)
        /\ ~ Earlier(Later(disk, r), r)
        /\ Later(disk, r) \in {disk, r}
    BY <1>1, LaterIsUpperBound
  <1>3. TypeOK'
    BY <1>2 DEF TypeOK
  <1>4. IssuedIncreases'
    BY DEF IssuedIncreases
  <1>5. ClockNearWall'
    BY <1>1, <1>2, ClockAssumption
       DEF ClockNearWall, ClockInv, TypeOK, WithinDrift, Timestamp
  <1>6. \A i \in 1 .. Len(issued) : ~ Earlier(disk', issued[i])
    BY <1>1, <1>2, EarlierTransitive DEF ClockInv, TypeOK
  <1>7. \A q \in followed' : ~ Earlier(disk', q)
    BY <1>1, <1>2, EarlierTransitive, ClockAssumption DEF ClockInv, TypeOK
  <1>8. ClockInv'
    BY <1>6, <1>7 DEF ClockInv, Writing
  <1> QED
    BY <1>3, <1>4, <1>5, <1>8

LEMMA StepDevice == DeviceInv /\ [Next]_vars => DeviceInv'
  <1> SUFFICES ASSUME DeviceInv, [Next]_vars PROVE DeviceInv'
    OBVIOUS
  <1>1. CASE BeginWrite
    BY <1>1, BeginWritePreserves
  <1>2. CASE Record
    BY <1>2 DEF Record, DeviceInv, TypeOK, IssuedIncreases, ClockNearWall, ClockInv, Writing
  <1>3. CASE Draw
    BY <1>3, DrawPreserves
  <1>4. CASE Commit
    BY <1>4, CommitPreserves
  <1>5. CASE Rollback
    BY <1>5 DEF Rollback, DeviceInv, TypeOK, IssuedIncreases, ClockNearWall, ClockInv, Writing
  <1>6. CASE BeginEvent
    BY <1>6 DEF BeginEvent, DeviceInv, TypeOK, IssuedIncreases, ClockNearWall, ClockInv, Writing
  <1>7. CASE EndEvent
    BY <1>7, EndEventPreserves
  <1>8. CASE Restart
    BY <1>8, ClockAssumption
       DEF Restart, DeviceInv, TypeOK, IssuedIncreases, ClockNearWall, ClockInv, Writing, Zero, Timestamp
  <1>9. CASE \E r \in Received : Observe(r)
    BY <1>9, ObservePreserves
  <1>10. CASE \E w \in 0 .. MaxWall : SetWall(w)
    BY SMTT(30), <1>10, ClockAssumption
       DEF SetWall, DeviceInv, TypeOK, IssuedIncreases, ClockNearWall, ClockInv, Writing, Timestamp
  <1>11. CASE UNCHANGED vars
    BY <1>11 DEF vars, DeviceInv, TypeOK, IssuedIncreases, ClockNearWall, ClockInv, Writing
  <1> QED
    BY <1>1, <1>2, <1>3, <1>4, <1>5, <1>6, <1>7, <1>8, <1>9, <1>10, <1>11 DEF Next

LEMMA DeviceInvHolds == Spec => []DeviceInv
  <1> QED
    BY InitDevice, StepDevice, PTL DEF Spec

(* The variables keep their types; in particular the counter keeps its     *)
(* width.                                                                  *)
THEOREM ClockTypeCorrect == Spec => []TypeOK
  <1>1. DeviceInv => TypeOK
    BY DEF DeviceInv
  <1> QED
    BY <1>1, DeviceInvHolds, PTL

(* A device never commits two changes with the same timestamp nor out of   *)
(* order, for every wall clock behaviour and every restart.                *)
THEOREM IssuedAlwaysIncreases == Spec => []IssuedIncreases
  <1>1. DeviceInv => IssuedIncreases
    BY DEF DeviceInv
  <1> QED
    BY <1>1, DeviceInvHolds, PTL

(* The clock of a device stays near its own wall clock. *)
THEOREM ClockStaysNearWall == Spec => []ClockNearWall
  <1>1. DeviceInv => ClockNearWall
    BY DEF DeviceInv
  <1> QED
    BY <1>1, DeviceInvHolds, PTL

(* A change is ordered after every change that was followed before it. *)
THEOREM EditsComeLater == Spec => EditsFollowWhatWasSeen
  <1> DEFINE A == \A i \in DOMAIN issued' \ DOMAIN issued :
                     \A r \in followed : Earlier(r, issued'[i])
  <1>1. DeviceInv /\ [Next]_vars => [A]_vars
    <2> SUFFICES ASSUME DeviceInv, Next PROVE A \/ UNCHANGED vars
      OBVIOUS
    <2>1. CASE Commit
      <3> SUFFICES ASSUME NEW i \in DOMAIN issued' \ DOMAIN issued, NEW r \in followed
                   PROVE  Earlier(r, issued'[i])
        OBVIOUS
      <3> DEFINE n == Len(issued)
      <3>1. /\ n \in Nat
            /\ i - n \in 1 .. Len(drawn)
            /\ issued'[i] = drawn[i - n]
            /\ drawn[i - n] \in Timestamp
        BY <2>1 DEF Commit, DeviceInv, TypeOK
      <3>2. Earlier(disk, drawn[i - n]) /\ ~ Earlier(disk, r)
        BY <3>1 DEF DeviceInv, ClockInv
      <3> QED
        BY <3>1, <3>2, EarlierTransitive, ClockAssumption DEF DeviceInv, TypeOK
    <2>2. CASE EndEvent
      <3> SUFFICES ASSUME NEW i \in DOMAIN issued' \ DOMAIN issued, NEW r \in followed
                   PROVE  Earlier(r, issued'[i])
        OBVIOUS
      <3>1. /\ Ticked(disk) \in Timestamp
            /\ Earlier(disk, Ticked(disk))
            /\ disk \in Timestamp /\ r \in Timestamp
        BY <2>2, TickedIsLater, ClockAssumption DEF EndEvent, DeviceInv, TypeOK
      <3>2. issued'[i] = Ticked(disk)
        BY <2>2, <3>1 DEF EndEvent, DeviceInv, TypeOK
      <3>3. ~ Earlier(disk, r)
        BY DEF DeviceInv, ClockInv
      <3> QED
        BY <3>1, <3>2, <3>3, EarlierTransitive
    <2>3. CASE ~ Commit /\ ~ EndEvent
      <3>1. issued' = issued
        BY <2>3 DEF Next, BeginWrite, Record, Draw, Rollback, BeginEvent, Observe, SetWall, Restart
      <3> QED
        BY <3>1
    <2> QED
      BY <2>1, <2>2, <2>3
  <1>2. EditsFollowWhatWasSeen <=> [][A]_vars
    BY DEF EditsFollowWhatWasSeen
  <1> QED
    BY <1>1, <1>2, DeviceInvHolds, PTL DEF Spec
-----------------------------------------------------------------------------
Shared(t, v) == \E r, s \in Holders(t, v) : r # s

(* The flags of value v stay right without looking at it: its holders are  *)
(* as they were, or it is not shared before and after.                     *)
Settled(old, t, v) ==
  \/ [r \in Holders(t, v) |-> t[r].clk] = [r \in Holders(old, v) |-> old[r].clk]
  \/ ~ Shared(t, v) /\ ~ Shared(old, v)

-----------------------------------------------------------------------------
(* Who is not flagged is the only holder or the keeper: a flagged row      *)
(* shares its value.                                                       *)
LEMMA FlaggedShares ==
  ASSUME NEW t, NEW v, NEW r \in Flagged(t, v)
  PROVE  Shared(t, v)
<1> SUFFICES ASSUME \A s \in Holders(t, v) : s = r PROVE FALSE
  BY DEF Flagged, Shared
<1> DEFINE ages == [s \in Holders(t, v) |-> t[s].clk]
<1>1. r \in DOMAIN ages /\ \A s \in DOMAIN ages : s = r
  BY DEF Flagged
<1>2. Oldest(ages) = r
  <2> HIDE DEF ages
  <2>1. \E x \in DOMAIN ages :
          \A s \in DOMAIN ages : s = x \/ ages[x] < ages[s] \/ (ages[x] = ages[s] /\ x < s)
    BY <1>1
  <2>2. Oldest(ages) \in DOMAIN ages
    BY <2>1 DEF Oldest
  <2> QED BY <1>1, <2>2
<1> QED BY <1>2 DEF Flagged, Keeper

(* Every set of natural numbers has a smallest element: among the intervals *)
(* that end in one of them, one has no strict subset.                       *)
LEMMA Smallest ==
  ASSUME NEW S, S \subseteq Nat, S # {}
  PROVE  \E m \in S : \A n \in S : m <= n
<1>1. PICK a \in S : TRUE
  OBVIOUS
<1> DEFINE U == 0 .. a
           B == {n \in S : n <= a}
           T == {0 .. n : n \in B}
           Below == StrictSubsetOrdering(U)
<1>2. IsFiniteSet(U)
  BY <1>1, FS_Interval
<1>3. IsWellFoundedOn(Below, SUBSET U)
  <2>1. FiniteSubsetsOf(U) = SUBSET U
    BY <1>2, FS_FiniteSubsetsOfFinite
  <2> QED BY <2>1, FS_StrictSubsetOrderingWellFounded
<1>4. T \subseteq SUBSET U /\ T # {}
  BY <1>1
<1>5. \A x, y \in SUBSET U : x \subseteq y /\ x # y => <<x, y>> \in Below
  BY DEF StrictSubsetOrdering
<1> HIDE DEF Below
<1>6. PICK t \in T : \A y \in T : ~ (<<y, t>> \in Below)
  <2> HIDE DEF T, U
  <2> QED BY <1>3, <1>4, WFMin
<1>7. PICK m \in B : t = 0 .. m
  OBVIOUS
<1>8. \A n \in B : m <= n
  <2> SUFFICES ASSUME NEW n \in B, n < m PROVE FALSE
    OBVIOUS
  <2>1. 0 .. n \in T /\ 0 .. m \in T /\ 0 .. n \subseteq 0 .. m
    OBVIOUS
  <2>2. m \in 0 .. m /\ m \notin 0 .. n
    OBVIOUS
  <2>3. <<0 .. n, 0 .. m>> \in Below
    BY <1>4, <1>5, <2>1, <2>2
  <2> QED BY <1>6, <1>7, <2>1, <2>3
<1>9. m \in S /\ \A n \in S : m <= n
  <2>1. m \in S /\ m <= a /\ m \in Nat /\ a \in Nat
    BY <1>1
  <2> SUFFICES ASSUME NEW n \in S PROVE m <= n
    BY <2>1
  <2>2. n \in Nat
    OBVIOUS
  <2>3. CASE n <= a
    BY <1>8, <2>3
  <2>4. CASE ~ (n <= a)
    BY <2>1, <2>2, <2>4
  <2> QED BY <2>3, <2>4
<1> QED BY <1>9

(* There is a keeper as soon as somebody holds the value. *)
LEMMA KeeperHolds ==
  ASSUME NEW t \in [Row -> Entry], NEW v, Holders(t, v) # {}
  PROVE  Keeper(t, v) \in Holders(t, v)
<1> DEFINE H == Holders(t, v)
           ages == [r \in H |-> t[r].clk]
<1>1. H \subseteq Row /\ Row \subseteq Nat /\ \A r \in H : t[r].clk \in Nat
  BY UniqueAssumption DEF Holders, Entry, Stamps
<1> HIDE DEF H
<1> DEFINE C == {t[r].clk : r \in H}
<1>2. PICK c \in C : \A d \in C : c <= d
  <2>1. C \subseteq Nat /\ C # {}
    BY <1>1 DEF H
  <2> HIDE DEF C
  <2> QED BY <2>1, Smallest
<1> DEFINE K == {r \in H : t[r].clk = c}
<1>3. PICK k \in K : \A r \in K : k <= r
  <2>1. K \subseteq Nat /\ K # {}
    BY <1>1, <1>2
  <2> HIDE DEF K
  <2> QED BY <2>1, Smallest
<1>4. \A s \in DOMAIN ages : s = k \/ ages[k] < ages[s] \/ (ages[k] = ages[s] /\ k < s)
  <2> SUFFICES ASSUME NEW s \in H, s # k PROVE t[k].clk < t[s].clk \/ (t[k].clk = t[s].clk /\ k < s)
    BY <1>3
  <2>1. t[k].clk = c /\ c <= t[s].clk /\ c \in Nat /\ t[s].clk \in Nat /\ k \in Nat /\ s \in Nat
    BY <1>1, <1>2, <1>3
  <2>2. t[s].clk = c => k <= s
    BY <1>3
  <2> QED BY <2>1, <2>2
<1>5. k \in DOMAIN ages /\ DOMAIN ages = H
  BY <1>3
<1> HIDE DEF ages
<1>6. Oldest(ages) \in H
  BY <1>4, <1>5 DEF Oldest
<1> QED BY <1>6 DEF Keeper, ages, H

LEMMA FlagIsRecord ==
  ASSUME NEW t \in [Row -> Entry], NEW v \in Value, Shared(t, v)
  PROVE  Flag(t, v) \in [value : Value, kept : Row] /\ Flag(t, v) # NoFlag
<1>1. Keeper(t, v) \in Row
  BY KeeperHolds DEF Shared, Holders
<1> QED BY <1>1, UniqueAssumption DEF Flag

LEMMA SharedIsFlagged ==
  ASSUME NEW t, NEW v \in Value, Shared(t, v), NEW r \in Holders(t, v)
  PROVE  \E p \in Row : /\ Expected(t)[p] = Flag(t, v)
                        /\ p = r \/ Flag(t, v).kept = r
<1>1. v # Null
  BY UniqueAssumption
<1>2. ASSUME NEW p \in Flagged(t, v)
      PROVE  p \in Row /\ Expected(t)[p] = Flag(t, v)
  BY <1>1 DEF Expected, Flagged, Holders
<1>3. Flag(t, v).value = v /\ Flag(t, v).kept = Keeper(t, v)
  BY DEF Flag
<1>4. CASE r = Keeper(t, v)
  <2>1. PICK p \in Holders(t, v) : p # r
    BY DEF Shared
  <2>2. p \in Flagged(t, v)
    BY <1>4, <2>1 DEF Flagged
  <2> QED BY <1>2, <1>3, <1>4, <2>2
<1>5. CASE r # Keeper(t, v)
  <2>1. r \in Flagged(t, v)
    BY <1>5 DEF Flagged
  <2> QED BY <1>2, <1>3, <2>1
<1> QED BY <1>4, <1>5

(* Detection is complete when the values it does not look at are settled.  *)
LEMMA DetectComplete ==
  ASSUME NEW old \in [Row -> Entry], NEW t \in [Row -> Entry], NEW pks,
         \A v \in Value \ Candidates(t, Expected(old), pks) : Settled(old, t, v)
  PROVE  Detect(t, Expected(old), pks) = Expected(t)
<1> DEFINE vs == Candidates(t, Expected(old), pks)
           fl == Expected(old)
<1> SUFFICES ASSUME NEW r \in Row
             PROVE  Detect(t, fl, pks)[r] = Expected(t)[r]
  BY DEF Detect, Expected
<1>1. Detect(t, fl, pks)[r] =
        IF t[r].val \in vs /\ r \in Flagged(t, t[r].val) THEN Flag(t, t[r].val)
        ELSE IF fl[r] # NoFlag /\ fl[r].value \in vs THEN NoFlag
        ELSE fl[r]
  BY DEF Detect
<1>2. Expected(t)[r] = IF t[r].live /\ t[r].val # Null /\ r \in Flagged(t, t[r].val)
                       THEN Flag(t, t[r].val) ELSE NoFlag
  BY DEF Expected
<1>3. fl[r] = IF old[r].live /\ old[r].val # Null /\ r \in Flagged(old, old[r].val)
              THEN Flag(old, old[r].val) ELSE NoFlag
  BY DEF Expected
<1>4. t[r].val \in Value \cup {Null} /\ old[r].val \in Value \cup {Null}
  BY DEF Entry
<1>5. vs \subseteq Value
  <2>1. LiveValues(t, pks) \subseteq Value
    BY DEF LiveValues, Entry
  <2>2. \A p \in Row : fl[p] # NoFlag => fl[p].value \in Value
    BY DEF Expected, Flag, Entry
  <2>3. FlaggedFor(fl, pks) \subseteq Value
    BY <2>2 DEF FlaggedFor
  <2> QED BY <2>1, <2>3 DEF Candidates
<1>6. \A v \in Value \ vs : Settled(old, t, v)
  OBVIOUS
<1> HIDE DEF vs, fl
<1>7. CASE t[r].live /\ t[r].val # Null /\ r \in Flagged(t, t[r].val)
  <2> DEFINE v == t[r].val
  <2>1. CASE v \in vs
    BY <1>1, <1>2, <1>7, <2>1
  <2>2. CASE v \notin vs
    <3>1. v \in Value \ vs /\ Shared(t, v)
      BY <1>4, <1>7, <2>2, FlaggedShares
    <3>2. [q \in Holders(t, v) |-> t[q].clk] = [q \in Holders(old, v) |-> old[q].clk]
      BY <1>6, <3>1 DEF Settled
    <3>3. Holders(t, v) = Holders(old, v) /\ Keeper(t, v) = Keeper(old, v)
      BY <3>2 DEF Keeper
    <3>4. r \in Flagged(old, v) /\ old[r].val = v /\ old[r].live /\ Flag(t, v) = Flag(old, v)
      BY <1>7, <3>3 DEF Flagged, Flag, Holders
    <3>5. fl[r] = Flag(t, v) /\ Flag(t, v).value = v
      BY <1>3, <1>7, <3>4 DEF Flag
    <3> QED BY <1>1, <1>2, <1>7, <2>2, <3>5
  <2> QED BY <2>1, <2>2
<1>8. CASE ~ (t[r].live /\ t[r].val # Null /\ r \in Flagged(t, t[r].val))
  <2>1. ~ (t[r].val \in vs /\ r \in Flagged(t, t[r].val))
    BY <1>5, <1>8, UniqueAssumption DEF Flagged, Holders
  <2>2. CASE fl[r] = NoFlag \/ fl[r].value \in vs
    BY <1>1, <1>2, <1>8, <2>1, <2>2
  <2>3. CASE fl[r] # NoFlag /\ fl[r].value \notin vs
    <3> DEFINE w == old[r].val
    <3>1. /\ old[r].live /\ w # Null /\ r \in Flagged(old, w)
          /\ w \in Value \ vs /\ Shared(old, w)
      BY <1>3, <1>4, <2>3, FlaggedShares DEF Flag
    <3>2. [q \in Holders(t, w) |-> t[q].clk] = [q \in Holders(old, w) |-> old[q].clk]
      BY <1>6, <3>1 DEF Settled
    <3>3. Holders(t, w) = Holders(old, w) /\ Keeper(t, w) = Keeper(old, w)
      BY <3>2 DEF Keeper
    <3>4. r \in Flagged(t, w) /\ t[r].val = w /\ t[r].live
      BY <3>1, <3>3 DEF Flagged, Holders
    <3> QED BY <1>8, <3>1, <3>4
  <2> QED BY <2>2, <2>3
<1> QED BY <1>7, <1>8
-----------------------------------------------------------------------------
FlagsInv == table \in [Row -> Entry] /\ FlagsMatchContent

(* What is not shared by two live rows stays unshared in a local write.    *)
LEMMA LocalKeepsUnshared ==
  ASSUME FlagsInv, NEW r \in Row, NEW v \in Value \cup {Null}, NEW c \in {0} \cup Stamps,
         NEW alive \in BOOLEAN,
         alive => Holds(r, v) \/ RequireUnique(r, v),
         NEW w \in Value, ~ Shared(table, w)
  PROVE  ~ Shared([table EXCEPT ![r] = [val |-> v, clk |-> c, live |-> alive]], w)
<1> DEFINE t == [table EXCEPT ![r] = [val |-> v, clk |-> c, live |-> alive]]
<1> SUFFICES ASSUME NEW p \in Holders(t, w), NEW q \in Holders(t, w), p # q
             PROVE  FALSE
  BY DEF Shared
<1>1. \A s \in Row : t[s] = IF s = r THEN [val |-> v, clk |-> c, live |-> alive] ELSE table[s]
  BY DEF FlagsInv
<1>2. w # Null
  BY UniqueAssumption
<1>3. ASSUME NEW s \in Holders(t, w), s # r PROVE s \in Holders(table, w)
  BY <1>1, <1>3 DEF Holders
<1>4. ASSUME NEW s \in Holders(t, w), s # r, r \in Holders(t, w) PROVE FALSE
  <2>1. alive /\ v = w
    BY <1>1, <1>4 DEF Holders
  <2>2. s \in Holders(table, w)
    BY <1>3, <1>4
  <2>3. r \in Holders(table, w)
    BY <1>2, <1>4, <2>1, <2>2 DEF Holds, RequireUnique, Holders
  <2> QED BY <1>4, <2>2, <2>3 DEF Shared
<1> QED BY <1>3, <1>4 DEF Shared

(* The shape of all local writes. *)
LEMMA LocalShape ==
  ASSUME FlagsInv, Local
  PROVE  \E r \in Row, v \in Value \cup {Null}, c \in {0} \cup Stamps, alive \in BOOLEAN :
           /\ alive => Holds(r, v) \/ RequireUnique(r, v)
           /\ table' = [table EXCEPT ![r] = [val |-> v, clk |-> c, live |-> alive]]
           /\ RefreshConflicts(table')
<1>1. PICK r \in Row : \/ \E v \in Value \cup {Null} : Create(r, v) \/ Put(r, v) \/ Rename(r, v)
                       \/ Delete(r)
  BY DEF Local
<1>2. table[r].val \in Value \cup {Null} /\ table[r].clk \in {0} \cup Stamps
  BY DEF FlagsInv, Entry
<1>3. ASSUME NEW v \in Value \cup {Null}, NEW alive \in BOOLEAN, Write(r, v, alive)
      PROVE  \E c \in {0} \cup Stamps :
               /\ table' = [table EXCEPT ![r] = [val |-> v, clk |-> c, live |-> alive]]
               /\ RefreshConflicts(table')
  BY <1>2, <1>3 DEF Write
<1>4. ASSUME NEW v \in Value \cup {Null}, Create(r, v) \/ Put(r, v) \/ Rename(r, v)
      PROVE  Write(r, v, TRUE) /\ (Holds(r, v) \/ RequireUnique(r, v))
  BY <1>4 DEF Create, Put, Rename
<1>5. Delete(r) => Write(r, table[r].val, FALSE)
  BY DEF Delete
<1>6. CASE \E v \in Value \cup {Null} : Create(r, v) \/ Put(r, v) \/ Rename(r, v)
  <2>1. PICK v \in Value \cup {Null} : Create(r, v) \/ Put(r, v) \/ Rename(r, v)
    BY <1>6
  <2>2. PICK c \in {0} \cup Stamps :
               /\ table' = [table EXCEPT ![r] = [val |-> v, clk |-> c, live |-> TRUE]]
               /\ RefreshConflicts(table')
    BY <1>3, <1>4, <2>1
  <2> QED BY <1>4, <2>1, <2>2
<1>7. CASE Delete(r)
  <2>1. PICK c \in {0} \cup Stamps :
               /\ table' = [table EXCEPT ![r] = [val |-> table[r].val, clk |-> c, live |-> FALSE]]
               /\ RefreshConflicts(table')
    BY <1>2, <1>3, <1>5, <1>7
  <2> QED BY <1>2, <2>1
<1> QED BY <1>1, <1>6, <1>7

LEMMA LocalInv == ASSUME FlagsInv, Local PROVE FlagsInv'
<1>1. PICK r \in Row, v \in Value \cup {Null}, c \in {0} \cup Stamps, alive \in BOOLEAN :
           /\ alive => Holds(r, v) \/ RequireUnique(r, v)
           /\ table' = [table EXCEPT ![r] = [val |-> v, clk |-> c, live |-> alive]]
           /\ RefreshConflicts(table')
  BY LocalShape
<1>2. table' \in [Row -> Entry]
  BY <1>1 DEF FlagsInv, Entry
<1>3. \A w \in Value : ~ Shared(table, w) => ~ Shared(table', w)
  BY <1>1, LocalKeepsUnshared
<1>4. flag = Expected(table)
  BY DEF FlagsInv, FlagsMatchContent
<1>5. \A w \in Value : Shared(table, w) =>
         \E p \in Row : flag[p] # NoFlag /\ flag[p].value = w
  <2> SUFFICES ASSUME NEW w \in Value, Shared(table, w)
               PROVE  \E p \in Row : flag[p] # NoFlag /\ flag[p].value = w
    OBVIOUS
  <2>1. PICK p \in Row : flag[p] = Flag(table, w) /\ p \in Flagged(table, w)
    <3>1. PICK p \in Flagged(table, w) : TRUE
      BY DEF Shared, Flagged
    <3> QED BY <1>4, <3>1, UniqueAssumption DEF Expected, Flagged, Holders
  <2>2. flag[p] # NoFlag
    BY <2>1, FlagIsRecord DEF FlagsInv
  <2> QED BY <2>1, <2>2 DEF Flag
<1>6. \A w \in Value \ FlaggedFor(flag, InConflict) : ~ Shared(table, w)
  BY <1>5 DEF FlaggedFor, InConflict
<1>7. CASE InConflict # {}
  <2>1. \A w \in Value \ Candidates(table', flag, InConflict) : Settled(table, table', w)
    BY <1>3, <1>6 DEF Candidates, Settled
  <2>2. Detect(table', flag, InConflict) = Expected(table')
    BY <1>2, <1>4, <2>1, DetectComplete DEF FlagsInv
  <2>3. flag' = Detect(table', flag, InConflict)
    BY <1>1, <1>7 DEF RefreshConflicts
  <2> QED BY <1>2, <2>2, <2>3 DEF FlagsInv, FlagsMatchContent
<1>8. CASE InConflict = {}
  <2>1. \A p \in Row : flag[p] = NoFlag
    BY <1>8 DEF InConflict
  <2>2. \A w \in Value : Settled(table, table', w)
    BY <1>3, <1>5, <2>1 DEF Settled
  <2>3. Detect(table', flag, {}) = Expected(table')
    BY <1>2, <1>4, <2>2, DetectComplete DEF FlagsInv
  <2>4. Detect(table', flag, {}) = flag
    <3>1. Candidates(table', flag, {}) = {}
      BY <2>1 DEF Candidates, LiveValues, FlaggedFor
    <3>2. \A q \in Row : Detect(table', flag, {})[q] = flag[q]
      BY <3>1 DEF Detect
    <3>3. /\ Detect(table', flag, {}) = [q \in Row |-> Detect(table', flag, {})[q]]
          /\ flag = [q \in Row |-> flag[q]]
      BY <1>4 DEF Detect, Expected
    <3> QED BY <3>2, <3>3
  <2>5. flag' = flag
    BY <1>1, <1>8 DEF RefreshConflicts
  <2> QED BY <1>2, <2>3, <2>4, <2>5 DEF FlagsInv, FlagsMatchContent
<1> QED BY <1>7, <1>8

LEMMA ApplyInv ==
  ASSUME FlagsInv, NEW pks \in SUBSET Row, Apply(pks)
  PROVE  FlagsInv'
<1>1. PICK change \in [pks -> Entry] :
        table' = [r \in Row |-> IF r \in pks THEN change[r] ELSE table[r]]
  BY DEF Apply
<1>2. table' \in [Row -> Entry] /\ \A r \in Row \ pks : table'[r] = table[r]
  BY <1>1 DEF FlagsInv
<1>3. flag' = Detect(table', flag, pks)
  BY DEF Apply
<1>4. flag = Expected(table)
  BY DEF FlagsInv, FlagsMatchContent
<1>5. ASSUME NEW w \in Value \ Candidates(table', flag, pks)
      PROVE  Settled(table, table', w)
  <2>1. \A r \in pks : r \notin Holders(table', w)
    BY <1>5, UniqueAssumption DEF Candidates, LiveValues, Holders
  <2>2. Holders(table', w) \subseteq Holders(table, w)
    BY <1>2, <2>1 DEF Holders
  <2>3. CASE ~ Shared(table, w)
    BY <2>2, <2>3 DEF Shared, Settled
  <2>4. CASE Shared(table, w)
    <3>1. \A r \in pks : r \notin Holders(table, w)
      <4> SUFFICES ASSUME NEW r \in pks, r \in Holders(table, w) PROVE FALSE
        OBVIOUS
      <4>1. PICK p \in Row : flag[p] = Flag(table, w) /\ (p = r \/ Flag(table, w).kept = r)
        BY <1>4, <2>4, SharedIsFlagged
      <4>2. flag[p] # NoFlag /\ flag[p].value = w /\ (p \in pks \/ flag[p].kept \in pks)
        BY <4>1, <2>4, FlagIsRecord DEF Flag, FlagsInv
      <4> QED BY <1>5, <4>2 DEF Candidates, FlaggedFor
    <3>2. Holders(table', w) = Holders(table, w)
      BY <1>2, <2>2, <3>1 DEF Holders
    <3>3. \A r \in Holders(table, w) : table'[r] = table[r]
      BY <1>2, <3>1 DEF Holders
    <3> QED BY <3>2, <3>3 DEF Settled
  <2> QED BY <2>3, <2>4
<1>6. Detect(table', flag, pks) = Expected(table')
  BY <1>2, <1>4, <1>5, DetectComplete DEF FlagsInv
<1> QED BY <1>2, <1>3, <1>6 DEF FlagsInv, FlagsMatchContent

-----------------------------------------------------------------------------
LEMMA InitFlags == ConflictsInit => FlagsInv
<1> SUFFICES ASSUME ConflictsInit PROVE FlagsInv
  OBVIOUS
<1>1. table \in [Row -> Entry]
  BY DEF ConflictsInit, Entry
<1>2. FlagsMatchContent
  BY DEF ConflictsInit, FlagsMatchContent, Expected
<1> QED BY <1>1, <1>2 DEF FlagsInv

LEMMA StepFlags == FlagsInv /\ [ConflictsNext]_conflictVars => FlagsInv'
<1> SUFFICES ASSUME FlagsInv, [ConflictsNext]_conflictVars PROVE FlagsInv'
  OBVIOUS
<1>1. CASE UNCHANGED conflictVars
  BY <1>1 DEF conflictVars, FlagsInv, FlagsMatchContent
<1> QED BY <1>1, LocalInv, ApplyInv DEF ConflictsNext

THEOREM FlagsInvHolds == ConflictsSpec => []FlagsInv
BY InitFlags, StepFlags, PTL DEF ConflictsSpec

(* sync_conflicts is a function of the table, whatever mix of local writes *)
(* and applied changes led to it.                                          *)
THEOREM FlagsFollowContent == ConflictsSpec => []FlagsMatchContent
<1>1. FlagsInv => FlagsMatchContent
  BY DEF FlagsInv
<1> QED BY <1>1, FlagsInvHolds, PTL

(* Table and flags keep their types; in particular there is always a row   *)
(* that keeps a shared value.                                              *)
THEOREM ConflictsTypeCorrect == ConflictsSpec => []ConflictsTypeOK
<1>1. FlagsInv => ConflictsTypeOK
  <2> SUFFICES ASSUME FlagsInv PROVE ConflictsTypeOK
    OBVIOUS
  <2>1. ASSUME NEW r \in Row
        PROVE  flag[r] \in [value : Value, kept : Row] \cup {NoFlag}
    <3>1. table[r].val \in Value \cup {Null}
      BY DEF FlagsInv, Entry
    <3>2. CASE flag[r] = NoFlag
      BY <3>2
    <3>3. CASE flag[r] # NoFlag
      <4>1. flag[r] = Flag(table, table[r].val) /\ r \in Flagged(table, table[r].val)
            /\ table[r].val \in Value
        BY <3>1, <3>3 DEF FlagsInv, FlagsMatchContent, Expected
      <4>2. Shared(table, table[r].val)
        BY <4>1, FlaggedShares
      <4> QED BY <4>1, <4>2, FlagIsRecord DEF FlagsInv
    <3> QED BY <3>2, <3>3
  <2>2. flag = [r \in Row |-> flag[r]]
    BY DEF FlagsInv, FlagsMatchContent, Expected
  <2> QED BY <2>1, <2>2 DEF FlagsInv, ConflictsTypeOK
<1> QED BY <1>1, FlagsInvHolds, PTL

(* The check before saving does what it is for: no local write makes two   *)
(* live rows share a value that did not share it before.                   *)
THEOREM LocalWritesAddNoDuplicate == ConflictsSpec => LocalAddsNoDuplicate
<1>1. FlagsInv /\ [ConflictsNext]_conflictVars => [Local => Duplicates(table') \subseteq Duplicates(table)]_conflictVars
  <2> SUFFICES ASSUME FlagsInv, Local PROVE Duplicates(table') \subseteq Duplicates(table)
    OBVIOUS
  <2>1. PICK r \in Row, v \in Value \cup {Null}, c \in {0} \cup Stamps, alive \in BOOLEAN :
           /\ alive => Holds(r, v) \/ RequireUnique(r, v)
           /\ table' = [table EXCEPT ![r] = [val |-> v, clk |-> c, live |-> alive]]
    BY LocalShape
  <2>2. \A s \in Row : table'[s] = IF s = r THEN [val |-> v, clk |-> c, live |-> alive] ELSE table[s]
    BY <2>1 DEF FlagsInv
  <2> SUFFICES ASSUME NEW p \in Duplicates(table') PROVE p \in Duplicates(table)
    OBVIOUS
  <2>3. /\ p \in Row \X Row /\ p[1] \in Row /\ p[2] \in Row /\ p[1] # p[2]
        /\ table'[p[1]].live /\ table'[p[2]].live
        /\ table'[p[1]].val = table'[p[2]].val /\ table'[p[1]].val # Null
    BY DEF Duplicates
  <2>4. CASE p[1] # r /\ p[2] # r
    BY <2>2, <2>3, <2>4 DEF Duplicates
  <2>5. CASE p[1] = r
    BY <2>1, <2>2, <2>3, <2>5 DEF Duplicates, Holds, RequireUnique
  <2>6. CASE p[2] = r
    BY <2>1, <2>2, <2>3, <2>6 DEF Duplicates, Holds, RequireUnique
  <2> QED BY <2>4, <2>5, <2>6
<1> QED BY <1>1, FlagsInvHolds, PTL DEF ConflictsSpec, LocalAddsNoDuplicate
-----------------------------------------------------------------------------
(* The stream of an author.  The inductive invariant is the conjunction of *)
(* the checked invariants and BatchInv, what flush has read and not yet    *)
(* written.                                                                *)
BatchInv ==
  \A a \in Author : batch[a] # 0 => sent[a] < batch[a] /\ batch[a] <= made[a]

StreamInv == StreamTypeOK /\ BatchInv /\ SeqNeverReused /\ SegmentsCoverOps /\ AppliedInOrder

-----------------------------------------------------------------------------
(* A cut is a strictly increasing sequence that ends at hi. *)
LEMMA CutFacts ==
  ASSUME NEW lo \in Nat, NEW hi \in Nat, NEW ends \in Cuts(lo, hi)
  PROVE  /\ Len(ends) \in Nat \ {0}
         /\ ends \in [1 .. Len(ends) -> (lo + 1) .. hi]
         /\ ends[Len(ends)] = hi
         /\ \A i, j \in 1 .. Len(ends) : i < j => ends[i] < ends[j]
<1>1. PICK n \in 1 .. (hi - lo) : ends \in [1 .. n -> (lo + 1) .. hi]
  BY DEF Cuts
<1>2. Len(ends) = n
  BY <1>1, LenProperties DEF Cuts
<1> QED BY <1>1, <1>2 DEF Cuts

(* Prefixes extend by the ops of the segment that continues them. *)
LEMMA PrefixExtends ==
  ASSUME NEW m \in Nat, NEW n \in Nat, m < n
  PROVE  Log!Prefix(m) \o [i \in 1 .. (n - m) |-> m + i] = Log!Prefix(n)
<1> DEFINE p == Log!Prefix(m)
           q == [i \in 1 .. (n - m) |-> m + i]
           w == Log!Prefix(n)
<1>1. /\ p \in Seq(Nat) /\ Len(p) = m
      /\ q \in Seq(Nat) /\ Len(q) = n - m
      /\ w \in Seq(Nat) /\ Len(w) = n
  <2>1. p \in [1 .. m -> Nat] /\ q \in [1 .. (n - m) -> Nat] /\ w \in [1 .. n -> Nat]
    BY DEF Log!Prefix
  <2>2. p \in Seq(Nat) /\ q \in Seq(Nat) /\ w \in Seq(Nat)
    BY <2>1, SeqDef
  <2>3. Len(p) = m /\ Len(q) = n - m /\ Len(w) = n
    BY <2>1, <2>2, LenProperties
  <2> QED BY <2>2, <2>3
<1> HIDE DEF p, q, w
<1>2. /\ p \o q \in Seq(Nat) /\ Len(p \o q) = n
      /\ \A i \in 1 .. n : (p \o q)[i] = IF i <= m THEN p[i] ELSE q[i - m]
  <2>1. Len(p) + Len(q) = n
    BY <1>1
  <2>2. /\ p \o q \in Seq(Nat)
        /\ Len(p \o q) = Len(p) + Len(q)
        /\ \A i \in 1 .. Len(p) + Len(q) :
              (p \o q)[i] = IF i <= Len(p) THEN p[i] ELSE q[i - Len(p)]
    BY <1>1, ConcatProperties, Zenon
  <2> QED BY <1>1, <2>1, <2>2, Zenon
<1>3. \A i \in 1 .. n : (p \o q)[i] = w[i]
  BY <1>2 DEF p, q, w, Log!Prefix
<1>4. p \o q = w
  BY <1>1, <1>2, <1>3, SeqEqual
<1> QED BY <1>4 DEF p, q, w

LEMMA PrefixLength ==
  ASSUME NEW n \in Nat
  PROVE  Log!Prefix(n) \in Seq(Nat) /\ Len(Log!Prefix(n)) = n
<1>1. Log!Prefix(n) \in [1 .. n -> Nat]
  BY DEF Log!Prefix
<1>2. Log!Prefix(n) \in Seq(Nat)
  BY <1>1, SeqDef
<1> QED BY <1>1, <1>2, LenProperties
-----------------------------------------------------------------------------
(* The initial state satisfies the inductive invariant. *)
LEMMA InitStream == StreamInit => StreamInv
<1> SUFFICES ASSUME StreamInit PROVE StreamInv
  OBVIOUS
<1> USE StreamsAssumption DEF StreamInit
<1>1. StreamTypeOK
  BY DEF StreamTypeOK
<1>2. BatchInv /\ SeqNeverReused
  BY DEF BatchInv, SeqNeverReused, Files
<1>3. SegmentsCoverOps
  BY DEF SegmentsCoverOps, Files
<1>4. AppliedInOrder
  <2>1. Len(<< >>) = 0 /\ << >> = Log!Prefix(0)
    BY PrefixLength, EmptySeq DEF Log!Prefix
  <2> QED BY <2>1 DEF AppliedInOrder, Files
<1> QED BY <1>1, <1>2, <1>3, <1>4 DEF StreamInv

(* What the invariants say of the files does not change in a step that     *)
(* neither adds nor loses one and leaves the positions alone.              *)
LEMMA FilesKept ==
  ASSUME StreamInv,
         \A a \in Author : Files(a)' = Files(a) /\ made'[a] >= made[a],
         made' \in [Author -> Nat],
         UNCHANGED <<sent, own, pos, got>>
  PROVE  SeqNeverReused' /\ SegmentsCoverOps' /\ AppliedInOrder'
<1>1. SeqNeverReused'
  BY DEF StreamInv, SeqNeverReused
<1>2. SegmentsCoverOps'
  <2>1. \A a \in Author : sent[a] <= made'[a]
    BY DEF StreamInv, SegmentsCoverOps, StreamTypeOK
  <2> QED BY <2>1 DEF StreamInv, SegmentsCoverOps
<1>3. AppliedInOrder'
  BY DEF StreamInv, AppliedInOrder
<1> QED BY <1>1, <1>2, <1>3

LEMMA LocalWriteInv ==
  ASSUME StreamInv, NEW a \in Author, LocalWrite(a)
  PROVE  StreamInv'
<1> USE DEF StreamInv, LocalWrite, readerVars, restoreVars
<1>1. StreamTypeOK' /\ \A b \in Author : made'[b] >= made[b]
  BY DEF StreamTypeOK
<1>2. \A b \in Author : Files(b)' = Files(b)
  BY DEF Files
<1>3. SeqNeverReused' /\ SegmentsCoverOps' /\ AppliedInOrder'
  BY <1>1, <1>2, FilesKept DEF StreamTypeOK
<1>4. BatchInv'
  BY <1>1 DEF BatchInv, StreamTypeOK
<1> QED BY <1>1, <1>3, <1>4

LEMMA FlushReadInv ==
  ASSUME StreamInv, NEW a \in Author, FlushRead(a)
  PROVE  StreamInv'
<1> USE DEF StreamInv, FlushRead, readerVars, restoreVars
<1>1. StreamTypeOK'
  BY DEF StreamTypeOK
<1>2. \A b \in Author : Files(b)' = Files(b) /\ made'[b] >= made[b]
  BY DEF Files, StreamTypeOK
<1>3. SeqNeverReused' /\ SegmentsCoverOps' /\ AppliedInOrder'
  BY <1>1, <1>2, FilesKept DEF StreamTypeOK
<1>4. BatchInv'
  BY DEF BatchInv, StreamTypeOK
<1> QED BY <1>1, <1>3, <1>4

LEMMA CrashInv ==
  ASSUME StreamInv, NEW a \in Author, Crash(a)
  PROVE  StreamInv'
<1> USE DEF StreamInv, Crash, readerVars, restoreVars
<1>1. StreamTypeOK'
  BY DEF StreamTypeOK
<1>2. \A b \in Author : Files(b)' = Files(b) /\ made'[b] >= made[b]
  BY DEF Files, StreamTypeOK
<1>3. SeqNeverReused' /\ SegmentsCoverOps' /\ AppliedInOrder'
  BY <1>1, <1>2, FilesKept DEF StreamTypeOK
<1>4. BatchInv'
  BY DEF BatchInv, StreamTypeOK
<1> QED BY <1>1, <1>3, <1>4

(* Uploading moves a file from the queue to the folder. *)
LEMMA UploadInv ==
  ASSUME StreamInv, NEW a \in Author, Upload(a)
  PROVE  StreamInv'
<1> PICK f \in queue[a] : UploadCreate(a, f) \/ UploadDone(a, f)
  BY DEF Upload
<1> USE DEF StreamInv, UploadCreate, UploadDone, readerVars, restoreVars
<1>1. UNCHANGED <<made, sent, batch, own, pos, got, partial, full, status, fails, life>>
  OBVIOUS
<1>2. /\ queue' \in [Author -> SUBSET File] /\ folder' \in [Author -> SUBSET File]
      /\ \A b \in Author : Files(b)' = Files(b)
  <2>0. f \in File
    BY DEF StreamTypeOK
  <2>1. CASE UploadCreate(a, f)
    BY <2>0, <2>1 DEF StreamTypeOK, Files
  <2>2. CASE UploadDone(a, f)
    BY <2>0, <2>2 DEF StreamTypeOK, Files
  <2> QED BY <2>1, <2>2
<1>3. StreamTypeOK' /\ \A b \in Author : made'[b] >= made[b]
  BY <1>1, <1>2 DEF StreamTypeOK
<1>4. SeqNeverReused' /\ SegmentsCoverOps' /\ AppliedInOrder'
  BY <1>1, <1>2, <1>3, FilesKept DEF StreamTypeOK
<1>5. BatchInv'
  BY <1>1 DEF BatchInv
<1> QED BY <1>3, <1>4, <1>5

(* Files arriving at a reader, and pulls that apply nothing. *)
LEMMA DeliverInv ==
  ASSUME StreamInv, NEW a \in Author, NEW r \in Reader, Deliver(r, a)
  PROVE  StreamInv'
<1> PICK f \in folder[a] : ArriveInPart(r, a, f) \/ Arrive(r, a, f)
  BY DEF Deliver
<1> USE DEF StreamInv, ArriveInPart, Arrive, authorVars, restoreVars
<1>0. f.seq \in Nat
  BY DEF StreamTypeOK, File
<1>1. UNCHANGED <<made, sent, batch, own, queue, folder, pos, got, status, fails, life>>
  OBVIOUS
<1>2. StreamTypeOK'
  <2>1. /\ partial' \in [Reader -> [Author -> SUBSET Nat]]
        /\ full' \in [Reader -> [Author -> SUBSET Nat]]
    <3>1. CASE ArriveInPart(r, a, f)
      BY <1>0, <3>1 DEF StreamTypeOK
    <3>2. CASE Arrive(r, a, f)
      BY <1>0, <3>2 DEF StreamTypeOK
    <3> QED BY <3>1, <3>2
  <2> QED BY <1>1, <2>1 DEF StreamTypeOK
<1>3. \A b \in Author : Files(b)' = Files(b) /\ made'[b] >= made[b]
  BY <1>1 DEF Files, StreamTypeOK
<1>4. SeqNeverReused' /\ SegmentsCoverOps' /\ AppliedInOrder'
  BY <1>1, <1>2, <1>3, FilesKept DEF StreamTypeOK
<1>5. BatchInv'
  BY <1>1 DEF BatchInv
<1> QED BY <1>2, <1>4, <1>5

LEMMA PullNothingInv ==
  ASSUME StreamInv, NEW a \in Author, NEW r \in Reader,
         PullGap(r, a) \/ PullUpToDate(r, a) \/ PullIncomplete(r, a)
  PROVE  StreamInv'
<1> USE StreamsAssumption DEF StreamInv, SetStatus, authorVars, restoreVars
<1>1. UNCHANGED <<made, sent, batch, own, queue, folder, pos, got, partial, full, life>>
  BY DEF PullGap, PullUpToDate, PullIncomplete
<1>2. StreamTypeOK'
  <2>1. ASSUME NEW st \in {"ok", "waiting", "quarantined"}, NEW n \in Nat,
               status' = [status EXCEPT ![r][a] = st],
               fails' = [fails EXCEPT ![r][a] = n],
               st = "quarantined" <=> n >= MaxAttempts
        PROVE  StreamTypeOK'
    <3>1. /\ status' \in [Reader -> [Author -> {"ok", "waiting", "quarantined"}]]
          /\ fails' \in [Reader -> [Author -> Nat]]
      BY <2>1 DEF StreamTypeOK
    <3>2. \A q \in Reader, b \in Author :
            status'[q][b] = "quarantined" <=> fails'[q][b] >= MaxAttempts
      BY <2>1 DEF StreamTypeOK
    <3> QED BY <1>1, <3>1, <3>2 DEF StreamTypeOK
  <2>2. /\ status[r][a] \in {"ok", "waiting", "quarantined"} /\ fails[r][a] \in Nat
        /\ status[r][a] = "quarantined" <=> fails[r][a] >= MaxAttempts
    BY DEF StreamTypeOK
  <2>3. CASE PullGap(r, a)
    BY <2>1, <2>2, <2>3 DEF PullGap
  <2>4. CASE PullUpToDate(r, a)
    <3>1. "ok" = "quarantined" <=> 0 >= MaxAttempts
      OBVIOUS
    <3>2. /\ status' = [status EXCEPT ![r][a] = "ok"]
          /\ fails' = [fails EXCEPT ![r][a] = 0]
      BY <2>4 DEF PullUpToDate
    <3> QED BY <2>1, <3>1, <3>2
  <2>5. CASE PullIncomplete(r, a)
    <3>1. fails[r][a] + 1 \in Nat
      BY <2>2
    <3>2. CASE fails[r][a] + 1 >= MaxAttempts
      BY <2>1, <2>5, <3>1, <3>2 DEF PullIncomplete
    <3>3. CASE ~ fails[r][a] + 1 >= MaxAttempts
      BY <2>1, <2>5, <3>1, <3>3 DEF PullIncomplete
    <3> QED BY <3>2, <3>3
  <2> QED BY <2>3, <2>4, <2>5
<1>3. \A b \in Author : Files(b)' = Files(b) /\ made'[b] >= made[b]
  BY <1>1 DEF Files, StreamTypeOK
<1>4. SeqNeverReused' /\ SegmentsCoverOps' /\ AppliedInOrder'
  BY <1>1, <1>2, <1>3, FilesKept DEF StreamTypeOK
<1>5. BatchInv'
  BY <1>1 DEF BatchInv
<1> QED BY <1>2, <1>4, <1>5
-----------------------------------------------------------------------------
(* Writing the outbox: the new segments continue the stream.  Their        *)
(* numbers are above those of all files, they are consecutive pieces of    *)
(* the ops that were read, and a reader that has applied all files so far  *)
(* continues with the first of them.                                       *)
LEMMA FlushCommitInv ==
  ASSUME StreamInv, NEW a \in Author, FlushCommit(a)
  PROVE  StreamInv'
<1> USE DEF StreamInv
<1>1. PICK ends \in Cuts(sent[a], batch[a]) :
        /\ queue' = [queue EXCEPT ![a] = @ \cup {Segment(a, ends, i) : i \in 1 .. Len(ends)}]
        /\ own' = [own EXCEPT ![a] = @ + Len(ends)]
  BY DEF FlushCommit
<1> DEFINE n == Len(ends)
           New == {Segment(a, ends, i) : i \in 1 .. n}
<1>2. /\ sent[a] \in Nat /\ batch[a] \in Nat /\ own[a] \in Nat /\ made[a] \in Nat
      /\ sent[a] < batch[a] /\ batch[a] <= made[a] /\ life[a] \in Nat
  BY DEF StreamTypeOK, BatchInv, FlushCommit
<1>3. /\ n \in Nat \ {0}
      /\ \A i \in 1 .. n : ends[i] \in (sent[a] + 1) .. batch[a]
      /\ ends[n] = batch[a]
      /\ \A i, j \in 1 .. n : i < j => ends[i] < ends[j]
  <2>1. ends \in Cuts(sent[a], batch[a])
    BY <1>1
  <2>2. /\ Len(ends) \in Nat \ {0}
        /\ ends \in [1 .. Len(ends) -> (sent[a] + 1) .. batch[a]]
        /\ ends[Len(ends)] = batch[a]
        /\ \A i, j \in 1 .. Len(ends) : i < j => ends[i] < ends[j]
    BY ONLY <1>2, <2>1, CutFacts
  <2> QED BY ONLY <2>2 DEF n
<1> HIDE DEF n
<1>4. /\ UNCHANGED <<made, folder, pos, got, partial, full, status, fails, life>>
      /\ sent' = [sent EXCEPT ![a] = batch[a]]
      /\ batch' = [batch EXCEPT ![a] = 0]
      /\ own' = [own EXCEPT ![a] = @ + n]
      /\ queue' = [queue EXCEPT ![a] = @ \cup New]
  BY <1>1 DEF FlushCommit, readerVars, restoreVars, n
<1>5. \A i \in 1 .. n : LET f == Segment(a, ends, i) IN
        /\ f \in File /\ f.seq = own[a] + i /\ f.to = ends[i] /\ f.life = life[a]
        /\ f.from = IF i = 1 THEN sent[a] ELSE ends[i - 1]
        /\ f.from < f.to
  <2> TAKE i \in 1 .. n
  <2> DEFINE f == Segment(a, ends, i)
  <2>1. /\ f.seq = own[a] + i /\ f.to = ends[i] /\ f.life = life[a]
        /\ f.from = IF i = 1 THEN sent[a] ELSE ends[i - 1]
        /\ f = [seq |-> f.seq, from |-> f.from, to |-> f.to, life |-> f.life]
    BY DEF Segment
  <2>2. f.from \in Nat /\ f.to \in Nat /\ f.from < f.to
    <3>1. CASE i = 1
      BY <1>2, <1>3, <2>1, <3>1
    <3>2. CASE i # 1
      <4>1. i - 1 \in 1 .. n /\ i - 1 < i
        BY <1>3, <3>2
      <4>2. ends[i - 1] < ends[i]
        BY <1>3, <4>1
      <4> QED BY <1>2, <1>3, <2>1, <3>2, <4>1, <4>2
    <3> QED BY <3>1, <3>2
  <2>3. f.seq \in Nat
    BY <1>2, <1>3, <2>1
  <2> QED BY <1>2, <2>1, <2>2, <2>3 DEF File
<1>6. Files(a)' = Files(a) \cup New /\ \A b \in Author \ {a} : Files(b)' = Files(b)
  BY <1>4 DEF Files, StreamTypeOK
<1>7. own'[a] = own[a] + n /\ sent'[a] = batch[a]
  BY <1>4 DEF StreamTypeOK
<1>8. \A b \in Author \ {a} : own'[b] = own[b] /\ sent'[b] = sent[b] /\ batch'[b] = batch[b]
  BY <1>4 DEF StreamTypeOK
<1>9. \A f \in Files(a) : f.seq \in 1 .. own[a] /\ f.to <= sent[a] /\ f.from < f.to /\ f \in File
  BY DEF SegmentsCoverOps, Files, StreamTypeOK
<1>10. \A f \in New : \E i \in 1 .. n : f = Segment(a, ends, i)
  OBVIOUS
<1> HIDE DEF New
<1>11. StreamTypeOK'
  <2>1. New \subseteq File
    BY <1>5, <1>10
  <2>2. /\ queue' \in [Author -> SUBSET File] /\ own' \in [Author -> Nat]
        /\ sent' \in [Author -> Nat] /\ batch' \in [Author -> Nat]
    BY <1>2, <1>3, <1>4, <2>1 DEF StreamTypeOK
  <2> QED BY <1>4, <2>2 DEF StreamTypeOK
<1>12. BatchInv'
  BY <1>4 DEF BatchInv, StreamTypeOK
<1>13. SeqNeverReused'
  <2> SUFFICES ASSUME NEW f \in Files(a)', NEW g \in Files(a)', f.seq = g.seq
               PROVE  f = g
    BY <1>6 DEF SeqNeverReused
  <2>1. CASE f \in Files(a) /\ g \in Files(a)
    BY <2>1 DEF SeqNeverReused
  <2>2. CASE f \in New /\ g \in New
    <3>1. PICK i \in 1 .. n, j \in 1 .. n : f = Segment(a, ends, i) /\ g = Segment(a, ends, j)
      BY <1>10, <2>2
    <3>2. i = j
      BY <1>2, <1>5, <3>1
    <3> QED BY <3>1, <3>2
  <2>3. ASSUME NEW x \in Files(a), NEW y \in New PROVE x.seq # y.seq
    BY <1>2, <1>5, <1>9, <1>10
  <2> QED BY <1>6, <2>1, <2>2, <2>3
<1>14. SegmentsCoverOps'
  <2>1. ASSUME NEW b \in Author \ {a}
        PROVE  /\ sent'[b] <= made'[b]
               /\ own'[b] = 0 => sent'[b] = 0
               /\ \A f \in Files(b)' : f.seq \in 1 .. own'[b] /\ f.from < f.to /\ f.to <= sent'[b]
               /\ \A m \in 1 .. own'[b] : \E f \in Files(b)' : f.seq = m
               /\ \A f \in Files(b)' : /\ f.seq = 1 => f.from = 0
                                       /\ f.seq = own'[b] => f.to = sent'[b]
               /\ \A f, g \in Files(b)' : g.seq = f.seq + 1 => g.from = f.to
    BY <1>4, <1>6, <1>8 DEF SegmentsCoverOps
  <2>2. sent'[a] <= made'[a] /\ (own'[a] = 0 => sent'[a] = 0)
    BY <1>2, <1>3, <1>4, <1>7
  <2>3. \A f \in Files(a)' : f.seq \in 1 .. own'[a] /\ f.from < f.to /\ f.to <= sent'[a]
    <3>1. \A f \in Files(a) : f.seq \in 1 .. own'[a] /\ f.from < f.to /\ f.to <= sent'[a]
      BY <1>2, <1>3, <1>7, <1>9 DEF File
    <3>2. \A f \in New : f.seq \in 1 .. own'[a] /\ f.from < f.to /\ f.to <= sent'[a]
      BY <1>2, <1>3, <1>5, <1>7, <1>10
    <3> QED BY <1>6, <3>1, <3>2
  <2>4. \A m \in 1 .. own'[a] : \E f \in Files(a)' : f.seq = m
    <3> TAKE m \in 1 .. own'[a]
    <3>1. CASE m <= own[a]
      BY <1>2, <1>6, <1>7, <3>1 DEF SegmentsCoverOps
    <3>2. CASE m > own[a]
      <4>1. m - own[a] \in 1 .. n
        BY <1>2, <1>3, <1>7, <3>2
      <4>2. Segment(a, ends, m - own[a]) \in New
        BY <4>1 DEF New
      <4>3. Segment(a, ends, m - own[a]).seq = m
        BY <1>2, <1>5, <4>1
      <4> QED BY <1>6, <4>2, <4>3
    <3> QED BY <1>2, <1>3, <1>7, <3>1, <3>2
  <2>5. \A f \in Files(a)' : /\ f.seq = 1 => f.from = 0
                             /\ f.seq = own'[a] => f.to = sent'[a]
    <3>1. ASSUME NEW f \in Files(a)
          PROVE  /\ f.seq = 1 => f.from = 0
                 /\ f.seq # own'[a]
      BY <1>2, <1>3, <1>7, <1>9 DEF SegmentsCoverOps
    <3>2. ASSUME NEW f \in New
          PROVE  /\ f.seq = 1 => f.from = 0
                 /\ f.seq = own'[a] => f.to = sent'[a]
      <4>1. PICK i \in 1 .. n : f = Segment(a, ends, i)
        BY <1>10
      <4>2. f.seq = 1 => i = 1 /\ own[a] = 0
        BY <1>2, <1>5, <4>1
      <4>3. own[a] = 0 => sent[a] = 0
        BY DEF SegmentsCoverOps
      <4>4. f.seq = own'[a] => i = n
        BY <1>2, <1>3, <1>5, <1>7, <4>1
      <4> QED BY <1>3, <1>5, <1>7, <4>1, <4>2, <4>3, <4>4
    <3> QED BY <1>6, <3>1, <3>2
  <2>6. \A f, g \in Files(a)' : g.seq = f.seq + 1 => g.from = f.to
    <3> SUFFICES ASSUME NEW f \in Files(a)', NEW g \in Files(a)', g.seq = f.seq + 1
                 PROVE  g.from = f.to
      OBVIOUS
    <3>1. CASE f \in Files(a) /\ g \in Files(a)
      BY <3>1 DEF SegmentsCoverOps
    <3>2. CASE f \in Files(a) /\ g \in New
      <4>1. PICK i \in 1 .. n : g = Segment(a, ends, i)
        BY <1>10, <3>2
      <4>2. i = 1 /\ f.seq = own[a]
        BY <1>2, <1>5, <1>9, <3>2, <4>1
      <4>3. f.to = sent[a]
        BY <3>2, <4>2 DEF SegmentsCoverOps
      <4> QED BY <1>5, <4>1, <4>2, <4>3
    <3>3. CASE f \in New /\ g \in Files(a)
      BY <1>2, <1>5, <1>9, <1>10, <3>3
    <3>4. CASE f \in New /\ g \in New
      <4>1. PICK i \in 1 .. n, j \in 1 .. n : f = Segment(a, ends, i) /\ g = Segment(a, ends, j)
        BY <1>10, <3>4
      <4>2. j = i + 1
        BY <1>2, <1>5, <4>1
      <4> QED BY <1>5, <4>1, <4>2
    <3> QED BY <1>6, <3>1, <3>2, <3>3, <3>4
  <2> QED BY <2>1, <2>2, <2>3, <2>4, <2>5, <2>6 DEF SegmentsCoverOps
<1>15. AppliedInOrder'
  <2> SUFFICES ASSUME NEW r \in Reader, NEW b \in Author
               PROVE  /\ got[r][b] = Log!Prefix(Len(got[r][b]))
                      /\ pos[r][b] <= own'[b]
                      /\ pos[r][b] = 0 => got[r][b] = << >>
                      /\ \A f \in Files(b)' :
                           /\ f.seq = pos[r][b] + 1 => f.from = Len(got[r][b])
                           /\ f.seq = pos[r][b] => f.to = Len(got[r][b])
    BY <1>4 DEF AppliedInOrder
  <2>1. /\ got[r][b] = Log!Prefix(Len(got[r][b]))
        /\ pos[r][b] <= own[b]
        /\ pos[r][b] = 0 => got[r][b] = << >>
        /\ \A f \in Files(b) : /\ f.seq = pos[r][b] + 1 => f.from = Len(got[r][b])
                               /\ f.seq = pos[r][b] => f.to = Len(got[r][b])
    BY DEF AppliedInOrder
  <2>2. pos[r][b] \in Nat /\ own[b] \in Nat
    BY DEF StreamTypeOK
  <2>3. CASE b # a
    BY <1>6, <1>8, <2>1, <2>3
  <2>4. CASE b = a
    <3>1. pos[r][a] <= own'[a]
      BY <1>2, <1>3, <1>7, <2>1, <2>2, <2>4
    <3>2. ASSUME NEW f \in New
          PROVE  /\ f.seq = pos[r][a] + 1 => f.from = Len(got[r][a])
                 /\ f.seq # pos[r][a]
      <4>1. PICK i \in 1 .. n : f = Segment(a, ends, i)
        BY <1>10
      <4>2. f.seq # pos[r][a]
        BY <1>2, <1>5, <2>1, <2>2, <2>4, <4>1
      <4>3. ASSUME f.seq = pos[r][a] + 1 PROVE f.from = Len(got[r][a])
        <5>1. i = 1 /\ pos[r][a] = own[a] /\ f.from = sent[a]
          BY <1>2, <1>5, <2>1, <2>2, <2>4, <4>1, <4>3
        <5>2. CASE own[a] = 0
          <6>1. sent[a] = 0
            BY <5>2 DEF SegmentsCoverOps
          <6>2. Len(<< >>) = 0
            BY EmptySeq
          <6> QED BY <2>1, <2>4, <5>1, <5>2, <6>1, <6>2
        <5>3. CASE own[a] # 0
          <6>1. own[a] \in 1 .. own[a]
            BY <1>2, <5>3
          <6>2. PICK g \in Files(a) : g.seq = own[a]
            BY <6>1 DEF SegmentsCoverOps
          <6>3. g.to = sent[a]
            BY <6>2 DEF SegmentsCoverOps
          <6> QED BY <2>1, <2>4, <5>1, <6>2, <6>3
        <5> QED BY <5>2, <5>3
      <4> QED BY <4>2, <4>3
    <3> QED BY <1>6, <2>1, <2>4, <3>1, <3>2
  <2> QED BY <2>3, <2>4
<1> QED BY <1>11, <1>12, <1>13, <1>14, <1>15
-----------------------------------------------------------------------------
(* Applying a segment: the reader's ops become the next longer prefix, up  *)
(* to the last op of the segment, which the author has committed.          *)
LEMMA PullApplyExtends ==
  ASSUME StreamInv, NEW a \in Author, NEW r \in Reader, NEW f \in folder[a], PullApply(r, a, f)
  PROVE  /\ f \in Files(a) /\ f.seq = pos[r][a] + 1 /\ f.to \in Nat
         /\ Len(got[r][a]) < f.to /\ f.to <= made[a]
         /\ got' = [got EXCEPT ![r][a] = Log!Prefix(f.to)]
<1> USE DEF StreamInv
<1>1. /\ f \in Files(a) /\ f.seq = pos[r][a] + 1
      /\ f.from \in Nat /\ f.to \in Nat /\ sent[a] \in Nat /\ made[a] \in Nat
  BY DEF PullApply, IsNext, StreamTypeOK, File, Files
<1>2. f.from < f.to /\ f.to <= sent[a] /\ sent[a] <= made[a]
  BY <1>1 DEF SegmentsCoverOps
<1>3. f.from = Len(got[r][a]) /\ got[r][a] = Log!Prefix(f.from)
  BY <1>1 DEF AppliedInOrder
<1>4. got[r][a] \o Ops(f) = Log!Prefix(f.to)
  BY <1>1, <1>2, <1>3, PrefixExtends DEF Ops
<1>5. got' = [got EXCEPT ![r][a] = got[r][a] \o Ops(f)]
  BY DEF PullApply
<1> QED BY <1>1, <1>2, <1>3, <1>4, <1>5

LEMMA PullApplyInv ==
  ASSUME StreamInv, NEW a \in Author, NEW r \in Reader, NEW f \in folder[a], PullApply(r, a, f)
  PROVE  StreamInv'
<1> USE DEF StreamInv
<1>1. /\ f \in Files(a) /\ f.seq = pos[r][a] + 1 /\ f.to \in Nat
      /\ got' = [got EXCEPT ![r][a] = Log!Prefix(f.to)]
  BY PullApplyExtends
<1>2. Log!Prefix(f.to) \in Seq(Nat) /\ Len(Log!Prefix(f.to)) = f.to
  BY <1>1, PrefixLength
<1>3. /\ UNCHANGED <<made, sent, batch, own, queue, folder, partial, full, life>>
      /\ pos' = [pos EXCEPT ![r][a] = f.seq]
      /\ status' = [status EXCEPT ![r][a] = "ok"]
      /\ fails' = [fails EXCEPT ![r][a] = 0]
  BY DEF PullApply, authorVars, restoreVars
<1>4. \A b \in Author : Files(b)' = Files(b)
  BY <1>3 DEF Files
<1>5. StreamTypeOK'
  <2>1. f.seq \in Nat
    BY <1>1 DEF StreamTypeOK
  <2>2. /\ pos' \in [Reader -> [Author -> Nat]]
        /\ fails' \in [Reader -> [Author -> Nat]]
        /\ status' \in [Reader -> [Author -> {"ok", "waiting", "quarantined"}]]
    BY <1>3, <2>1 DEF StreamTypeOK
  <2>3. got' \in [Reader -> [Author -> Seq(Nat)]]
    BY <1>1, <1>2 DEF StreamTypeOK
  <2>4. \A q \in Reader, b \in Author :
          status'[q][b] = "quarantined" <=> fails'[q][b] >= MaxAttempts
    BY <1>3, StreamsAssumption DEF StreamTypeOK
  <2> QED BY <1>3, <2>2, <2>3, <2>4 DEF StreamTypeOK
<1>6. BatchInv' /\ SeqNeverReused' /\ SegmentsCoverOps'
  BY <1>3, <1>4 DEF BatchInv, SeqNeverReused, SegmentsCoverOps
<1>7. AppliedInOrder'
  <2> SUFFICES ASSUME NEW q \in Reader, NEW b \in Author
               PROVE  /\ got'[q][b] = Log!Prefix(Len(got'[q][b]))
                      /\ pos'[q][b] <= own[b]
                      /\ pos'[q][b] = 0 => got'[q][b] = << >>
                      /\ \A g \in Files(b) :
                           /\ g.seq = pos'[q][b] + 1 => g.from = Len(got'[q][b])
                           /\ g.seq = pos'[q][b] => g.to = Len(got'[q][b])
    BY <1>3, <1>4 DEF AppliedInOrder
  <2>1. CASE q = r /\ b = a
    <3>1. got'[q][b] = Log!Prefix(f.to) /\ pos'[q][b] = f.seq /\ f.seq \in Nat \ {0}
      BY <1>1, <1>3, <2>1 DEF StreamTypeOK
    <3>2. f.seq <= own[a]
      <4>1. f.seq \in 1 .. own[a] /\ own[a] \in Nat
        BY <1>1 DEF SegmentsCoverOps, StreamTypeOK
      <4> QED BY <3>1, <4>1
    <3>3. \A g \in Files(a) : g.seq = f.seq => g = f
      BY <1>1 DEF SeqNeverReused
    <3>4. \A g \in Files(a) : g.seq = f.seq + 1 => g.from = f.to
      BY <1>1 DEF SegmentsCoverOps
    <3> QED BY <1>2, <2>1, <3>1, <3>2, <3>3, <3>4
  <2>2. CASE q # r \/ b # a
    <3>1. got'[q][b] = got[q][b] /\ pos'[q][b] = pos[q][b]
      BY <1>1, <1>3, <2>2 DEF StreamTypeOK
    <3> QED BY <3>1 DEF AppliedInOrder
  <2> QED BY <2>1, <2>2
<1> QED BY <1>5, <1>6, <1>7

-----------------------------------------------------------------------------
(* The inductive invariant holds in every reachable state. *)
LEMMA StepStream == StreamInv /\ [StreamNext]_streamVars => StreamInv'
<1> SUFFICES ASSUME StreamInv, [StreamNext]_streamVars PROVE StreamInv'
  OBVIOUS
<1>1. CASE UNCHANGED streamVars
  BY <1>1 DEF StreamInv, StreamTypeOK, BatchInv, SeqNeverReused, SegmentsCoverOps, AppliedInOrder,
              Files, streamVars, authorVars, readerVars, restoreVars
<1>2. ASSUME NEW a \in Author,
             LocalWrite(a) \/ FlushRead(a) \/ FlushCommit(a) \/ Upload(a) \/ Crash(a)
      PROVE  StreamInv'
  BY <1>2, LocalWriteInv, FlushReadInv, FlushCommitInv, UploadInv, CrashInv
<1>3. ASSUME NEW a \in Author, NEW r \in Reader, Deliver(r, a)
      PROVE  StreamInv'
  BY <1>3, DeliverInv
<1>4. ASSUME NEW a \in Author, NEW r \in Reader, Pull(r, a)
      PROVE  StreamInv'
  BY <1>4, PullNothingInv, PullApplyInv DEF Pull
<1> QED BY <1>1, <1>2, <1>3, <1>4 DEF StreamNext

THEOREM StreamInvariance == StreamSpec => []StreamInv
BY InitStream, StepStream, PTL DEF StreamSpec

(* The variables keep their types, and a stream is quarantined exactly     *)
(* when its file was incomplete for MaxAttempts pulls in a row.            *)
THEOREM StreamTypeCorrect == StreamSpec => []StreamTypeOK
<1>1. StreamInv => StreamTypeOK
  BY DEF StreamInv
<1> QED BY <1>1, StreamInvariance, PTL

(* However flushes, uploads and crashes interleave, a seq of a stream      *)
(* names one file.                                                         *)
THEOREM SeqUnique == StreamSpec => []SeqNeverReused
<1>1. StreamInv => SeqNeverReused
  BY DEF StreamInv
<1> QED BY <1>1, StreamInvariance, PTL

(* The segments cut the committed ops into consecutive pieces.             *)
THEOREM NoOpLost == StreamSpec => []SegmentsCoverOps
<1>1. StreamInv => SegmentsCoverOps
  BY DEF StreamInv
<1> QED BY <1>1, StreamInvariance, PTL

(* Every reader has applied a prefix of the author's ops, and its position *)
(* names that prefix.                                                      *)
THEOREM PrefixApplied == StreamSpec => []AppliedInOrder
<1>1. StreamInv => AppliedInOrder
  BY DEF StreamInv
<1> QED BY <1>1, StreamInvariance, PTL

(* The file exchange implements the abstract log: committing an op is a    *)
(* step of the log, applying a segment delivers its ops, and everything    *)
(* else leaves the log as it is.                                           *)
THEOREM RefinesLog == StreamSpec => ImplementsLog
<1>1. StreamInit => Log!Init
  BY DEF StreamInit, Log!Init
<1>2. StreamInv /\ [StreamNext]_streamVars => [Log!Next]_(Log!vars)
  <2> SUFFICES ASSUME StreamInv, [StreamNext]_streamVars PROVE [Log!Next]_(Log!vars)
    OBVIOUS
  <2>1. CASE UNCHANGED streamVars
    BY <2>1 DEF streamVars, authorVars, readerVars, Log!vars
  <2>2. ASSUME NEW a \in Author, LocalWrite(a)
        PROVE  Log!Next
    BY <2>2 DEF LocalWrite, readerVars, Log!Next, Log!Commit
  <2>3. ASSUME NEW a \in Author, FlushRead(a) \/ FlushCommit(a) \/ Upload(a) \/ Crash(a)
        PROVE  UNCHANGED Log!vars
    BY <2>3 DEF FlushRead, FlushCommit, Upload, UploadCreate, UploadDone, Crash,
                readerVars, Log!vars
  <2>4. ASSUME NEW a \in Author, NEW r \in Reader, Deliver(r, a)
        PROVE  UNCHANGED Log!vars
    BY <2>4 DEF Deliver, ArriveInPart, Arrive, authorVars, Log!vars
  <2>5. ASSUME NEW a \in Author, NEW r \in Reader,
               PullGap(r, a) \/ PullUpToDate(r, a) \/ PullIncomplete(r, a)
        PROVE  UNCHANGED Log!vars
    BY <2>5 DEF PullGap, PullUpToDate, PullIncomplete, SetStatus, authorVars, Log!vars
  <2>6. ASSUME NEW a \in Author, NEW r \in Reader, NEW f \in folder[a], PullApply(r, a, f)
        PROVE  Log!Next
    <3>1. /\ f.to \in Nat /\ Len(got[r][a]) < f.to /\ f.to <= made[a]
          /\ got' = [got EXCEPT ![r][a] = Log!Prefix(f.to)]
      BY <2>6, PullApplyExtends
    <3>2. UNCHANGED made
      BY <2>6 DEF PullApply, authorVars
    <3>3. f.to \in 1 .. made[a]
      <4>1. Len(got[r][a]) \in Nat /\ made[a] \in Nat
        BY LenProperties DEF StreamInv, StreamTypeOK
      <4> QED BY <3>1, <4>1
    <3> QED BY <3>1, <3>2, <3>3 DEF Log!Next, Log!Deliver
  <2> QED BY <2>1, <2>2, <2>3, <2>4, <2>5, <2>6 DEF StreamNext, Pull
<1> QED BY <1>1, <1>2, StreamInvariance, PTL DEF StreamSpec, ImplementsLog, Log!Spec
=============================================================================
