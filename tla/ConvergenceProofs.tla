------------------------- MODULE ConvergenceProofs -------------------------
(***************************************************************************)
(* Proofs about Convergence: whatever devices there are, however their     *)
(* changes overtake each other and wait for each other, every column holds *)
(* the newest value received, no reference dangles, and devices with the   *)
(* same changes have the same data.                                        *)
(*                                                                         *)
(* The heart is an invariant of one replica and a set of changes: Tracks   *)
(* says that the tables are a function of the changes applied so far and   *)
(* the others wait.  Applying, postponing and retrying preserve it, and so *)
(* do the rounds over whole sequences.                                     *)
(***************************************************************************)
EXTENDS Convergence, FiniteSetTheorems, SequenceTheorems, WellFoundedInduction, TLAPS

Values == Row \cup Val \cup {Null}
Clocks == Nat \X Nat

IsReplica(R) ==
  /\ R = [rows |-> R.rows, val |-> R.val, at |-> R.at, pend |-> R.pend]
  /\ R.rows \subseteq Row
  /\ R.val \in [Row -> [Col -> Values]]
  /\ R.at \in [Row -> [Col -> Clocks]]

(* The changes of A that set column c of row r, and the newest of them.    *)
Setters(A, r, c) == {x \in A : x.row = r /\ c \in DOMAIN x.set}
Latest(A, r, c, x) ==
  /\ x \in Setters(A, r, c)
  /\ \A o \in Setters(A, r, c) : ~ Before(x.at[c], o.at[c])

(* The tables hold what the changes of A say, row by row and column by     *)
(* column.                                                                 *)
HoldsCell(R, A, r, c) ==
  IF Setters(A, r, c) = {} THEN R.at[r][c] = NoClock /\ R.val[r][c] = Null
  ELSE \E x \in Setters(A, r, c) :
         Latest(A, r, c, x) /\ R.at[r][c] = x.at[c] /\ R.val[r][c] = x.set[c]
RowsIn(A) == {x.row : x \in A}
Newest(R, A) ==
  /\ R.rows = RowsIn(A)
  /\ \A r \in Row : \A c \in Col : HoldsCell(R, A, r, c)

(* No row refers to a missing one or lacks what it needs.                  *)
Complete(R) ==
  \A r \in R.rows :
    /\ \A c \in Refs[r] : R.val[r][c] \in R.rows \cup {Null}
    /\ PkRefs[r] \subseteq R.rows
    /\ \A c \in Required[r] : R.val[r][c] # Null

(* Whether x waits, said of the changes applied instead of the tables.     *)
WinsOver(A, x) ==
  {c \in DOMAIN x.set : \A o \in Setters(A, x.row, c) : Before(o.at[c], x.at[c])}
WaitsFor(A, x) ==
  \/ /\ x.row \notin RowsIn(A)
     /\ \E c \in Required[x.row] : c \notin WinsOver(A, x) \/ x.set[c] = Null
  \/ \E c \in Refs[x.row] \cap WinsOver(A, x) : x.set[c] \notin RowsIn(A) \cup {Null}
  \/ x.row \notin RowsIn(A) /\ ~ PkRefs[x.row] \subseteq RowsIn(A)

(* The changes of A have been applied in some order in which none of them  *)
(* had to wait: every part D of them has a first change, which did not     *)
(* need the rest of D.                                                     *)
Ordered(A) ==
  \A D \in SUBSET A : D # {} => \E x \in D : ~ WaitsFor(A \ D, x)

(* What holds of a replica whatever the clocks do, and what holds of it    *)
(* when the clocks are close.                                              *)
Sound(R) ==
  /\ IsReplica(R)
  /\ Complete(R)
  /\ \A r \in Row \ R.rows : \A c \in Col : R.val[r][c] = Null
Applied(R, A) ==
  /\ \A x \in A : IsChange(x)
  /\ Newest(R, A)
  /\ Ordered(A)
Good(R, A, close) == Sound(R) /\ (close => Applied(R, A))

(* R has received the changes S: those that wait do so once, the others    *)
(* have been applied.                                                      *)
Held(R) == {R.pend[i] : i \in DOMAIN R.pend}
HeldFrom(R, S) == R.pend \in Seq(S)
Tracks(R, S, close) ==
  /\ \A x \in S : IsChange(x)
  /\ HeldFrom(R, S)
  /\ \A i, j \in DOMAIN R.pend : R.pend[i] = R.pend[j] => i = j
  /\ Good(R, S \ Held(R), close)

-----------------------------------------------------------------------------
(* The devices: each stream is a sequence of changes, and a pull position  *)
(* lies in it.                                                             *)
Changes ==
  {x \in UNION {[row : Row, set : [cols -> Values], at : [cols -> Clocks]] : cols \in SUBSET Col} : IsChange(x)}

StreamsInv ==
  /\ rep = [d \in Device |-> rep[d]]
  /\ hlc \in [Device -> Nat]
  /\ based \in [Device -> SUBSET Scope]
  /\ pos \in [Device -> [Device -> [Scope -> Nat]]]
  /\ stream \in [Device -> [Scope -> Seq(Changes)]]
  /\ \A d, e \in Device : \A s \in Scope : pos[d][e][s] <= Len(stream[e][s])

(* An op carries one clock, drawn from its author's and not before the     *)
(* wall clock; no two ops have the same, and none has that of a row the    *)
(* club started with.                                                      *)
ClockOf(x) == x.at[CHOOSE c \in DOMAIN x.set : TRUE]
Stamped(x, e, h) ==
  /\ ClockOf(x) = <<ClockOf(x)[1], e>>
  /\ ClockOf(x)[1] \in Nat /\ MinWall <= ClockOf(x)[1] /\ ClockOf(x)[1] <= h
  /\ e = Founder => CreatedAt < ClockOf(x)[1]
  /\ \A c \in DOMAIN x.set : x.at[c] = ClockOf(x)
StampsInv ==
  /\ CreatedAt <= hlc[Founder]
  /\ \A e \in Device : \A s \in Scope : \A i \in DOMAIN stream[e][s] : Stamped(stream[e][s][i], e, hlc[e])
  /\ \A e \in Device : \A s, t \in Scope : \A i \in DOMAIN stream[e][s] : \A j \in DOMAIN stream[e][t] :
       ClockOf(stream[e][s][i]) = ClockOf(stream[e][t][j]) => s = t /\ i = j

(* The hypothesis on clocks, of every step: a device writes by a wall      *)
(* clock that is past the creation of the club, and a change it receives   *)
(* is stamped at most MaxDrift ahead of its wall clock at that time.       *)
StampOf(e, s, n) == ClockOf(stream[e][s][n])[1]
ClocksClose ==
  \A d \in Device : \A s \in Scope :
    /\ stream'[d][s] # stream[d][s] =>
         \E w \in MinWall .. MaxWall : CreatedAt < w /\ hlc'[d] = Stamp(d, w)
    /\ \A e \in Device : \A n \in Nat : n = pos'[d][e][s] /\ n # pos[d][e][s] =>
         \E w \in MinWall .. MaxWall : /\ StampOf(e, s, n) <= w + MaxDrift
                                       /\ hlc'[d] = Followed(d, StampOf(e, s, n), w)

(* Every device's clock has followed the ops it has seen.                  *)
FollowedInv ==
  \A d, e \in Device : \A s \in Scope : \A i \in 1 .. pos[d][e][s] : ClockOf(stream[e][s][i])[1] <= hlc[d]

TracksInv(close) == \A d \in Device : Tracks(rep[d], Seen(d), close)

(* The invariant; with close, of the steps so far whose clocks are close.  *)
CInv(close) ==
  /\ StreamsInv
  /\ StampsInv
  /\ close => FollowedInv
  /\ TracksInv(close)
-----------------------------------------------------------------------------
(* Clocks are totally ordered.                                             *)
LEMMA ClockOrder ==
  /\ \A a \in Clocks : ~ Before(a, a)
  /\ \A a, b, c \in Clocks : Before(a, b) /\ Before(b, c) => Before(a, c)
  /\ \A a, b \in Clocks : Before(a, b) \/ a = b \/ Before(b, a)
PROOF BY DEF Clocks, Before

(* What is not before b is still not before what b is after.               *)
LEMMA ClockOrderWeak ==
  \A a, b, c \in Clocks : ~ Before(a, b) /\ Before(a, c) => Before(b, c)
PROOF BY ClockOrder

LEMMA ChangeShape ==
  ASSUME NEW x, IsChange(x), NEW c \in DOMAIN x.set
  PROVE  /\ x.row \in Row /\ c \in Col
         /\ DOMAIN x.at = DOMAIN x.set
         /\ x.set[c] \in Values
         /\ x.at[c] \in Clocks
         /\ Before(NoClock, x.at[c])
PROOF
<1>1. x.at[c] \in (Nat \ {0}) \X Nat
  BY DEF IsChange
<1> QED
  BY <1>1 DEF IsChange, Values, Clocks, Before, NoClock

(* Which columns a change wins and whether it waits depend on the changes  *)
(* applied before, not on how they came.                                   *)
LEMMA WinsAreWinsOver ==
  ASSUME NEW R, NEW A, Applied(R, A), NEW x, IsChange(x)
  PROVE  Wins(R, x) = WinsOver(A, x)
PROOF
<1>1. SUFFICES ASSUME NEW c \in DOMAIN x.set
               PROVE  Before(R.at[x.row][c], x.at[c])
                        <=> \A o \in Setters(A, x.row, c) : Before(o.at[c], x.at[c])
  BY DEF Wins, WinsOver
<1>2. x.row \in Row /\ c \in Col /\ x.at[c] \in Clocks /\ Before(NoClock, x.at[c])
  BY ChangeShape
<1>3. HoldsCell(R, A, x.row, c)
  BY <1>2 DEF Applied, Newest
<1>4. CASE Setters(A, x.row, c) = {}
  BY <1>2, <1>3, <1>4 DEF HoldsCell
<1>5. CASE Setters(A, x.row, c) # {}
  <2>1. PICK y \in Setters(A, x.row, c) : Latest(A, x.row, c, y) /\ R.at[x.row][c] = y.at[c]
    BY <1>3, <1>5 DEF HoldsCell
  <2>2. \A o \in Setters(A, x.row, c) : o.at[c] \in Clocks /\ ~ Before(y.at[c], o.at[c])
    BY <2>1, ChangeShape DEF Setters, Applied, Latest
  <2> QED
    BY <1>2, <2>1, <2>2, ClockOrder
<1> QED
  BY <1>4, <1>5

LEMMA WaitsAreWaitsFor ==
  ASSUME NEW R, NEW A, Applied(R, A), NEW x, IsChange(x)
  PROVE  Waits(R, x) <=> WaitsFor(A, x)
PROOF
<1>1. Wins(R, x) = WinsOver(A, x)
  BY WinsAreWinsOver
<1>2. R.rows = RowsIn(A)
  BY DEF Applied, Newest
<1> QED
  BY <1>1, <1>2 DEF Waits, LacksRequired, LacksReference, WaitsFor

(* With more changes applied, a change that need not wait still need not.  *)
LEMMA WaitsLess ==
  ASSUME NEW A, NEW B, A \subseteq B, NEW x, IsChange(x), ~ WaitsFor(A, x)
  PROVE  ~ WaitsFor(B, x)
PROOF
<1>1. RowsIn(A) \subseteq RowsIn(B)
  BY DEF RowsIn
<1>2. WinsOver(B, x) \subseteq WinsOver(A, x)
  BY DEF WinsOver, Setters
<1>3. x.row \notin RowsIn(B) => WinsOver(B, x) = DOMAIN x.set
  BY DEF WinsOver, Setters, RowsIn
<1>4. x.row \notin RowsIn(A) => WinsOver(A, x) = DOMAIN x.set
  BY DEF WinsOver, Setters, RowsIn
<1> QED
  BY <1>1, <1>2, <1>3, <1>4 DEF WaitsFor

(* A change that need not wait goes after the others.                      *)
LEMMA OrderedAdded ==
  ASSUME NEW A, NEW x, Ordered(A), \A y \in A : IsChange(y), IsChange(x), ~ WaitsFor(A, x)
  PROVE  Ordered(A \cup {x})
PROOF
<1>1. SUFFICES ASSUME NEW D \in SUBSET (A \cup {x}), D # {}
               PROVE  \E y \in D : ~ WaitsFor((A \cup {x}) \ D, y)
  BY DEF Ordered
<1>2. CASE D \ {x} = {}
  <2>1. D = {x} /\ A \ {x} \subseteq (A \cup {x}) \ D
    BY <1>1, <1>2
  <2>2. CASE x \in A
    \* x has been there before: with what came before it
    <3>1. \E y \in {x} : ~ WaitsFor(A \ {x}, y)
      BY <2>2 DEF Ordered
    <3>2. ~ WaitsFor(A \ {x}, x)
      BY <3>1
    <3> QED
      BY <2>1, <3>2, WaitsLess
  <2>3. CASE x \notin A
    <3>1. A \ {x} = A
      BY <2>3
    <3> QED
      BY <2>1, <3>1, WaitsLess
  <2> QED
    BY <2>2, <2>3
<1>3. CASE D \ {x} # {}
  <2>1. D \ {x} \in SUBSET A
    BY <1>1
  <2>2. CASE x \in A
    <3>1. D \in SUBSET A /\ A \cup {x} = A
      BY <1>1, <2>2
    <3> QED
      BY <3>1, <1>1 DEF Ordered
  <2>3. CASE x \notin A
    <3>1. PICK y \in D \ {x} : ~ WaitsFor(A \ (D \ {x}), y)
      BY <1>3, <2>1 DEF Ordered
    <3>2. A \ (D \ {x}) \subseteq (A \cup {x}) \ D \/ x \in D
      OBVIOUS
    <3>3. A \ (D \ {x}) \subseteq (A \cup {x}) \ D
      BY <2>3
    <3>4. y \in A
      BY <1>1
    <3> QED
      BY <3>1, <3>3, <3>4, WaitsLess
  <2> QED
    BY <2>2, <2>3
<1> QED
  BY <1>2, <1>3
(* A newer value of a cell is the newest one, an older one changes nothing.*)
LEMMA CellWritten ==
  ASSUME NEW R, NEW Q, NEW A, \A y \in A : IsChange(y), NEW x, IsChange(x),
         NEW r \in Row, NEW c \in Col, HoldsCell(R, A, r, c),
         x.row = r, c \in WinsOver(A, x),
         Q.at[r][c] = x.at[c], Q.val[r][c] = x.set[c]
  PROVE  HoldsCell(Q, A \cup {x}, r, c)
PROOF
<1>1. x \in Setters(A \cup {x}, r, c)
  BY DEF Setters, WinsOver
<1>2. ASSUME NEW o \in Setters(A \cup {x}, r, c) PROVE ~ Before(x.at[c], o.at[c])
  <2>1. c \in DOMAIN x.set /\ x.at[c] \in Clocks
    BY ChangeShape DEF WinsOver
  <2>2. CASE o = x
    BY <2>1, <2>2, ClockOrder
  <2>3. CASE o # x
    <3>1. o \in Setters(A, r, c)
      BY <2>3 DEF Setters
    <3>2. Before(o.at[c], x.at[c]) /\ o.at[c] \in Clocks
      BY <3>1, ChangeShape DEF WinsOver, Setters
    <3> QED
      BY <2>1, <3>2, ClockOrder
  <2> QED
    BY <2>2, <2>3
<1> QED
  BY <1>1, <1>2 DEF HoldsCell, Latest

LEMMA CellKept ==
  ASSUME NEW R, NEW Q, NEW A, \A y \in A : IsChange(y), NEW x, IsChange(x),
         NEW r \in Row, NEW c \in Col, HoldsCell(R, A, r, c),
         x.row # r \/ c \notin WinsOver(A, x),
         Q.at[r][c] = R.at[r][c], Q.val[r][c] = R.val[r][c]
  PROVE  HoldsCell(Q, A \cup {x}, r, c)
PROOF
<1>1. CASE x.row # r \/ c \notin DOMAIN x.set
  <2>1. Setters(A \cup {x}, r, c) = Setters(A, r, c)
    BY <1>1 DEF Setters
  <2> QED
    BY <2>1 DEF HoldsCell, Latest
<1>2. CASE x.row = r /\ c \in DOMAIN x.set
  <2>1. PICK o \in Setters(A, r, c) : ~ Before(o.at[c], x.at[c])
    BY <1>2 DEF WinsOver
  <2>2. PICK y \in Setters(A, r, c) : Latest(A, r, c, y) /\ R.at[r][c] = y.at[c] /\ R.val[r][c] = y.set[c]
    BY <2>1 DEF HoldsCell
  <2>3. o.at[c] \in Clocks /\ y.at[c] \in Clocks /\ x.at[c] \in Clocks
    BY <1>2, <2>1, <2>2, ChangeShape DEF Setters
  <2>4. ~ Before(y.at[c], o.at[c])
    BY <2>1, <2>2 DEF Latest
  <2>5. ~ Before(y.at[c], x.at[c])
    BY <2>1, <2>3, <2>4, ClockOrder
  <2>6. Latest(A \cup {x}, r, c, y)
    BY <2>2, <2>5 DEF Latest, Setters
  <2> QED
    BY <2>2, <2>6 DEF HoldsCell, Latest
<1> QED
  BY <1>1, <1>2

LEMMA OverwriteShape ==
  ASSUME NEW R, IsReplica(R), NEW x, IsChange(x), NEW win \in SUBSET DOMAIN x.set, NEW Q, Q = Overwrite(R, x, win)
  PROVE  /\ IsReplica(Q)
         /\ Q.rows = R.rows \cup {x.row} /\ Q.pend = R.pend
         /\ \A r \in Row \ {x.row} : Q.val[r] = R.val[r] /\ Q.at[r] = R.at[r]
         /\ \A c \in Col : /\ Q.val[x.row][c] = IF c \in win THEN x.set[c] ELSE R.val[x.row][c]
                           /\ Q.at[x.row][c] = IF c \in win THEN x.at[c] ELSE R.at[x.row][c]
PROOF
<1>1. x.row \in Row
  BY DEF IsChange
<1> DEFINE v == [c \in Col |-> IF c \in win THEN x.set[c] ELSE R.val[x.row][c]]
           a == [c \in Col |-> IF c \in win THEN x.at[c] ELSE R.at[x.row][c]]
<1>2. v \in [Col -> Values] /\ a \in [Col -> Clocks]
  <2>1. ASSUME NEW c \in Col PROVE v[c] \in Values /\ a[c] \in Clocks
    <3>1. R.val[x.row][c] \in Values /\ R.at[x.row][c] \in Clocks
      BY <1>1 DEF IsReplica
    <3>2. c \in win => x.set[c] \in Values /\ x.at[c] \in Clocks
      BY ChangeShape
    <3> QED
      BY <3>1, <3>2
  <2> QED
    BY <2>1
<1>3. /\ Q.rows = R.rows \cup {x.row} /\ Q.pend = R.pend
      /\ Q.val = [R.val EXCEPT ![x.row] = v] /\ Q.at = [R.at EXCEPT ![x.row] = a]
      /\ Q = [rows |-> Q.rows, val |-> Q.val, at |-> Q.at, pend |-> Q.pend]
  <2>1. v = Merged(R.val[x.row], x.set, win) /\ a = Merged(R.at[x.row], x.at, win)
    BY DEF Merged
  <2>2. Q = [R EXCEPT !.rows = @ \cup {x.row}, !.val[x.row] = v, !.at[x.row] = a]
    BY <2>1 DEF Overwrite
  <2> HIDE DEF v, a
  <2>3. R = [rows |-> R.rows, val |-> R.val, at |-> R.at, pend |-> R.pend]
    BY DEF IsReplica
  <2> QED
    BY <2>2, <2>3
<1>4. \A c \in Col : /\ v[c] = IF c \in win THEN x.set[c] ELSE R.val[x.row][c]
                     /\ a[c] = IF c \in win THEN x.at[c] ELSE R.at[x.row][c]
  OBVIOUS
<1> HIDE DEF v, a
<1>5. /\ Q.val \in [Row -> [Col -> Values]] /\ Q.at \in [Row -> [Col -> Clocks]]
      /\ Q.val[x.row] = v /\ Q.at[x.row] = a
      /\ \A r \in Row \ {x.row} : Q.val[r] = R.val[r] /\ Q.at[r] = R.at[r]
  BY <1>1, <1>2, <1>3 DEF IsReplica
<1> QED
  BY <1>1, <1>3, <1>4, <1>5 DEF IsReplica
(* A write that leaves no reference to a missing row and starts no row     *)
(* without its required columns.                                           *)
LEMMA OverwriteSound ==
  ASSUME NEW R, Sound(R), NEW x, IsChange(x), NEW win \in SUBSET DOMAIN x.set,
         \A c \in Refs[x.row] \cap win : x.set[c] \in R.rows \cup {Null},
         x.row \notin R.rows => Required[x.row] \subseteq win /\ PkRefs[x.row] \subseteq R.rows,
         NEW Q, Q = Overwrite(R, x, win)
  PROVE  Sound(Q)
PROOF
<1>1. x.row \in Row /\ IsReplica(R) /\ Complete(R)
  BY DEF IsChange, Sound
<1>2. /\ IsReplica(Q)
      /\ Q.rows = R.rows \cup {x.row}
      /\ \A r \in Row \ {x.row} : Q.val[r] = R.val[r]
      /\ \A c \in Col : Q.val[x.row][c] = IF c \in win THEN x.set[c] ELSE R.val[x.row][c]
  BY <1>1, OverwriteShape
<1>3. Complete(Q)
  <2>1. ASSUME NEW r \in Q.rows
        PROVE  /\ \A c \in Refs[r] : Q.val[r][c] \in Q.rows \cup {Null}
               /\ PkRefs[r] \subseteq Q.rows
               /\ \A c \in Required[r] : Q.val[r][c] # Null
    <3>1. CASE r # x.row
      <4>1. r \in R.rows /\ Q.val[r] = R.val[r] /\ R.rows \subseteq Q.rows
        BY <1>1, <1>2, <2>1, <3>1 DEF IsReplica
      <4> QED
        BY <1>1, <4>1 DEF Complete
    <3>2. CASE r = x.row
      <4>1. ASSUME NEW c \in Refs[r] PROVE Q.val[r][c] \in Q.rows \cup {Null}
        <5>1. c \in Col
          BY <1>1, <3>2, ReplicaAssumption
        <5>2. CASE c \in win
          BY <1>2, <3>2, <4>1, <5>1, <5>2
        <5>3. CASE c \notin win /\ r \in R.rows
          <6>1. Q.val[r][c] = R.val[r][c]
            BY <1>2, <3>2, <5>1, <5>3
          <6>2. R.val[r][c] \in R.rows \cup {Null}
            BY <1>1, <4>1, <5>3 DEF Complete
          <6> QED
            BY <1>2, <6>1, <6>2
        <5>4. CASE c \notin win /\ r \notin R.rows
          BY <1>1, <1>2, <3>2, <5>1, <5>4 DEF Sound
        <5> QED
          BY <5>2, <5>3, <5>4
      <4>2. PkRefs[r] \subseteq Q.rows
        BY <1>1, <1>2, <3>2 DEF Complete
      <4>3. ASSUME NEW c \in Required[r] PROVE Q.val[r][c] # Null
        <5>1. c \in Col
          BY <1>1, <3>2, ReplicaAssumption
        <5>2. CASE c \in win
          <6>1. x.set[c] # Null
            BY <1>1, <3>2, <4>3, <5>2 DEF IsChange
          <6> QED
            BY <1>2, <3>2, <5>1, <5>2, <6>1
        <5>3. CASE c \notin win
          <6>1. r \in R.rows
            BY <3>2, <4>3, <5>3
          <6>2. R.val[r][c] # Null
            BY <1>1, <4>3, <6>1 DEF Complete
          <6> QED
            BY <1>2, <3>2, <5>1, <5>3, <6>2
        <5> QED
          BY <5>2, <5>3
      <4> QED
        BY <4>1, <4>2, <4>3
    <3> QED
      BY <3>1, <3>2
  <2> QED
    BY <2>1 DEF Complete
<1>4. \A r \in Row \ Q.rows : \A c \in Col : Q.val[r][c] = Null
  BY <1>2 DEF Sound
<1> QED
  BY <1>2, <1>3, <1>4 DEF Sound

(* A change that need not wait is applied.                                 *)
LEMMA OverwriteApplied ==
  ASSUME NEW R, NEW A, IsReplica(R), Applied(R, A), NEW x, IsChange(x), ~ WaitsFor(A, x),
         NEW win, win = WinsOver(A, x), NEW Q, Q = Overwrite(R, x, win)
  PROVE  Applied(Q, A \cup {x})
PROOF
<1>1. x.row \in Row /\ win \in SUBSET DOMAIN x.set
  BY DEF IsChange, WinsOver
<1>2. /\ Q.rows = R.rows \cup {x.row}
      /\ \A r \in Row \ {x.row} : Q.val[r] = R.val[r] /\ Q.at[r] = R.at[r]
      /\ \A c \in Col : /\ Q.val[x.row][c] = IF c \in win THEN x.set[c] ELSE R.val[x.row][c]
                        /\ Q.at[x.row][c] = IF c \in win THEN x.at[c] ELSE R.at[x.row][c]
  BY <1>1, OverwriteShape
<1>3. R.rows = RowsIn(A) /\ (\A y \in A : IsChange(y)) /\ Ordered(A)
  BY DEF Applied, Newest
<1>4. Newest(Q, A \cup {x})
  <2>1. Q.rows = RowsIn(A \cup {x})
    BY <1>2, <1>3 DEF RowsIn
  <2>2. ASSUME NEW r \in Row, NEW c \in Col PROVE HoldsCell(Q, A \cup {x}, r, c)
    <3>1. HoldsCell(R, A, r, c)
      BY DEF Applied, Newest
    <3>2. CASE x.row = r /\ c \in win
      <4>1. Q.at[r][c] = x.at[c] /\ Q.val[r][c] = x.set[c]
        BY <1>2, <3>2
      <4> QED
        BY <1>3, <3>1, <3>2, <4>1, CellWritten
    <3>3. CASE x.row # r \/ c \notin win
      <4>1. Q.at[r][c] = R.at[r][c] /\ Q.val[r][c] = R.val[r][c]
        BY <1>2, <3>3
      <4> QED
        BY <1>3, <3>1, <3>3, <4>1, CellKept
    <3> QED
      BY <3>2, <3>3
  <2> QED
    BY <2>1, <2>2 DEF Newest
<1>5. Ordered(A \cup {x})
  BY <1>3, OrderedAdded
<1> QED
  BY <1>3, <1>4, <1>5 DEF Applied

(* Also when it is older than everything there.                            *)
LEMMA OvertakenApplied ==
  ASSUME NEW R, NEW A, Applied(R, A), NEW x, IsChange(x), ~ WaitsFor(A, x), WinsOver(A, x) = {}
  PROVE  Applied(R, A \cup {x})
PROOF
<1>1. R.rows = RowsIn(A) /\ (\A y \in A : IsChange(y)) /\ Ordered(A)
  BY DEF Applied, Newest
<1>2. x.row \in R.rows
  <2>1. PICK c \in DOMAIN x.set : TRUE
    BY DEF IsChange
  <2>2. Setters(A, x.row, c) # {}
    BY <2>1 DEF WinsOver
  <2> QED
    BY <1>1, <2>2 DEF Setters, RowsIn
<1>3. Newest(R, A \cup {x})
  <2>1. R.rows = RowsIn(A \cup {x})
    BY <1>1, <1>2 DEF RowsIn
  <2>2. ASSUME NEW r \in Row, NEW c \in Col PROVE HoldsCell(R, A \cup {x}, r, c)
    <3>1. HoldsCell(R, A, r, c)
      BY DEF Applied, Newest
    <3> QED
      BY <1>1, <3>1, CellKept
  <2> QED
    BY <2>1, <2>2 DEF Newest
<1>4. Ordered(A \cup {x})
  BY <1>1, OrderedAdded
<1> QED
  BY <1>1, <1>3, <1>4 DEF Applied

LEMMA WriteGood ==
  ASSUME NEW close \in BOOLEAN, NEW R, NEW A, Good(R, A, close), NEW x, IsChange(x), ~ Waits(R, x)
  PROVE  Good(Write(R, x), A \cup {x}, close) /\ Write(R, x).pend = R.pend
PROOF
<1>1. Sound(R) /\ IsReplica(R)
  BY DEF Good, Sound
<1>2. close => Applied(R, A) /\ Wins(R, x) = WinsOver(A, x) /\ ~ WaitsFor(A, x)
  BY WinsAreWinsOver, WaitsAreWaitsFor DEF Good
<1>3. Write(R, x) = IF Wins(R, x) = {} THEN R ELSE Overwrite(R, x, Wins(R, x))
  BY DEF Write
<1>4. CASE Wins(R, x) = {}
  BY <1>1, <1>2, <1>3, <1>4, OvertakenApplied DEF Good
<1>5. CASE Wins(R, x) # {}
  <2>1. PICK Q : Q = Overwrite(R, x, Wins(R, x))
    OBVIOUS
  <2>2. Wins(R, x) \in SUBSET DOMAIN x.set
    BY DEF Wins
  <2>3. /\ \A c \in Refs[x.row] \cap Wins(R, x) : x.set[c] \in R.rows \cup {Null}
        /\ x.row \notin R.rows => Required[x.row] \subseteq Wins(R, x) /\ PkRefs[x.row] \subseteq R.rows
    BY DEF Waits, LacksRequired, LacksReference
  <2>4. Sound(Q) /\ Q.pend = R.pend
    BY <1>1, <2>1, <2>2, <2>3, OverwriteSound, OverwriteShape
  <2>5. close => Applied(Q, A \cup {x})
    BY <1>1, <1>2, <2>1, OverwriteApplied
  <2> QED
    BY <1>3, <1>5, <2>1, <2>4, <2>5 DEF Good
<1> QED
  BY <1>4, <1>5
-----------------------------------------------------------------------------
(* Sequences of changes. *)
LEMMA SeqWider ==
  ASSUME NEW S, NEW T, S \subseteq T, NEW q \in Seq(S)
  PROVE  q \in Seq(T)
PROOF
<1>1. q \in [1 .. Len(q) -> T] /\ Len(q) \in Nat
  BY SeqDef
<1> QED
  BY <1>1, SeqDef

LEMMA HeldInSet ==
  ASSUME NEW R, NEW S, HeldFrom(R, S)
  PROVE  /\ Held(R) \subseteq S
         /\ DOMAIN R.pend = 1 .. Len(R.pend) /\ Len(R.pend) \in Nat
         /\ \A i \in 1 .. Len(R.pend) : R.pend[i] \in S
BY DEF Held, HeldFrom

LEMMA Postponed ==
  ASSUME NEW R, NEW S, NEW x, NEW Q, IsReplica(R), HeldFrom(R, S), Q = Postpone(R, x)
  PROVE  /\ Q.rows = R.rows /\ Q.val = R.val /\ Q.at = R.at
         /\ IsReplica(Q)
         /\ HeldFrom(Q, S \cup {x}) /\ Held(Q) = Held(R) \cup {x}
         /\ DOMAIN Q.pend = 1 .. Len(R.pend) + 1
         /\ \A i \in 1 .. Len(R.pend) : Q.pend[i] = R.pend[i]
         /\ Q.pend[Len(R.pend) + 1] = x
PROOF
<1>1. R = [rows |-> R.rows, val |-> R.val, at |-> R.at, pend |-> R.pend]
  BY DEF IsReplica
<1>2. /\ Q.rows = R.rows /\ Q.val = R.val /\ Q.at = R.at /\ Q.pend = Append(R.pend, x)
      /\ Q = [rows |-> Q.rows, val |-> Q.val, at |-> Q.at, pend |-> Q.pend]
  BY <1>1 DEF Postpone
<1>3. R.pend \in Seq(S \cup {x})
  BY SeqWider DEF HeldFrom
<1>4. /\ Q.pend \in Seq(S \cup {x}) /\ Len(R.pend) \in Nat
      /\ DOMAIN R.pend = 1 .. Len(R.pend)
      /\ DOMAIN Q.pend = 1 .. Len(R.pend) + 1
      /\ \A i \in 1 .. Len(R.pend) : Q.pend[i] = R.pend[i]
      /\ Q.pend[Len(R.pend) + 1] = x
  BY <1>2, <1>3
<1>5. IsReplica(Q)
  BY <1>2 DEF IsReplica
<1>6. Held(Q) = Held(R) \cup {x}
  <2>1. \A i \in DOMAIN Q.pend : (i \in DOMAIN R.pend /\ Q.pend[i] = R.pend[i]) \/ Q.pend[i] = x
    BY <1>4
  <2>2. \A i \in DOMAIN R.pend : i \in DOMAIN Q.pend /\ Q.pend[i] = R.pend[i]
    BY <1>4
  <2>3. Len(R.pend) + 1 \in DOMAIN Q.pend
    BY <1>4
  <2> QED
    BY <1>4, <2>1, <2>2, <2>3 DEF Held
<1> QED
  BY <1>2, <1>4, <1>5, <1>6 DEF HeldFrom

LEMMA SameTables ==
  ASSUME NEW close \in BOOLEAN, NEW R, NEW Q, NEW A, Good(R, A, close),
         IsReplica(Q), Q.rows = R.rows, Q.val = R.val, Q.at = R.at
  PROVE  Good(Q, A, close)
BY DEF Good, Sound, Applied, Newest, HoldsCell, Complete

(* Putting a change aside.                                                 *)
LEMMA PostponeTracks ==
  ASSUME NEW close \in BOOLEAN, NEW R, NEW S, Tracks(R, S, close), NEW x, IsChange(x), x \notin S
  PROVE  Tracks(Postpone(R, x), S \cup {x}, close)
PROOF
<1>0. PICK Q : Q = Postpone(R, x)
  OBVIOUS
<1>1. IsReplica(R) /\ HeldFrom(R, S) /\ Good(R, S \ Held(R), close)
  BY DEF Tracks, Good, Sound
<1>2. /\ Q.rows = R.rows /\ Q.val = R.val /\ Q.at = R.at
      /\ IsReplica(Q)
      /\ HeldFrom(Q, S \cup {x}) /\ Held(Q) = Held(R) \cup {x}
      /\ DOMAIN Q.pend = 1 .. Len(R.pend) + 1
      /\ \A i \in 1 .. Len(R.pend) : Q.pend[i] = R.pend[i]
      /\ Q.pend[Len(R.pend) + 1] = x
  BY <1>0, <1>1, Postponed
<1>3. /\ Len(R.pend) \in Nat /\ DOMAIN R.pend = 1 .. Len(R.pend)
      /\ \A i \in 1 .. Len(R.pend) : R.pend[i] \in S
  BY <1>1, HeldInSet
<1>4. ASSUME NEW i \in DOMAIN Q.pend, NEW j \in DOMAIN Q.pend, Q.pend[i] = Q.pend[j]
      PROVE  i = j
  <2>1. \A k \in DOMAIN Q.pend : k \in 1 .. Len(R.pend) \/ k = Len(R.pend) + 1
    BY <1>2, <1>3
  <2>2. \A k \in 1 .. Len(R.pend) : Q.pend[k] # x
    BY <1>2, <1>3
  <2> QED
    BY <1>2, <1>3, <1>4, <2>1, <2>2 DEF Tracks
<1>5. Good(Q, (S \cup {x}) \ Held(Q), close)
  <2>1. (S \cup {x}) \ Held(Q) = S \ Held(R)
    BY <1>2
  <2> QED
    BY <1>1, <1>2, <2>1, SameTables
<1>6. \A y \in S \cup {x} : IsChange(y)
  BY DEF Tracks
<1>7. Tracks(Q, S \cup {x}, close)
  BY <1>2, <1>4, <1>5, <1>6 DEF Tracks
<1> QED
  BY <1>0, <1>7

(* Applying a change that nothing has to wait for.                         *)
LEMMA AppliedTracks ==
  ASSUME NEW close \in BOOLEAN, NEW R, NEW S, Tracks(R, S, close), NEW x, IsChange(x), x \notin S,
         NEW Q, Good(Q, (S \ Held(R)) \cup {x}, close), Q.pend = R.pend
  PROVE  Tracks(Q, S \cup {x}, close)
PROOF
<1>1. HeldFrom(R, S)
  BY DEF Tracks
<1>2. Held(Q) = Held(R) /\ Held(R) \subseteq S
  BY <1>1, HeldInSet DEF Held
<1>3. (S \cup {x}) \ Held(Q) = (S \ Held(R)) \cup {x}
  BY <1>2
<1>4. HeldFrom(Q, S \cup {x})
  BY <1>1, SeqWider DEF HeldFrom
<1> QED
  BY <1>3, <1>4 DEF Tracks

(* Receiving a change.                                                     *)
LEMMA ReceiveTracks ==
  ASSUME NEW close \in BOOLEAN, NEW R, NEW S, Tracks(R, S, close), NEW x, IsChange(x), x \notin S
  PROVE  Tracks(Receive(R, x), S \cup {x}, close)
PROOF
<1>1. CASE Waits(R, x)
  BY <1>1, PostponeTracks DEF Receive
<1>2. CASE ~ Waits(R, x)
  <2>1. PICK Q : Q = Write(R, x)
    OBVIOUS
  <2>2. Good(Q, (S \ Held(R)) \cup {x}, close) /\ Q.pend = R.pend
    BY <1>2, <2>1, WriteGood DEF Tracks
  <2> QED
    BY <1>2, <2>1, <2>2, AppliedTracks DEF Receive
<1> QED
  BY <1>1, <1>2
-----------------------------------------------------------------------------
(* Every set of natural numbers has a smallest element. *)
LEMMA Smallest ==
  ASSUME NEW S, S \subseteq Nat, NEW a \in S
  PROVE  \E m \in S : \A n \in S : m <= n
<1> DEFINE U == 0 .. a
           T == {0 .. n : n \in {n \in S : n <= a}}
           Below == StrictSubsetOrdering(U)
<1>1. IsWellFoundedOn(Below, SUBSET U)
  <2>1. IsFiniteSet(U)
    BY FS_Interval
  <2>2. FiniteSubsetsOf(U) = SUBSET U
    BY <2>1, FS_FiniteSubsetsOfFinite
  <2> QED
    BY <2>1, <2>2, FS_StrictSubsetOrderingWellFounded
<1>2. T \subseteq SUBSET U /\ T # {}
  OBVIOUS
<1>3. \A x, y \in SUBSET U : x \subseteq y /\ x # y => <<x, y>> \in Below
  BY DEF StrictSubsetOrdering
<1> HIDE DEF Below
<1>4. PICK t \in T : \A y \in T : ~ (<<y, t>> \in Below)
  <2> HIDE DEF T, U
  <2> QED
    BY <1>1, <1>2, WFMin
<1>5. PICK m \in S : m <= a /\ t = 0 .. m
  OBVIOUS
<1>6. \A n \in S : n <= a => m <= n
  <2> SUFFICES ASSUME NEW n \in S, n <= a, n < m PROVE FALSE
    BY <1>5
  <2>1. 0 .. n \in T /\ 0 .. n \subseteq 0 .. m /\ m \in 0 .. m /\ m \notin 0 .. n
    OBVIOUS
  <2> QED
    BY <1>2, <1>3, <1>4, <1>5, <2>1
<1> QED
  BY <1>5, <1>6

(* The rounds over a sequence, of whichever kind: what one step of each    *)
(* does, and that the function the model defines by recursion exists.      *)
StepOf(kind, R, chs, rows, k) ==
  IF kind = "retries" THEN RetryRound(R, rows)
  ELSE IF chs[k].row \in rows THEN Receive(R, chs[k])
  ELSE IF kind = "round" THEN Postpone(R, chs[k])
  ELSE R
Recursion(kind, f, n, R, chs, rows) ==
  f = [k \in 0 .. n |-> IF k = 0 THEN R ELSE StepOf(kind, f[k - 1], chs, rows, k)]

LEMMA RecursionExists ==
  ASSUME NEW kind, NEW n \in Nat, NEW R, NEW chs, NEW rows
  PROVE  \E f : Recursion(kind, f, n, R, chs, rows)
PROOF
<1> DEFINE Bad == {m \in 0 .. n : ~ \E f : Recursion(kind, f, m, R, chs, rows)}
<1>1. ASSUME NEW b \in Bad PROVE FALSE
  <2>1. PICK m \in Bad : \A i \in Bad : m <= i
    <3>1. Bad \subseteq Nat
      OBVIOUS
    <3> HIDE DEF Bad
    <3> QED
      BY <1>1, <3>1, Smallest
  <2>2. m \in 0 .. n /\ ~ \E f : Recursion(kind, f, m, R, chs, rows)
    BY <2>1
  <2>3. CASE m = 0
    <3>1. Recursion(kind, [k \in 0 .. 0 |-> R], 0, R, chs, rows)
      BY DEF Recursion
    <3> QED
      BY <2>2, <2>3, <3>1
  <2>4. CASE m # 0
    <3>1. m - 1 \in 0 .. n /\ m - 1 \notin Bad
      BY <2>1, <2>2, <2>4
    <3>2. PICK g : Recursion(kind, g, m - 1, R, chs, rows)
      BY <3>1
    <3> DEFINE f == [k \in 0 .. m |-> IF k < m THEN g[k] ELSE StepOf(kind, g[m - 1], chs, rows, m)]
    <3>3. ASSUME NEW k \in 0 .. m PROVE f[k] = IF k = 0 THEN R ELSE StepOf(kind, f[k - 1], chs, rows, k)
      <4>1. CASE k = 0
        <5>1. g[0] = R /\ 0 < m
          BY <2>2, <2>4, <3>2 DEF Recursion
        <5> QED
          BY <4>1, <5>1
      <4>2. CASE k # 0 /\ k < m
        <5>1. k \in 0 .. m - 1 /\ k - 1 \in 0 .. m /\ k - 1 < m
          BY <2>2, <4>2
        <5>2. g[k] = StepOf(kind, g[k - 1], chs, rows, k)
          BY <3>2, <4>2, <5>1 DEF Recursion
        <5>3. f[k] = g[k] /\ f[k - 1] = g[k - 1]
          BY <4>2, <5>1
        <5> QED
          BY <4>2, <5>2, <5>3
      <4>3. CASE k = m
        <5>1. f[m] = StepOf(kind, g[m - 1], chs, rows, m) /\ f[m - 1] = g[m - 1]
          BY <2>2, <2>4
        <5> QED
          BY <2>4, <4>3, <5>1
      <4> QED
        BY <2>2, <4>1, <4>2, <4>3
    <3>4. f = [k \in 0 .. m |-> IF k = 0 THEN R ELSE StepOf(kind, f[k - 1], chs, rows, k)]
      BY <3>3
    <3> HIDE DEF f
    <3> QED
      BY <2>2, <3>4 DEF Recursion
  <2> QED
    BY <2>3, <2>4
<1>2. n \in 0 .. n
  OBVIOUS
<1> QED
  BY <1>1, <1>2

LEMMA ReceiveAllIs ==
  ASSUME NEW R, NEW chs, Len(chs) \in Nat, NEW rows
  PROVE  \E f : Recursion("all", f, Len(chs), R, chs, rows) /\ ReceiveAll(R, chs, rows) = f[Len(chs)]
PROOF
<1> DEFINE after == CHOOSE f : Recursion("all", f, Len(chs), R, chs, rows)
<1>1. Recursion("all", after, Len(chs), R, chs, rows)
  BY RecursionExists
<1>2. ReceiveAll(R, chs, rows) = after[Len(chs)]
  BY DEF ReceiveAll, Recursion, StepOf
<1> QED
  BY <1>1, <1>2
LEMMA RetryRoundIs ==
  ASSUME NEW R, Len(R.pend) \in Nat, NEW rows
  PROVE  \E f : /\ Recursion("round", f, Len(R.pend), [R EXCEPT !.pend = <<>>], R.pend, rows)
                /\ RetryRound(R, rows) = f[Len(R.pend)]
PROOF
<1> DEFINE after == CHOOSE f : Recursion("round", f, Len(R.pend), [R EXCEPT !.pend = <<>>], R.pend, rows)
<1>1. Recursion("round", after, Len(R.pend), [R EXCEPT !.pend = <<>>], R.pend, rows)
  BY RecursionExists
<1>2. RetryRound(R, rows) = after[Len(R.pend)]
  BY DEF RetryRound, Recursion, StepOf
<1> QED
  BY <1>1, <1>2

LEMMA RetryPendingIs ==
  ASSUME NEW R, Len(R.pend) \in Nat, NEW rows
  PROVE  \E f : /\ Recursion("retries", f, Len(R.pend), R, R.pend, rows)
                /\ RetryPending(R, rows) = f[Len(R.pend)]
PROOF
<1> DEFINE round == CHOOSE f : Recursion("retries", f, Len(R.pend), R, R.pend, rows)
<1>1. Recursion("retries", round, Len(R.pend), R, R.pend, rows)
  BY RecursionExists
<1>2. RetryPending(R, rows) = round[Len(R.pend)]
  BY DEF RetryPending, Recursion, StepOf
<1> QED
  BY <1>1, <1>2

(* The changes taken by the first k steps.                                 *)
Taken(kind, chs, rows, k) == {chs[i] : i \in {j \in 1 .. k : kind = "round" \/ chs[j].row \in rows}}

LEMMA ListTracks ==
  ASSUME NEW close \in BOOLEAN, NEW kind \in {"all", "round"}, NEW n \in Nat, NEW R, NEW chs, NEW rows, NEW f, NEW S,
         Recursion(kind, f, n, R, chs, rows), Tracks(R, S, close),
         \A i \in 1 .. n : IsChange(chs[i]),
         Taken(kind, chs, rows, n) \cap S = {},
         \A i, j \in 1 .. n : chs[i] = chs[j] => i = j
  PROVE  Tracks(f[n], S \cup Taken(kind, chs, rows, n), close)
PROOF
<1>1. f[0] = R /\ \A k \in 1 .. n : f[k] = StepOf(kind, f[k - 1], chs, rows, k)
  BY DEF Recursion
<1> DEFINE Bad == {k \in 0 .. n : ~ Tracks(f[k], S \cup Taken(kind, chs, rows, k), close)}
<1>2. ASSUME NEW b \in Bad PROVE FALSE
  <2>1. PICK k \in Bad : \A i \in Bad : k <= i
    <3>1. Bad \subseteq Nat
      OBVIOUS
    <3> HIDE DEF Bad
    <3> QED
      BY <1>2, <3>1, Smallest
  <2>2. k \in 0 .. n /\ ~ Tracks(f[k], S \cup Taken(kind, chs, rows, k), close)
    BY <2>1
  <2>3. CASE k = 0
    <3>1. S \cup Taken(kind, chs, rows, 0) = S
      BY DEF Taken
    <3> QED
      BY <1>1, <2>2, <2>3, <3>1
  <2>4. CASE k # 0
    <3>1. k \in 1 .. n /\ k - 1 \in 0 .. n /\ k - 1 \notin Bad
      BY <2>1, <2>2, <2>4
    <3>2. Tracks(f[k - 1], S \cup Taken(kind, chs, rows, k - 1), close)
      BY <3>1
    <3>3. f[k] = StepOf(kind, f[k - 1], chs, rows, k) /\ IsChange(chs[k])
      BY <1>1, <3>1
    <3>4. CASE kind = "round" \/ chs[k].row \in rows
      <4>1. Taken(kind, chs, rows, k) = Taken(kind, chs, rows, k - 1) \cup {chs[k]}
        <5>1. \A j \in 1 .. k : j \in 1 .. k - 1 \/ j = k
          BY <3>1
        <5>2. \A j \in 1 .. k - 1 : j \in 1 .. k
          BY <3>1
        <5> QED
          BY <3>1, <3>4, <5>1, <5>2 DEF Taken
      <4>2. chs[k] \notin Taken(kind, chs, rows, k - 1)
        BY <3>1 DEF Taken
      <4>3. chs[k] \notin S
        BY <3>1, <3>4 DEF Taken
      <4>4. f[k] \in {Receive(f[k - 1], chs[k]), Postpone(f[k - 1], chs[k])}
        BY <3>3, <3>4 DEF StepOf
      <4>5. Tracks(f[k], (S \cup Taken(kind, chs, rows, k - 1)) \cup {chs[k]}, close)
        BY <3>2, <3>3, <4>2, <4>3, <4>4, ReceiveTracks, PostponeTracks
      <4>6. (S \cup Taken(kind, chs, rows, k - 1)) \cup {chs[k]} = S \cup Taken(kind, chs, rows, k)
        BY <4>1
      <4> QED
        BY <2>2, <4>5, <4>6
    <3>5. CASE ~ (kind = "round" \/ chs[k].row \in rows)
      <4>1. Taken(kind, chs, rows, k) = Taken(kind, chs, rows, k - 1)
        <5>1. \A j \in 1 .. k : j \in 1 .. k - 1 \/ j = k
          BY <3>1
        <5>2. \A j \in 1 .. k - 1 : j \in 1 .. k
          BY <3>1
        <5> QED
          BY <3>1, <3>5, <5>1, <5>2 DEF Taken
      <4>2. f[k] = f[k - 1]
        BY <3>3, <3>5 DEF StepOf
      <4> QED
        BY <2>2, <3>2, <4>1, <4>2
    <3> QED
      BY <3>4, <3>5
  <2> QED
    BY <2>3, <2>4
<1>3. n \in 0 .. n
  OBVIOUS
<1> QED
  BY <1>2, <1>3

(* The rows of a snapshot, one after the other. *)
LEMMA ReceiveAllTracks ==
  ASSUME NEW close \in BOOLEAN, NEW R, NEW S, Tracks(R, S, close), NEW chs, Len(chs) \in Nat, NEW rows,
         \A i \in 1 .. Len(chs) : IsChange(chs[i]),
         \A i \in 1 .. Len(chs) : chs[i].row \in rows => chs[i] \notin S,
         \A i, j \in 1 .. Len(chs) : chs[i] = chs[j] => i = j
  PROVE  Tracks(ReceiveAll(R, chs, rows), S \cup Taken("all", chs, rows, Len(chs)), close)
PROOF
<1>1. PICK f : Recursion("all", f, Len(chs), R, chs, rows) /\ ReceiveAll(R, chs, rows) = f[Len(chs)]
  BY ReceiveAllIs
<1>2. Taken("all", chs, rows, Len(chs)) \cap S = {}
  BY DEF Taken
<1>3. \A n \in Nat : n = Len(chs) => Tracks(f[n], S \cup Taken("all", chs, rows, n), close)
  BY <1>1, <1>2, ListTracks
<1> QED
  BY <1>1, <1>3

(* A round takes all that waits out and puts back what waits still.        *)
LEMMA RetryRoundTracks ==
  ASSUME NEW close \in BOOLEAN, NEW R, NEW S, Tracks(R, S, close), NEW rows
  PROVE  Tracks(RetryRound(R, rows), S, close)
PROOF
<1>1. /\ Held(R) \subseteq S
      /\ DOMAIN R.pend = 1 .. Len(R.pend) /\ Len(R.pend) \in Nat
      /\ \A i \in 1 .. Len(R.pend) : R.pend[i] \in S
  BY HeldInSet DEF Tracks
<1>2. PICK Q : Q = [R EXCEPT !.pend = <<>>]
  OBVIOUS
<1>3. PICK f : Recursion("round", f, Len(R.pend), Q, R.pend, rows) /\ RetryRound(R, rows) = f[Len(R.pend)]
  BY <1>1, <1>2, RetryRoundIs
<1>4. PICK left : left = S \ Held(R)
  OBVIOUS
<1>5. Tracks(Q, left, close)
  <2>1. R = [rows |-> R.rows, val |-> R.val, at |-> R.at, pend |-> R.pend] /\ IsReplica(R)
    BY DEF Tracks, Good, Sound, IsReplica
  <2>2. /\ Q.rows = R.rows /\ Q.val = R.val /\ Q.at = R.at /\ Q.pend = <<>>
        /\ Q = [rows |-> Q.rows, val |-> Q.val, at |-> Q.at, pend |-> Q.pend]
    BY <1>2, <2>1
  <2>3. IsReplica(Q)
    BY <2>1, <2>2 DEF IsReplica
  <2>4. HeldFrom(Q, left) /\ Held(Q) = {} /\ DOMAIN Q.pend = {}
    BY <2>2 DEF HeldFrom, Held
  <2>5. Good(Q, left, close)
    BY <1>4, <2>2, <2>3, SameTables DEF Tracks
  <2>6. left \ Held(Q) = left
    BY <2>4
  <2>7. \A x \in left : IsChange(x)
    BY <1>4 DEF Tracks
  <2> QED
    BY <2>4, <2>5, <2>6, <2>7 DEF Tracks
<1>6. Taken("round", R.pend, rows, Len(R.pend)) = Held(R)
  BY <1>1 DEF Taken, Held
<1>7. \A n \in Nat : n = Len(R.pend) => Tracks(f[n], left \cup Taken("round", R.pend, rows, n), close)
  <2>1. \A i \in 1 .. Len(R.pend) : IsChange(R.pend[i])
    BY <1>1 DEF Tracks
  <2>2. \A i, j \in 1 .. Len(R.pend) : R.pend[i] = R.pend[j] => i = j
    BY <1>1 DEF Tracks
  <2>3. Taken("round", R.pend, rows, Len(R.pend)) \cap left = {}
    BY <1>4, <1>6
  <2> QED
    BY <1>3, <1>5, <2>1, <2>2, <2>3, ListTracks
<1>8. left \cup Held(R) = S
  BY <1>1, <1>4
<1> QED
  BY <1>1, <1>3, <1>6, <1>7, <1>8

LEMMA RetryPendingTracks ==
  ASSUME NEW close \in BOOLEAN, NEW R, NEW S, Tracks(R, S, close), NEW rows
  PROVE  Tracks(RetryPending(R, rows), S, close)
PROOF
<1>1. Len(R.pend) \in Nat
  BY HeldInSet DEF Tracks
<1>2. PICK f : Recursion("retries", f, Len(R.pend), R, R.pend, rows) /\ RetryPending(R, rows) = f[Len(R.pend)]
  BY <1>1, RetryPendingIs
<1>3. f[0] = R /\ \A k \in 1 .. Len(R.pend) : f[k] = StepOf("retries", f[k - 1], R.pend, rows, k)
  BY <1>1, <1>2 DEF Recursion
<1> DEFINE Bad == {k \in 0 .. Len(R.pend) : ~ Tracks(f[k], S, close)}
<1>4. ASSUME NEW b \in Bad PROVE FALSE
  <2>1. PICK k \in Bad : \A i \in Bad : k <= i
    <3>1. Bad \subseteq Nat
      BY <1>1
    <3> HIDE DEF Bad
    <3> QED
      BY <1>4, <3>1, Smallest
  <2>2. k # 0
    BY <1>3, <2>1
  <2>3. k \in 1 .. Len(R.pend) /\ k - 1 \in 0 .. Len(R.pend) /\ k - 1 \notin Bad
    BY <1>1, <2>1, <2>2
  <2>4. f[k] = RetryRound(f[k - 1], rows)
    BY <1>3, <2>3 DEF StepOf
  <2>5. Tracks(f[k], S, close)
    BY <2>3, <2>4, RetryRoundTracks
  <2> QED
    BY <2>1, <2>5
<1>5. Len(R.pend) \in 0 .. Len(R.pend)
  BY <1>1
<1> QED
  BY <1>2, <1>4, <1>5
-----------------------------------------------------------------------------
(* What a device has seen, in parts: rows of the start, and ops. *)
BaseSeen(d) == {BaseRows[i] : i \in {j \in DOMAIN BaseRows : ScopeOf[BaseRows[j].row] \in based[d]}}
OpsSeen(d, e, s) == {stream[e][s][i] : i \in 1 .. (IF e = d THEN Len(stream[e][s]) ELSE pos[d][e][s])}

LEMMA SeenParts ==
  ASSUME NEW d \in Device
  PROVE  /\ \A x : x \in Seen(d) <=> x \in BaseSeen(d) \/ \E e \in Device : \E s \in Scope : x \in OpsSeen(d, e, s)
         /\ \A x : x \in Seen(d)' <=> x \in BaseSeen(d)' \/ \E e \in Device : \E s \in Scope : x \in OpsSeen(d, e, s)'
PROOF
<1>1. Seen(d) = BaseSeen(d) \cup UNION {OpsSeen(d, e, s) : e \in Device, s \in Scope}
  BY DEF Seen, BaseSeen, OpsSeen
<1>2. Seen(d)' = BaseSeen(d)' \cup UNION {OpsSeen(d, e, s)' : e \in Device, s \in Scope}
  BY DEF Seen, BaseSeen, OpsSeen
<1> QED
  BY <1>1, <1>2

LEMMA BaseShape ==
  /\ DOMAIN BaseRows = 1 .. Len(BaseRows) /\ Len(BaseRows) \in Nat
  /\ \A i \in 1 .. Len(BaseRows) : /\ IsChange(BaseRows[i]) /\ BaseRows[i].row \in Row
                                   /\ ScopeOf[BaseRows[i].row] \in Scope
  /\ \A i, j \in 1 .. Len(BaseRows) : BaseRows[i].row = BaseRows[j].row => i = j
PROOF
<1>1. DOMAIN BaseRows = 1 .. Len(BaseRows) /\ Len(BaseRows) \in Nat
  BY BaseAssumption
<1>2. \A i \in 1 .. Len(BaseRows) : IsChange(BaseRows[i]) /\ BaseRows[i].row \in Row
  BY <1>1, BaseAssumption DEF IsChange
<1> QED
  BY <1>1, <1>2, BaseAssumption, ConvergenceAssumption

LEMMA BaseClock ==
  ASSUME NEW i \in DOMAIN BaseRows, NEW c \in DOMAIN BaseRows[i].set
  PROVE  /\ BaseRows[i].at[c] = <<BaseRows[i].at[c][1], Founder>>
         /\ BaseRows[i].at[c][1] \in Nat /\ BaseRows[i].at[c][1] <= CreatedAt
PROOF
<1>1. IsChange(BaseRows[i])
  BY BaseAssumption
<1>2. DOMAIN BaseRows[i].at = DOMAIN BaseRows[i].set /\ BaseRows[i].at[c] \in Clocks
  BY <1>1, ChangeShape
<1> QED
  BY <1>2, BaseAssumption DEF Clocks

LEMMA StreamShape ==
  ASSUME StreamsInv, NEW e \in Device, NEW s \in Scope
  PROVE  /\ stream[e][s] \in Seq(Changes)
         /\ DOMAIN stream[e][s] = 1 .. Len(stream[e][s]) /\ Len(stream[e][s]) \in Nat
         /\ \A i \in 1 .. Len(stream[e][s]) : IsChange(stream[e][s][i])
         /\ \A d \in Device : pos[d][e][s] \in Nat /\ pos[d][e][s] <= Len(stream[e][s])
PROOF
<1>1. stream[e][s] \in Seq(Changes)
  BY DEF StreamsInv
<1>2. \A x \in Changes : IsChange(x)
  BY DEF Changes
<1> HIDE DEF Changes
<1>3. /\ DOMAIN stream[e][s] = 1 .. Len(stream[e][s]) /\ Len(stream[e][s]) \in Nat
      /\ \A i \in 1 .. Len(stream[e][s]) : stream[e][s][i] \in Changes
  BY <1>1
<1> QED
  BY <1>1, <1>2, <1>3 DEF StreamsInv

(* The one clock of an op.                                                 *)
LEMMA OpClock ==
  ASSUME StreamsInv, StampsInv, NEW e \in Device, NEW s \in Scope, NEW i \in 1 .. Len(stream[e][s]),
         NEW c \in DOMAIN stream[e][s][i].set
  PROVE  /\ stream[e][s][i].at[c] = ClockOf(stream[e][s][i])
         /\ ClockOf(stream[e][s][i]) = <<ClockOf(stream[e][s][i])[1], e>>
         /\ ClockOf(stream[e][s][i])[1] \in Nat /\ ClockOf(stream[e][s][i])[1] <= hlc[e]
         /\ e = Founder => CreatedAt < ClockOf(stream[e][s][i])[1]
PROOF
<1>1. i \in DOMAIN stream[e][s]
  BY StreamShape
<1> QED
  BY <1>1 DEF StampsInv, Stamped

(* Changes differ in the clocks of every column that both set.             *)
LEMMA OpsDiffer ==
  ASSUME StreamsInv, StampsInv,
         NEW e \in Device, NEW s \in Scope, NEW i \in 1 .. Len(stream[e][s]),
         NEW f \in Device, NEW t \in Scope, NEW j \in 1 .. Len(stream[f][t]),
         NEW c \in DOMAIN stream[e][s][i].set, c \in DOMAIN stream[f][t][j].set,
         stream[e][s][i].at[c] = stream[f][t][j].at[c]
  PROVE  e = f /\ s = t /\ i = j
PROOF
<1>1. ClockOf(stream[e][s][i]) = ClockOf(stream[f][t][j])
  <2>1. stream[e][s][i].at[c] = ClockOf(stream[e][s][i])
    BY OpClock
  <2>2. stream[f][t][j].at[c] = ClockOf(stream[f][t][j])
    BY OpClock
  <2> QED
    BY <2>1, <2>2
<1>2. ClockOf(stream[e][s][i])[2] = e /\ ClockOf(stream[f][t][j])[2] = f
  BY OpClock
<1>3. i \in DOMAIN stream[e][s] /\ j \in DOMAIN stream[f][t]
  BY StreamShape
<1> QED
  BY <1>1, <1>2, <1>3 DEF StampsInv

LEMMA BaseDiffers ==
  ASSUME StreamsInv, StampsInv, NEW k \in DOMAIN BaseRows,
         NEW e \in Device, NEW s \in Scope, NEW i \in 1 .. Len(stream[e][s]),
         NEW c \in DOMAIN stream[e][s][i].set, c \in DOMAIN BaseRows[k].set
  PROVE  BaseRows[k].at[c] # stream[e][s][i].at[c]
PROOF
<1>1. /\ BaseRows[k].at[c] = <<BaseRows[k].at[c][1], Founder>>
      /\ BaseRows[k].at[c][1] \in Nat /\ BaseRows[k].at[c][1] <= CreatedAt
  BY BaseClock
<1>2. /\ stream[e][s][i].at[c] = <<stream[e][s][i].at[c][1], e>> /\ stream[e][s][i].at[c][1] \in Nat
      /\ e = Founder => CreatedAt < stream[e][s][i].at[c][1]
  BY OpClock
<1>3. CreatedAt \in Nat
  BY ConvergenceAssumption
<1> QED
  BY <1>1, <1>2, <1>3

LEMMA SetsSomething ==
  ASSUME NEW x, IsChange(x)
  PROVE  \E c : c \in DOMAIN x.set
BY DEF IsChange

(* So the same change never comes twice.                                   *)
LEMMA BaseIsNoOp ==
  ASSUME StreamsInv, StampsInv, NEW k \in DOMAIN BaseRows, NEW d \in Device, NEW e \in Device, NEW s \in Scope
  PROVE  BaseRows[k] \notin OpsSeen(d, e, s)
PROOF
<1>1. SUFFICES ASSUME NEW i \in 1 .. Len(stream[e][s]), BaseRows[k] = stream[e][s][i] PROVE FALSE
  <2>1. pos[d][e][s] \in Nat /\ pos[d][e][s] <= Len(stream[e][s]) /\ Len(stream[e][s]) \in Nat
    BY StreamShape
  <2> QED
    BY <2>1 DEF OpsSeen
<1>2. IsChange(BaseRows[k])
  BY BaseAssumption
<1>3. PICK c : c \in DOMAIN BaseRows[k].set
  BY <1>2, SetsSomething
<1>4. c \in DOMAIN stream[e][s][i].set /\ BaseRows[k].at[c] = stream[e][s][i].at[c]
  BY <1>1, <1>3
<1> QED
  BY <1>3, <1>4, BaseDiffers

LEMMA NextOpNotSeen ==
  ASSUME StreamsInv, StampsInv, NEW d \in Device, NEW e \in Device, d # e, NEW s \in Scope,
         pos[d][e][s] < Len(stream[e][s])
  PROVE  stream[e][s][pos[d][e][s] + 1] \notin Seen(d)
PROOF
<1>1. PICK k \in 1 .. Len(stream[e][s]) : k = pos[d][e][s] + 1
  BY StreamShape
<1>2. PICK x : x = stream[e][s][k]
  OBVIOUS
<1>3. IsChange(x)
  BY <1>2, StreamShape
<1>4. x \notin BaseSeen(d)
  <2>1. SUFFICES ASSUME NEW b \in DOMAIN BaseRows, BaseRows[b] = x PROVE FALSE
    BY DEF BaseSeen
  <2>2. x \in OpsSeen(e, e, s)
    BY <1>1, <1>2 DEF OpsSeen
  <2> QED
    BY <2>1, <2>2, BaseIsNoOp
<1>5. ASSUME NEW f \in Device, NEW t \in Scope, x \in OpsSeen(d, f, t) PROVE FALSE
  <2>1. PICK i \in 1 .. (IF f = d THEN Len(stream[f][t]) ELSE pos[d][f][t]) : x = stream[f][t][i]
    BY <1>5 DEF OpsSeen
  <2>2. pos[d][f][t] \in Nat /\ pos[d][f][t] <= Len(stream[f][t]) /\ Len(stream[f][t]) \in Nat
    BY StreamShape
  <2>3. i \in 1 .. Len(stream[f][t]) /\ (f # d => i <= pos[d][f][t])
    BY <2>1, <2>2
  <2>4. PICK c : c \in DOMAIN x.set
    BY <1>3, SetsSomething
  <2>5. f = e /\ t = s /\ i = k
    <3>1. /\ c \in DOMAIN stream[f][t][i].set /\ c \in DOMAIN stream[e][s][k].set
          /\ stream[f][t][i].at[c] = stream[e][s][k].at[c]
      BY <1>2, <2>1, <2>4
    <3>2. i \in 1 .. Len(stream[f][t])
      BY <2>3
    <3> QED
      BY <3>1, <3>2, OpsDiffer
  <2>6. pos[d][e][s] \in Nat
    BY StreamShape
  <2> QED
    BY <1>1, <2>3, <2>5, <2>6
<1> QED
  BY <1>1, <1>2, <1>4, <1>5, SeenParts
-----------------------------------------------------------------------------
(* The club's creation. *)
LEMMA EmptyTracks ==
  ASSUME NEW close \in BOOLEAN
  PROVE  Tracks(EmptyReplica, {}, close)
PROOF
<1>1. PICK R : R = EmptyReplica
  OBVIOUS
<1>2. /\ R.rows = {} /\ R.pend = <<>>
      /\ R.val = [r \in Row |-> [c \in Col |-> Null]] /\ R.at = [r \in Row |-> [c \in Col |-> NoClock]]
      /\ R = [rows |-> R.rows, val |-> R.val, at |-> R.at, pend |-> R.pend]
  BY <1>1 DEF EmptyReplica
<1>3. Null \in Values /\ NoClock \in Clocks
  BY DEF Values, Clocks, NoClock
<1>4. R.val \in [Row -> [Col -> Values]] /\ R.at \in [Row -> [Col -> Clocks]]
  BY <1>2, <1>3
<1>5. Sound(R)
  BY <1>2, <1>4 DEF Sound, IsReplica, Complete
<1>6. Applied(R, {})
  <2>1. Newest(R, {})
    BY <1>2 DEF Newest, RowsIn, HoldsCell, Setters
  <2> QED
    BY <2>1 DEF Applied, Ordered
<1>7. HeldFrom(R, {}) /\ Held(R) = {} /\ DOMAIN R.pend = {}
  BY <1>2 DEF HeldFrom, Held
<1>8. {} \ Held(R) = {}
  OBVIOUS
<1>9. Good(R, {} \ Held(R), close)
  BY <1>5, <1>6, <1>8 DEF Good
<1> QED
  BY <1>1, <1>7, <1>9 DEF Tracks

(* The founder's rows, loaded by whom they are not known to.               *)
LEMMA BaseTaken ==
  ASSUME NEW rows
  PROVE  Taken("all", BaseRows, rows, Len(BaseRows)) = {BaseRows[i] : i \in {j \in DOMAIN BaseRows : BaseRows[j].row \in rows}}
BY BaseShape DEF Taken

LEMMA BaseTracks ==
  ASSUME NEW close \in BOOLEAN, NEW R, NEW S, Tracks(R, S, close), NEW rows,
         \A i \in DOMAIN BaseRows : BaseRows[i].row \in rows => BaseRows[i] \notin S
  PROVE  Tracks(ReceiveAll(R, BaseRows, rows), S \cup Taken("all", BaseRows, rows, Len(BaseRows)), close)
PROOF
<1>1. \A i, j \in 1 .. Len(BaseRows) : BaseRows[i] = BaseRows[j] => i = j
  BY BaseShape
<1>2. Len(BaseRows) \in Nat /\ \A i \in 1 .. Len(BaseRows) : IsChange(BaseRows[i])
  BY BaseShape
<1>3. \A i \in 1 .. Len(BaseRows) : BaseRows[i].row \in rows => BaseRows[i] \notin S
  BY BaseShape
<1> QED
  BY <1>1, <1>2, <1>3, ReceiveAllTracks

LEMMA InitInv ==
  ASSUME NEW close \in BOOLEAN, Init
  PROVE  CInv(close)
PROOF
<1>1. CreatedAt \in Nat /\ Founder \in Device /\ Device \subseteq Nat
  BY ConvergenceAssumption
<1>2. \A e \in Device : \A s \in Scope : stream[e][s] = <<>> /\ DOMAIN stream[e][s] = {} /\ Len(stream[e][s]) = 0
  BY DEF Init
<1>3. \A d, e \in Device : \A s \in Scope : pos[d][e][s] = 0
  BY DEF Init
<1>4. StreamsInv
  <2>1. rep = [d \in Device |-> rep[d]]
    BY DEF Init
  <2>2. hlc \in [Device -> Nat] /\ based \in [Device -> SUBSET Scope] /\ pos \in [Device -> [Device -> [Scope -> Nat]]]
    BY <1>1 DEF Init
  <2>3. stream \in [Device -> [Scope -> Seq(Changes)]]
    <3> HIDE DEF Changes
    <3>1. <<>> \in Seq(Changes)
      OBVIOUS
    <3> QED
      BY <3>1 DEF Init
  <2>4. \A d, e \in Device : \A s \in Scope : pos[d][e][s] <= Len(stream[e][s])
    BY <1>2, <1>3
  <2> QED
    BY <2>1, <2>2, <2>3, <2>4 DEF StreamsInv
<1>5. StampsInv
  <2>1. CreatedAt <= hlc[Founder]
    BY <1>1 DEF Init
  <2> QED
    BY <1>2, <2>1 DEF StampsInv
<1>6. FollowedInv
  BY <1>3 DEF FollowedInv
<1>7. ASSUME NEW d \in Device PROVE Tracks(rep[d], Seen(d), close)
  <2>1. \A e \in Device : \A s \in Scope : OpsSeen(d, e, s) = {}
    BY <1>2, <1>3 DEF OpsSeen
  <2>2. Seen(d) = BaseSeen(d)
    BY <2>1, SeenParts
  <2>3. CASE d = Founder
    <3>1. based[d] = Scope /\ rep[d] = FounderReplica
      BY <1>1, <2>3 DEF Init
    <3>2. BaseSeen(d) = Taken("all", BaseRows, Row, Len(BaseRows))
      <4>1. \A j \in DOMAIN BaseRows : BaseRows[j].row \in Row /\ ScopeOf[BaseRows[j].row] \in Scope
        BY BaseShape
      <4> QED
        BY <3>1, <4>1, BaseTaken DEF BaseSeen
    <3>3. Tracks(FounderReplica, {} \cup Taken("all", BaseRows, Row, Len(BaseRows)), close)
      BY EmptyTracks, BaseTracks DEF FounderReplica
    <3>4. {} \cup Taken("all", BaseRows, Row, Len(BaseRows)) = Seen(d)
      BY <2>2, <3>2
    <3> QED
      BY <3>1, <3>3, <3>4
  <2>4. CASE d # Founder
    <3>1. based[d] = {} /\ rep[d] = EmptyReplica
      BY <2>4 DEF Init
    <3>2. Seen(d) = {}
      BY <2>2, <3>1 DEF BaseSeen
    <3> QED
      BY <3>1, <3>2, EmptyTracks
  <2> QED
    BY <2>3, <2>4
<1> QED
  BY <1>4, <1>5, <1>6, <1>7 DEF CInv, TracksInv
-----------------------------------------------------------------------------
(* The steps of synchronization. *)
LEMMA ClocksGrow ==
  ASSUME StreamsInv, StampsInv, stream' = stream, hlc' \in [Device -> Nat],
         \A d \in Device : hlc[d] <= hlc'[d]
  PROVE  StampsInv'
PROOF
<1>1. CreatedAt <= hlc'[Founder]
  <2>1. CreatedAt \in Nat /\ hlc[Founder] \in Nat /\ hlc'[Founder] \in Nat /\ Founder \in Device
    BY ConvergenceAssumption DEF StreamsInv
  <2> QED
    BY <2>1 DEF StampsInv
<1>2. ASSUME NEW e \in Device, NEW s \in Scope, NEW i \in DOMAIN stream'[e][s]
      PROVE  Stamped(stream'[e][s][i], e, hlc'[e])
  <2>1. Stamped(stream[e][s][i], e, hlc[e])
    BY <1>2 DEF StampsInv
  <2>2. hlc[e] \in Nat /\ hlc'[e] \in Nat /\ hlc[e] <= hlc'[e]
    BY DEF StreamsInv
  <2> QED
    BY <2>1, <2>2 DEF Stamped
<1> QED
  BY <1>1, <1>2 DEF StampsInv

LEMMA LoadBaseInv ==
  ASSUME NEW close \in BOOLEAN, CInv(close), NEW d \in Device, NEW s \in Scope, LoadBase(d, s)
  PROVE  CInv(close)'
PROOF
<1>1. StreamsInv /\ StampsInv /\ TracksInv(close)
  BY DEF CInv
<1>2. /\ s \notin based[d] /\ hlc' = hlc /\ stream' = stream /\ pos' = pos
      /\ based' = [based EXCEPT ![d] = @ \cup {s}]
      /\ rep' = [rep EXCEPT ![d] = RetryPending(ReceiveAll(rep[d], BaseRows, RowsOf({s})), RowsOf({s}))]
  BY DEF LoadBase
<1>3. \A f, e \in Device : \A t \in Scope : OpsSeen(f, e, t)' = OpsSeen(f, e, t)
  BY <1>2 DEF OpsSeen
<1>4. based'[d] = based[d] \cup {s} /\ \A f \in Device \ {d} : based'[f] = based[f]
  BY <1>1, <1>2 DEF StreamsInv
<1>5. PICK base : base = Taken("all", BaseRows, RowsOf({s}), Len(BaseRows))
  OBVIOUS
<1>6. base = {BaseRows[i] : i \in {j \in DOMAIN BaseRows : ScopeOf[BaseRows[j].row] = s}}
  <2>1. \A j \in DOMAIN BaseRows : BaseRows[j].row \in RowsOf({s}) <=> ScopeOf[BaseRows[j].row] = s
    BY BaseShape DEF RowsOf
  <2> QED
    BY <1>5, <2>1, BaseTaken
<1>7. Seen(d)' = Seen(d) \cup base
  <2>1. BaseSeen(d)' = BaseSeen(d) \cup base
    BY <1>4, <1>6 DEF BaseSeen
  <2> QED
    BY <1>3, <2>1, SeenParts
<1>8. ASSUME NEW f \in Device \ {d} PROVE Seen(f)' = Seen(f)
  <2>1. BaseSeen(f)' = BaseSeen(f)
    BY <1>4 DEF BaseSeen
  <2>2. \A e \in Device : \A t \in Scope : OpsSeen(f, e, t)' = OpsSeen(f, e, t)
    BY <1>3
  <2>3. ASSUME NEW y PROVE y \in Seen(f)' <=> y \in Seen(f)
    BY <2>1, <2>2, SeenParts
  <2> QED
    BY <2>3
<1>9. Tracks(rep'[d], Seen(d)', close)
  <2>1. Tracks(rep[d], Seen(d), close)
    BY <1>1 DEF TracksInv
  <2>2. ASSUME NEW i \in DOMAIN BaseRows, BaseRows[i].row \in RowsOf({s}) PROVE BaseRows[i] \notin Seen(d)
    <3>1. ScopeOf[BaseRows[i].row] = s
      BY <2>2 DEF RowsOf
    <3>2. BaseRows[i] \notin BaseSeen(d)
      BY <1>2, <3>1 DEF BaseSeen
    <3>3. \A e \in Device : \A t \in Scope : BaseRows[i] \notin OpsSeen(d, e, t)
      BY <1>1, BaseIsNoOp
    <3> QED
      BY <3>2, <3>3, SeenParts
  <2>3. Tracks(ReceiveAll(rep[d], BaseRows, RowsOf({s})), Seen(d)', close)
    BY <1>5, <1>7, <2>1, <2>2, BaseTracks
  <2>4. rep'[d] = RetryPending(ReceiveAll(rep[d], BaseRows, RowsOf({s})), RowsOf({s}))
    BY <1>1, <1>2 DEF StreamsInv
  <2> QED
    BY <2>3, <2>4, RetryPendingTracks
<1>10. TracksInv(close)'
  <2>1. \A f \in Device \ {d} : rep'[f] = rep[f]
    BY <1>1, <1>2 DEF StreamsInv
  <2>2. \A f \in Device : Tracks(rep'[f], Seen(f)', close)
    BY <1>1, <1>8, <1>9, <2>1 DEF TracksInv
  <2> QED
    BY <2>2 DEF TracksInv
<1>11. StreamsInv'
  <2>1. rep' = [f \in Device |-> rep'[f]]
    BY <1>1, <1>2 DEF StreamsInv
  <2>2. based' \in [Device -> SUBSET Scope]
    BY <1>1, <1>2 DEF StreamsInv
  <2> QED
    BY <1>1, <1>2, <2>1, <2>2 DEF StreamsInv
<1>12. StampsInv'
  BY <1>1, <1>2 DEF StampsInv
<1>13. close => FollowedInv'
  BY <1>2 DEF CInv, FollowedInv
<1> QED
  BY <1>10, <1>11, <1>12, <1>13 DEF CInv

LEMMA RetryInv ==
  ASSUME NEW close \in BOOLEAN, CInv(close), NEW d \in Device, RetryWaiting(d)
  PROVE  CInv(close)'
PROOF
<1>1. StreamsInv /\ StampsInv /\ TracksInv(close)
  BY DEF CInv
<1>2. /\ hlc' = hlc /\ stream' = stream /\ pos' = pos /\ based' = based
      /\ rep' = [rep EXCEPT ![d] = RetryPending(rep[d], RowsOf(based[d]))]
  BY DEF RetryWaiting
<1>3. \A f \in Device : Seen(f)' = Seen(f)
  BY <1>2 DEF Seen
<1>4. TracksInv(close)'
  <2>1. \A f \in Device : Tracks(rep[f], Seen(f)', close)
    BY <1>1, <1>3 DEF TracksInv
  <2>2. rep'[d] = RetryPending(rep[d], RowsOf(based[d])) /\ \A f \in Device \ {d} : rep'[f] = rep[f]
    BY <1>1, <1>2 DEF StreamsInv
  <2>3. Tracks(rep'[d], Seen(d)', close)
    BY <2>1, <2>2, RetryPendingTracks
  <2>4. \A f \in Device : Tracks(rep'[f], Seen(f)', close)
    BY <2>1, <2>2, <2>3
  <2> QED
    BY <2>4 DEF TracksInv
<1>5. StreamsInv'
  <2>1. rep' = [f \in Device |-> rep'[f]]
    BY <1>1, <1>2 DEF StreamsInv
  <2> QED
    BY <1>1, <1>2, <2>1 DEF StreamsInv
<1>6. StampsInv'
  BY <1>1, <1>2 DEF StampsInv
<1>7. close => FollowedInv'
  BY <1>2 DEF CInv, FollowedInv
<1> QED
  BY <1>4, <1>5, <1>6, <1>7 DEF CInv
LEMMA PullInv ==
  ASSUME NEW close \in BOOLEAN, CInv(close), close => ClocksClose,
         NEW d \in Device, NEW e \in Device, NEW s \in Scope, Pull(d, e, s)
  PROVE  CInv(close)'
PROOF
<1>1. StreamsInv /\ StampsInv /\ TracksInv(close)
  BY DEF CInv
<1>2. PICK x : x = stream[e][s][pos[d][e][s] + 1]
  OBVIOUS
<1>3. PICK h \in Observed(d, ClockOf(x)[1]) : hlc' = [hlc EXCEPT ![d] = h]
  BY <1>2 DEF Pull, ClockOf
<1>4. /\ d # e /\ pos[d][e][s] < Len(stream[e][s])
      /\ stream' = stream /\ based' = based
      /\ pos' = [pos EXCEPT ![d][e][s] = @ + 1]
      /\ rep' = [rep EXCEPT ![d] = Receive(rep[d], x)]
  BY <1>2 DEF Pull
<1>5. /\ pos[d][e][s] \in Nat /\ Len(stream[e][s]) \in Nat
      /\ pos[d][e][s] + 1 \in 1 .. Len(stream[e][s])
  BY <1>1, <1>4, StreamShape
<1>6. /\ pos' \in [Device -> [Device -> [Scope -> Nat]]]
      /\ pos'[d][e][s] = pos[d][e][s] + 1
      /\ \A f, g \in Device : \A t \in Scope : <<f, g, t>> # <<d, e, s>> => pos'[f][g][t] = pos[f][g][t]
  <2>1. pos \in [Device -> [Device -> [Scope -> Nat]]] /\ pos[d][e][s] + 1 \in Nat
    BY <1>1, <1>5 DEF StreamsInv
  <2>2. pos' \in [Device -> [Device -> [Scope -> Nat]]] /\ pos'[d][e][s] = pos[d][e][s] + 1
    BY <1>4, <2>1
  <2>3. ASSUME NEW f \in Device, NEW g \in Device, NEW t \in Scope, <<f, g, t>> # <<d, e, s>>
        PROVE  pos'[f][g][t] = pos[f][g][t]
    BY <1>4, <2>1, <2>3
  <2> QED
    BY <2>2, <2>3
<1>7. IsChange(x) /\ x \notin Seen(d) /\ ClockOf(x)[1] \in Nat /\ ClockOf(x)[1] <= hlc[e]
  <2>1. IsChange(x)
    BY <1>1, <1>2, <1>5, StreamShape
  <2>2. \E c : c \in DOMAIN x.set
    BY <2>1, SetsSomething
  <2>3. ClockOf(x)[1] \in Nat /\ ClockOf(x)[1] <= hlc[e]
    BY <1>1, <1>2, <1>5, <2>2, OpClock
  <2> QED
    BY <1>1, <1>2, <1>4, <2>1, <2>3, NextOpNotSeen
<1>8. Seen(d)' = Seen(d) \cup {x}
  <2>1. BaseSeen(d)' = BaseSeen(d)
    BY <1>4 DEF BaseSeen
  <2>2. ASSUME NEW f \in Device, NEW t \in Scope, <<f, t>> # <<e, s>>
        PROVE  OpsSeen(d, f, t)' = OpsSeen(d, f, t)
    <3>1. pos'[d][f][t] = pos[d][f][t]
      BY <1>6, <2>2
    <3> QED
      BY <1>4, <3>1 DEF OpsSeen
  <2>3. OpsSeen(d, e, s)' = OpsSeen(d, e, s) \cup {x}
    <3>1. OpsSeen(d, e, s)' = {stream[e][s][i] : i \in 1 .. pos[d][e][s] + 1}
      <4>1. d # e /\ stream' = stream /\ pos'[d][e][s] = pos[d][e][s] + 1
        BY <1>4, <1>6
      <4> QED
        BY <4>1 DEF OpsSeen
    <3>2. OpsSeen(d, e, s) = {stream[e][s][i] : i \in 1 .. pos[d][e][s]}
      BY <1>4 DEF OpsSeen
    <3>3. \A i \in 1 .. pos[d][e][s] + 1 : i \in 1 .. pos[d][e][s] \/ i = pos[d][e][s] + 1
      BY <1>5
    <3>4. \A i \in 1 .. pos[d][e][s] : i \in 1 .. pos[d][e][s] + 1
      BY <1>5
    <3>5. pos[d][e][s] + 1 \in 1 .. pos[d][e][s] + 1
      BY <1>5
    <3> QED
      BY <1>2, <3>1, <3>2, <3>3, <3>4, <3>5
  <2>4. ASSUME NEW y PROVE y \in Seen(d)' <=> y \in Seen(d) \/ y = x
    BY <2>1, <2>2, <2>3, SeenParts
  <2> QED
    BY <2>4
<1>9. ASSUME NEW f \in Device \ {d} PROVE Seen(f)' = Seen(f)
  <2>1. BaseSeen(f)' = BaseSeen(f)
    BY <1>4 DEF BaseSeen
  <2>2. \A g \in Device : \A t \in Scope : OpsSeen(f, g, t)' = OpsSeen(f, g, t)
    BY <1>4, <1>6 DEF OpsSeen
  <2>3. ASSUME NEW y PROVE y \in Seen(f)' <=> y \in Seen(f)
    BY <2>1, <2>2, SeenParts
  <2> QED
    BY <2>3
<1>10. TracksInv(close)'
  <2>1. \A f \in Device : Tracks(rep[f], Seen(f), close)
    BY <1>1 DEF TracksInv
  <2>2. rep'[d] = Receive(rep[d], x) /\ \A f \in Device \ {d} : rep'[f] = rep[f]
    BY <1>1, <1>4 DEF StreamsInv
  <2>3. Tracks(rep'[d], Seen(d)', close)
    BY <1>7, <1>8, <2>1, <2>2, ReceiveTracks
  <2>4. \A f \in Device : Tracks(rep'[f], Seen(f)', close)
    BY <1>9, <2>1, <2>2, <2>3
  <2> QED
    BY <2>4 DEF TracksInv
<1>11. /\ hlc' \in [Device -> Nat] /\ \A f \in Device : hlc[f] <= hlc'[f]
       /\ close => ClockOf(x)[1] <= hlc'[d]
  <2>1. hlc \in [Device -> Nat] /\ hlc[d] \in Nat
    BY <1>1 DEF StreamsInv
  <2>2. \A w : Followed(d, ClockOf(x)[1], w) \in Nat /\ hlc[d] <= Followed(d, ClockOf(x)[1], w)
    BY <1>7, <2>1 DEF Followed
  <2>3. h \in Nat /\ hlc[d] <= h
    BY <1>3, <2>2 DEF Observed
  <2>4. ASSUME close PROVE ClockOf(x)[1] <= hlc'[d]
    <3>1. pos'[d][e][s] \in Nat /\ pos'[d][e][s] # pos[d][e][s]
      BY <1>5, <1>6
    <3>2. StampOf(e, s, pos'[d][e][s]) = ClockOf(x)[1]
      BY <1>2, <1>6 DEF StampOf
    <3>3. PICK w \in MinWall .. MaxWall : /\ ClockOf(x)[1] <= w + MaxDrift
                                         /\ hlc'[d] = Followed(d, ClockOf(x)[1], w)
      BY <2>4, <3>1, <3>2 DEF ClocksClose
    <3> QED
      BY <1>7, <2>1, <3>3 DEF Followed
  <2> QED
    BY <1>3, <2>1, <2>3, <2>4
<1>12. StreamsInv'
  <2>1. rep' = [f \in Device |-> rep'[f]]
    BY <1>1, <1>4 DEF StreamsInv
  <2>2. ASSUME NEW f \in Device, NEW g \in Device, NEW t \in Scope
        PROVE  pos'[f][g][t] <= Len(stream'[g][t])
    <3>1. CASE <<f, g, t>> = <<d, e, s>>
      BY <1>4, <1>5, <1>6, <3>1
    <3>2. CASE <<f, g, t>> # <<d, e, s>>
      BY <1>1, <1>4, <1>6, <3>2 DEF StreamsInv
    <3> QED
      BY <3>1, <3>2
  <2> QED
    BY <1>1, <1>4, <1>6, <1>11, <2>1, <2>2 DEF StreamsInv
<1>13. StampsInv'
  BY <1>1, <1>4, <1>11, ClocksGrow
<1>14. close => FollowedInv'
  <2>1. SUFFICES ASSUME close, NEW f \in Device, NEW g \in Device, NEW t \in Scope, NEW i \in 1 .. pos'[f][g][t]
                 PROVE  ClockOf(stream'[g][t][i])[1] <= hlc'[f]
    BY DEF CInv, FollowedInv
  <2>2. CASE i \in 1 .. pos[f][g][t]
    <3>1. ClockOf(stream[g][t][i])[1] <= hlc[f]
      BY <2>1, <2>2 DEF CInv, FollowedInv
    <3>2. hlc[f] \in Nat /\ hlc'[f] \in Nat /\ hlc[f] <= hlc'[f]
      BY <1>1, <1>11 DEF StreamsInv
    <3>3. ClockOf(stream[g][t][i])[1] \in Nat
      <4>1. i \in 1 .. Len(stream[g][t])
        BY <1>1, <2>2, StreamShape
      <4>2. \E c : c \in DOMAIN stream[g][t][i].set
        BY <1>1, <4>1, StreamShape, SetsSomething
      <4> QED
        BY <1>1, <4>1, <4>2, OpClock
    <3> QED
      BY <1>4, <3>1, <3>2, <3>3
  <2>3. CASE i \notin 1 .. pos[f][g][t]
    <3>1. f = d /\ g = e /\ t = s
      BY <1>6, <2>1, <2>3
    <3>2. i = pos[d][e][s] + 1
      BY <1>5, <1>6, <2>1, <2>3, <3>1
    <3> QED
      BY <1>2, <1>4, <1>11, <2>1, <3>1, <3>2
  <2> QED
    BY <2>2, <2>3
<1> QED
  BY <1>10, <1>12, <1>13, <1>14 DEF CInv
-----------------------------------------------------------------------------
(* The steps of the program's own writes.  What SQLite and the write path  *)
(* let a local change be:                                                  *)
Legal(d, r, set) ==
  /\ DOMAIN set # {} /\ DOMAIN set \subseteq Col
  /\ set \in [DOMAIN set -> Values]
  /\ \A c \in DOMAIN set \cap Required[r] : set[c] # Null
  /\ \A c \in DOMAIN set \cap Refs[r] : set[c] \in rep[d].rows \cup {Null}
  /\ r \notin rep[d].rows => Required[r] \subseteq DOMAIN set /\ PkRefs[r] \subseteq rep[d].rows

LEMMA OwnChange ==
  ASSUME NEW d \in Device, NEW r \in Row, NEW set, Legal(d, r, set), NEW ts \in Nat \ {0},
         NEW x, x = OpChange(r, set, <<ts, d>>)
  PROVE  /\ IsChange(x) /\ x \in Changes
         /\ x.row = r /\ x.set = set
         /\ \A c \in DOMAIN x.set : x.at[c] = <<ts, d>>
         /\ ClockOf(x) = <<ts, d>>
PROOF
<1>1. x = [row |-> r, set |-> set, at |-> [c \in DOMAIN set |-> <<ts, d>>]]
  BY DEF OpChange, Change
<1>2. x.row = r /\ x.set = set /\ x.at = [c \in DOMAIN set |-> <<ts, d>>]
  BY <1>1
<1>3. <<ts, d>> \in (Nat \ {0}) \X Nat /\ <<ts, d>> \in Clocks
  BY ConvergenceAssumption DEF Clocks
<1>4. IsChange(x)
  <2>1. x = Change(x.row, x.set, x.at)
    BY <1>1, <1>2 DEF Change
  <2>2. x.at \in [DOMAIN x.set -> (Nat \ {0}) \X Nat]
    BY <1>2, <1>3
  <2> QED
    BY <1>2, <2>1, <2>2 DEF IsChange, Legal, Values
<1>5. x \in UNION {[row : Row, set : [cols -> Values], at : [cols -> Clocks]] : cols \in SUBSET Col}
  <2>1. x \in [row : Row, set : [DOMAIN set -> Values], at : [DOMAIN set -> Clocks]]
    BY <1>1, <1>3 DEF Legal
  <2>2. DOMAIN set \in SUBSET Col
    BY DEF Legal
  <2> QED
    BY <2>1, <2>2
<1>6. \A c \in DOMAIN x.set : x.at[c] = <<ts, d>>
  BY <1>2
<1>7. ClockOf(x) = <<ts, d>>
  BY <1>4, <1>6, SetsSomething DEF ClockOf
<1> QED
  BY <1>2, <1>4, <1>5, <1>6, <1>7 DEF Changes

(* A new timestamp is above every change the device has seen, if the       *)
(* clocks are close.                                                       *)
LEMMA NewStampIsNewest ==
  ASSUME StreamsInv, StampsInv, FollowedInv,
         NEW d \in Device, NEW ts \in Nat, hlc[d] < ts, CreatedAt < ts,
         NEW y \in Seen(d), NEW c \in DOMAIN y.set
  PROVE  Before(y.at[c], <<ts, d>>)
PROOF
<1>1. CreatedAt \in Nat
  BY ConvergenceAssumption
<1>2. CASE y \in BaseSeen(d)
  <2>1. PICK i \in DOMAIN BaseRows : y = BaseRows[i]
    BY <1>2 DEF BaseSeen
  <2>2. y.at[c][1] \in Nat /\ y.at[c][1] <= CreatedAt
    BY <2>1, BaseClock
  <2> QED
    BY <1>1, <2>2 DEF Before
<1>3. ASSUME NEW e \in Device, NEW s \in Scope, y \in OpsSeen(d, e, s) PROVE Before(y.at[c], <<ts, d>>)
  <2>1. PICK i \in 1 .. (IF e = d THEN Len(stream[e][s]) ELSE pos[d][e][s]) : y = stream[e][s][i]
    BY <1>3 DEF OpsSeen
  <2>2. pos[d][e][s] \in Nat /\ pos[d][e][s] <= Len(stream[e][s]) /\ Len(stream[e][s]) \in Nat
    BY StreamShape
  <2>3. i \in 1 .. Len(stream[e][s]) /\ (e # d => i \in 1 .. pos[d][e][s])
    BY <2>1, <2>2
  <2>4. /\ y.at[c] = ClockOf(y) /\ ClockOf(y)[1] \in Nat
        /\ e = d => ClockOf(y)[1] <= hlc[d]
    BY <2>1, <2>3, OpClock
  <2>5. e # d => ClockOf(y)[1] <= hlc[d]
    BY <2>1, <2>3 DEF FollowedInv
  <2>6. hlc[d] \in Nat
    BY DEF StreamsInv
  <2> QED
    BY <2>4, <2>5, <2>6 DEF Before
<1> QED
  BY <1>2, <1>3, SeenParts

LEMMA OwnWriteTracks ==
  ASSUME NEW close \in BOOLEAN, CInv(close), NEW d \in Device, NEW r \in Row, NEW set, Legal(d, r, set),
         NEW ts \in Nat \ {0}, hlc[d] < ts, close => CreatedAt < ts,
         NEW x, x = OpChange(r, set, <<ts, d>>), x \notin Seen(d)
  PROVE  Tracks(WriteLocally(rep[d], x), Seen(d) \cup {x}, close)
PROOF
<1>1. Tracks(rep[d], Seen(d), close) /\ StreamsInv /\ StampsInv
  BY DEF CInv, TracksInv
<1>2. PICK A : A = Seen(d) \ Held(rep[d])
  OBVIOUS
<1>3. Sound(rep[d]) /\ IsReplica(rep[d]) /\ (close => Applied(rep[d], A))
  BY <1>1, <1>2 DEF Tracks, Good, Sound
<1>4. IsChange(x) /\ x.row = r /\ x.set = set /\ \A c \in DOMAIN x.set : x.at[c] = <<ts, d>>
  BY OwnChange
<1>5. PICK Q : Q = Overwrite(rep[d], x, DOMAIN x.set)
  OBVIOUS
<1>6. Sound(Q) /\ Q.pend = rep[d].pend
  <2>1. /\ \A c \in Refs[x.row] \cap DOMAIN x.set : x.set[c] \in rep[d].rows \cup {Null}
        /\ x.row \notin rep[d].rows => Required[x.row] \subseteq DOMAIN x.set /\ PkRefs[x.row] \subseteq rep[d].rows
    BY <1>4 DEF Legal
  <2> QED
    BY <1>3, <1>4, <1>5, <2>1, OverwriteSound, OverwriteShape
<1>7. close => Applied(Q, A \cup {x})
  <2>1. SUFFICES ASSUME close PROVE Applied(Q, A \cup {x})
    OBVIOUS
  <2>2. Applied(rep[d], A) /\ CreatedAt < ts /\ FollowedInv
    BY <1>3, <2>1 DEF CInv
  <2>3. DOMAIN x.set = WinsOver(A, x)
    <3>1. ASSUME NEW c \in DOMAIN x.set, NEW o \in Setters(A, x.row, c) PROVE Before(o.at[c], x.at[c])
      <4>1. o \in Seen(d) /\ c \in DOMAIN o.set
        BY <1>2, <3>1 DEF Setters
      <4>2. Before(o.at[c], <<ts, d>>)
        BY <1>1, <2>2, <4>1, NewStampIsNewest
      <4> QED
        BY <1>4, <4>2
    <3> QED
      BY <3>1 DEF WinsOver
  <2>4. ~ WaitsFor(A, x)
    <3>1. rep[d].rows = RowsIn(A)
      BY <2>2 DEF Applied, Newest
    <3>2. Null \notin {x.set[c] : c \in DOMAIN x.set \cap Required[x.row]}
      BY <1>4 DEF Legal
    <3> QED
      BY <1>4, <2>3, <3>1, <3>2 DEF WaitsFor, Legal
  <2> QED
    BY <1>3, <1>4, <1>5, <2>2, <2>3, <2>4, OverwriteApplied
<1>8. Good(Q, (Seen(d) \ Held(rep[d])) \cup {x}, close)
  BY <1>2, <1>6, <1>7 DEF Good
<1>9. Tracks(Q, Seen(d) \cup {x}, close)
  BY <1>1, <1>4, <1>6, <1>8, AppliedTracks
<1> QED
  BY <1>5, <1>9 DEF WriteLocally
LEMMA LocalWriteInv ==
  ASSUME NEW close \in BOOLEAN, CInv(close), NEW d \in Device, NEW r \in Row, NEW set, Legal(d, r, set),
         LocalWrite(d, r, set), close => ClocksClose
  PROVE  CInv(close)'
PROOF
<1>1. StreamsInv /\ StampsInv /\ TracksInv(close)
  BY DEF CInv
<1>2. PICK ts \in NewStamps(d) :
        /\ rep' = [rep EXCEPT ![d] = WriteLocally(rep[d], OpChange(r, set, <<ts, d>>))]
        /\ hlc' = [hlc EXCEPT ![d] = ts]
        /\ stream' = [stream EXCEPT ![d][ScopeOf[r]] = Append(@, OpChange(r, set, <<ts, d>>))]
        /\ pos' = pos /\ based' = based
  BY DEF LocalWrite
<1>3. ts \in Nat \ {0} /\ hlc[d] < ts /\ MinWall <= ts /\ hlc[d] \in Nat
  <2>1. hlc[d] \in Nat /\ MinWall \in Nat /\ MaxWall \in Nat
    BY <1>1, ConvergenceAssumption DEF StreamsInv
  <2> QED
    BY <2>1 DEF NewStamps, Stamp
<1>4. PICK x : x = OpChange(r, set, <<ts, d>>)
  OBVIOUS
<1>5. PICK s \in Scope : s = ScopeOf[r]
  BY ConvergenceAssumption
<1>6. IsChange(x) /\ x \in Changes /\ ClockOf(x) = <<ts, d>> /\ \A c \in DOMAIN x.set : x.at[c] = <<ts, d>>
  BY <1>3, <1>4, OwnChange
<1>7. /\ stream' \in [Device -> [Scope -> Seq(Changes)]]
      /\ stream'[d][s] = Append(stream[d][s], x)
      /\ \A e \in Device : \A t \in Scope : <<e, t>> # <<d, s>> => stream'[e][t] = stream[e][t]
  <2> HIDE DEF Changes
  <2>1. stream \in [Device -> [Scope -> Seq(Changes)]] /\ stream[d][s] \in Seq(Changes)
    BY <1>1 DEF StreamsInv
  <2>2. Append(stream[d][s], x) \in Seq(Changes)
    BY <1>6, <2>1
  <2> QED
    BY <1>2, <1>4, <1>5, <2>1, <2>2
<1>8. /\ Len(stream[d][s]) \in Nat /\ Len(stream'[d][s]) = Len(stream[d][s]) + 1
      /\ DOMAIN stream'[d][s] = 1 .. Len(stream[d][s]) + 1
      /\ \A i \in 1 .. Len(stream[d][s]) : stream'[d][s][i] = stream[d][s][i]
      /\ stream'[d][s][Len(stream[d][s]) + 1] = x
  <2> HIDE DEF Changes
  <2>1. stream[d][s] \in Seq(Changes)
    BY <1>1 DEF StreamsInv
  <2> QED
    BY <1>6, <1>7, <2>1
<1>9. /\ hlc' \in [Device -> Nat] /\ hlc'[d] = ts
      /\ \A e \in Device : hlc[e] \in Nat /\ hlc'[e] \in Nat /\ hlc[e] <= hlc'[e]
  <2>1. hlc \in [Device -> Nat]
    BY <1>1 DEF StreamsInv
  <2>2. hlc' \in [Device -> Nat] /\ hlc'[d] = ts /\ \A e \in Device \ {d} : hlc'[e] = hlc[e]
    BY <1>2, <1>3, <2>1
  <2> QED
    BY <1>3, <2>1, <2>2
\* every position of the new streams is the new op or an old one
<1>10. ASSUME NEW e \in Device, NEW t \in Scope, NEW i \in DOMAIN stream'[e][t]
       PROVE  \/ e = d /\ t = s /\ i = Len(stream[d][s]) + 1 /\ stream'[e][t][i] = x
              \/ i \in DOMAIN stream[e][t] /\ stream'[e][t][i] = stream[e][t][i]
  <2>1. CASE e = d /\ t = s
    <3>1. i \in 1 .. Len(stream[d][s]) + 1 /\ DOMAIN stream[d][s] = 1 .. Len(stream[d][s])
      BY <1>1, <1>8, <1>10, <2>1, StreamShape
    <3>2. i = Len(stream[d][s]) + 1 \/ i \in 1 .. Len(stream[d][s])
      BY <1>8, <3>1
    <3> QED
      BY <1>8, <2>1, <3>1, <3>2
  <2>2. CASE ~ (e = d /\ t = s)
    BY <1>7, <1>10, <2>2
  <2> QED
    BY <2>1, <2>2
\* no old op has the new clock
<1>11. ASSUME NEW t \in Scope, NEW i \in DOMAIN stream[d][t] PROVE ClockOf(stream[d][t][i]) # <<ts, d>>
  <2>1. ClockOf(stream[d][t][i])[1] \in Nat /\ ClockOf(stream[d][t][i])[1] <= hlc[d]
    BY <1>1 DEF StampsInv, Stamped
  <2> QED
    BY <1>3, <2>1
<1>12. StampsInv'
  <2>1. CreatedAt \in Nat /\ Founder \in Device
    BY ConvergenceAssumption
  <2>2. \A e \in Device : hlc[e] \in Nat /\ hlc'[e] \in Nat /\ hlc[e] <= hlc'[e]
    BY <1>9
  <2>3. CreatedAt <= hlc'[Founder] /\ CreatedAt <= hlc[Founder]
    BY <1>1, <2>1, <2>2 DEF StampsInv
  <2>4. ASSUME NEW e \in Device, NEW t \in Scope, NEW i \in DOMAIN stream'[e][t]
        PROVE  Stamped(stream'[e][t][i], e, hlc'[e])
    <3>1. CASE e = d /\ stream'[e][t][i] = x
      <4>1. d = Founder => CreatedAt < ts
        BY <1>3, <2>1, <2>3
      <4> QED
        BY <1>3, <1>6, <1>9, <3>1, <4>1 DEF Stamped
    <3>2. CASE i \in DOMAIN stream[e][t] /\ stream'[e][t][i] = stream[e][t][i]
      <4>1. Stamped(stream[e][t][i], e, hlc[e])
        BY <1>1, <3>2 DEF StampsInv
      <4> QED
        BY <2>2, <3>2, <4>1 DEF Stamped
    <3> QED
      BY <1>10, <2>4, <3>1, <3>2
  <2>5. ASSUME NEW e \in Device, NEW t \in Scope, NEW u \in Scope,
               NEW i \in DOMAIN stream'[e][t], NEW j \in DOMAIN stream'[e][u],
               ClockOf(stream'[e][t][i]) = ClockOf(stream'[e][u][j])
        PROVE  t = u /\ i = j
    <3>1. \/ e = d /\ t = s /\ i = Len(stream[d][s]) + 1 /\ stream'[e][t][i] = x
          \/ i \in DOMAIN stream[e][t] /\ stream'[e][t][i] = stream[e][t][i]
      BY <1>10
    <3>2. \/ e = d /\ u = s /\ j = Len(stream[d][s]) + 1 /\ stream'[e][u][j] = x
          \/ j \in DOMAIN stream[e][u] /\ stream'[e][u][j] = stream[e][u][j]
      BY <1>10
    <3>3. CASE i \in DOMAIN stream[e][t] /\ stream'[e][t][i] = stream[e][t][i]
               /\ j \in DOMAIN stream[e][u] /\ stream'[e][u][j] = stream[e][u][j]
      BY <1>1, <2>5, <3>3 DEF StampsInv
    <3> QED
      BY <1>6, <1>11, <2>5, <3>1, <3>2, <3>3
  <2> QED
    BY <2>3, <2>4, <2>5 DEF StampsInv
<1>13. x \notin Seen(d)
  <2>1. PICK c : c \in DOMAIN x.set
    BY <1>6, SetsSomething
  <2>2. x \notin BaseSeen(d)
    <3>1. SUFFICES ASSUME NEW k \in DOMAIN BaseRows, BaseRows[k] = x PROVE FALSE
      BY DEF BaseSeen
    <3>2. <<ts, d>> = <<x.at[c][1], Founder>> /\ x.at[c][1] <= CreatedAt
      BY <1>6, <2>1, <3>1, BaseClock
    <3>3. d = Founder /\ ts <= CreatedAt
      BY <1>6, <2>1, <3>2
    <3> QED
      BY <1>1, <1>3, <3>3, ConvergenceAssumption DEF StampsInv
  <2>3. ASSUME NEW e \in Device, NEW t \in Scope, x \in OpsSeen(d, e, t) PROVE FALSE
    <3>1. PICK i \in 1 .. (IF e = d THEN Len(stream[e][t]) ELSE pos[d][e][t]) : x = stream[e][t][i]
      BY <2>3 DEF OpsSeen
    <3>2. pos[d][e][t] \in Nat /\ pos[d][e][t] <= Len(stream[e][t]) /\ Len(stream[e][t]) \in Nat
      BY <1>1, StreamShape
    <3>3. i \in 1 .. Len(stream[e][t]) /\ DOMAIN stream[e][t] = 1 .. Len(stream[e][t])
      BY <1>1, <3>1, <3>2, StreamShape
    <3>4. ClockOf(x) = <<ClockOf(x)[1], e>>
      BY <1>1, <2>1, <3>1, <3>3, OpClock
    <3>5. e = d
      BY <1>6, <3>4
    <3> QED
      BY <1>6, <1>11, <3>1, <3>3, <3>5
  <2> QED
    BY <2>2, <2>3, SeenParts
<1>14. Seen(d)' = Seen(d) \cup {x}
  <2>1. BaseSeen(d)' = BaseSeen(d)
    BY <1>2 DEF BaseSeen
  <2>2. \A f \in Device : \A t \in Scope : <<f, t>> # <<d, s>> => OpsSeen(d, f, t)' = OpsSeen(d, f, t)
    BY <1>2, <1>7 DEF OpsSeen
  <2>3. OpsSeen(d, d, s)' = OpsSeen(d, d, s) \cup {x}
    <3>1. OpsSeen(d, d, s)' = {stream'[d][s][i] : i \in 1 .. Len(stream[d][s]) + 1}
      BY <1>8 DEF OpsSeen
    <3>2. OpsSeen(d, d, s) = {stream[d][s][i] : i \in 1 .. Len(stream[d][s])}
      BY DEF OpsSeen
    <3>3. \A i \in 1 .. Len(stream[d][s]) + 1 : i \in 1 .. Len(stream[d][s]) \/ i = Len(stream[d][s]) + 1
      BY <1>8
    <3>4. \A i \in 1 .. Len(stream[d][s]) : i \in 1 .. Len(stream[d][s]) + 1
      BY <1>8
    <3>5. Len(stream[d][s]) + 1 \in 1 .. Len(stream[d][s]) + 1
      BY <1>8
    <3> QED
      BY <1>8, <3>1, <3>2, <3>3, <3>4, <3>5
  <2>4. ASSUME NEW y PROVE y \in Seen(d)' <=> y \in Seen(d) \/ y = x
    BY <2>1, <2>2, <2>3, SeenParts
  <2> QED
    BY <2>4
<1>15. ASSUME NEW f \in Device \ {d} PROVE Seen(f)' = Seen(f)
  <2>1. BaseSeen(f)' = BaseSeen(f)
    BY <1>2 DEF BaseSeen
  <2>2. ASSUME NEW g \in Device, NEW t \in Scope PROVE OpsSeen(f, g, t)' = OpsSeen(f, g, t)
    <3>1. CASE <<g, t>> # <<d, s>>
      BY <1>2, <1>7, <3>1 DEF OpsSeen
    <3>2. CASE <<g, t>> = <<d, s>>
      <4>1. \A i \in 1 .. pos[f][d][s] : i \in 1 .. Len(stream[d][s])
        BY <1>1, <1>8, StreamShape
      <4> QED
        BY <1>2, <1>8, <3>2, <4>1 DEF OpsSeen
    <3> QED
      BY <3>1, <3>2
  <2>3. ASSUME NEW y PROVE y \in Seen(f)' <=> y \in Seen(f)
    BY <2>1, <2>2, SeenParts
  <2> QED
    BY <2>3
<1>16. TracksInv(close)'
  <2>1. \A f \in Device : Tracks(rep[f], Seen(f), close)
    BY <1>1 DEF TracksInv
  <2>2. rep'[d] = WriteLocally(rep[d], x) /\ \A f \in Device \ {d} : rep'[f] = rep[f]
    BY <1>1, <1>2, <1>4 DEF StreamsInv
  <2>3. ASSUME close PROVE CreatedAt < ts
    <3>1. stream'[d][s] # stream[d][s]
      BY <1>8
    <3>2. PICK w \in MinWall .. MaxWall : CreatedAt < w /\ ts = Stamp(d, w)
      BY <1>9, <2>3, <3>1 DEF ClocksClose
    <3> QED
      BY <1>3, <3>2, ConvergenceAssumption DEF Stamp
  <2>5. Tracks(rep'[d], Seen(d)', close)
    BY <1>3, <1>4, <1>13, <1>14, <2>2, <2>3, OwnWriteTracks
  <2>4. \A f \in Device : Tracks(rep'[f], Seen(f)', close)
    BY <1>15, <2>1, <2>2, <2>5
  <2> QED
    BY <2>4 DEF TracksInv
<1>17. StreamsInv'
  <2>1. rep' = [f \in Device |-> rep'[f]]
    BY <1>1, <1>2 DEF StreamsInv
  <2>2. ASSUME NEW f \in Device, NEW g \in Device, NEW t \in Scope
        PROVE  pos'[f][g][t] <= Len(stream'[g][t])
    <3>1. pos[f][g][t] \in Nat /\ pos[f][g][t] <= Len(stream[g][t])
      BY <1>1, StreamShape
    <3>2. CASE <<g, t>> # <<d, s>>
      BY <1>2, <1>7, <3>1, <3>2
    <3>3. CASE <<g, t>> = <<d, s>>
      BY <1>2, <1>8, <3>1, <3>3
    <3> QED
      BY <3>2, <3>3
  <2> QED
    BY <1>1, <1>2, <1>7, <1>9, <2>1, <2>2 DEF StreamsInv
<1>18. close => FollowedInv'
  <2>1. SUFFICES ASSUME close, NEW f \in Device, NEW g \in Device, NEW t \in Scope, NEW i \in 1 .. pos'[f][g][t]
                 PROVE  ClockOf(stream'[g][t][i])[1] <= hlc'[f]
    BY DEF CInv, FollowedInv
  <2>2. i \in 1 .. pos[f][g][t] /\ i \in 1 .. Len(stream[g][t])
    BY <1>1, <1>2, <2>1, StreamShape
  <2>3. stream'[g][t][i] = stream[g][t][i]
    BY <1>7, <1>8, <2>2
  <2>4. ClockOf(stream[g][t][i])[1] \in Nat /\ ClockOf(stream[g][t][i])[1] <= hlc[f]
    <3>1. \E c : c \in DOMAIN stream[g][t][i].set
      BY <1>1, <2>2, StreamShape, SetsSomething
    <3> QED
      BY <1>1, <2>1, <2>2, <3>1, OpClock DEF CInv, FollowedInv
  <2>5. hlc[f] \in Nat /\ hlc'[f] \in Nat /\ hlc[f] <= hlc'[f]
    BY <1>9
  <2> QED
    BY <2>3, <2>4, <2>5
<1> QED
  BY <1>12, <1>16, <1>17, <1>18 DEF CInv

LEMMA InsertInv ==
  ASSUME NEW close \in BOOLEAN, CInv(close), NEW d \in Device, NEW r \in Row, Insert(d, r),
         close => ClocksClose
  PROVE  CInv(close)'
PROOF
<1>1. PICK set : /\ \E cols \in SUBSET Col : set \in [cols -> Row \cup Val]
                 /\ DOMAIN set # {} /\ Required[r] \subseteq DOMAIN set
                 /\ \A c \in DOMAIN set : set[c] \in Allowed(d, r, c)
                 /\ LocalWrite(d, r, set)
  BY DEF Insert
<1>2. PkRefs[r] \subseteq rep[d].rows
  BY DEF Insert
<1>3. DOMAIN set \subseteq Col /\ set \in [DOMAIN set -> Row \cup Val]
  BY <1>1
<1>4. Legal(d, r, set)
  <2>1. Null \notin Row \cup Val
    BY ReplicaAssumption
  <2> QED
    BY <1>1, <1>2, <1>3, <2>1 DEF Legal, Allowed, Values
<1> QED
  BY <1>1, <1>4, LocalWriteInv

LEMMA UpdateInv ==
  ASSUME NEW close \in BOOLEAN, CInv(close), NEW d \in Device, NEW r \in Row, NEW c \in Col, Update(d, r, c),
         close => ClocksClose
  PROVE  CInv(close)'
PROOF
<1>1. PICK v \in Allowed(d, r, c) \cup (IF c \in Required[r] THEN {} ELSE {Null}) : LocalWrite(d, r, [x \in {c} |-> v])
  BY DEF Update
<1>2. PICK set : set = [x \in {c} |-> v]
  OBVIOUS
<1>3. DOMAIN set = {c} /\ set[c] = v
  BY <1>2
<1>4. r \in rep[d].rows
  BY DEF Update
<1>5. rep[d].rows \subseteq Row
  BY DEF CInv, TracksInv, Tracks, Good, Sound, IsReplica
<1>6. v \in Values /\ (c \in Required[r] => v # Null) /\ (c \in Refs[r] => v \in rep[d].rows \cup {Null})
  BY <1>1, <1>5, ReplicaAssumption DEF Allowed, Values
<1>7. Legal(d, r, set)
  <2>1. set \in [DOMAIN set -> Values]
    BY <1>2, <1>6
  <2> QED
    BY <1>3, <1>4, <1>6, <2>1 DEF Legal
<1> QED
  BY <1>1, <1>2, <1>7, LocalWriteInv

LEMMA NextInv ==
  ASSUME NEW close \in BOOLEAN, CInv(close), close => [ClocksClose]_vars, [Next]_vars
  PROVE  CInv(close)'
PROOF
<1>1. CASE Next /\ (close => ClocksClose)
  <2>1. PICK d \in Device : \/ \E r \in Row : Insert(d, r) \/ \E c \in Col : Update(d, r, c)
                            \/ SyncStep(d)
    BY <1>1 DEF Next
  <2>2. CASE \E r \in Row : Insert(d, r) \/ \E c \in Col : Update(d, r, c)
    BY <1>1, <2>2, InsertInv, UpdateInv
  <2>3. CASE SyncStep(d)
    BY <1>1, <2>3, LoadBaseInv, PullInv, RetryInv DEF SyncStep
  <2> QED
    BY <2>1, <2>2, <2>3
<1>2. CASE UNCHANGED vars
  <2>1. rep' = rep /\ hlc' = hlc /\ stream' = stream /\ pos' = pos /\ based' = based
    BY <1>2 DEF vars
  <2>2. \A d \in Device : Seen(d)' = Seen(d)
    BY <2>1 DEF Seen
  <2>3. TracksInv(close)'
    <3>1. \A d \in Device : Tracks(rep'[d], Seen(d)', close)
      BY <2>1, <2>2 DEF CInv, TracksInv
    <3> QED
      BY <3>1 DEF TracksInv
  <2>4. StreamsInv' /\ StampsInv'
    BY <2>1 DEF CInv, StreamsInv, StampsInv
  <2>5. close => FollowedInv'
    BY <2>1 DEF CInv, FollowedInv
  <2> QED
    BY <2>3, <2>4, <2>5 DEF CInv
<1> QED
  BY <1>1, <1>2
-----------------------------------------------------------------------------
(* Two changes of one column that bear the same clock are one change.      *)
LEMMA ClockTells ==
  ASSUME StreamsInv, StampsInv, NEW d \in Device, NEW x \in Seen(d), NEW y \in Seen(d),
         x.row = y.row, NEW c \in DOMAIN x.set, c \in DOMAIN y.set, x.at[c] = y.at[c]
  PROVE  x = y
PROOF
<1>1. \A z \in Seen(d) : \/ \E k \in DOMAIN BaseRows : z = BaseRows[k]
                         \/ \E e \in Device : \E s \in Scope : \E i \in 1 .. Len(stream[e][s]) : z = stream[e][s][i]
  <2>1. SUFFICES ASSUME NEW z, NEW e \in Device, NEW s \in Scope, z \in OpsSeen(d, e, s)
                 PROVE  \E i \in 1 .. Len(stream[e][s]) : z = stream[e][s][i]
    BY SeenParts DEF BaseSeen
  <2>2. pos[d][e][s] \in Nat /\ pos[d][e][s] <= Len(stream[e][s]) /\ Len(stream[e][s]) \in Nat
    BY StreamShape
  <2> QED
    BY <2>1, <2>2 DEF OpsSeen
<1>2. CASE \E k \in DOMAIN BaseRows : x = BaseRows[k]
  <2>1. PICK k \in DOMAIN BaseRows : x = BaseRows[k]
    BY <1>2
  <2>2. CASE \E l \in DOMAIN BaseRows : y = BaseRows[l]
    BY <2>1, <2>2, BaseShape
  <2>3. ASSUME NEW e \in Device, NEW s \in Scope, NEW i \in 1 .. Len(stream[e][s]), y = stream[e][s][i] PROVE FALSE
    BY <2>1, <2>3, BaseDiffers
  <2> QED
    BY <1>1, <2>2, <2>3
<1>3. ASSUME NEW e \in Device, NEW s \in Scope, NEW i \in 1 .. Len(stream[e][s]), x = stream[e][s][i] PROVE x = y
  <2>1. ASSUME NEW k \in DOMAIN BaseRows, y = BaseRows[k] PROVE FALSE
    BY <1>3, <2>1, BaseDiffers
  <2>2. ASSUME NEW f \in Device, NEW t \in Scope, NEW j \in 1 .. Len(stream[f][t]), y = stream[f][t][j] PROVE x = y
    <3>1. e = f /\ s = t /\ i = j
      BY <1>3, <2>2, OpsDiffer
    <3> QED
      BY <1>3, <2>2, <3>1
  <2> QED
    BY <1>1, <2>1, <2>2
<1> QED
  BY <1>1, <1>2, <1>3

LEMMA HeldIsWaiting ==
  ASSUME NEW d \in Device
  PROVE  Held(rep[d]) = Waiting(d)
BY DEF Held, Waiting

LEMMA InvHoldsNewest ==
  ASSUME CInv(TRUE)
  PROVE  HoldsNewest
PROOF
<1>1. SUFFICES ASSUME NEW d \in Device, NEW r \in Row, NEW c \in Col
               PROVE  HoldsCell(rep[d], Seen(d) \ Waiting(d), r, c)
  BY <1>1 DEF HoldsNewest, HoldsCell, Latest, Setters
<1>2. Applied(rep[d], Seen(d) \ Waiting(d))
  BY HeldIsWaiting DEF CInv, TracksInv, Tracks, Good
<1> QED
  BY <1>2 DEF Applied, Newest

LEMMA InvNoDangling ==
  ASSUME NEW close \in BOOLEAN, CInv(close)
  PROVE  NoDanglingReference
PROOF
<1>1. \A d \in Device : Complete(rep[d])
  BY DEF CInv, TracksInv, Tracks, Good, Sound
<1> QED
  BY <1>1 DEF NoDanglingReference, Complete

(* Of two settled devices with the same changes, what one has applied the  *)
(* other one has: the first of its changes the other still keeps waiting   *)
(* would not have to wait.                                                 *)
LEMMA SettledHaveAll ==
  ASSUME CInv(TRUE), NEW d \in Device, NEW e \in Device, Seen(d) = Seen(e), Settled(d)
  PROVE  Seen(e) \ Held(rep[e]) \subseteq Seen(d) \ Held(rep[d])
PROOF
<1>1. PICK A : A = Seen(d) \ Held(rep[d])
  OBVIOUS
<1>2. PICK B : B = Seen(e) \ Held(rep[e])
  OBVIOUS
<1>3. Applied(rep[d], A) /\ Applied(rep[e], B)
  BY <1>1, <1>2 DEF CInv, TracksInv, Tracks, Good
<1>4. SUFFICES ASSUME B \ A # {} PROVE FALSE
  BY <1>1, <1>2
<1>5. B \ A \in SUBSET B
  OBVIOUS
<1>6. PICK x \in B \ A : ~ WaitsFor(B \ (B \ A), x)
  BY <1>3, <1>4, <1>5 DEF Applied, Ordered
<1>7. IsChange(x) /\ B \ (B \ A) \subseteq A
  BY <1>3, <1>6 DEF Applied
<1>8. ~ Waits(rep[d], x)
  BY <1>3, <1>6, <1>7, WaitsLess, WaitsAreWaitsFor
<1>9. x \in Held(rep[d])
  BY <1>1, <1>2, <1>6
<1> QED
  BY <1>8, <1>9 DEF Held, Settled

LEMMA InvSameState ==
  ASSUME CInv(TRUE)
  PROVE  SameChangesSameState
PROOF
<1>1. SUFFICES ASSUME NEW d \in Device, NEW e \in Device, Seen(d) = Seen(e), Settled(d), Settled(e)
               PROVE  rep[d].rows = rep[e].rows /\ rep[d].val = rep[e].val /\ rep[d].at = rep[e].at
  BY DEF SameChangesSameState
<1>2. PICK A : A = Seen(d) \ Held(rep[d])
  OBVIOUS
<1>3. A = Seen(e) \ Held(rep[e])
  BY <1>1, <1>2, SettledHaveAll
<1>4. /\ Newest(rep[d], A) /\ Newest(rep[e], A)
      /\ IsReplica(rep[d]) /\ IsReplica(rep[e])
      /\ \A x \in A : IsChange(x)
  BY <1>2, <1>3 DEF CInv, TracksInv, Tracks, Good, Sound, Applied
<1>5. ASSUME NEW r \in Row, NEW c \in Col
      PROVE  rep[d].val[r][c] = rep[e].val[r][c] /\ rep[d].at[r][c] = rep[e].at[r][c]
  <2>1. HoldsCell(rep[d], A, r, c) /\ HoldsCell(rep[e], A, r, c)
    BY <1>4 DEF Newest
  <2>2. CASE Setters(A, r, c) = {}
    BY <2>1, <2>2 DEF HoldsCell
  <2>3. CASE Setters(A, r, c) # {}
    <3>1. PICK x \in Setters(A, r, c) : Latest(A, r, c, x) /\ rep[d].at[r][c] = x.at[c] /\ rep[d].val[r][c] = x.set[c]
      BY <2>1, <2>3 DEF HoldsCell
    <3>2. PICK y \in Setters(A, r, c) : Latest(A, r, c, y) /\ rep[e].at[r][c] = y.at[c] /\ rep[e].val[r][c] = y.set[c]
      BY <2>1, <2>3 DEF HoldsCell
    <3>3. /\ x \in A /\ y \in A /\ x.row = r /\ y.row = r
          /\ c \in DOMAIN x.set /\ c \in DOMAIN y.set
      BY DEF Setters
    <3>4. x.at[c] \in Clocks /\ y.at[c] \in Clocks
      BY <1>4, <3>3, ChangeShape
    <3>5. x.at[c] = y.at[c]
      BY <3>1, <3>2, <3>4, ClockOrder DEF Latest
    <3>6. x = y
      <4>1. x \in Seen(d) /\ y \in Seen(d)
        BY <1>2, <3>3
      <4> QED
        BY <3>3, <3>5, <4>1, ClockTells DEF CInv
    <3> QED
      BY <3>1, <3>2, <3>6
  <2> QED
    BY <2>2, <2>3
<1>6. rep[d].rows = rep[e].rows
  BY <1>4 DEF Newest
<1>7. /\ rep[d].val \in [Row -> [Col -> Values]] /\ rep[e].val \in [Row -> [Col -> Values]]
      /\ rep[d].at \in [Row -> [Col -> Clocks]] /\ rep[e].at \in [Row -> [Col -> Clocks]]
  BY <1>4 DEF IsReplica
<1>8. ASSUME NEW r \in Row PROVE rep[d].val[r] = rep[e].val[r] /\ rep[d].at[r] = rep[e].at[r]
  <2>1. /\ rep[d].val[r] \in [Col -> Values] /\ rep[e].val[r] \in [Col -> Values]
        /\ rep[d].at[r] \in [Col -> Clocks] /\ rep[e].at[r] \in [Col -> Clocks]
    BY <1>7
  <2> QED
    BY <1>5, <2>1
<1> QED
  BY <1>6, <1>7, <1>8

(* Applying never leaves a reference to a row that is not there, nor a row *)
(* without its required columns, in whatever order changes arrive and      *)
(* whatever the clocks show.                                               *)
THEOREM ReferencesResolve == Spec => []NoDanglingReference
PROOF
<1>1. Init => CInv(FALSE)
  BY InitInv
<1>2. CInv(FALSE) /\ [Next]_vars => CInv(FALSE)'
  BY NextInv
<1>3. CInv(FALSE) => NoDanglingReference
  BY InvNoDangling
<1> QED
  BY <1>1, <1>2, <1>3, PTL DEF Spec

(* The invariant of the devices whose clocks are close: every device's     *)
(* tables are a function of the changes it has applied, in whichever order *)
(* they came, and the others wait, once each.                              *)
THEOREM TablesTrackChanges == Spec /\ [][ClocksClose]_vars => []CInv(TRUE)
PROOF
<1>1. Init => CInv(TRUE)
  BY InitInv
<1>2. CInv(TRUE) /\ [ClocksClose]_vars /\ [Next]_vars => CInv(TRUE)'
  BY NextInv
<1> QED
  BY <1>1, <1>2, PTL DEF Spec

(* Last writer wins: a column holds the newest value received, as long as  *)
(* every change is stamped at most MaxDrift ahead of the wall clock of the *)
(* device that receives it, whenever that is, and every write is made by a *)
(* wall clock past the creation of the club.  (Engine.observe does not     *)
(* follow a stamp that is further ahead, nor those of a snapshot; such a   *)
(* device may overwrite a newer value with an older stamp.)                *)
THEOREM LastWriterWins == Spec /\ [][ClocksClose]_vars => []HoldsNewest
PROOF
<1>1. CInv(TRUE) => HoldsNewest
  BY InvHoldsNewest
<1> QED
  BY <1>1, TablesTrackChanges, PTL

(* Devices that have received the same changes, and tried again those that *)
(* waited, hold the same rows, values and clocks, however the changes of   *)
(* the others reached them; under the same condition on each step.         *)
THEOREM DevicesAgree == Spec /\ [][ClocksClose]_vars => []SameChangesSameState
PROOF
<1>1. CInv(TRUE) => SameChangesSameState
  BY InvSameState
<1> QED
  BY <1>1, TablesTrackChanges, PTL
=============================================================================
