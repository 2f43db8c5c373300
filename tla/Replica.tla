------------------------------ MODULE Replica ------------------------------
(***************************************************************************)
(* How one device applies changes to its synced tables: the operators that *)
(* stand for package replica (apply.go) and for the local write path of    *)
(* the store (syncwrite.go).                                               *)
(*                                                                         *)
(* A row is a model value; its table only matters for which of its columns *)
(* are NOT NULL without a default (Required) and which reference another   *)
(* row, as a column (Refs) or through the primary key (PkRefs).  A clock   *)
(* is <<hlc, device>>: the clock epoch is 1 in every club, because no code *)
(* raises it.                                                              *)
(***************************************************************************)
EXTENDS Integers, Sequences

CONSTANTS Row,       \* primary keys of all tables
          Col,       \* column names
          Val,       \* values of plain columns
          Null,      \* SQL NULL
          Required,  \* [Row -> SUBSET Col]: NOT NULL columns without default
          Refs,      \* [Row -> SUBSET Col]: foreign key columns
          PkRefs     \* [Row -> SUBSET Row]: rows the primary key references

ASSUME ReplicaAssumption ==
  /\ Required \in [Row -> SUBSET Col]
  /\ Refs \in [Row -> SUBSET Col]
  /\ PkRefs \in [Row -> SUBSET Row]
  /\ Null \notin Row \cup Val

NoClock == <<0, 0>>

(* Clock.Less within one clock epoch. *)
Before(a, b) == \/ a[1] < b[1]
                \/ a[1] = b[1] /\ a[2] < b[2]

(* A change sets columns of one row, each with its clock: an op of a       *)
(* segment stamps all its columns with the op's clock, a row of a snapshot *)
(* carries one clock per column.                                           *)
Change(r, set, clocks) == [row |-> r, set |-> set, at |-> clocks]
OpChange(r, set, clk) == Change(r, set, [c \in DOMAIN set |-> clk])

(* What Validate and the constraints of the database let a change be: it   *)
(* sets some columns, none of them before the first clock, and no NOT NULL *)
(* column to NULL.                                                         *)
IsChange(ch) ==
  /\ ch = Change(ch.row, ch.set, ch.at)
  /\ ch.row \in Row
  /\ DOMAIN ch.set \subseteq Col /\ DOMAIN ch.set # {}
  /\ ch.set \in [DOMAIN ch.set -> Row \cup Val \cup {Null}]
  /\ ch.at \in [DOMAIN ch.set -> (Nat \ {0}) \X Nat]
  /\ \A c \in DOMAIN ch.set \cap Required[ch.row] : ch.set[c] # Null

(* The synced tables of a device: which rows exist, the value and the      *)
(* field clock of every column, and the changes that wait in sync_pending. *)
EmptyReplica == [rows |-> {},
                 val  |-> [r \in Row |-> [c \in Col |-> Null]],
                 at   |-> [r \in Row |-> [c \in Col |-> NoClock]],
                 pend |-> <<>>]

WinsAlways(rep, ch) == DOMAIN ch.set
WinsUnlessEqual(rep, ch) == {c \in DOMAIN ch.set : rep.at[ch.row][c] # ch.at[c]}

(* The columns of ch that are newer than what the device holds. *)
Wins(rep, ch) == {c \in DOMAIN ch.set : Before(rep.at[ch.row][c], ch.at[c])}

(* A row that does not exist cannot be inserted without its required       *)
(* columns.                                                                *)
LacksRequired(rep, ch) ==
  /\ ch.row \notin rep.rows
  /\ \E c \in Required[ch.row] : c \notin Wins(rep, ch) \/ ch.set[c] = Null

IgnoresReference(rep, ch) == FALSE

(* A column about to be written references a row that is not there; for a  *)
(* new row the references of the primary key count too.                    *)
LacksReference(rep, ch) ==
  \/ \E c \in Refs[ch.row] \cap Wins(rep, ch) : ch.set[c] \notin rep.rows \cup {Null}
  \/ ch.row \notin rep.rows /\ ~ PkRefs[ch.row] \subseteq rep.rows

Waits(rep, ch) == LacksRequired(rep, ch) \/ LacksReference(rep, ch)

(* Write the winning columns and their clocks; the whole change or none.   *)
Merged(old, new, cols) == [c \in Col |-> IF c \in cols THEN new[c] ELSE old[c]]
Overwrite(rep, ch, cols) ==
  [rep EXCEPT !.rows = @ \cup {ch.row},
              !.val[ch.row] = Merged(rep.val[ch.row], ch.set, cols),
              !.at[ch.row] = Merged(rep.at[ch.row], ch.at, cols)]
Write(rep, ch) == IF Wins(rep, ch) = {} THEN rep ELSE Overwrite(rep, ch, Wins(rep, ch))

ReceiveDroppingWaiting(rep, ch) ==
  IF Waits(rep, ch) THEN rep ELSE Write(rep, ch)

(* Applier.Apply, and AddPending when the change has to wait. *)
Postpone(rep, ch) == [rep EXCEPT !.pend = Append(@, ch)]
Receive(rep, ch) == IF Waits(rep, ch) THEN Postpone(rep, ch) ELSE Write(rep, ch)

(* The changes of the given rows, applied one after the other. *)
ReceiveAll(rep, chs, rows) ==
  LET after[k \in 0 .. Len(chs)] ==
        IF k = 0 THEN rep
        ELSE IF chs[k].row \in rows THEN Receive(after[k - 1], chs[k])
        ELSE after[k - 1]
  IN after[Len(chs)]

(* Applier.RetryPending: every waiting change of the given rows is applied *)
(* again, in order, in rounds until none of them can be.                   *)
RetryRound(rep, rows) ==
  LET after[k \in 0 .. Len(rep.pend)] ==
        IF k = 0 THEN [rep EXCEPT !.pend = <<>>]
        ELSE IF rep.pend[k].row \in rows THEN Receive(after[k - 1], rep.pend[k])
        ELSE Postpone(after[k - 1], rep.pend[k])
  IN after[Len(rep.pend)]

RetryPending(rep, rows) ==
  LET round[k \in 0 .. Len(rep.pend)] == IF k = 0 THEN rep ELSE RetryRound(round[k - 1], rows)
  IN round[Len(rep.pend)]

(* writer.record: a local change overwrites value and clock, whatever the  *)
(* stored clock is.                                                        *)
WriteLocally(rep, ch) == Overwrite(rep, ch, DOMAIN ch.set)
=============================================================================
