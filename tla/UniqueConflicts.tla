-------------------------- MODULE UniqueConflicts --------------------------
(***************************************************************************)
(* Unique values on one device: a unique column of a synced table, the     *)
(* local check before saving, and the flags in sync_conflicts that are     *)
(* recomputed after every transaction that writes the table.               *)
(*                                                                         *)
(* Rows are numbers because ties between clocks are broken by primary key; *)
(* a row that was never inserted is a dead row without a value.  A clock   *)
(* is a number; 0 stands for a value without a field clock.                *)
(***************************************************************************)
EXTENDS Integers, FiniteSets

CONSTANTS Row, Value, Null, NoFlag, MaxClock

ASSUME UniqueAssumption ==
  /\ Row \subseteq Nat /\ MaxClock \in Nat
  /\ Null \notin Value
  /\ NoFlag \notin [value : Value, kept : Row]

VARIABLES table,  \* table[r]: the value, its field clock, and deleted_at IS NULL
          flag    \* flag[r]: what sync_conflicts says about r, or NoFlag

conflictVars == <<table, flag>>

Stamps == 1 .. MaxClock
Entry == [val : Value \cup {Null}, clk : {0} \cup Stamps, live : BOOLEAN]

Holders(t, v) == {r \in Row : t[r].live /\ t[r].val = v}

(* resolveUniqueValue: the holder with the oldest clock keeps the value;   *)
(* equal clocks are ordered by primary key.                                *)
Oldest(ages) ==
  CHOOSE r \in DOMAIN ages :
    \A s \in DOMAIN ages : s = r \/ ages[r] < ages[s] \/ (ages[r] = ages[s] /\ r < s)

Keeper(t, v) == Oldest([r \in Holders(t, v) |-> t[r].clk])

Flagged(t, v) == {r \in Holders(t, v) : r # Keeper(t, v)}
Flag(t, v) == [value |-> v, kept |-> Keeper(t, v)]

LiveValuesAndNull(t, pks) == {t[r].val : r \in {p \in Row : p \in pks /\ t[p].live}}
LiveValues(t, pks) == {t[r].val : r \in {p \in Row : p \in pks /\ t[p].live}} \ {Null}

FlaggedFor(old, pks) ==
  {old[r].value : r \in {p \in Row : old[p] # NoFlag /\ (p \in pks \/ old[p].kept \in pks)}}

(* conflictCandidates: the values to look at again when the rows pks were  *)
(* written.                                                                *)
LiveCandidates(t, old, pks) == LiveValues(t, pks)
Candidates(t, old, pks) == LiveValues(t, pks) \cup FlaggedFor(old, pks)

(* DetectUniqueConflicts.  A row holds one value, so the candidates can be *)
(* resolved in any order.                                                  *)
Detect(t, old, pks) ==
  LET vs == Candidates(t, old, pks) IN
  [r \in Row |-> IF t[r].val \in vs /\ r \in Flagged(t, t[r].val) THEN Flag(t, t[r].val)
                 ELSE IF old[r] # NoFlag /\ old[r].value \in vs THEN NoFlag
                 ELSE old[r]]

ConflictsInit ==
  /\ table = [r \in Row |-> [val |-> Null, clk |-> 0, live |-> FALSE]]
  /\ flag = [r \in Row |-> NoFlag]
-----------------------------------------------------------------------------
(* Local writes: a transaction of the store that fails is rolled back, so  *)
(* only the ones that succeed are steps.                                   *)

(* The rows sync_conflicts mentions; refreshConflicts looks at them alone. *)
InConflict == {r \in Row : flag[r] # NoFlag}
              \cup {flag[r].kept : r \in {p \in Row : flag[p] # NoFlag}}

RefreshConflicts(t) == flag' = IF InConflict = {} THEN flag ELSE Detect(t, flag, InConflict)

NoCheck(r, v) == TRUE
RequireUnique(r, v) == v = Null \/ \A s \in Row \ {r} : ~ (table[s].live /\ table[s].val = v)

(* writer.holds: the live row has this value already. *)
Holds(r, v) == table[r].live /\ table[r].val = v

Write(r, v, alive) ==
  \E c \in IF v = table[r].val THEN {table[r].clk} ELSE Stamps :
     LET t == [table EXCEPT ![r] = [val |-> v, clk |-> c, live |-> alive]] IN
     table' = t /\ RefreshConflicts(t)

(* CreateMember, CreateNamed: a row with a new id. *)
Create(r, v) ==
  /\ table[r] = [val |-> Null, clk |-> 0, live |-> FALSE]
  /\ RequireUnique(r, v)
  /\ Write(r, v, TRUE)

(* UpdateMember, a contact: a row that keeps its value stays editable; a   *)
(* contact that was deleted is revived, with the old clock if the value is *)
(* the old one.                                                            *)
Put(r, v) ==
  /\ table[r].val # Null \/ table[r].clk # 0
  /\ Holds(r, v) \/ RequireUnique(r, v)
  /\ Write(r, v, TRUE)

(* RenameNamed, a fee model, a mandate reference: checked in any case. *)
Rename(r, v) ==
  /\ table[r].live
  /\ RequireUnique(r, v)
  /\ Write(r, v, TRUE)

Delete(r) ==
  /\ table[r].live
  /\ Write(r, table[r].val, FALSE)

Local == \E r \in Row :
           \/ \E v \in Value \cup {Null} : Create(r, v) \/ Put(r, v) \/ Rename(r, v)
           \/ Delete(r)

(* A segment, a snapshot or retried changes are applied: any winning value *)
(* and any deleted_at for the rows they touch; Finish detects.             *)
Apply(pks) ==
  \E change \in [pks -> Entry] :
     LET t == [r \in Row |-> IF r \in pks THEN change[r] ELSE table[r]] IN
     /\ \A r \in pks : \/ change[r].val = table[r].val /\ change[r].clk = table[r].clk
                       \/ change[r].clk \in Stamps /\ change[r].clk > table[r].clk
     /\ table' = t
     /\ flag' = Detect(t, flag, pks)

ConflictsNext == Local \/ \E pks \in SUBSET Row : pks # {} /\ Apply(pks)

ConflictsSpec == ConflictsInit /\ [][ConflictsNext]_conflictVars
-----------------------------------------------------------------------------
ConflictsTypeOK ==
  /\ table \in [Row -> Entry]
  /\ flag \in [Row -> [value : Value, kept : Row] \cup {NoFlag}]

(* The flags are a function of the table alone, so that every device that  *)
(* holds the same rows flags the same ones: all live holders of a value    *)
(* but the oldest, and nothing else, after any mix of local writes and     *)
(* applied changes.                                                        *)
Expected(t) == [r \in Row |-> IF /\ t[r].live /\ t[r].val # Null
                                 /\ r \in Flagged(t, t[r].val)
                              THEN Flag(t, t[r].val) ELSE NoFlag]

FlagsMatchContent == flag = Expected(table)

(* A local write never makes a duplicate: two live rows that hold the same *)
(* value afterwards held it before.                                        *)
Duplicates(t) ==
  {p \in Row \X Row : /\ p[1] # p[2] /\ t[p[1]].live /\ t[p[2]].live
                     /\ t[p[1]].val = t[p[2]].val /\ t[p[1]].val # Null}

LocalAddsNoDuplicate == [][Local => Duplicates(table') \subseteq Duplicates(table)]_conflictVars
=============================================================================
