---------------------------- MODULE DeviceClock ----------------------------
(***************************************************************************)
(* The hybrid logical clock of one device.                                 *)
(*                                                                         *)
(* A device keeps its clock twice: in memory, in the Store's hlc.Clock     *)
(* (mem), and on disk, in the row sync_device.hlc (disk).  Three code      *)
(* paths move it:                                                          *)
(*   - a write transaction of the store, which restores mem from disk,     *)
(*     draws one timestamp per recorded op and, when it commits, persists  *)
(*     mem (BeginWrite, Record, Draw, Commit, Rollback);                   *)
(*   - club.tick, which works on disk alone, with a clock of its own       *)
(*     (BeginEvent, EndEvent);                                             *)
(*   - engine.observe, which follows a received timestamp on disk alone,   *)
(*     unless it is too far ahead of the wall clock (Observe).             *)
(* The database has one connection, so a transaction excludes the others;  *)
(* the wall clock moves as it likes, and a crash loses mem and rolls the   *)
(* open transaction back.                                                  *)
(***************************************************************************)
EXTENDS Integers, Sequences

CONSTANTS MaxCounter,  \* largest counter of a timestamp (2^16 - 1)
          MaxDrift,    \* how far ahead a received timestamp may lie (1 h)
          Received,    \* the timestamps that other devices may send
          MaxWall,     \* bound: the wall clock stays in 0 .. MaxWall
          MaxTicks     \* bound: timestamps drawn in one behaviour

Timestamp == [ms : Nat, ctr : 0 .. MaxCounter]

ASSUME ClockAssumption ==
  /\ MaxCounter \in Nat
  /\ MaxDrift \in Nat
  /\ MaxWall \in Nat
  /\ MaxTicks \in Nat
  /\ Received \subseteq Timestamp

VARIABLES
  wall,      \* the wall clock in ms, as nowMS reads it
  peak,      \* the highest value wall ever had (observer)
  mem,       \* Store.clock.last
  disk,      \* sync_device.hlc
  tx,        \* who holds the database connection, and where it stands
  drawn,     \* the timestamps it has drawn so far
  issued,    \* every timestamp that was committed, in commit order
  followed,  \* the received timestamps the clock follows (observer)
  ticks      \* number of timestamps drawn, for the bound

vars == <<wall, peak, mem, disk, tx, drawn, issued, followed, ticks>>

Zero == [ms |-> 0, ctr |-> 0]

(* Compare: physical part first, then the counter. *)
Earlier(a, b) == \/ a.ms < b.ms
                 \/ a.ms = b.ms /\ a.ctr < b.ctr

Later(a, b) == IF Earlier(a, b) THEN b ELSE a

(* Faults of the clock, for the mutants. *)
TicksPastOverflow(last) == TRUE

(* Clock.Now.  CanTick is false while Now sleeps: the counter is used up   *)
(* and the wall clock has not passed the last timestamp.                   *)
CanTick(last) == wall > last.ms \/ last.ctr < MaxCounter

Ticked(last) == IF wall > last.ms
                  THEN [ms |-> wall, ctr |-> 0]
                  ELSE [ms |-> last.ms, ctr |-> last.ctr + 1]

(* Clock.Observe's condition: r is at most MaxDrift ahead. *)
WithinDrift(r) == r.ms <= wall + MaxDrift

Init == /\ wall \in 0 .. MaxWall
        /\ peak = wall
        /\ mem = Zero
        /\ disk = Zero
        /\ tx = "none"
        /\ drawn = <<>>
        /\ issued = <<>>
        /\ followed = {}
        /\ ticks = 0

BeginWriteWithoutRestore ==
  /\ tx = "none"
  /\ tx' = "write"
  /\ drawn' = <<>>
  /\ UNCHANGED <<wall, peak, mem, disk, issued, followed, ticks>>

CommitWithoutPersisting ==
  /\ tx = "write"
  /\ tx' = "none"
  /\ issued' = issued \o drawn
  /\ drawn' = <<>>
  /\ UNCHANGED <<wall, peak, mem, disk, followed, ticks>>

(* inWriteTx up to the call of fn: Restore follows the persisted value. *)
BeginWrite == /\ tx = "none"
              /\ tx' = "write"
              /\ mem' = Later(mem, disk)
              /\ drawn' = <<>>
              /\ UNCHANGED <<wall, peak, disk, issued, followed, ticks>>

(* writer.record calls Now for one op; the loop of Now ends (Draw) when a  *)
(* timestamp is free.                                                      *)
Record == /\ tx = "write"
          /\ ticks < MaxTicks
          /\ tx' = "draw"
          /\ ticks' = ticks + 1
          /\ UNCHANGED <<wall, peak, mem, disk, drawn, issued, followed>>

Draw == /\ tx = "draw"
        /\ CanTick(mem)
        /\ mem' = Ticked(mem)
        /\ drawn' = Append(drawn, mem')
        /\ tx' = "write"
        /\ UNCHANGED <<wall, peak, disk, issued, followed, ticks>>

(* The end of inWriteTx: the clock is persisted when it ticked. *)
Commit == /\ tx = "write"
          /\ tx' = "none"
          /\ disk' = IF drawn = <<>> THEN disk ELSE mem
          /\ issued' = issued \o drawn
          /\ drawn' = <<>>
          /\ UNCHANGED <<wall, peak, mem, followed, ticks>>

(* fn or the commit fails: the database forgets, the clock in memory does  *)
(* not.                                                                    *)
Rollback == /\ tx = "write"
            /\ tx' = "none"
            /\ drawn' = <<>>
            /\ UNCHANGED <<wall, peak, mem, disk, issued, followed, ticks>>

(* club.tick: one timestamp for an event outside the store, drawn by a     *)
(* clock that starts from disk.  It waits like Record does.                *)
BeginEvent == /\ tx = "none"
              /\ ticks < MaxTicks
              /\ tx' = "event"
              /\ ticks' = ticks + 1
              /\ UNCHANGED <<wall, peak, mem, disk, drawn, issued, followed>>

EndEvent == /\ tx = "event"
            /\ CanTick(disk)
            /\ disk' = Ticked(disk)
            /\ issued' = Append(issued, disk')
            /\ tx' = "none"
            /\ UNCHANGED <<wall, peak, mem, drawn, followed, ticks>>

(* engine.observe for the largest HLC of an applied segment: follow it, or *)
(* only warn about the author's clock.                                     *)
Observe(r) == /\ tx = "none"
              /\ WithinDrift(r)
              /\ disk' = Later(disk, r)
              /\ followed' = followed \cup {r}
              /\ UNCHANGED <<wall, peak, mem, tx, drawn, issued, ticks>>

(* The wall clock advances, or is set forward or back. *)
SetWall(w) == /\ wall' = w
              /\ peak' = IF w > peak THEN w ELSE peak
              /\ UNCHANGED <<mem, disk, tx, drawn, issued, followed, ticks>>

(* The process ends and starts again. *)
Restart == /\ mem' = Zero
           /\ tx' = "none"
           /\ drawn' = <<>>
           /\ UNCHANGED <<wall, peak, disk, issued, followed, ticks>>

Next == \/ BeginWrite \/ Record \/ Draw \/ Commit \/ Rollback
        \/ BeginEvent \/ EndEvent \/ Restart
        \/ \E r \in Received : Observe(r)
        \/ \E w \in 0 .. MaxWall : SetWall(w)

Spec == Init /\ [][Next]_vars

-----------------------------------------------------------------------------
TypeOK == /\ wall \in Nat
          /\ peak \in Nat
          /\ mem \in Timestamp
          /\ disk \in Timestamp
          /\ tx \in {"none", "write", "draw", "event"}
          /\ drawn \in Seq(Timestamp)
          /\ issued \in Seq(Timestamp)
          /\ followed \subseteq Received
          /\ ticks \in Nat

(* No two changes of a device carry the same timestamp, and a change that  *)
(* is committed later carries the later one, whatever the wall clock does  *)
(* and wherever the process restarts: a device's segments list their ops   *)
(* in this order and receivers reject one that does not.                   *)
IssuedIncreases ==
  \A i, j \in 1 .. Len(issued) : i < j => Earlier(issued[i], issued[j])

(* What a device writes after it has applied a change it follows is        *)
(* ordered after that change: the user's edit of what is on the screen     *)
(* wins over it on every device.                                           *)
EditsFollowWhatWasSeen ==
  [][\A i \in DOMAIN issued' \ DOMAIN issued :
        \A r \in followed : Earlier(r, issued'[i])]_vars

(* A peer with a clock far in the future does not drag this device along:  *)
(* its clock stays within the drift limit of its own wall clock, as far as *)
(* that ever got.                                                          *)
ClockNearWall == /\ disk.ms <= peak + MaxDrift
                 /\ mem.ms <= peak + MaxDrift

(* The strengthening that makes these facts inductive: everything the      *)
(* device has issued or followed is covered by the persisted clock, and an *)
(* open write transaction draws its timestamps, in order, above it.        *)
Writing == tx \in {"write", "draw"}

ClockInv ==
  /\ \A i \in 1 .. Len(issued) : ~ Earlier(disk, issued[i])
  /\ \A r \in followed : ~ Earlier(disk, r)
  /\ Writing => ~ Earlier(mem, disk)
  /\ ~ Writing => drawn = <<>>
  /\ \A i \in 1 .. Len(drawn) : Earlier(disk, drawn[i]) /\ ~ Earlier(mem, drawn[i])
  /\ \A i, j \in 1 .. Len(drawn) : i < j => Earlier(drawn[i], drawn[j])
  /\ wall <= peak

=============================================================================
