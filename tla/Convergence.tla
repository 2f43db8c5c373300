---------------------------- MODULE Convergence ----------------------------
(***************************************************************************)
(* Several devices that edit the same rows and exchange their changes:     *)
(* local writes stamped by each device's clock, one stream of changes per  *)
(* device and scope, the starting snapshot of the founder, changes applied *)
(* in stream order but in any order across streams, and changes that wait  *)
(* for rows of another stream or scope.                                    *)
(*                                                                         *)
(* How a change travels is the subject of module Streams; here a stream is *)
(* the sequence of ops its author flushed, and every device has applied a  *)
(* prefix of it.  Timestamps are flattened to one number: the next counter *)
(* value of a timestamp is the next number.                                *)
(***************************************************************************)
EXTENDS Replica, FiniteSets

CONSTANTS Device,    \* device ids, positive numbers so that they are ordered
          Founder,   \* the device that created the club
          Scope,     \* scopes, each with a stream per device
          ScopeOf,   \* [Row -> Scope]
          BaseRows,  \* the changes that make up the founder's local data
          CreatedAt, \* the founder's clock when it created the club
          MinWall,   \* every wall clock reading lies in MinWall .. MaxWall
          MaxWall,
          MaxDrift,  \* a received timestamp is followed up to this far ahead
          MaxOps     \* bound: ops written in one behaviour

ASSUME ConvergenceAssumption ==
  /\ Device \subseteq Nat \ {0} /\ Founder \in Device
  /\ ScopeOf \in [Row -> Scope]
  /\ {CreatedAt, MinWall, MaxWall, MaxDrift, MaxOps} \subseteq Nat

(* The founder's local data is one change for each of its rows; the        *)
(* columns carry the clocks that backfillClocks gives them.                *)
ASSUME BaseAssumption ==
  /\ BaseRows \in Seq({BaseRows[i] : i \in DOMAIN BaseRows})
  /\ \A i \in DOMAIN BaseRows :
       /\ IsChange(BaseRows[i])
       /\ \A c \in DOMAIN BaseRows[i].at :
            /\ BaseRows[i].at[c][1] <= CreatedAt
            /\ BaseRows[i].at[c] = <<BaseRows[i].at[c][1], Founder>>
       /\ \A j \in DOMAIN BaseRows : BaseRows[i].row = BaseRows[j].row => i = j

VARIABLES
  rep,     \* rep[d]: the synced tables of device d (module Replica)
  hlc,     \* hlc[d]: sync_device.hlc
  stream,  \* stream[d][s]: the ops device d has written for scope s
  pos,     \* pos[d][e][s]: how many of e's ops d has applied
  based    \* based[d]: scopes whose starting snapshot d has loaded

vars == <<rep, hlc, stream, pos, based>>

(* The founder's snapshot of one scope: its rows with their field clocks.  *)
RowsOf(scopes) == {r \in Row : ScopeOf[r] \in scopes}

FounderReplica == ReceiveAll(EmptyReplica, BaseRows, Row)

Init ==
  /\ rep = [d \in Device |-> IF d = Founder THEN FounderReplica ELSE EmptyReplica]
  /\ hlc = [d \in Device |-> IF d = Founder THEN CreatedAt ELSE 0]
  /\ stream = [d \in Device |-> [s \in Scope |-> <<>>]]
  /\ pos = [d \in Device |-> [e \in Device |-> [s \in Scope |-> 0]]]
  /\ based = [d \in Device |-> IF d = Founder THEN Scope ELSE {}]

(* The timestamps Clock.Now may return on device d: the wall clock's time, *)
(* or the next one when it is not past the last timestamp.                 *)
Stamp(d, w) == IF w > hlc[d] THEN w ELSE hlc[d] + 1
NewStamps(d) == {Stamp(d, w) : w \in MinWall .. MaxWall}

Written == {w \in Device \X Scope \X (1 .. MaxOps) : w[3] <= Len(stream[w[1]][w[2]])}

LocalWrite(d, r, set) ==
  \E ts \in NewStamps(d) :
     LET ch == OpChange(r, set, <<ts, d>>) IN
     /\ Cardinality(Written) < MaxOps
     /\ rep' = [rep EXCEPT ![d] = WriteLocally(@, ch)]
     /\ hlc' = [hlc EXCEPT ![d] = ts]
     /\ stream' = [stream EXCEPT ![d][ScopeOf[r]] = Append(@, ch)]
     /\ UNCHANGED <<pos, based>>

(* What SQLite accepts in column c of row r on device d. *)
Allowed(d, r, c) == IF c \in Refs[r] THEN rep[d].rows ELSE Val

(* writer.insert: a row with a new id; the op carries the columns that are *)
(* not NULL.  (It carries the primary key as well, which is not a column   *)
(* here; every row sets some other column.)                                *)
Insert(d, r) ==
  /\ \A e \in Device : r \notin rep[e].rows
  /\ \A w \in Written : stream[w[1]][w[2]][w[3]].row # r
  /\ PkRefs[r] \subseteq rep[d].rows
  /\ \E set \in UNION {[cols -> Row \cup Val] : cols \in SUBSET Col} :
        /\ DOMAIN set # {} /\ Required[r] \subseteq DOMAIN set
        /\ \A c \in DOMAIN set : set[c] \in Allowed(d, r, c)
        /\ LocalWrite(d, r, set)

(* writer.update: one column of a row gets another value. *)
Update(d, r, c) ==
  /\ r \in rep[d].rows
  /\ \E v \in Allowed(d, r, c) \cup (IF c \in Required[r] THEN {} ELSE {Null}) :
        /\ v # rep[d].val[r][c]
        /\ LocalWrite(d, r, [x \in {c} |-> v])

(* Engine.observe: the clock follows ts unless it is too far ahead of the  *)
(* wall clock as it reads now.                                             *)
Followed(d, ts, w) == IF ts <= w + MaxDrift /\ ts > hlc[d] THEN ts ELSE hlc[d]
Observed(d, ts) == {Followed(d, ts, w) : w \in MinWall .. MaxWall}

(* Engine.ensureBase: the snapshot of a scope arrives and is loaded.  The  *)
(* clock does not follow the snapshot's field clocks.                      *)
LoadBase(d, s) ==
  /\ s \notin based[d]
  /\ UNCHANGED <<hlc, stream, pos>>
  /\ based' = [based EXCEPT ![d] = @ \cup {s}]
  /\ \E loaded \in {ReceiveAll(rep[d], BaseRows, RowsOf({s}))} :
        rep' = [rep EXCEPT ![d] = RetryPending(loaded, RowsOf({s}))]

(* Engine.apply for the next op of a stream. *)
Pull(d, e, s) ==
  /\ d # e /\ s \in based[d]
  /\ pos[d][e][s] < Len(stream[e][s])
  /\ UNCHANGED <<stream, based>>
  /\ pos' = [pos EXCEPT ![d][e][s] = @ + 1]
  /\ LET ch == stream[e][s][pos[d][e][s] + 1] IN
     /\ rep' = [rep EXCEPT ![d] = Receive(@, ch)]
     /\ \E h \in Observed(d, ch.at[CHOOSE c \in DOMAIN ch.set : TRUE][1]) :
           hlc' = [hlc EXCEPT ![d] = h]

(* The end of Engine.pull: what waits is tried again, in the scopes that   *)
(* have their starting state.                                              *)
RetryWaiting(d) ==
  /\ rep[d].pend # <<>>
  /\ UNCHANGED <<hlc, stream, pos, based>>
  /\ \E retried \in {RetryPending(rep[d], RowsOf(based[d]))} : rep' = [rep EXCEPT ![d] = retried]

(* One transaction of Engine.Sync on d. *)
SyncStep(d) == \/ \E s \in Scope : LoadBase(d, s) \/ \E e \in Device : Pull(d, e, s)
               \/ RetryWaiting(d)

Next == \E d \in Device :
          \/ \E r \in Row : Insert(d, r) \/ \E c \in Col : Update(d, r, c)
          \/ SyncStep(d)

Spec == Init /\ [][Next]_vars

(* Every device syncs again and again, and every file gets to it. *)
FairSpec == Spec /\ \A d \in Device : WF_vars(SyncStep(d))
-----------------------------------------------------------------------------

(* The changes device d has seen: snapshot rows, its own ops and the       *)
(* prefixes it has applied.                                                *)
Seen(d) ==
  {BaseRows[i] : i \in {j \in DOMAIN BaseRows : ScopeOf[BaseRows[j].row] \in based[d]}}
  \cup UNION {{stream[e][s][i] : i \in 1 .. (IF e = d THEN Len(stream[e][s]) ELSE pos[d][e][s])}
              : e \in Device, s \in Scope}

Waiting(d) == {rep[d].pend[i] : i \in DOMAIN rep[d].pend}

(* Last writer wins: every column of a device holds the value of the       *)
(* newest change it has seen for it, in whatever order the changes came    *)
(* and however often the waiting ones were retried.  A change that waits   *)
(* counts as not seen, as a whole.                                         *)
HoldsNewest ==
  \A d \in Device : \A r \in Row : \A c \in Col :
     LET setters == {ch \in Seen(d) \ Waiting(d) : ch.row = r /\ c \in DOMAIN ch.set} IN
     IF setters = {} THEN rep[d].at[r][c] = NoClock /\ rep[d].val[r][c] = Null
     ELSE \E ch \in setters :
            /\ \A o \in setters : ~ Before(ch.at[c], o.at[c])
            /\ rep[d].at[r][c] = ch.at[c]
            /\ rep[d].val[r][c] = ch.set[c]

(* Applying never leaves a reference to a row that is not there, nor a row *)
(* without its required columns, although parents and children travel in   *)
(* different streams.                                                      *)
NoDanglingReference ==
  \A d \in Device : \A r \in rep[d].rows :
     /\ \A c \in Refs[r] : rep[d].val[r][c] \in rep[d].rows \cup {Null}
     /\ PkRefs[r] \subseteq rep[d].rows
     /\ \A c \in Required[r] : rep[d].val[r][c] # Null

(* Two devices that have seen the same changes, and have retried what      *)
(* waits, show the same data.                                              *)
Settled(d) == /\ based[d] = Scope
              /\ \A i \in DOMAIN rep[d].pend : Waits(rep[d], rep[d].pend[i])

SameChangesSameState ==
  \A d, e \in Device :
     Seen(d) = Seen(e) /\ Settled(d) /\ Settled(e) =>
        /\ rep[d].rows = rep[e].rows
        /\ rep[d].val = rep[e].val
        /\ rep[d].at = rep[e].at

(* Nothing waits for ever: once all changes have arrived, every change     *)
(* finds the rows it needs.                                                *)
EverythingSettles ==
  <>[](\A d \in Device : rep[d].pend = <<>> /\ \A e \in Device : rep[d] = rep[e])
=============================================================================
