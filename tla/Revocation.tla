----------------------------- MODULE Revocation -----------------------------
(***************************************************************************)
(* One scope while a device is revoked: what an admin device publishes as  *)
(* the cutoff of the stream, what the sync pass of every remaining device  *)
(* makes of it (revocation check, rebuild, pull up to the cutoff), and     *)
(* users who go on writing meanwhile.                                      *)
(*                                                                         *)
(* The leaver writes one row per segment; others write changes that may    *)
(* need one of those rows.  A segment's id stands for the hash of its file *)
(* and so commits to all segments before it.  A leaver put back from a     *)
(* backup goes on in a second branch with the same sequence numbers.       *)
(***************************************************************************)
EXTENDS Integers, FiniteSets

CONSTANTS Member,        \* the devices that stay
          Admin,         \* the one of them that revokes
          Leaver,        \* the device that is revoked
          Founder,       \* author of the only snapshot there is
          Writers,       \* the devices whose users change something
          None,
          MaxAttempts,   \* rejected tries before a stream is quarantined
          Restores,      \* TRUE: the leaver may be put back from a backup
          WritesInWindow,\* TRUE: users may write while a rebuild is prepared
          MaxSegments,   \* bound on the length of the leaver's branches
          MaxOwn         \* bound on the changes of every other device

Device == Member \cup {Leaver}
Ids == Device \X Nat \X {1, 2}

ASSUME RevocationAssumption ==
  /\ Admin \in Member /\ Writers \subseteq Member /\ Leaver \notin Member /\ Founder \in Member \cup {Leaver}
  /\ MaxAttempts \in Nat \ {0}
  /\ {Restores, WritesInWindow} \subseteq BOOLEAN
  /\ {MaxSegments, MaxOwn} \subseteq Nat \ {0}
  /\ None \notin Ids \cup [seq : Nat, hash : Ids \cup {None}]

VARIABLES
  segs,    \* the segments written so far
  own,     \* the leaver's line: the ids it counts as its own stream
  branch,  \* 1, or 2 after the leaver was put back
  file,    \* file[d][<<x, n>>]: segment n of x in d's folder, or None
  made,    \* made[d]: changes d's user made
  written, \* written[d]: how many of them are in segments
  needs,   \* needs[<<d, n>>]: the row that change needs, or None
  rows,    \* rows[d]: changes in the tables of d
  pend,    \* pend[d]: changes waiting for a row (sync_pending)
  pos,     \* pos[d][x]: sync_streams of d
  cutoff,  \* the published cutoff, None before the revocation
  known,   \* known[d]: d has accepted the version that revokes
  pass,    \* pass[d]: the running sync pass of d
  checked  \* checked[d]: a pass under the revocation has completed

vars == <<segs, own, branch, file, made, written, needs, rows, pend, pos, cutoff, known, pass,
          checked>>

Path == Device \X (1 .. MaxSegments + MaxOwn)
Idle == [at |-> "idle", revoked |-> FALSE, todo |-> {}, outbox |-> 0, done |-> TRUE]
Start == [seq |-> 0, hash |-> None, status |-> "ok", failures |-> 0]

Segment(id) == CHOOSE g \in segs : g.id = id
Change(d, n) == <<d, n, 1>>
OwnChanges(d, n) == {Change(d, i) : i \in 1 .. n}

Init ==
  /\ segs = {} /\ own = {} /\ branch = 1
  /\ file = [d \in Member |-> [p \in Path |-> None]]
  /\ made = [d \in Member |-> 0] /\ written = [d \in Member |-> 0]
  /\ needs = [p \in Member \X (1 .. MaxOwn) |-> None]
  /\ rows = [d \in Member |-> {}] /\ pend = [d \in Member |-> {}]
  /\ pos = [d \in Member |-> [x \in Device \ {d} |-> Start]]
  /\ cutoff = None
  /\ known = [d \in Member |-> FALSE] /\ checked = [d \in Member |-> FALSE]
  /\ pass = [d \in Member |-> Idle]
-----------------------------------------------------------------------------
(* The leaver, which does not know yet or was cut off from the folder. *)

LeaverWrites ==
  LET n == Cardinality(own) + 1
      prev == IF n = 1 THEN None ELSE CHOOSE id \in own : id[2] = n - 1
      id == <<Leaver, n, branch>>
  IN
  /\ n <= MaxSegments
  /\ segs' = segs \cup {[id |-> id, prev |-> prev, acl |-> 1, line |-> own \cup {id}]}
  /\ own' = own \cup {id}
  /\ UNCHANGED <<branch, file, made, written, needs, rows, pend, pos, cutoff, known, pass, checked>>

LeaverRestored ==
  /\ Restores /\ branch = 1
  /\ \E k \in 0 .. Cardinality(own) - 1 : own' = {id \in own : id[2] <= k}
  /\ branch' = 2
  /\ UNCHANGED <<segs, file, made, written, needs, rows, pend, pos, cutoff, known, pass, checked>>

(* The cloud client: of two files with one name a folder has either.  A    *)
(* pass lists the folder once; what comes during a pass is for the next.   *)
Deliver(d) ==
  /\ pass[d].at = "idle"
  /\ \E g \in segs : /\ g.id[1] # d /\ file[d][<<g.id[1], g.id[2]>>] = None
                     /\ file' = [file EXCEPT ![d][<<g.id[1], g.id[2]>>] = g.id]
  /\ UNCHANGED <<segs, own, branch, made, written, needs, rows, pend, pos, cutoff, known, pass,
                 checked>>

Revoke(d) ==
  /\ d = Admin /\ cutoff = None
  /\ cutoff' = [seq |-> pos[d][Leaver].seq, hash |-> pos[d][Leaver].hash]
  /\ known' = [known EXCEPT ![d] = TRUE]
  /\ UNCHANGED <<segs, own, branch, file, made, written, needs, rows, pend, pos, pass, checked>>
-----------------------------------------------------------------------------
(* The user of d adds a row of its own or edits one of the leaver's. *)
LocalWrite(d) ==
  LET n == made[d] + 1 IN
  /\ d \in Writers /\ n <= MaxOwn
  /\ pass[d].at = "rebuild" => WritesInWindow
  /\ made' = [made EXCEPT ![d] = n]
  /\ \E r \in {None} \cup {id \in rows[d] : id[1] = Leaver} : needs' = [needs EXCEPT ![<<d, n>>] = r]
  /\ rows' = [rows EXCEPT ![d] = @ \cup {Change(d, n)}]
  /\ UNCHANGED <<segs, own, branch, file, written, pend, pos, cutoff, known, pass, checked>>

(* Service.Sync up to Engine.Sync's revocation check: the club is          *)
(* refreshed, the chain is taken once for the whole pass, and the outbox   *)
(* goes into segments.                                                     *)
StartSync(d) ==
  /\ pass[d].at = "idle"
  /\ \E k \in {known[d], cutoff # None} :
       /\ known' = [known EXCEPT ![d] = k]
       /\ pass' = [pass EXCEPT ![d] = [Idle EXCEPT !.at = "check", !.revoked = k]]
       /\ segs' = segs \cup {[id |-> Change(d, n), acl |-> IF k THEN 2 ELSE 1,
                              prev |-> IF n = 1 THEN None ELSE Change(d, n - 1),
                              line |-> OwnChanges(d, n)] : n \in written[d] + 1 .. made[d]}
  /\ written' = [written EXCEPT ![d] = made[d]]
  /\ UNCHANGED <<own, branch, file, made, needs, rows, pend, pos, cutoff, checked>>

Affected(d) ==
  /\ pass[d].revoked
  /\ \/ pos[d][Leaver].seq > cutoff.seq
     \/ pos[d][Leaver].seq = cutoff.seq /\ pos[d][Leaver].hash # cutoff.hash

(* findSnapshot: the author must be an active admin. *)
HasBase(d) == pass[d].revoked => Founder # Leaver

(* The outbox is read before the transaction that rebuilds. *)
Check(d) ==
  /\ pass[d].at = "check"
  /\ pass' = [pass EXCEPT ![d] =
       IF Affected(d) /\ HasBase(d) THEN [@ EXCEPT !.at = "rebuild", !.outbox = made[d]]
       ELSE [@ EXCEPT !.at = "pull", !.todo = Device \ {d}, !.done = ~ Affected(d)]]
  /\ UNCHANGED <<segs, own, branch, file, made, written, needs, rows, pend, pos, cutoff, known,
                 checked>>

(* rebuild: the snapshot (from before all streams), then d's own changes.  *)
Rebuild(d) ==
  LET mine == OwnChanges(d, pass[d].outbox) IN
  /\ pass[d].at = "rebuild"
  /\ rows' = [rows EXCEPT ![d] = {c \in mine : needs[<<c[1], c[2]>>] = None}]
  /\ pend' = [pend EXCEPT ![d] = {c \in mine : needs[<<c[1], c[2]>>] # None}]
  /\ pos' = [pos EXCEPT ![d] = [x \in Device \ {d} |-> Start]]
  /\ pass' = [pass EXCEPT ![d] = [@ EXCEPT !.at = "pull", !.todo = Device \ {d}, !.outbox = 0]]
  /\ UNCHANGED <<segs, own, branch, file, made, written, needs, cutoff, known, checked>>
-----------------------------------------------------------------------------
(* pullStream: one segment, or the end of the stream for this pass. *)

Cut(d, x) == x = Leaver /\ pass[d].revoked

(* checkCutoffPrefix: the files after the position up to the cutoff are    *)
(* there and chain to its hash.  The first file that does not decides.     *)
CutoffPrefix(d) ==
  LET p == pos[d][Leaver]
      at(q) == IF q = p.seq THEN p.hash ELSE file[d][<<Leaver, q>>]
      missing(q) == at(q) = None
      broken(q) == ~ missing(q) /\ Segment(at(q)).prev # at(q - 1)
      ahead == p.seq + 1 .. cutoff.seq
  IN
  IF \E q \in ahead : broken(q) /\ \A i \in p.seq + 1 .. q - 1 : ~ missing(i) THEN "reject"
  ELSE IF \E q \in ahead : missing(q) THEN "wait"
  ELSE IF at(cutoff.seq) # cutoff.hash THEN "reject"
  ELSE "accept"

(* verify: the rules that depend on the state. *)
Verdict(d, x, id) ==
  LET g == Segment(id) IN
  IF g.acl = 2 /\ ~ pass[d].revoked THEN "wait"
  ELSE IF g.prev # pos[d][x].hash THEN "reject"
  ELSE "accept"

(* The stream ends for this pass; setStatus. *)
EndStream(d, x, status, failures) ==
  /\ pos' = [pos EXCEPT ![d][x].status = status, ![d][x].failures = failures]
  /\ pass' = [pass EXCEPT ![d].todo = @ \ {x}]
  /\ UNCHANGED <<rows, pend>>

Fail(d, x) ==
  LET failures == pos[d][x].failures + 1 IN
  EndStream(d, x, IF failures >= MaxAttempts THEN "quarantined" ELSE "waiting", failures)

ApplyWithoutNeeds(d, x, id) ==
  /\ rows' = [rows EXCEPT ![d] = @ \cup {id}]
  /\ pos' = [pos EXCEPT ![d][x] = [Start EXCEPT !.seq = id[2], !.hash = id]]
  /\ UNCHANGED <<pend, pass>>

(* apply: the change waits if the row it needs is not there. *)
Apply(d, x, id) ==
  LET waits == x # Leaver /\ needs[<<x, id[2]>>] \notin rows[d] \cup {None} IN
  /\ rows' = [rows EXCEPT ![d] = IF waits THEN @ ELSE @ \cup {id}]
  /\ pend' = [pend EXCEPT ![d] = IF waits THEN @ \cup {id} ELSE @]
  /\ pos' = [pos EXCEPT ![d][x] = [Start EXCEPT !.seq = id[2], !.hash = id]]
  /\ UNCHANGED pass

PullUncut(d, x) ==
  LET p == pos[d][x]
      id == file[d][<<x, p.seq + 1>>]
      later == \E n \in p.seq + 2 .. MaxSegments + MaxOwn : file[d][<<x, n>>] # None
  IN
  IF id = None THEN EndStream(d, x, IF later THEN "waiting" ELSE "ok", IF later THEN p.failures ELSE 0)
  ELSE CASE Verdict(d, x, id) = "wait" -> EndStream(d, x, "waiting", p.failures)
         [] Verdict(d, x, id) = "reject" -> Fail(d, x)
         [] Verdict(d, x, id) = "accept" -> Apply(d, x, id)

PullStreamUncut(d, x) ==
  IF pos[d][x].status = "quarantined"
  THEN EndStream(d, x, "quarantined", pos[d][x].failures)
  ELSE PullUncut(d, x)

PullStreamQuarantineFirst(d, x) ==
  LET p == pos[d][x] IN
  IF p.status = "quarantined" THEN EndStream(d, x, p.status, p.failures)
  ELSE IF Cut(d, x) /\ p.seq >= cutoff.seq THEN EndStream(d, x, "ok", 0)
  ELSE IF Cut(d, x) /\ CutoffPrefix(d) = "wait" THEN EndStream(d, x, "waiting", p.failures)
  ELSE IF Cut(d, x) /\ CutoffPrefix(d) = "reject" THEN Fail(d, x)
  ELSE PullUncut(d, x)

PullStream(d, x) ==
  LET p == pos[d][x] IN
  IF Cut(d, x) /\ p.seq >= cutoff.seq THEN EndStream(d, x, "ok", 0)
  ELSE IF p.status = "quarantined" THEN EndStream(d, x, p.status, p.failures)
  ELSE IF Cut(d, x) /\ CutoffPrefix(d) = "wait" THEN EndStream(d, x, "waiting", p.failures)
  ELSE IF Cut(d, x) /\ CutoffPrefix(d) = "reject" THEN Fail(d, x)
  ELSE PullUncut(d, x)

(* Streams are pulled in the order of the device ids, here a fixed one. *)
Pull(d) ==
  /\ pass[d].at = "pull" /\ pass[d].todo # {}
  /\ PullStream(d, CHOOSE x \in pass[d].todo : TRUE)
  /\ UNCHANGED <<segs, own, branch, file, made, written, needs, cutoff, known, checked>>

(* The round ends with a retry of what waits. *)
FinishSync(d) ==
  LET ready == {c \in pend[d] : needs[<<c[1], c[2]>>] \in rows[d]} IN
  /\ pass[d].at = "pull" /\ pass[d].todo = {}
  /\ rows' = [rows EXCEPT ![d] = @ \cup ready]
  /\ pend' = [pend EXCEPT ![d] = @ \ ready]
  /\ checked' = [checked EXCEPT ![d] = @ \/ (pass[d].revoked /\ pass[d].done)]
  /\ pass' = [pass EXCEPT ![d] = Idle]
  /\ UNCHANGED <<segs, own, branch, file, made, written, needs, pos, cutoff, known>>

(* The process ends in a pass; what was committed stays. *)
Crash(d) ==
  /\ pass[d].at # "idle"
  /\ pass' = [pass EXCEPT ![d] = Idle]
  /\ UNCHANGED <<segs, own, branch, file, made, written, needs, rows, pend, pos, cutoff, known, checked>>

SyncStep(d) == StartSync(d) \/ Check(d) \/ Rebuild(d) \/ Pull(d) \/ FinishSync(d)

Next ==
  \/ LeaverWrites \/ LeaverRestored
  \/ \E d \in Member : Deliver(d) \/ Revoke(d) \/ LocalWrite(d) \/ SyncStep(d) \/ Crash(d)

Spec == Init /\ [][Next]_vars
-----------------------------------------------------------------------------
Held(d) == rows[d] \cup pend[d]

(* Once a pass under the revocation has completed, a device has nothing    *)
(* of the leaver after the cutoff, whether the leaver wrote it later or    *)
(* the admin had not seen it, and who has reached the cutoff is on its     *)
(* line.                                                                   *)
CutoffHolds ==
  \A d \in Member : checked[d] =>
    /\ \A c \in Held(d) : c[1] = Leaver => c[2] <= cutoff.seq
    /\ pos[d][Leaver].seq = cutoff.seq => pos[d][Leaver].hash = cutoff.hash

(* Devices that have completed a pass under the revocation and have all    *)
(* of each other's changes and the stream up to the cutoff have the same   *)
(* rows and the same waiting changes, whatever they had applied before.    *)
UpToDate(d) ==
  /\ checked[d] /\ pass[d].at = "idle" /\ made[d] = written[d]
  /\ \A x \in Member \ {d} : pos[d][x].seq = written[x]
  /\ pos[d][Leaver].seq = cutoff.seq
  /\ \A c \in pend[d] : needs[<<c[1], c[2]>>] \notin rows[d]

UpToDateAgree ==
  \A d, e \in Member : UpToDate(d) /\ UpToDate(e) => rows[d] = rows[e] /\ pend[d] = pend[e]

(* A revocation at the last valid segment ends the quarantine of a blocked *)
(* stream.                                                                 *)
RevocationUnblocks ==
  \A d \in Member : checked[d] /\ pos[d][Leaver].seq = cutoff.seq =>
                       pos[d][Leaver].status # "quarantined"

(* A rebuild loses no change of the device's own user. *)
OwnChangesStay == \A d \in Member : OwnChanges(d, made[d]) \subseteq Held(d)
=============================================================================
