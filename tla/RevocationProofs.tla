-------------------------- MODULE RevocationProofs --------------------------
(***************************************************************************)
(* Theorems about Revocation, for any number of devices and changes: what  *)
(* a completed pass under the revocation leaves of the revoked device.     *)
(***************************************************************************)
EXTENDS Revocation, FiniteSetTheorems, TLAPS

Bound == MaxSegments + MaxOwn

(* The shapes of positions and passes. *)
IsPos(p) ==
  /\ p = [f \in DOMAIN p |-> p[f]] /\ DOMAIN p = {"seq", "hash", "status", "failures"}
  /\ p.seq \in 0 .. Bound - 1 /\ p.hash \in Ids \cup {None} /\ (p.seq = 0 => p.hash = None)
IsPass(d, p) ==
  /\ p = [f \in DOMAIN p |-> p[f]] /\ DOMAIN p = {"at", "revoked", "todo", "outbox", "done"}
  /\ p.revoked \in BOOLEAN /\ p.done \in BOOLEAN /\ p.todo \subseteq Device \ {d}

IsFile(p, id) == id = None \/ (id \in Ids /\ id[1] = p[1] /\ id[2] = p[2])

TypeInv ==
  /\ pos = [d \in Member |-> pos[d]]
  /\ \A d \in Member : /\ pos[d] = [x \in Device \ {d} |-> pos[d][x]]
                       /\ \A x \in Device \ {d} : IsPos(pos[d][x])
  /\ pass = [d \in Member |-> pass[d]] /\ \A d \in Member : IsPass(d, pass[d])
  /\ known \in [Member -> BOOLEAN] /\ checked \in [Member -> BOOLEAN]
  /\ made \in [Member -> 0 .. MaxOwn] /\ written \in [Member -> 0 .. MaxOwn]
  /\ rows = [d \in Member |-> rows[d]] /\ pend = [d \in Member |-> pend[d]]
  /\ cutoff # None => cutoff.seq \in 0 .. Bound - 1 /\ (cutoff.seq = 0 => cutoff.hash = None)

(* Segments and files carry the ids of what they are. *)
IdsInv ==
  /\ branch \in {1, 2} /\ IsFiniteSet(own)
  /\ \A g \in segs : g.id \in Ids /\ g.id[2] \in 1 .. Bound - 1
  /\ file = [d \in Member |-> file[d]]
  /\ \A d \in Member : /\ file[d] = [p \in Path |-> file[d][p]]
                       /\ \A p \in Path : IsFile(p, file[d][p]) /\ (file[d][p] # None => p[2] \in 1 .. Bound - 1)

(* What a device holds of the leaver lies up to its position. *)
HeldInv == \A d \in Member : \A c \in Held(d) : c[1] = Leaver => c[2] \in 1 .. pos[d][Leaver].seq

(* Who acts under the revocation knows the cutoff, and goes on to. *)
KnownInv == \A d \in Member :
  /\ known[d] => cutoff # None
  /\ pass[d].revoked => known[d]
  /\ checked[d] => known[d]
  /\ checked[d] /\ pass[d].at # "idle" => pass[d].revoked

(* The position is not beyond the cutoff and not on another line. *)
Within(d) ==
  \/ pos[d][Leaver].seq < cutoff.seq
  \/ pos[d][Leaver].seq = cutoff.seq /\ pos[d][Leaver].hash = cutoff.hash
Rechecked(d) == pass[d].at = "pull" /\ pass[d].revoked /\ pass[d].done

PassInv == \A d \in Member :
  /\ checked[d] \/ Rechecked(d) => Within(d)
  /\ checked[d] \/ (Rechecked(d) /\ Leaver \notin pass[d].todo) =>
       (pos[d][Leaver].seq = cutoff.seq => pos[d][Leaver].status # "quarantined")

IInv == TypeInv /\ IdsInv /\ HeldInv /\ KnownInv /\ PassInv
-----------------------------------------------------------------------------
LEMMA Distinct == Leaver \in Device /\ \A d \in Member : d \in Device /\ Leaver \in Device \ {d} /\ d # Leaver
BY RevocationAssumption DEF Device

LEMMA BoundNat == Bound \in Nat /\ Bound - 1 \in Nat /\ MaxSegments <= Bound - 1 /\ MaxOwn <= Bound - 1
                  /\ MaxSegments \in Nat /\ MaxOwn \in Nat
BY RevocationAssumption DEF Bound

LEMMA IdsNotNone == \A id \in Ids : id # None
BY RevocationAssumption DEF Ids

LEMMA PassShape ==
  ASSUME TypeInv, NEW d \in Member
  PROVE  /\ pass = [e \in Member |-> pass[e]]
         /\ pass[d] = [f \in DOMAIN pass[d] |-> pass[d][f]]
         /\ DOMAIN pass[d] = {"at", "revoked", "todo", "outbox", "done"}
         /\ pass[d].revoked \in BOOLEAN /\ pass[d].done \in BOOLEAN /\ pass[d].todo \subseteq Device \ {d}
<1>1. pass = [e \in Member |-> pass[e]] /\ IsPass(d, pass[d])
  BY DEF TypeInv
<1> QED
  BY <1>1 DEF IsPass

LEMMA PosShape ==
  ASSUME TypeInv, NEW d \in Member, NEW x \in Device \ {d}
  PROVE  /\ pos = [e \in Member |-> pos[e]]
         /\ pos[d] = [y \in Device \ {d} |-> pos[d][y]]
         /\ IsPos(pos[d][x])
BY DEF TypeInv

LEMMA StartShape == IsPos(Start)
BY BoundNat DEF IsPos, Start

LEMMA InitEstablishes == Init => IInv
<1> SUFFICES ASSUME Init PROVE IInv
  OBVIOUS
<1>1. \A d \in Member : IsPass(d, Idle)
  BY DEF IsPass, Idle
<1>2. TypeInv
  BY <1>1, StartShape, BoundNat DEF Init, TypeInv
<1>3. IdsInv
  BY FS_EmptySet DEF Init, IdsInv, IsFile
<1>4. HeldInv
  BY DEF Init, HeldInv, Held
<1>5. KnownInv /\ PassInv
  BY DEF Init, KnownInv, PassInv, Idle, Rechecked
<1> QED
  BY <1>2, <1>3, <1>4, <1>5 DEF IInv

(* Steps that touch neither the positions, the tables and the pass of a    *)
(* device nor the cutoff.                                                  *)
LEMMA Outside ==
  ASSUME IInv, IdsInv', UNCHANGED <<made, written, rows, pend, pos, cutoff, known, pass, checked>>
  PROVE  IInv'
BY DEF IInv, TypeInv, HeldInv, Held, KnownInv, PassInv, Within, Rechecked

LEMMA LeaverInv == ASSUME IInv, LeaverWrites \/ LeaverRestored PROVE IInv'
<1>1. UNCHANGED <<made, written, rows, pend, pos, cutoff, known, pass, checked>> /\ file' = file
  BY DEF LeaverWrites, LeaverRestored
<1>2. IdsInv'
  <2> USE DEF IInv, IdsInv
  <2>1. CASE LeaverWrites
    <3>1. Cardinality(own) \in Nat
      BY FS_CardinalityType
    <3>2. Cardinality(own) + 1 \in 1 .. Bound - 1
      BY <2>1, <3>1, BoundNat DEF LeaverWrites
    <3> DEFINE id == <<Leaver, Cardinality(own) + 1, branch>>
    <3>3. id \in Ids /\ id[2] \in 1 .. Bound - 1
      BY <3>2, Distinct, BoundNat DEF Ids
    <3>4. PICK prev : segs' = segs \cup {[id |-> id, prev |-> prev, acl |-> 1, line |-> own \cup {id}]}
      BY <2>1 DEF LeaverWrites
    <3>5. own' = own \cup {id} /\ branch' = branch
      BY <2>1 DEF LeaverWrites
    <3>6. IsFiniteSet(own')
      BY <3>5, FS_AddElement
    <3>7. \A g \in segs' : g.id \in Ids /\ g.id[2] \in 1 .. Bound - 1
      BY <3>3, <3>4
    <3> QED
      BY <1>1, <3>5, <3>6, <3>7
  <2>2. CASE LeaverRestored
    <3>1. own' \subseteq own /\ segs' = segs /\ branch' = 2
      BY <2>2 DEF LeaverRestored
    <3>2. IsFiniteSet(own')
      BY <3>1, FS_Subset
    <3> QED
      BY <1>1, <3>1, <3>2
  <2> QED
    BY <2>1, <2>2
<1> QED
  BY <1>1, <1>2, Outside

LEMMA DeliverInv == ASSUME IInv, NEW d \in Member, Deliver(d) PROVE IInv'
<1> USE DEF IInv, IdsInv
<1>1. UNCHANGED <<made, written, rows, pend, pos, cutoff, known, pass, checked, segs, own, branch>>
  BY DEF Deliver
<1>2. PICK g \in segs : file' = [file EXCEPT ![d][<<g.id[1], g.id[2]>>] = g.id]
  BY DEF Deliver
<1>3. g.id \in Ids /\ g.id[2] \in 1 .. Bound - 1
  OBVIOUS
<1>4. \A e \in Member, p \in Path :
        file'[e][p] = IF e = d /\ p = <<g.id[1], g.id[2]>> THEN g.id ELSE file[e][p]
  BY <1>2
<1>5. file' = [e \in Member |-> file'[e]] /\ \A e \in Member : file'[e] = [p \in Path |-> file'[e][p]]
  BY <1>2
<1>6. \A e \in Member, p \in Path : IsFile(p, file'[e][p]) /\ (file'[e][p] # None => p[2] \in 1 .. Bound - 1)
  BY <1>3, <1>4 DEF IsFile
<1>7. IdsInv'
  BY <1>1, <1>5, <1>6
<1> QED
  BY <1>1, <1>7, Outside

LEMMA RevokeInv == ASSUME IInv, NEW d \in Member, Revoke(d) PROVE IInv'
<1> USE DEF IInv
<1>1. /\ cutoff = None /\ cutoff' = [seq |-> pos[d][Leaver].seq, hash |-> pos[d][Leaver].hash]
      /\ known' = [known EXCEPT ![d] = TRUE]
      /\ UNCHANGED <<segs, own, branch, file, made, written, needs, rows, pend, pos, pass, checked>>
  BY DEF Revoke
<1>2. IsPos(pos[d][Leaver])
  BY Distinct DEF TypeInv
<1>3. cutoff' # None
  <2>1. cutoff' \in [seq : Nat, hash : Ids \cup {None}]
    BY <1>1, <1>2, BoundNat DEF IsPos
  <2> QED
    BY <2>1, RevocationAssumption
<1>4. \A e \in Member : ~ known[e] /\ pass[e].revoked # TRUE /\ ~ checked[e]
  BY <1>1 DEF KnownInv
<1>5. TypeInv' /\ IdsInv'
  <2>1. cutoff'.seq \in 0 .. Bound - 1 /\ (cutoff'.seq = 0 => cutoff'.hash = None)
    BY <1>1, <1>2 DEF IsPos
  <2>2. known' \in [Member -> BOOLEAN]
    BY <1>1 DEF TypeInv
  <2>3. TypeInv'
    BY <1>1, <2>1, <2>2 DEF TypeInv
  <2> QED
    BY <1>1, <2>3 DEF IdsInv
<1>6. HeldInv'
  BY <1>1 DEF HeldInv, Held
<1>7. KnownInv'
  BY <1>1, <1>3, <1>4 DEF KnownInv, TypeInv
<1>8. PassInv'
  BY <1>1, <1>4 DEF PassInv, Rechecked, TypeInv, IsPass
<1> QED
  BY <1>5, <1>6, <1>7, <1>8

(* The changes of d itself are none of the leaver. *)
LEMMA OwnNotLeaver == ASSUME NEW d \in Member, NEW n, NEW c \in OwnChanges(d, n) PROVE c[1] # Leaver
BY Distinct DEF OwnChanges, Change

LEMMA LocalInv == ASSUME IInv, NEW d \in Member, LocalWrite(d) PROVE IInv'
<1> USE DEF IInv
<1>1. /\ made' = [made EXCEPT ![d] = made[d] + 1] /\ made[d] + 1 <= MaxOwn
      /\ rows' = [rows EXCEPT ![d] = @ \cup {Change(d, made[d] + 1)}]
      /\ UNCHANGED <<segs, own, branch, file, written, pend, pos, cutoff, known, pass, checked>>
  BY DEF LocalWrite
<1>2. TypeInv' /\ IdsInv'
  <2>1. made' \in [Member -> 0 .. MaxOwn] /\ rows' = [e \in Member |-> rows'[e]]
    <3>1. made[d] + 1 \in 0 .. MaxOwn
      BY <1>1, BoundNat DEF TypeInv
    <3> QED
      BY <1>1, <3>1 DEF TypeInv
  <2>2. TypeInv'
    BY <1>1, <2>1 DEF TypeInv
  <2> QED
    BY <1>1, <2>2 DEF IdsInv
<1>3. HeldInv'
  <2>1. \A e \in Member : \A c \in Held(e)' : c \in Held(e) \/ c = Change(d, made[d] + 1)
    BY <1>1 DEF TypeInv, Held
  <2>2. \A c : c = Change(d, made[d] + 1) => c[1] # Leaver
    BY Distinct DEF Change
  <2> QED
    BY <1>1, <2>1, <2>2 DEF HeldInv
<1>4. KnownInv' /\ PassInv'
  BY <1>1 DEF KnownInv, PassInv, Within, Rechecked
<1> QED
  BY <1>2, <1>3, <1>4

LEMMA StartInv == ASSUME IInv, NEW d \in Member, StartSync(d) PROVE IInv'
<1> USE DEF IInv
<1>1. PICK k \in {known[d], cutoff # None} :
       /\ known' = [known EXCEPT ![d] = k]
       /\ pass' = [pass EXCEPT ![d] = [Idle EXCEPT !.at = "check", !.revoked = k]]
       /\ segs' = segs \cup {[id |-> Change(d, n), acl |-> IF k THEN 2 ELSE 1,
                              prev |-> IF n = 1 THEN None ELSE Change(d, n - 1),
                              line |-> OwnChanges(d, n)] : n \in written[d] + 1 .. made[d]}
  BY DEF StartSync
<1>2. /\ pass[d].at = "idle" /\ written' = [written EXCEPT ![d] = made[d]]
      /\ UNCHANGED <<own, branch, file, made, needs, rows, pend, pos, cutoff, checked>>
  BY DEF StartSync
<1>3. k \in BOOLEAN /\ (known[d] => k = TRUE) /\ (k = TRUE => cutoff # None)
  BY DEF KnownInv, TypeInv
<1>4. /\ pass'[d].at = "check" /\ pass'[d].revoked = k /\ IsPass(d, pass'[d])
      /\ \A e \in Member \ {d} : pass'[e] = pass[e]
      /\ pass' = [e \in Member |-> pass'[e]]
  BY <1>1, <1>3 DEF TypeInv, Idle, IsPass
<1>5. TypeInv'
  BY <1>1, <1>2, <1>3, <1>4 DEF TypeInv
<1>6. IdsInv'
  <2>1. \A n \in written[d] + 1 .. made[d] : \A c : c = Change(d, n) => c \in Ids /\ c[2] \in 1 .. Bound - 1
    BY Distinct, BoundNat DEF TypeInv, Change, Ids
  <2>2. \A g \in segs' : g \in segs \/ \E n \in written[d] + 1 .. made[d] : g.id = Change(d, n)
    BY <1>1
  <2> QED
    BY <1>2, <2>1, <2>2 DEF IdsInv
<1>7. HeldInv'
  BY <1>2 DEF HeldInv, Held
<1>8. KnownInv'
  BY <1>1, <1>2, <1>3, <1>4 DEF KnownInv, TypeInv
<1>9. PassInv'
  BY <1>2, <1>4 DEF PassInv, Within, Rechecked
<1> QED
  BY <1>5, <1>6, <1>7, <1>8, <1>9

LEMMA CheckInv == ASSUME IInv, NEW d \in Member, Check(d) PROVE IInv'
<1> USE DEF IInv
<1>1. UNCHANGED <<segs, own, branch, file, made, written, needs, rows, pend, pos, cutoff, known, checked>>
  BY DEF Check
<1>2. /\ pass' = [e \in Member |-> pass'[e]] /\ IsPass(d, pass'[d]) /\ pass'[d].revoked = pass[d].revoked
      /\ \A e \in Member \ {d} : pass'[e] = pass[e]
      /\ pass[d].at = "check"
  BY PassShape DEF Check, IsPass
<1>3. \/ pass'[d].at = "rebuild"
      \/ pass'[d].at = "pull" /\ Leaver \in pass'[d].todo /\ (pass'[d].done => ~ Affected(d))
  BY Distinct DEF Check, TypeInv, IsPass
<1>4. pass[d].revoked /\ ~ Affected(d) => Within(d)
  <2>1. IsPos(pos[d][Leaver]) /\ (pass[d].revoked => cutoff.seq \in 0 .. Bound - 1)
    BY Distinct DEF TypeInv, KnownInv
  <2>2. pos[d][Leaver].seq \in Nat /\ (pass[d].revoked => cutoff.seq \in Nat)
    BY <2>1, BoundNat DEF IsPos
  <2> QED
    BY <2>2 DEF Affected, Within
<1>5. TypeInv' /\ IdsInv'
  BY <1>1, <1>2 DEF TypeInv, IdsInv
<1>6. HeldInv' /\ KnownInv'
  BY <1>1, <1>2 DEF HeldInv, Held, KnownInv
<1>7. PassInv'
  BY <1>1, <1>2, <1>3, <1>4 DEF PassInv, Within, Rechecked
<1> QED
  BY <1>5, <1>6, <1>7

LEMMA RebuildInv == ASSUME IInv, NEW d \in Member, Rebuild(d) PROVE IInv'
<1> USE DEF IInv
<1>1. /\ UNCHANGED <<segs, own, branch, file, made, written, needs, cutoff, known, checked>>
      /\ pass[d].at = "rebuild"
      /\ pass' = [pass EXCEPT ![d] = [@ EXCEPT !.at = "pull", !.todo = Device \ {d}, !.outbox = 0]]
      /\ pos' = [pos EXCEPT ![d] = [x \in Device \ {d} |-> Start]]
  BY DEF Rebuild
<1>2. /\ pass' = [e \in Member |-> pass'[e]] /\ IsPass(d, pass'[d])
      /\ pass'[d].revoked = pass[d].revoked /\ pass'[d].at = "pull"
      /\ \A e \in Member \ {d} : pass'[e] = pass[e]
  BY <1>1, PassShape DEF IsPass
<1>3. /\ pos' = [e \in Member |-> pos'[e]] /\ pos'[d] = [x \in Device \ {d} |-> Start]
      /\ pos'[d][Leaver] = Start
      /\ \A e \in Member \ {d} : pos'[e] = pos[e]
  BY <1>1, Distinct DEF TypeInv
<1>4. /\ rows' = [e \in Member |-> rows'[e]] /\ pend' = [e \in Member |-> pend'[e]]
      /\ Held(d)' \subseteq OwnChanges(d, pass[d].outbox)
      /\ \A e \in Member \ {d} : Held(e)' = Held(e)
  BY DEF Rebuild, TypeInv, Held
<1>5. TypeInv' /\ IdsInv'
  BY <1>1, <1>2, <1>3, <1>4, StartShape DEF TypeInv, IdsInv
<1>6. HeldInv'
  BY <1>3, <1>4, OwnNotLeaver DEF HeldInv
<1>7. KnownInv'
  BY <1>1, <1>2 DEF KnownInv
<1>8. PassInv'
  <2>1. checked[d] \/ pass[d].revoked => cutoff # None /\ cutoff.seq \in Nat /\ (cutoff.seq = 0 => cutoff.hash = None)
    BY BoundNat DEF KnownInv, TypeInv
  <2>2. Start.seq = 0 /\ Start.hash = None /\ Start.status = "ok"
    BY DEF Start
  <2>3. \A e \in Member \ {d} : (Within(e)' <=> Within(e)) /\ (Rechecked(e)' <=> Rechecked(e))
    BY <1>1, <1>2, <1>3 DEF Within, Rechecked
  <2>4. checked[d] \/ pass[d].revoked => Within(d)'
    BY <1>1, <1>3, <2>1, <2>2 DEF Within
  <2> QED
    BY <1>1, <1>2, <1>3, <2>2, <2>3, <2>4 DEF PassInv, Rechecked
<1> QED
  BY <1>5, <1>6, <1>7, <1>8
-----------------------------------------------------------------------------
(* What a step of a pull comes to: the stream ends for this pass, or the   *)
(* next segment is applied.                                                *)
Ends(d, x) ==
  /\ \E status, failures : EndStream(d, x, status, failures)
  /\ x = Leaver /\ pass[d].revoked /\ pos[d][x].seq = cutoff.seq => EndStream(d, x, "ok", 0)
Awaited(d, x) == file[d][<<x, pos[d][x].seq + 1>>]
Applies(d, x) ==
  /\ Awaited(d, x) # None
  /\ Verdict(d, x, Awaited(d, x)) = "accept"
  /\ Apply(d, x, Awaited(d, x))
  /\ x = Leaver /\ pass[d].revoked =>
       /\ pos[d][x].seq < cutoff.seq
       /\ pos[d][x].seq + 1 = cutoff.seq => Awaited(d, x) = cutoff.hash

LEMMA StepOfPull ==
  ASSUME IInv, NEW d \in Member, NEW x \in Device \ {d}, PullStream(d, x)
  PROVE  Ends(d, x) \/ Applies(d, x)
<1> DEFINE p == pos[d][x]
<1>1. p.seq \in Nat /\ (pass[d].revoked => cutoff.seq \in Nat)
  <2>1. IsPos(p) /\ (pass[d].revoked => cutoff.seq \in 0 .. Bound - 1)
    BY DEF IInv, TypeInv, KnownInv
  <2> QED
    BY <2>1, BoundNat DEF IsPos
<1>2. ASSUME PullUncut(d, x)
      PROVE  \/ \E status, failures : EndStream(d, x, status, failures)
             \/ Awaited(d, x) # None /\ Verdict(d, x, Awaited(d, x)) = "accept" /\ Apply(d, x, Awaited(d, x))
  <2>1. Verdict(d, x, Awaited(d, x)) \in {"wait", "reject", "accept"}
    BY DEF Verdict
  <2> QED
    BY <1>2, <2>1 DEF PullUncut, Awaited, Fail
<1>3. CASE Cut(d, x) /\ p.seq >= cutoff.seq
  BY <1>3 DEF PullStream, Ends
<1>4. CASE Cut(d, x) /\ ~ p.seq >= cutoff.seq
  <2>1. p.seq < cutoff.seq
    BY <1>1, <1>4 DEF Cut
  <2>2. ASSUME ~ Ends(d, x) PROVE CutoffPrefix(d) = "accept" /\ PullUncut(d, x)
    <3>1. CutoffPrefix(d) \in {"wait", "reject", "accept"}
      BY DEF CutoffPrefix
    <3> QED
      BY <1>1, <1>4, <2>1, <2>2, <3>1 DEF PullStream, Fail, Ends
  <2>3. CutoffPrefix(d) = "accept" /\ p.seq + 1 = cutoff.seq => Awaited(d, x) = cutoff.hash
    <3> DEFINE at(q) == IF q = pos[d][Leaver].seq THEN pos[d][Leaver].hash ELSE file[d][<<Leaver, q>>]
    <3>1. CutoffPrefix(d) = "accept" => at(cutoff.seq) = cutoff.hash
      BY DEF CutoffPrefix
    <3> QED
      BY <1>1, <1>4, <3>1 DEF Cut, Awaited
  <2> QED
    BY <1>1, <1>2, <2>1, <2>2, <2>3 DEF Ends, Applies
<1>5. CASE ~ Cut(d, x)
  BY <1>2, <1>5 DEF PullStream, Ends, Applies, Cut
<1> QED
  BY <1>3, <1>4, <1>5

(* The end of a stream touches its status alone. *)
LEMMA StreamEnded ==
  ASSUME IInv, NEW d \in Member, NEW x \in Device \ {d}, NEW status, NEW failures,
         EndStream(d, x, status, failures)
  PROVE  /\ pos' = [e \in Member |-> pos'[e]] /\ pos'[d] = [y \in Device \ {d} |-> pos'[d][y]]
         /\ IsPos(pos'[d][x]) /\ pos'[d][x].seq = pos[d][x].seq /\ pos'[d][x].hash = pos[d][x].hash
         /\ pos'[d][x].status = status
         /\ \A y \in Device \ {d, x} : pos'[d][y] = pos[d][y]
         /\ \A e \in Member \ {d} : pos'[e] = pos[e]
<1> DEFINE marked == [pos EXCEPT ![d][x].status = status]
<1>1. /\ marked = [e \in Member |-> marked[e]] /\ marked[d] = [y \in Device \ {d} |-> marked[d][y]]
      /\ marked[d][x] = [pos[d][x] EXCEPT !.status = status]
      /\ \A y \in Device \ {d, x} : marked[d][y] = pos[d][y]
      /\ \A e \in Member \ {d} : marked[e] = pos[e]
  <2>1. /\ pos = [e \in Member |-> pos[e]] /\ pos[d] = [y \in Device \ {d} |-> pos[d][y]]
        /\ IsPos(pos[d][x])
    BY PosShape DEF IInv
  <2> QED
    BY <2>1
<1>2. pos' = [marked EXCEPT ![d][x].failures = failures]
  BY <1>1 DEF EndStream
<1> HIDE DEF marked
<1>3. /\ pos' = [e \in Member |-> pos'[e]] /\ pos'[d] = [y \in Device \ {d} |-> pos'[d][y]]
      /\ pos'[d][x] = [marked[d][x] EXCEPT !.failures = failures]
      /\ \A y \in Device \ {d, x} : pos'[d][y] = marked[d][y]
      /\ \A e \in Member \ {d} : pos'[e] = marked[e]
  BY <1>1, <1>2
<1>4. IsPos(pos[d][x])
  BY DEF IInv, TypeInv
<1>5. /\ IsPos(pos'[d][x]) /\ pos'[d][x].seq = pos[d][x].seq /\ pos'[d][x].hash = pos[d][x].hash
      /\ pos'[d][x].status = status
  BY <1>1, <1>3, <1>4 DEF IsPos
<1> QED
  BY <1>1, <1>3, <1>5

LEMMA EndsInv ==
  ASSUME IInv, NEW d \in Member, NEW x \in Device \ {d}, Ends(d, x), pass[d].at = "pull",
         UNCHANGED <<segs, own, branch, file, made, written, needs, cutoff, known, checked>>
  PROVE  IInv'
<1> USE DEF IInv
<1>1. PICK status, failures :
        /\ EndStream(d, x, status, failures)
        /\ x = Leaver /\ pass[d].revoked /\ pos[d][x].seq = cutoff.seq => status = "ok"
  BY DEF Ends
<1>2. UNCHANGED <<rows, pend>>
  BY <1>1 DEF EndStream
<1>3. /\ pos' = [e \in Member |-> pos'[e]] /\ pos'[d] = [y \in Device \ {d} |-> pos'[d][y]]
      /\ IsPos(pos'[d][x]) /\ pos'[d][x].seq = pos[d][x].seq /\ pos'[d][x].hash = pos[d][x].hash
      /\ pos'[d][x].status = status
      /\ \A y \in Device \ {d, x} : pos'[d][y] = pos[d][y]
      /\ \A e \in Member \ {d} : pos'[e] = pos[e]
  BY <1>1, StreamEnded
<1>4. /\ pass' = [e \in Member |-> pass'[e]] /\ IsPass(d, pass'[d])
      /\ pass'[d].at = pass[d].at /\ pass'[d].revoked = pass[d].revoked /\ pass'[d].done = pass[d].done
      /\ pass'[d].todo = pass[d].todo \ {x}
      /\ \A e \in Member \ {d} : pass'[e] = pass[e]
  BY <1>1 DEF EndStream, TypeInv, IsPass
<1>5. TypeInv' /\ IdsInv'
  <2>1. \A e \in Member : /\ pos'[e] = [y \in Device \ {e} |-> pos'[e][y]]
                          /\ \A y \in Device \ {e} : IsPos(pos'[e][y])
    <3>1. TAKE e \in Member
    <3>2. CASE e = d
      <4>1. \A y \in Device \ {d} : IsPos(pos[d][y])
        BY DEF TypeInv
      <4> QED
        BY <3>2, <4>1, <1>3
    <3>3. CASE e # d
      <4>1. pos'[e] = pos[e]
        BY <3>3, <1>3
      <4> QED
        BY <4>1 DEF TypeInv
    <3> QED
      BY <3>2, <3>3
  <2>2. \A e \in Member : IsPass(e, pass'[e])
    BY <1>4 DEF TypeInv
  <2> QED
    BY <1>2, <1>3, <1>4, <2>1, <2>2 DEF TypeInv, IdsInv
<1>6. \A e \in Member : pos'[e][Leaver].seq = pos[e][Leaver].seq /\ pos'[e][Leaver].hash = pos[e][Leaver].hash
  BY <1>3, Distinct
<1>7. HeldInv' /\ KnownInv'
  BY <1>2, <1>4, <1>6 DEF HeldInv, Held, KnownInv
<1>8. PassInv'
  <2>1. \A e \in Member : (Within(e)' <=> Within(e)) /\ (Rechecked(e)' <=> Rechecked(e))
    BY <1>4, <1>6 DEF Within, Rechecked
  <2>2. ASSUME x = Leaver, pass[d].revoked, pos[d][x].seq = cutoff.seq PROVE pos'[d][x].status = "ok"
    BY <1>1, <1>3, <2>2
  <2>3. checked[d] => pass[d].revoked \/ pass[d].at = "idle"
    BY DEF KnownInv
  <2> SUFFICES ASSUME NEW e \in Member
               PROVE  /\ checked[e] \/ Rechecked(e)' => Within(e)'
                      /\ checked[e] \/ (Rechecked(e)' /\ Leaver \notin pass'[e].todo) =>
                           (pos'[e][Leaver].seq = cutoff.seq => pos'[e][Leaver].status # "quarantined")
    BY DEF PassInv
  <2>4. CASE e # d
    BY <1>3, <1>4, <2>1, <2>4 DEF PassInv
  <2>5. CASE e = d /\ x # Leaver
    <3>1. Leaver \in Device \ {d, x}
      BY <2>5, Distinct
    <3>2. pos'[d][Leaver] = pos[d][Leaver] /\ (Leaver \notin pass'[d].todo => Leaver \notin pass[d].todo)
      BY <1>3, <1>4, <3>1
    <3> QED
      BY <2>1, <2>5, <3>2 DEF PassInv
  <2>6. CASE e = d /\ x = Leaver
    <3>1. checked[d] \/ Rechecked(d) => pass[d].revoked
      BY <2>3 DEF Rechecked
    <3>2. "ok" # "quarantined"
      OBVIOUS
    <3> QED
      BY <1>3, <1>6, <2>1, <2>2, <2>6, <3>1, <3>2 DEF PassInv
  <2> QED
    BY <2>4, <2>5, <2>6
<1> QED
  BY <1>5, <1>7, <1>8

(* The position after segment id. *)
After(id) == [Start EXCEPT !.seq = id[2], !.hash = id]

LEMMA AppliedPosition ==
  ASSUME NEW id \in Ids, id[2] \in 1 .. Bound - 1
  PROVE  IsPos(After(id)) /\ After(id).seq = id[2] /\ After(id).hash = id /\ After(id).status = "ok"
<1>1. \A p : p = After(id) => /\ p = [f \in DOMAIN p |-> p[f]]
                             /\ DOMAIN p = {"seq", "hash", "status", "failures"}
                             /\ p.seq = id[2] /\ p.hash = id /\ p.status = "ok"
  BY DEF Start, After
<1> QED
  BY <1>1, BoundNat DEF IsPos

LEMMA AppliesInv ==
  ASSUME IInv, NEW d \in Member, NEW x \in Device \ {d}, Applies(d, x), pass[d].at = "pull",
         UNCHANGED <<segs, own, branch, file, made, written, needs, cutoff, known, checked>>
  PROVE  IInv'
<1> USE DEF IInv
<1> DEFINE id == Awaited(d, x)
<1>1. IsPos(pos[d][x]) /\ pos[d][x].seq \in Nat
  <2>1. IsPos(pos[d][x])
    BY DEF TypeInv
  <2> QED
    BY <2>1, BoundNat DEF IsPos
<1>2. id \in Ids /\ id[1] = x /\ id[2] = pos[d][x].seq + 1 /\ id[2] \in 1 .. Bound - 1
  <2> DEFINE p == <<x, pos[d][x].seq + 1>>
  <2>1. p \in Path
    BY <1>1, BoundNat DEF IsPos, Path, Bound
  <2>2. IsFile(p, file[d][p]) /\ file[d][p] # None
    BY <2>1 DEF IdsInv, Applies, Awaited
  <2>3. p[2] \in 1 .. Bound - 1
    BY <2>1, <2>2 DEF IdsInv
  <2> QED
    BY <2>2, <2>3 DEF IsFile, Awaited
<1> HIDE DEF id
<1>a. pos' = [pos EXCEPT ![d][x] = After(id)]
  BY DEF Applies, Apply, After, id
<1>3. /\ pass' = pass
      /\ rows' = [e \in Member |-> rows'[e]] /\ pend' = [e \in Member |-> pend'[e]]
      /\ Held(d)' = Held(d) \cup {id} /\ \A e \in Member \ {d} : Held(e)' = Held(e)
  BY DEF Applies, Apply, TypeInv, Held, id
<1>4. IsPos(After(id)) /\ After(id).seq = id[2] /\ After(id).hash = id /\ After(id).status = "ok"
  BY <1>2, AppliedPosition
<1>5. /\ pos' = [e \in Member |-> pos'[e]] /\ pos'[d] = [y \in Device \ {d} |-> pos'[d][y]]
      /\ pos'[d][x] = After(id)
      /\ \A y \in Device \ {d, x} : pos'[d][y] = pos[d][y]
      /\ \A e \in Member \ {d} : pos'[e] = pos[e]
  <2>1. pos = [e \in Member |-> pos[e]] /\ pos[d] = [y \in Device \ {d} |-> pos[d][y]]
    BY PosShape
  <2> QED
    BY <1>a, <2>1
<1>b. IsPos(pos'[d][x])
  BY <1>4, <1>5
<1>6. TypeInv' /\ IdsInv'
  <2>1. \A e \in Member : /\ pos'[e] = [y \in Device \ {e} |-> pos'[e][y]]
                          /\ \A y \in Device \ {e} : IsPos(pos'[e][y])
    <3>1. TAKE e \in Member
    <3>2. CASE e = d
      <4>1. \A y \in Device \ {d} : IsPos(pos[d][y])
        BY DEF TypeInv
      <4> QED
        BY <3>2, <4>1, <1>5, <1>b
    <3>3. CASE e # d
      <4>1. pos'[e] = pos[e]
        BY <3>3, <1>5
      <4> QED
        BY <4>1 DEF TypeInv
    <3> QED
      BY <3>2, <3>3
  <2> QED
    BY <1>3, <1>5, <2>1 DEF TypeInv, IdsInv
<1>7. pos'[d][x].seq = id[2] /\ pos'[d][x].hash = id /\ pos'[d][x].status = "ok"
  BY <1>4, <1>5
<1>8. HeldInv'
  <2>1. \A c \in Held(d) : c[1] = Leaver => c[2] \in 1 .. pos[d][Leaver].seq
    BY DEF HeldInv
  <2>2. \A c \in Held(d) \cup {id} : c[1] = Leaver => c[2] \in 1 .. pos'[d][Leaver].seq
    <3>1. CASE x = Leaver
      <4>1. ASSUME NEW c \in Held(d), c[1] = Leaver PROVE c[2] \in 1 .. pos[d][Leaver].seq + 1
        BY <1>1, <2>1, <3>1, <4>1
      <4> QED
        BY <1>2, <1>7, <3>1, <4>1
    <3>2. CASE x # Leaver
      BY <1>2, <1>5, <2>1, <3>2, Distinct
    <3> QED
      BY <3>1, <3>2
  <2>3. ASSUME NEW e \in Member \ {d} PROVE Held(e)' = Held(e) /\ pos'[e] = pos[e]
    BY <1>3, <1>5, <2>3
  <2> QED
    BY <1>3, <2>2, <2>3 DEF HeldInv
<1>9. KnownInv'
  BY <1>3 DEF KnownInv
<1>10. PassInv'
  <2>1. \A e \in Member \ {d} : (Within(e)' <=> Within(e)) /\ (Rechecked(e)' <=> Rechecked(e))
    BY <1>3, <1>5 DEF Within, Rechecked
  <2>2. checked[d] \/ Rechecked(d) => pass[d].revoked
    BY DEF KnownInv, Rechecked
  <2>3. CASE x # Leaver
    <3>1. Leaver \in Device \ {d, x}
      BY <2>3, Distinct
    <3>2. pos'[d][Leaver] = pos[d][Leaver] /\ (Within(d)' <=> Within(d)) /\ (Rechecked(d)' <=> Rechecked(d))
      BY <1>3, <1>5, <3>1 DEF Within, Rechecked
    <3> QED
      BY <1>3, <1>5, <2>1, <3>2 DEF PassInv
  <2>4. CASE x = Leaver
    <3>1. pass[d].revoked => /\ pos[d][x].seq + 1 = cutoff.seq => id = cutoff.hash
                             /\ pos[d][x].seq < cutoff.seq /\ cutoff.seq \in Nat
      BY <2>4, BoundNat DEF Applies, id, KnownInv, TypeInv
    <3>2. pass[d].revoked => Within(d)'
      BY <1>1, <1>2, <1>7, <2>4, <3>1 DEF Within
    <3> QED
      BY <1>3, <1>5, <1>7, <2>1, <2>2, <2>4, <3>2 DEF PassInv, Rechecked
  <2> QED
    BY <2>3, <2>4
<1> QED
  BY <1>6, <1>8, <1>9, <1>10

LEMMA PullInv == ASSUME IInv, NEW d \in Member, Pull(d) PROVE IInv'
<1> DEFINE x == CHOOSE y \in pass[d].todo : TRUE
<1>1. x \in Device \ {d}
  <2>1. x \in pass[d].todo
    BY DEF Pull
  <2> QED
    BY <2>1 DEF IInv, TypeInv, IsPass
<1>2. PullStream(d, x) /\ pass[d].at = "pull"
      /\ UNCHANGED <<segs, own, branch, file, made, written, needs, cutoff, known, checked>>
  BY DEF Pull
<1> HIDE DEF x
<1> QED
  BY <1>1, <1>2, StepOfPull, EndsInv, AppliesInv

LEMMA FinishInv == ASSUME IInv, NEW d \in Member, FinishSync(d) PROVE IInv'
<1> USE DEF IInv
<1>1. /\ pass[d].at = "pull" /\ pass[d].todo = {}
      /\ checked' = [checked EXCEPT ![d] = @ \/ (pass[d].revoked /\ pass[d].done)]
      /\ pass' = [pass EXCEPT ![d] = Idle]
      /\ UNCHANGED <<segs, own, branch, file, made, written, needs, pos, cutoff, known>>
  BY DEF FinishSync
<1>2. IsPass(d, Idle)
  BY DEF IsPass, Idle
<1>3. /\ rows' = [e \in Member |-> rows'[e]] /\ pend' = [e \in Member |-> pend'[e]]
      /\ \A e \in Member : Held(e)' = Held(e)
  BY DEF FinishSync, TypeInv, Held
<1>4. /\ checked' \in [Member -> BOOLEAN] /\ checked'[d] = (checked[d] \/ (pass[d].revoked /\ pass[d].done))
      /\ \A e \in Member \ {d} : checked'[e] = checked[e] /\ pass'[e] = pass[e]
      /\ pass'[d] = Idle /\ pass' = [e \in Member |-> pass'[e]]
  BY <1>1 DEF TypeInv, IsPass
<1>5. TypeInv' /\ IdsInv'
  BY <1>1, <1>2, <1>3, <1>4 DEF TypeInv, IdsInv
<1>6. HeldInv'
  <2>1. pos' = pos
    BY <1>1
  <2> QED
    BY <1>3, <2>1 DEF HeldInv
<1>7. Idle.at = "idle" /\ ~ Idle.revoked
  BY DEF Idle
<1>8. /\ UNCHANGED <<pos, cutoff, known>>
      /\ checked'[d] => checked[d] \/ (Rechecked(d) /\ Leaver \notin pass[d].todo)
  BY <1>1, <1>4 DEF Rechecked
<1>9. checked'[d] => known[d]
  BY <1>8 DEF KnownInv, Rechecked
<1>10. KnownInv'
  BY <1>1, <1>4, <1>7, <1>9 DEF KnownInv
<1>11. PassInv'
  <2>1. ASSUME NEW e \in Member \ {d} PROVE (Within(e)' <=> Within(e)) /\ (Rechecked(e)' <=> Rechecked(e))
    BY <1>1, <1>4, <2>1 DEF Within, Rechecked
  <2>2. (Within(d)' <=> Within(d)) /\ ~ Rechecked(d)'
    BY <1>1, <1>4, <1>7 DEF Within, Rechecked
  <2> QED
    BY <1>1, <1>4, <1>8, <2>1, <2>2 DEF PassInv
<1> QED
  BY <1>5, <1>6, <1>10, <1>11

LEMMA CrashInv == ASSUME IInv, NEW d \in Member, Crash(d) PROVE IInv'
<1> USE DEF IInv
<1>1. /\ pass' = [pass EXCEPT ![d] = Idle]
      /\ UNCHANGED <<segs, own, branch, file, made, written, needs, rows, pend, pos, cutoff, known, checked>>
  BY DEF Crash
<1>2. IsPass(d, Idle)
  BY DEF IsPass, Idle
<1>3. TypeInv' /\ IdsInv' /\ HeldInv'
  BY <1>1, <1>2 DEF TypeInv, IdsInv, HeldInv, Held
<1>4. KnownInv' /\ PassInv'
  BY <1>1 DEF TypeInv, KnownInv, PassInv, Idle, Rechecked, Within
<1> QED
  BY <1>3, <1>4

LEMMA StepPreserves == IInv /\ [Next]_vars => IInv'
<1> SUFFICES ASSUME IInv, [Next]_vars PROVE IInv'
  OBVIOUS
<1>1. CASE UNCHANGED vars
  BY <1>1, Outside DEF vars, IInv, IdsInv
<1> QED
  BY <1>1, LeaverInv, DeliverInv, RevokeInv, LocalInv, StartInv, CheckInv, RebuildInv, PullInv, FinishInv, CrashInv
  DEF Next, SyncStep

LEMMA HoldsCutoff == IInv => CutoffHolds
<1> SUFFICES ASSUME IInv, NEW d \in Member, checked[d]
             PROVE  /\ \A c \in Held(d) : c[1] = Leaver => c[2] <= cutoff.seq
                    /\ pos[d][Leaver].seq = cutoff.seq => pos[d][Leaver].hash = cutoff.hash
  BY DEF CutoffHolds
<1>1. Within(d) /\ \A c \in Held(d) : c[1] = Leaver => c[2] \in 1 .. pos[d][Leaver].seq
  BY DEF IInv, PassInv, HeldInv
<1>2. IsPos(pos[d][Leaver]) /\ cutoff.seq \in 0 .. Bound - 1
  BY Distinct DEF IInv, TypeInv, KnownInv
<1>3. pos[d][Leaver].seq \in Nat /\ cutoff.seq \in Nat
  BY <1>2, BoundNat DEF IsPos
<1> QED
  BY <1>1, <1>3 DEF Within

(* Whatever a device has applied when it learns of the revocation, once it *)
(* has completed a pass under it, nothing of the leaver beyond the cutoff  *)
(* is left, and nothing comes back later (rebuild, checkCutoffPrefix).     *)
THEOREM CutoffIsKept == Spec => []CutoffHolds
BY HoldsCutoff, InitEstablishes, StepPreserves, PTL DEF Spec

(* A blocked stream at the cutoff is open again after a pass under the     *)
(* revocation (pullStream looks at the cutoff before the quarantine).      *)
THEOREM RevocationEndsQuarantine == Spec => []RevocationUnblocks
<1>1. IInv => RevocationUnblocks
  BY DEF IInv, PassInv, RevocationUnblocks
<1> QED
  BY <1>1, InitEstablishes, StepPreserves, PTL DEF Spec
-----------------------------------------------------------------------------
(* What a device holds is determined by how far it has read: its own       *)
(* changes, the others' up to its positions, and the line of the leaver's  *)
(* segment at its position.  Changes made while a rebuild is prepared are  *)
(* lost, so this is for devices whose users wait for the rebuild.          *)
LineOf(h) == IF h = None THEN {} ELSE Segment(h).line
Written(h) == h # None => \E g \in segs : g.id = h

Unique == \A g, h \in segs : g.id = h.id => g = h
SegsInv ==
  /\ Unique
  /\ \A g \in segs : g.id[1] \in Member => g.id = Change(g.id[1], g.id[2]) /\ g.id[2] <= written[g.id[1]]
  /\ \A g \in segs : g.id[1] = Leaver => /\ Written(g.prev)
                                         /\ g.line = LineOf(g.prev) \cup {g.id}
                                         /\ \A i \in g.line : i[1] = Leaver

(* The leaver's own line is numbered without gaps, and what each of its    *)
(* segments commits to is the part of the line before it.                  *)
Numbered(S, k) ==
  /\ \A i \in S : i[2] \in 1 .. k
  /\ \A n \in 1 .. k : \E i \in S : i[2] = n
  /\ \A i, j \in S : i[2] = j[2] => i = j
OwnInv ==
  /\ Numbered(own, Cardinality(own))
  /\ \A i \in own : /\ i[1] = Leaver
                    /\ \E g \in segs : g.id = i /\ g.line = {j \in own : j[2] <= i[2]}
  /\ \A g \in segs : g.id[1] = Leaver => /\ branch = 1 => g.id[3] = 1
                                         /\ g.id[3] = branch => g.id[2] <= Cardinality(own)

Files(d) ==
  /\ \A p \in Path : Written(file[d][p])
  /\ \A x \in Device \ {d} : Written(pos[d][x].hash) /\ (pos[d][x].hash # None => pos[d][x].hash[1] = x)
  /\ \A x \in Member \ {d} : pos[d][x].seq <= written[x]
  /\ written[d] <= made[d]

Belongs(d, c) ==
  \/ c \in OwnChanges(d, made[d])
  \/ \E x \in Member \ {d} : c \in OwnChanges(x, pos[d][x].seq)
  \/ c \in LineOf(pos[d][Leaver].hash)
Holds(d) ==
  /\ \A c \in Held(d) : Belongs(d, c)
  /\ \A c : Belongs(d, c) => c \in Held(d)
  /\ LineOf(pos[d][Leaver].hash) \subseteq rows[d]
  /\ pass[d].at = "rebuild" => pass[d].outbox = made[d]

NeedsOf(c) == needs[<<c[1], c[2]>>]
Rows(d) ==
  /\ \A c \in rows[d] : c[1] # Leaver => NeedsOf(c) \in rows[d] \cup {None}
  /\ \A c \in pend[d] : c[1] # Leaver /\ NeedsOf(c) # None

NeedsInv == /\ needs = [p \in Member \X (1 .. MaxOwn) |-> needs[p]]
            /\ \A p \in Member \X (1 .. MaxOwn) : needs[p] = None \/ needs[p][1] = Leaver

AInv == IInv /\ SegsInv /\ OwnInv /\ NeedsInv /\ \A d \in Member : Files(d) /\ Holds(d) /\ Rows(d)

LEMMA SegmentIs == ASSUME Unique, NEW g \in segs PROVE Segment(g.id) = g
BY DEF Unique, Segment

LEMMA SegmentIsThen == ASSUME Unique', NEW g \in segs' PROVE Segment(g.id)' = g
BY DEF Unique, Segment

LEMMA LinesStay ==
  ASSUME Unique, Unique', segs \subseteq segs', NEW h, Written(h)
  PROVE  LineOf(h)' = LineOf(h) /\ Written(h)'
<1>1. CASE h = None
  BY <1>1 DEF LineOf, Written
<1>2. CASE h # None
  <2>1. PICK g \in segs : g.id = h
    BY <1>2 DEF Written
  <2>2. Segment(h) = g /\ Segment(h)' = g /\ g \in segs'
    BY <2>1, SegmentIs, SegmentIsThen
  <2> QED
    BY <1>2, <2>1, <2>2 DEF LineOf, Written
<1> QED
  BY <1>1, <1>2

LEMMA NumberedCardinality ==
  ASSUME NEW S, NEW k \in Nat, Numbered(S, k) PROVE Cardinality(S) = k
<1> DEFINE f == [n \in 1 .. k |-> CHOOSE i \in S : i[2] = n]
<1>1. \A n \in 1 .. k : f[n] \in S /\ f[n][2] = n
  BY DEF Numbered
<1>2. f \in [1 .. k -> S]
  BY <1>1
<1> HIDE DEF f
<1>3. \A m, n \in 1 .. k : f[m] = f[n] => m = n
  BY <1>1
<1>4. \A i \in S : \E n \in 1 .. k : f[n] = i
  BY <1>1 DEF Numbered
<1>5. f \in Bijection(1 .. k, S)
  BY <1>2, <1>3, <1>4 DEF Bijection, Injection, Surjection, IsInjective
<1> QED
  BY <1>5, FS_CountingElements DEF ExistsBijection

LEMMA AInit == Init => AInv
<1> SUFFICES ASSUME Init PROVE AInv
  OBVIOUS
<1>1. IInv
  BY InitEstablishes
<1>2. SegsInv /\ NeedsInv
  BY DEF Init, SegsInv, Unique, NeedsInv
<1>3. OwnInv
  BY FS_EmptySet DEF Init, OwnInv, Numbered
<1>4. ASSUME NEW d \in Member PROVE Files(d) /\ Holds(d) /\ Rows(d)
  <2>1. \A x \in Device \ {d} : pos[d][x].seq = 0 /\ pos[d][x].hash = None
    BY DEF Init, Start
  <2>2. \A x : x \in Member \ {d} => x \in Device \ {d}
    BY DEF Device
  <2>3. Files(d)
    BY <2>1, <2>2 DEF Init, Files, Written
  <2>4. \A c : ~ Belongs(d, c)
    BY <2>1, <2>2, Distinct DEF Init, Belongs, OwnChanges, LineOf
  <2>5. pass[d].at # "rebuild" /\ LineOf(pos[d][Leaver].hash) = {}
    BY <2>1, Distinct DEF Init, Idle, LineOf
  <2> QED
    BY <2>3, <2>4, <2>5 DEF Init, Holds, Held, Rows
<1> QED
  BY <1>1, <1>2, <1>3, <1>4 DEF AInv

(* A step that changes neither how far e has read nor what it holds. *)
LEMMA HoldsStay ==
  ASSUME AInv, IInv', Unique', segs \subseteq segs', NEW e \in Member,
         \A x \in Device \ {e} : pos'[e][x].seq = pos[e][x].seq /\ pos'[e][x].hash = pos[e][x].hash,
         Held(e)' = Held(e), rows[e] \subseteq rows'[e], made'[e] = made[e],
         \A p \in Path : Written(file[e][p])',
         \A x \in Member : written[x] <= written'[x], written'[e] <= made[e],
         pass'[e].at = "rebuild" => pass'[e].outbox = made[e]
  PROVE  Files(e)' /\ Holds(e)'
<1>1. Files(e) /\ Holds(e) /\ Unique
  BY DEF AInv, SegsInv
<1>2. Leaver \in Device \ {e} /\ \A x \in Member \ {e} : x \in Device \ {e}
  BY Distinct
<1>3. \A x \in Device \ {e} : Written(pos[e][x].hash)'
  <2>1. \A x \in Device \ {e} : Written(pos[e][x].hash)
    BY <1>1 DEF Files
  <2> QED
    BY <2>1 DEF Written
<1>4. LineOf(pos[e][Leaver].hash)' = LineOf(pos[e][Leaver].hash)
  <2>1. PICK h : h = pos[e][Leaver].hash
    OBVIOUS
  <2>2. Written(h) /\ pos'[e][Leaver].hash = h
    BY <1>1, <1>2, <2>1 DEF Files
  <2>3. LineOf(h)' = LineOf(h)
    BY <1>1, <2>2, LinesStay
  <2> QED
    BY <2>1, <2>2, <2>3 DEF LineOf, Segment
<1>5. Files(e)'
  <2>1. ASSUME NEW x \in Member \ {e} PROVE pos'[e][x].seq <= written'[x]
    <3>1. pos[e][x].seq <= written[x] /\ written[x] <= written'[x] /\ pos'[e][x].seq = pos[e][x].seq
      BY <1>1, <1>2 DEF Files
    <3>2. IsPos(pos[e][x])
      BY <1>2 DEF AInv, IInv, TypeInv
    <3>3. written[x] \in Nat /\ written'[x] \in Nat
      BY BoundNat DEF AInv, IInv, TypeInv
    <3>4. pos[e][x].seq \in Nat
      BY <3>2, BoundNat DEF IsPos
    <3> QED
      BY <3>1, <3>3, <3>4
  <2>2. \A x \in Device \ {e} : pos'[e][x].hash # None => pos'[e][x].hash[1] = x
    BY <1>1 DEF Files
  <2> QED
    BY <1>3, <2>1, <2>2 DEF Files
<1>6. \A c : Belongs(e, c)' <=> Belongs(e, c)
  BY <1>2, <1>4 DEF Belongs, OwnChanges
<1>7. Holds(e)'
  BY <1>1, <1>4, <1>6 DEF Holds
<1> QED
  BY <1>5, <1>7

LEMMA RowsStay ==
  ASSUME NEW e \in Member, Rows(e), rows'[e] = rows[e], pend'[e] = pend[e], needs' = needs
  PROVE  Rows(e)'
BY DEF Rows, NeedsOf

(* Steps that leave the streams alone. *)
LEMMA SegsStay ==
  ASSUME AInv, UNCHANGED <<segs, own, branch, written>> PROVE SegsInv' /\ OwnInv' /\ Unique'
BY DEF AInv, SegsInv, OwnInv, Unique, Written, LineOf, Segment

(* The next segment of the leaver ends the line of the one before it. *)
LEMMA LeaverWritesLine == ASSUME AInv, LeaverWrites PROVE SegsInv' /\ OwnInv' /\ Unique'
<1> DEFINE n == Cardinality(own) + 1
           prev == IF n = 1 THEN None ELSE CHOOSE id \in own : id[2] = n - 1
           id == <<Leaver, n, branch>>
           g == [id |-> id, prev |-> prev, acl |-> 1, line |-> own \cup {id}]
<1>1. /\ segs' = segs \cup {g} /\ own' = own \cup {id}
      /\ UNCHANGED <<branch, file, made, written, needs, rows, pend, pos, cutoff, known, pass, checked>>
  BY DEF LeaverWrites
<1>2. n \in Nat \ {0} /\ Cardinality(own) = n - 1 /\ IsFiniteSet(own) /\ branch \in {1, 2}
  BY FS_CardinalityType DEF AInv, IInv, IdsInv
<1>3. Unique /\ Numbered(own, n - 1)
  BY <1>2 DEF AInv, SegsInv, OwnInv
<1>4. id[1] = Leaver /\ id[2] = n /\ id[3] = branch /\ g.id = id /\ g.prev = prev /\ g.line = own \cup {id}
  OBVIOUS
<1>5. \A h \in segs : h.id # id
  <2> SUFFICES ASSUME NEW h \in segs, h.id = id PROVE FALSE
    OBVIOUS
  <2>1. h.id[2] <= n - 1
    BY <1>2, <1>4 DEF AInv, OwnInv
  <2> QED
    BY <1>2, <1>4, <2>1
<1>6. prev # None => prev \in own /\ prev[2] = n - 1
  BY <1>2, <1>3 DEF Numbered
<1>7. prev = None => own = {}
  <2>1. CASE n = 1
    BY <1>3, <2>1 DEF Numbered
  <2>2. CASE n # 1
    <3>1. prev \in own
      BY <1>2, <1>3, <2>2 DEF Numbered
    <3>2. \E h \in segs : h.id = prev
      BY <3>1 DEF AInv, OwnInv
    <3>3. prev # None
      <4>1. prev \in Ids
        BY <3>2 DEF AInv, IInv, IdsInv
      <4> QED
        BY <4>1, IdsNotNone
    <3> QED
      BY <3>3
  <2> QED
    BY <2>1, <2>2
<1> HIDE DEF n, prev, id, g
<1>8. Unique' /\ segs \subseteq segs'
  BY <1>1, <1>3, <1>4, <1>5 DEF Unique
<1>9. Written(prev) /\ LineOf(prev) = own
  <2>1. CASE prev = None
    BY <1>7, <2>1 DEF LineOf, Written
  <2>2. CASE prev # None
    <3>1. PICK h \in segs : h.id = prev /\ h.line = {j \in own : j[2] <= n - 1}
      BY <1>6, <2>2 DEF AInv, OwnInv
    <3>2. h.line = own
      BY <1>2, <1>3, <3>1 DEF Numbered
    <3> QED
      BY <1>3, <2>2, <3>1, <3>2, SegmentIs DEF LineOf, Written
  <2> QED
    BY <2>1, <2>2
<1>10. \A h : Written(h) => LineOf(h)' = LineOf(h) /\ Written(h)'
  BY <1>3, <1>8, LinesStay
<1>11. SegsInv'
  <2>1. PICK k : k = prev
    OBVIOUS
  <2>2. LineOf(k)' = own /\ Written(k)' /\ g.prev = k
    BY <1>4, <1>9, <1>10, <2>1
  <2>3. \A i \in own \cup {id} : i[1] = Leaver
    BY <1>4 DEF AInv, OwnInv
  <2> SUFFICES ASSUME NEW s \in segs'
               PROVE  /\ s.id[1] \in Member => s.id = Change(s.id[1], s.id[2]) /\ s.id[2] <= written[s.id[1]]
                      /\ s.id[1] = Leaver => /\ Written(s.prev)'
                                             /\ s.line = LineOf(s.prev)' \cup {s.id}
                                             /\ \A i \in s.line : i[1] = Leaver
    BY <1>1, <1>8 DEF SegsInv
  <2>4. CASE s \in segs
    <3>1. s.id[1] = Leaver => Written(s.prev)
      BY <2>4 DEF AInv, SegsInv
    <3> QED
      BY <1>10, <2>4, <3>1 DEF AInv, SegsInv
  <2>5. CASE s = g
    BY <1>4, <2>2, <2>3, <2>5, Distinct
  <2> QED
    BY <1>1, <2>4, <2>5
<1>12. OwnInv'
  <2>1. id \notin own
    BY <1>2, <1>3, <1>4 DEF Numbered
  <2>2. Cardinality(own') = n
    BY <1>1, <1>2, <2>1, FS_AddElement
  <2>3. Numbered(own', n)
    BY <1>1, <1>2, <1>3, <1>4 DEF Numbered
  <2>4. ASSUME NEW i \in own'
        PROVE  i[1] = Leaver /\ \E s \in segs' : s.id = i /\ s.line = {j \in own' : j[2] <= i[2]}
    <3>1. CASE i \in own
      <4>1. PICK s \in segs : s.id = i /\ s.line = {j \in own : j[2] <= i[2]}
        BY <3>1 DEF AInv, OwnInv
      <4>2. ~ id[2] <= i[2]
        BY <1>2, <1>3, <1>4, <3>1 DEF Numbered
      <4>3. s.line = {j \in own' : j[2] <= i[2]}
        BY <1>1, <4>1, <4>2
      <4> QED
        BY <1>1, <3>1, <4>1, <4>3 DEF AInv, OwnInv
    <3>2. CASE i = id
      <4>1. \A j \in own' : j[2] <= i[2]
        BY <1>2, <2>3, <1>4, <3>2 DEF Numbered
      <4>2. g.line = {j \in own' : j[2] <= i[2]}
        BY <1>1, <1>4, <4>1
      <4> QED
        BY <1>1, <1>4, <3>2, <4>2
    <3> QED
      BY <1>1, <2>4, <3>1, <3>2
  <2>5. ASSUME NEW s \in segs', s.id[1] = Leaver
        PROVE  (branch' = 1 => s.id[3] = 1) /\ (s.id[3] = branch' => s.id[2] <= n)
    <3>1. CASE s \in segs
      <4>1. s.id[2] \in Nat /\ (s.id[3] = branch => s.id[2] <= n - 1)
        BY <1>2, <2>5, <3>1, BoundNat DEF AInv, OwnInv, IInv, IdsInv
      <4> QED
        BY <1>1, <1>2, <2>5, <3>1, <4>1 DEF AInv, OwnInv
    <3>2. CASE s = g
      BY <1>1, <1>2, <1>4, <3>2
    <3> QED
      BY <1>1, <3>1, <3>2
  <2> QED
    BY <2>2, <2>3, <2>4, <2>5 DEF OwnInv
<1> QED
  BY <1>8, <1>11, <1>12

(* A restored leaver has kept a part of its line and goes on in a second   *)
(* branch, in which nothing is written yet.                                *)
LEMMA LeaverRestoredLine == ASSUME AInv, LeaverRestored PROVE SegsInv' /\ OwnInv' /\ Unique'
<1>1. PICK k \in 0 .. Cardinality(own) - 1 : own' = {id \in own : id[2] <= k}
  BY DEF LeaverRestored
<1>2. branch = 1 /\ branch' = 2 /\ UNCHANGED <<segs, written>>
  BY DEF LeaverRestored
<1>3. Cardinality(own) \in Nat /\ Numbered(own, Cardinality(own))
  BY FS_CardinalityType DEF AInv, IInv, IdsInv, OwnInv
<1>4. Numbered(own', k) /\ k \in Nat
  BY <1>1, <1>3 DEF Numbered
<1>5. Cardinality(own') = k
  BY <1>4, NumberedCardinality
<1>6. SegsInv' /\ Unique'
  BY <1>2 DEF AInv, SegsInv, Unique, Written, LineOf, Segment
<1>7. ASSUME NEW i \in own'
      PROVE  i[1] = Leaver /\ \E g \in segs' : g.id = i /\ g.line = {j \in own' : j[2] <= i[2]}
  <2>1. i \in own /\ i[2] <= k
    BY <1>1
  <2>2. PICK g \in segs : g.id = i /\ g.line = {j \in own : j[2] <= i[2]}
    BY <2>1 DEF AInv, OwnInv
  <2>3. \A j \in own : j[2] <= i[2] => j[2] <= k
    <3>1. i[2] \in Int /\ \A j \in own : j[2] \in Int
      BY <1>3, <2>1 DEF Numbered
    <3> QED
      BY <1>4, <2>1, <3>1
  <2>4. g.line = {j \in own' : j[2] <= i[2]}
    BY <1>1, <2>2, <2>3
  <2> QED
    BY <1>2, <2>1, <2>2, <2>4 DEF AInv, OwnInv
<1>8. \A g \in segs' : g.id[1] = Leaver => g.id[3] = 1
  BY <1>2 DEF AInv, OwnInv
<1>9. OwnInv'
  BY <1>2, <1>4, <1>5, <1>7, <1>8 DEF OwnInv
<1> QED
  BY <1>6, <1>9

(* The outbox of d goes into segments that nobody has written yet. *)
LEMMA StartLine ==
  ASSUME AInv, NEW d \in Member, StartSync(d) PROVE SegsInv' /\ OwnInv' /\ Unique' /\ segs \subseteq segs'
<1>1. /\ written' = [written EXCEPT ![d] = made[d]] /\ UNCHANGED <<own, branch, made>>
      /\ segs \subseteq segs'
      /\ \A g \in segs' : g \in segs \/ \E n \in written[d] + 1 .. made[d] : g.id = Change(d, n)
  BY DEF StartSync
<1>2. \A g, h \in segs' : g \in segs \/ h \in segs \/ (g.id = h.id => g = h)
  <2>1. PICK k : segs' = segs \cup {[id |-> Change(d, n), acl |-> IF k THEN 2 ELSE 1,
                              prev |-> IF n = 1 THEN None ELSE Change(d, n - 1),
                              line |-> OwnChanges(d, n)] : n \in written[d] + 1 .. made[d]}
    BY DEF StartSync
  <2>2. \A m, n : Change(d, m) = Change(d, n) => m = n
    BY DEF Change
  <2> QED
    BY <2>1, <2>2
<1>3. written[d] \in Nat /\ made[d] \in Nat /\ written[d] <= made[d] /\ written'[d] = made[d]
  BY <1>1, BoundNat DEF AInv, IInv, TypeInv, Files
<1>4. \A g \in segs : g.id[1] = d => g.id[2] <= written[d]
  BY DEF AInv, SegsInv
<1>5. \A n \in written[d] + 1 .. made[d] : \A c : c = Change(d, n) => c[1] = d /\ c[2] = n /\ ~ c[2] <= written[d]
  BY <1>3 DEF Change
<1>6. Unique'
  BY <1>1, <1>2, <1>4, <1>5 DEF AInv, SegsInv, Unique
<1>7. \A h : Written(h) => LineOf(h)' = LineOf(h) /\ Written(h)'
  BY <1>1, <1>6, LinesStay DEF AInv, SegsInv
<1>8. ASSUME NEW s \in segs'
      PROVE  /\ s.id[1] \in Member => s.id = Change(s.id[1], s.id[2]) /\ s.id[2] <= written'[s.id[1]]
             /\ s.id[1] = Leaver => /\ s \in segs
                                    /\ Written(s.prev)'
                                    /\ s.line = LineOf(s.prev)' \cup {s.id}
                                    /\ \A i \in s.line : i[1] = Leaver
  <2>1. CASE s \in segs
    <3>1. s.id[1] = Leaver => Written(s.prev)
      BY <2>1 DEF AInv, SegsInv
    <3>2. s.id[1] \in Member => s.id[2] <= written'[s.id[1]]
      <4>1. s.id[2] \in Nat /\ (s.id[1] \in Member => s.id[2] <= written[s.id[1]])
        BY <2>1, BoundNat DEF AInv, SegsInv, IInv, IdsInv
      <4> QED
        BY <1>1, <1>3, <4>1 DEF AInv, IInv, TypeInv
    <3> QED
      BY <1>7, <2>1, <3>1, <3>2 DEF AInv, SegsInv
  <2>2. CASE s \notin segs
    <3>1. PICK n \in written[d] + 1 .. made[d] : s.id = Change(d, n)
      BY <1>1, <2>2
    <3>2. s.id[1] = d /\ s.id[2] = n /\ n <= written'[d]
      BY <1>3, <1>5, <3>1
    <3> QED
      BY <3>1, <3>2, Distinct
  <2> QED
    BY <2>1, <2>2
<1>9. SegsInv'
  BY <1>6, <1>8 DEF SegsInv
<1>10. OwnInv'
  <2>1. \A g \in segs' : g.id[1] = Leaver => g \in segs
    BY <1>8
  <2> QED
    BY <1>1, <2>1 DEF AInv, OwnInv
<1> QED
  BY <1>1, <1>6, <1>9, <1>10

LEMMA FilesStay ==
  ASSUME AInv, segs \subseteq segs', file' = file
  PROVE  \A e \in Member : \A p \in Path : Written(file[e][p])'
BY DEF AInv, Files, Written

(* A step in which no device reads or changes anything. *)
LEMMA QuietStep ==
  ASSUME AInv, IInv', SegsInv', OwnInv', segs \subseteq segs', UNCHANGED <<needs, made>>,
         \A e \in Member : \A x \in Device \ {e} :
           pos'[e][x].seq = pos[e][x].seq /\ pos'[e][x].hash = pos[e][x].hash,
         \A e \in Member : Held(e)' = Held(e) /\ rows[e] \subseteq rows'[e] /\ Rows(e)',
         \A e \in Member : \A p \in Path : Written(file[e][p])',
         \A e \in Member : written[e] <= written'[e] /\ written'[e] <= made[e],
         \A e \in Member : pass'[e].at = "rebuild" => pass'[e].outbox = made[e]
  PROVE  AInv'
<1>1. Unique'
  BY DEF SegsInv
<1>2. ASSUME NEW e \in Member PROVE Files(e)' /\ Holds(e)'
  BY <1>1, HoldsStay
<1>3. NeedsInv'
  BY DEF AInv, NeedsInv
<1> QED
  BY <1>2, <1>3 DEF AInv

LEMMA WrittenNumbers == ASSUME AInv, NEW e \in Member
  PROVE  written[e] \in Nat /\ written[e] <= made[e] /\ made[e] \in Nat /\ (pass[e].at = "rebuild" => pass[e].outbox = made[e])
BY BoundNat DEF AInv, IInv, TypeInv, Files, Holds

LEMMA LeaverKeeps == ASSUME AInv, IInv', LeaverWrites \/ LeaverRestored PROVE AInv'
<1>1. /\ UNCHANGED <<file, made, written, needs, rows, pend, pos, cutoff, known, pass, checked>>
      /\ segs \subseteq segs'
  BY DEF LeaverWrites, LeaverRestored
<1>2. SegsInv' /\ OwnInv'
  BY LeaverWritesLine, LeaverRestoredLine
<1>3. \A e \in Member : Held(e)' = Held(e) /\ Rows(e)'
  BY <1>1, RowsStay DEF AInv, Held
<1> QED
  BY <1>1, <1>2, <1>3, FilesStay, WrittenNumbers, QuietStep

LEMMA DeliverKeeps == ASSUME AInv, IInv', NEW d \in Member, Deliver(d) PROVE AInv'
<1>1. UNCHANGED <<segs, own, branch, made, written, needs, rows, pend, pos, cutoff, known, pass, checked>>
  BY DEF Deliver
<1>2. PICK g \in segs : file' = [file EXCEPT ![d][<<g.id[1], g.id[2]>>] = g.id]
  BY DEF Deliver
<1>3. \A e \in Member, p \in Path :
        file'[e][p] = IF e = d /\ p = <<g.id[1], g.id[2]>> THEN g.id ELSE file[e][p]
  BY <1>2 DEF AInv, IInv, IdsInv
<1>4. \A e \in Member : \A p \in Path : Written(file[e][p])'
  BY <1>1, <1>3 DEF AInv, Files, Written
<1>5. \A e \in Member : Held(e)' = Held(e) /\ Rows(e)'
  BY <1>1, RowsStay DEF AInv, Held
<1> QED
  BY <1>1, <1>4, <1>5, SegsStay, WrittenNumbers, QuietStep

LEMMA PassKeeps == ASSUME AInv, IInv', NEW d \in Member, Revoke(d) \/ Check(d) \/ Crash(d) PROVE AInv'
<1>1. UNCHANGED <<segs, own, branch, file, made, written, needs, rows, pend, pos>>
  BY DEF Revoke, Check, Crash
<1>2. ASSUME NEW e \in Member PROVE pass'[e].at = "rebuild" => pass'[e].outbox = made[e]
  <2>1. IsPass(d, pass[d]) /\ pass = [x \in Member |-> pass[x]]
    BY DEF AInv, IInv, TypeInv
  <2>2. CASE Check(d)
    BY <2>1, <2>2, WrittenNumbers DEF Check, IsPass
  <2>3. CASE Crash(d)
    BY <2>1, <2>3, WrittenNumbers DEF Crash, Idle
  <2>4. CASE Revoke(d)
    BY <2>4, WrittenNumbers DEF Revoke
  <2> QED
    BY <2>2, <2>3, <2>4
<1>3. \A e \in Member : Held(e)' = Held(e) /\ Rows(e)'
  BY <1>1, RowsStay DEF AInv, Held
<1> QED
  BY <1>1, <1>2, <1>3, SegsStay, FilesStay, WrittenNumbers, QuietStep

LEMMA StartKeeps == ASSUME AInv, IInv', NEW d \in Member, StartSync(d) PROVE AInv'
<1>1. /\ written' = [written EXCEPT ![d] = made[d]]
      /\ UNCHANGED <<own, branch, file, made, needs, rows, pend, pos, cutoff, checked>>
  BY DEF StartSync
<1>2. ASSUME NEW e \in Member PROVE pass'[e].at = "rebuild" => pass'[e].outbox = made[e]
  <2>1. PICK k : pass' = [pass EXCEPT ![d] = [Idle EXCEPT !.at = "check", !.revoked = k]]
    BY DEF StartSync
  <2>2. pass'[d].at = "check" /\ (e # d => pass'[e] = pass[e])
    BY <2>1 DEF AInv, IInv, TypeInv, Idle
  <2> QED
    BY <2>2, WrittenNumbers
<1>3. ASSUME NEW e \in Member PROVE written[e] <= written'[e] /\ written'[e] <= made[e]
  <2>1. written[e] \in Nat /\ written[e] <= made[e] /\ made[e] \in Nat
    BY WrittenNumbers
  <2>2. written'[e] = IF e = d THEN made[e] ELSE written[e]
    BY <1>1 DEF AInv, IInv, TypeInv
  <2> QED
    BY <2>1, <2>2
<1>4. \A e \in Member : Held(e)' = Held(e) /\ Rows(e)'
  BY <1>1, RowsStay DEF AInv, Held
<1> QED
  BY <1>1, <1>2, <1>3, <1>4, StartLine, FilesStay, QuietStep

LEMMA FinishKeeps == ASSUME AInv, IInv', NEW d \in Member, FinishSync(d) PROVE AInv'
<1>1. /\ pass' = [pass EXCEPT ![d] = Idle]
      /\ UNCHANGED <<segs, own, branch, file, made, written, needs, pos, cutoff, known>>
  BY DEF FinishSync
<1>2. ASSUME NEW e \in Member PROVE pass'[e].at = "rebuild" => pass'[e].outbox = made[e]
  BY <1>1, WrittenNumbers DEF AInv, IInv, TypeInv, Idle
<1>3. PICK ready \in SUBSET pend[d] :
        /\ \A c \in ready : NeedsOf(c) \in rows[d]
        /\ rows' = [rows EXCEPT ![d] = @ \cup ready] /\ pend' = [pend EXCEPT ![d] = @ \ ready]
  BY DEF FinishSync, NeedsOf
<1>4. /\ rows'[d] = rows[d] \cup ready /\ pend'[d] = pend[d] \ ready
      /\ \A e \in Member \ {d} : rows'[e] = rows[e] /\ pend'[e] = pend[e]
  BY <1>3 DEF AInv, IInv, TypeInv
<1>5. Rows(d)'
  BY <1>1, <1>3, <1>4 DEF AInv, Rows, NeedsOf
<1>6. \A e \in Member : Rows(e)'
  BY <1>1, <1>4, <1>5, RowsStay DEF AInv
<1>7. \A e \in Member : Held(e)' = Held(e) /\ rows[e] \subseteq rows'[e]
  BY <1>3, <1>4 DEF Held
<1> QED
  BY <1>1, <1>2, <1>6, <1>7, SegsStay, FilesStay, WrittenNumbers, QuietStep

LEMMA EndsKeeps ==
  ASSUME AInv, IInv', NEW d \in Member, NEW x \in Device \ {d}, Ends(d, x), pass[d].at = "pull",
         UNCHANGED <<segs, own, branch, file, made, written, needs, cutoff, known, checked>>
  PROVE  AInv'
<1>1. PICK status, failures : EndStream(d, x, status, failures)
  BY DEF Ends
<1>2. UNCHANGED <<rows, pend>> /\ pass' = [pass EXCEPT ![d].todo = @ \ {x}]
  BY <1>1 DEF EndStream
<1>3. IInv
  BY DEF AInv
<1>4. /\ pos'[d][x].seq = pos[d][x].seq /\ pos'[d][x].hash = pos[d][x].hash
      /\ \A y \in Device \ {d, x} : pos'[d][y] = pos[d][y]
      /\ \A e \in Member \ {d} : pos'[e] = pos[e]
  BY <1>1, <1>3, StreamEnded
<1>5. ASSUME NEW e \in Member PROVE pass'[e].at = "rebuild" => pass'[e].outbox = made[e]
  <2>1. pass'[d].at = pass[d].at /\ (e # d => pass'[e] = pass[e])
    BY <1>2, <1>3 DEF IInv, TypeInv, IsPass
  <2> QED
    BY <2>1, WrittenNumbers
<1>6. ASSUME NEW e \in Member, NEW y \in Device \ {e}
      PROVE  pos'[e][y].seq = pos[e][y].seq /\ pos'[e][y].hash = pos[e][y].hash
  BY <1>4
<1>7. \A e \in Member : Held(e)' = Held(e) /\ Rows(e)'
  BY <1>2, RowsStay DEF AInv, Held
<1> QED
  BY <1>2, <1>5, <1>6, <1>7, SegsStay, FilesStay, WrittenNumbers, QuietStep

(* What is not of the leaver is a change that a member has made. *)
LEMMA HeldPath ==
  ASSUME AInv, NEW e \in Member, NEW c \in Held(e), c[1] # Leaver
  PROVE  \E x \in Member : \E n \in 1 .. made[x] : c = Change(x, n)
<1>1. Belongs(e, c) /\ Files(e)
  BY DEF AInv, Holds
<1>2. CASE c \in OwnChanges(e, made[e])
  BY <1>2 DEF OwnChanges
<1>3. CASE \E x \in Member \ {e} : c \in OwnChanges(x, pos[e][x].seq)
  <2>1. PICK x \in Member \ {e} : \E n \in 1 .. pos[e][x].seq : c = Change(x, n)
    BY <1>3 DEF OwnChanges
  <2>2. PICK n \in 1 .. pos[e][x].seq : c = Change(x, n)
    BY <2>1
  <2>3. IsPos(pos[e][x]) /\ pos[e][x].seq <= written[x]
    BY <1>1, Distinct DEF AInv, IInv, TypeInv, Files
  <2>4. pos[e][x].seq \in Nat /\ written[x] \in Nat /\ made[x] \in Nat /\ written[x] <= made[x]
    BY <2>3, BoundNat, WrittenNumbers DEF IsPos
  <2> QED
    BY <2>2, <2>3, <2>4
<1>4. CASE c \in LineOf(pos[e][Leaver].hash)
  <2>1. PICK h : h = pos[e][Leaver].hash
    OBVIOUS
  <2>2. h # None /\ Written(h) /\ h[1] = Leaver
    BY <1>1, <1>4, <2>1, Distinct DEF Files, LineOf
  <2>3. PICK g \in segs : g.id = h
    BY <2>2 DEF Written
  <2>4. c \in g.line
    BY <1>4, <2>1, <2>2, <2>3, SegmentIs DEF LineOf, AInv, SegsInv
  <2> QED
    BY <2>2, <2>3, <2>4 DEF AInv, SegsInv
<1> QED
  BY <1>1, <1>2, <1>3, <1>4 DEF Belongs

LEMMA LocalKeeps == ASSUME AInv, IInv', NEW d \in Member, LocalWrite(d), WritesInWindow = FALSE PROVE AInv'
<1> DEFINE n == made[d] + 1
<1>1. /\ made' = [made EXCEPT ![d] = n] /\ n <= MaxOwn /\ pass[d].at # "rebuild"
      /\ rows' = [rows EXCEPT ![d] = @ \cup {Change(d, n)}]
      /\ UNCHANGED <<segs, own, branch, file, written, pend, pos, cutoff, known, pass, checked>>
  BY DEF LocalWrite
<1>2. PICK r \in {None} \cup {id \in rows[d] : id[1] = Leaver} : needs' = [needs EXCEPT ![<<d, n>>] = r]
  BY DEF LocalWrite
<1>3. n \in 1 .. MaxOwn /\ made[d] \in Nat
  BY <1>1, BoundNat, WrittenNumbers
<1>4. /\ made'[d] = n /\ rows'[d] = rows[d] \cup {Change(d, n)}
      /\ \A e \in Member \ {d} : made'[e] = made[e] /\ rows'[e] = rows[e]
  BY <1>1 DEF AInv, IInv, TypeInv
<1>5. needs'[<<d, n>>] = r /\ \A p \in Member \X (1 .. MaxOwn) : p # <<d, n>> => needs'[p] = needs[p]
  BY <1>2, <1>3 DEF AInv, NeedsInv
<1>6. NeedsInv'
  <2>1. needs' = [p \in Member \X (1 .. MaxOwn) |-> needs'[p]]
    BY <1>2 DEF AInv, NeedsInv
  <2> QED
    BY <1>5, <2>1 DEF AInv, NeedsInv
<1>7. ASSUME NEW e \in Member, NEW c \in Held(e), c[1] # Leaver PROVE NeedsOf(c)' = NeedsOf(c)
  <2>1. PICK x \in Member : \E m \in 1 .. made[x] : c = Change(x, m)
    BY <1>7, HeldPath
  <2>2. PICK m \in 1 .. made[x] : c = Change(x, m)
    BY <2>1
  <2>3. made[x] \in 0 .. MaxOwn /\ MaxOwn \in Nat
    BY BoundNat DEF AInv, IInv, TypeInv
  <2>4. m \in 1 .. MaxOwn /\ <<x, m>> # <<d, n>>
    BY <1>3, <2>3
  <2>5. c[1] = x /\ c[2] = m
    BY <2>2 DEF Change
  <2> QED
    BY <1>5, <2>4, <2>5 DEF NeedsOf
<1>8. ASSUME NEW e \in Member PROVE Rows(e)'
  <2>1. Rows(e)
    BY DEF AInv
  <2>2. \A c \in rows[e] \cup pend[e] : c[1] # Leaver => NeedsOf(c)' = NeedsOf(c)
    BY <1>7 DEF Held
  <2>3. \A c : c = Change(d, n) => NeedsOf(c)' = r
    BY <1>5 DEF NeedsOf, Change
  <2> QED
    BY <1>1, <1>4, <2>1, <2>2, <2>3 DEF Rows
<1>9. \A e \in Member : \A p \in Path : Written(file[e][p])'
  BY <1>1, FilesStay
<1>10. SegsInv' /\ OwnInv' /\ Unique'
  BY <1>1, SegsStay
<1>11. ASSUME NEW e \in Member \ {d} PROVE Files(e)' /\ Holds(e)'
  <2>1. Held(e)' = Held(e) /\ made'[e] = made[e] /\ rows[e] \subseteq rows'[e]
    BY <1>1, <1>4 DEF Held
  <2>2. \A x \in Member : written[x] <= written'[x]
    BY <1>1, WrittenNumbers
  <2> QED
    BY <1>1, <1>9, <1>10, <2>1, <2>2, WrittenNumbers, HoldsStay
<1>12. Files(d)'
  <2>1. written'[d] <= made'[d]
    BY <1>1, <1>3, <1>4, WrittenNumbers
  <2> QED
    BY <1>1, <2>1 DEF AInv, Files, Written
<1>13. Holds(d)'
  <2>1. LineOf(pos[d][Leaver].hash)' = LineOf(pos[d][Leaver].hash)
    BY <1>1 DEF LineOf, Segment
  <2>2. \A c : c \in OwnChanges(d, n) <=> c \in OwnChanges(d, made[d]) \/ c = Change(d, n)
    BY <1>3 DEF OwnChanges
  <2>3. \A c : Belongs(d, c)' <=> Belongs(d, c) \/ c = Change(d, n)
    BY <1>1, <1>4, <2>1, <2>2 DEF Belongs, OwnChanges
  <2>4. \A c : c \in Held(d)' <=> c \in Held(d) \/ c = Change(d, n)
    BY <1>1, <1>4 DEF Held
  <2> QED
    BY <1>1, <1>4, <2>1, <2>3, <2>4 DEF AInv, Holds
<1> QED
  BY <1>6, <1>8, <1>10, <1>11, <1>12, <1>13 DEF AInv

LEMMA RebuildKeeps == ASSUME AInv, IInv', NEW d \in Member, Rebuild(d) PROVE AInv'
<1> DEFINE mine == OwnChanges(d, made[d])
<1>1. /\ UNCHANGED <<segs, own, branch, file, made, written, needs, cutoff, known, checked>>
      /\ pass[d].at = "rebuild" /\ pass[d].outbox = made[d]
      /\ pass' = [pass EXCEPT ![d] = [@ EXCEPT !.at = "pull", !.todo = Device \ {d}, !.outbox = 0]]
      /\ pos' = [pos EXCEPT ![d] = [x \in Device \ {d} |-> Start]]
  BY WrittenNumbers DEF Rebuild
<1>2. /\ rows' = [rows EXCEPT ![d] = {c \in mine : NeedsOf(c) = None}]
      /\ pend' = [pend EXCEPT ![d] = {c \in mine : NeedsOf(c) # None}]
  BY <1>1 DEF Rebuild, NeedsOf
<1>3. /\ \A x \in Device \ {d} : pos'[d][x] = Start
      /\ rows'[d] = {c \in mine : NeedsOf(c) = None} /\ pend'[d] = {c \in mine : NeedsOf(c) # None}
      /\ \A e \in Member \ {d} : pos'[e] = pos[e] /\ rows'[e] = rows[e] /\ pend'[e] = pend[e] /\ pass'[e] = pass[e]
  BY <1>1, <1>2 DEF AInv, IInv, TypeInv
<1>4. pass'[d].at = "pull"
  <2>1. /\ pass = [e \in Member |-> pass[e]] /\ pass[d] = [f \in DOMAIN pass[d] |-> pass[d][f]]
        /\ "at" \in DOMAIN pass[d]
    BY PassShape DEF AInv, IInv
  <2> QED
    BY <1>1, <2>1
<1>5. \A e \in Member : \A p \in Path : Written(file[e][p])'
  BY <1>1, FilesStay
<1>6. SegsInv' /\ OwnInv' /\ Unique'
  BY <1>1, SegsStay
<1>7. NeedsInv'
  BY <1>1 DEF AInv, NeedsInv
<1>8. ASSUME NEW e \in Member \ {d} PROVE Files(e)' /\ Holds(e)' /\ Rows(e)'
  <2>1. Held(e)' = Held(e) /\ made'[e] = made[e] /\ rows[e] \subseteq rows'[e] /\ Rows(e)'
    BY <1>1, <1>3, RowsStay DEF AInv, Held
  <2>2. \A x \in Member : written[x] <= written'[x]
    BY <1>1, WrittenNumbers
  <2> QED
    BY <1>1, <1>3, <1>5, <1>6, <2>1, <2>2, WrittenNumbers, HoldsStay
<1>9. Start.seq = 0 /\ Start.hash = None
  BY DEF Start
<1>10. Files(d)'
  <2>1. \A x \in Member \ {d} : x \in Device \ {d} /\ 0 <= written[x]
    BY Distinct, WrittenNumbers
  <2> QED
    BY <1>1, <1>3, <1>5, <1>9, <2>1, WrittenNumbers DEF Files, Written
<1>11. Holds(d)'
  <2>1. LineOf(pos[d][Leaver].hash)' = {}
    BY <1>3, <1>9, Distinct DEF LineOf
  <2>2. \A x \in Member \ {d} : pos'[d][x].seq = 0
    BY <1>3, <1>9, Distinct
  <2>3. \A c : Belongs(d, c)' <=> c \in mine
    BY <1>1, <2>1, <2>2 DEF Belongs, OwnChanges
  <2>4. \A c : c \in Held(d)' <=> c \in mine
    BY <1>3 DEF Held
  <2> QED
    BY <1>4, <2>1, <2>3, <2>4 DEF Holds
<1>12. Rows(d)'
  BY <1>1, <1>3, OwnNotLeaver DEF Rows, NeedsOf
<1> QED
  BY <1>6, <1>7, <1>8, <1>10, <1>11, <1>12 DEF AInv

LEMMA AppliesKeeps ==
  ASSUME AInv, IInv', NEW d \in Member, NEW x \in Device \ {d}, Applies(d, x), pass[d].at = "pull",
         UNCHANGED <<segs, own, branch, file, made, written, needs, cutoff, known, checked>>
  PROVE  AInv'
<1> DEFINE p == pos[d][x]
<1>1. IsPos(p) /\ p.seq \in Nat
  <2>1. IsPos(p)
    BY DEF AInv, IInv, TypeInv
  <2> QED
    BY <2>1, BoundNat DEF IsPos
<1>2. PICK id : id = Awaited(d, x)
  OBVIOUS
<1>3. id \in Ids /\ id[1] = x /\ id[2] = p.seq + 1 /\ id[2] \in 1 .. Bound - 1 /\ \E g \in segs : g.id = id
  <2> DEFINE q == <<x, p.seq + 1>>
  <2>1. q \in Path
    BY <1>1, BoundNat DEF IsPos, Path, Bound
  <2>2. IsFile(q, file[d][q]) /\ file[d][q] # None /\ file[d][q] = id /\ Written(file[d][q])
    BY <1>2, <2>1 DEF AInv, IInv, IdsInv, Applies, Awaited, Files
  <2>3. q[2] \in 1 .. Bound - 1
    BY <2>1, <2>2 DEF AInv, IInv, IdsInv
  <2> QED
    BY <2>2, <2>3 DEF IsFile, Written
<1>4. PICK g \in segs : g.id = id
  BY <1>3
<1>5. Segment(id) = g /\ id # None /\ Unique
  BY <1>3, <1>4, SegmentIs, RevocationAssumption DEF AInv, SegsInv
<1>6. g.prev = p.hash
  BY <1>2, <1>5 DEF Applies, Verdict
<1>7. Apply(d, x, id)
  BY <1>2 DEF Applies
<1>8. pos' = [pos EXCEPT ![d][x] = After(id)] /\ pass' = pass
  BY <1>7 DEF Apply, After
<1>9. After(id).seq = id[2] /\ After(id).hash = id
  BY <1>3, AppliedPosition
<1>10. /\ pos'[d][x].seq = id[2] /\ pos'[d][x].hash = id
       /\ \A y \in Device \ {d, x} : pos'[d][y] = pos[d][y]
       /\ \A e \in Member \ {d} : pos'[e] = pos[e]
  <2>1. /\ pos'[d][x] = After(id)
        /\ \A y \in Device \ {d, x} : pos'[d][y] = pos[d][y]
        /\ \A e \in Member \ {d} : pos'[e] = pos[e]
    <3>1. pos = [e \in Member |-> pos[e]] /\ pos[d] = [y \in Device \ {d} |-> pos[d][y]]
      BY DEF AInv, IInv, TypeInv
    <3> QED
      BY <1>8, <3>1
  <2> QED
    BY <1>9, <2>1
<1>11. /\ \A e \in Member \ {d} : rows'[e] = rows[e] /\ pend'[e] = pend[e]
       /\ \/ rows'[d] = rows[d] \cup {id} /\ pend'[d] = pend[d] /\ (x = Leaver \/ NeedsOf(id) \in rows[d] \cup {None})
          \/ rows'[d] = rows[d] /\ pend'[d] = pend[d] \cup {id} /\ x # Leaver /\ NeedsOf(id) \notin rows[d] \cup {None}
  BY <1>3, <1>7 DEF Apply, NeedsOf, AInv, IInv, TypeInv
<1>12. SegsInv' /\ OwnInv' /\ Unique'
  BY SegsStay
<1>13. NeedsInv'
  BY DEF AInv, NeedsInv
<1>14. \A e \in Member : \A q \in Path : Written(file[e][q])'
  BY FilesStay
<1>15. ASSUME NEW e \in Member \ {d} PROVE Files(e)' /\ Holds(e)' /\ Rows(e)'
  <2>1. Held(e)' = Held(e) /\ made'[e] = made[e] /\ rows[e] \subseteq rows'[e] /\ Rows(e)'
    BY <1>11, RowsStay DEF AInv, Held
  <2>2. \A y \in Member : written[y] <= written'[y]
    BY WrittenNumbers
  <2> QED
    BY <1>8, <1>10, <1>12, <1>14, <2>1, <2>2, WrittenNumbers, HoldsStay
<1>16. x \in Member => id[2] <= written[x] /\ id = Change(x, id[2])
  BY <1>3, <1>4 DEF AInv, SegsInv
<1>17. Files(d)'
  <2>1. ASSUME NEW y \in Device \ {d}
        PROVE  /\ Written(pos[d][y].hash)' /\ (pos'[d][y].hash # None => pos'[d][y].hash[1] = y)
               /\ y \in Member => pos'[d][y].seq <= written[y]
    <3>1. CASE y = x
      BY <1>3, <1>4, <1>10, <1>16, <3>1 DEF Written
    <3>2. CASE y # x
      BY <1>10, <3>2 DEF AInv, Files, Written
    <3> QED
      BY <3>1, <3>2
  <2>2. \A y \in Member \ {d} : y \in Device \ {d}
    BY Distinct
  <2> QED
    BY <1>14, <2>1, <2>2, WrittenNumbers DEF Files
<1>18. Rows(d)'
  <2>1. Rows(d)
    BY DEF AInv
  <2> QED
    BY <1>3, <1>11, <2>1 DEF Rows, NeedsOf
<1>19. \A c : c \in Held(d)' <=> c \in Held(d) \/ c = id
  BY <1>11 DEF Held
<1>20. ~ pass'[d].at = "rebuild"
  BY <1>8
<1>21. CASE x = Leaver
  <2>1. LineOf(pos[d][Leaver].hash)' = LineOf(pos[d][Leaver].hash) \cup {id}
    <3>1. LineOf(pos[d][Leaver].hash)' = g.line
      BY <1>5, <1>10, <1>21 DEF LineOf, Segment
    <3>2. g.line = LineOf(g.prev) \cup {g.id}
      BY <1>3, <1>4, <1>21 DEF AInv, SegsInv
    <3> QED
      BY <1>4, <1>6, <1>21, <3>1, <3>2
  <2>2. \A y \in Member \ {d} : pos'[d][y] = pos[d][y]
    BY <1>10, <1>21, Distinct
  <2>3. \A c : Belongs(d, c)' <=> Belongs(d, c) \/ c = id
    BY <2>1, <2>2 DEF Belongs, OwnChanges
  <2>4. rows'[d] = rows[d] \cup {id}
    BY <1>11, <1>21
  <2>5. Holds(d)'
    BY <1>19, <1>20, <2>1, <2>3, <2>4 DEF AInv, Holds
  <2> QED
    BY <1>12, <1>13, <1>15, <1>17, <1>18, <2>5 DEF AInv
<1>22. CASE x # Leaver
  <2>1. x \in Member \ {d} /\ Leaver \in Device \ {d, x}
    BY <1>22, Distinct DEF Device
  <2>2. LineOf(pos[d][Leaver].hash)' = LineOf(pos[d][Leaver].hash)
    <3>1. pos'[d][Leaver] = pos[d][Leaver]
      BY <1>10, <2>1
    <3> QED
      BY <3>1 DEF LineOf, Segment
  <2>3. \A c : c \in OwnChanges(x, id[2]) <=> c \in OwnChanges(x, p.seq) \/ c = id
    <3>1. \A n : n \in 1 .. id[2] <=> n \in 1 .. p.seq \/ n = id[2]
      BY <1>1, <1>3
    <3> QED
      BY <1>16, <2>1, <3>1 DEF OwnChanges
  <2>4. \A y \in Member \ {d, x} : pos'[d][y].seq = pos[d][y].seq
    BY <1>10, Distinct
  <2>5. \A c : (\E y \in Member \ {d} : c \in OwnChanges(y, pos'[d][y].seq))
               <=> (\E y \in Member \ {d} : c \in OwnChanges(y, pos[d][y].seq)) \/ c = id
    BY <1>10, <2>1, <2>3, <2>4
  <2>6. \A c : Belongs(d, c)' <=> Belongs(d, c) \/ c = id
    BY <2>2, <2>5 DEF Belongs, OwnChanges
  <2>7. Holds(d)'
    BY <1>11, <1>19, <1>20, <2>2, <2>6 DEF AInv, Holds
  <2> QED
    BY <1>12, <1>13, <1>15, <1>17, <1>18, <2>7 DEF AInv
<1> QED
  BY <1>21, <1>22

LEMMA PullKeeps == ASSUME AInv, IInv', NEW d \in Member, Pull(d) PROVE AInv'
<1>1. PICK x : x \in pass[d].todo /\ PullStream(d, x)
  BY DEF Pull
<1>2. x \in Device \ {d} /\ IInv
  BY <1>1 DEF AInv, IInv, TypeInv, IsPass
<1>3. pass[d].at = "pull" /\ UNCHANGED <<segs, own, branch, file, made, written, needs, cutoff, known, checked>>
  BY DEF Pull
<1> QED
  BY <1>1, <1>2, <1>3, StepOfPull, EndsKeeps, AppliesKeeps

LEMMA AStep == AInv /\ [Next]_vars /\ WritesInWindow = FALSE => AInv'
<1> SUFFICES ASSUME AInv, [Next]_vars, WritesInWindow = FALSE PROVE AInv'
  OBVIOUS
<1>1. IInv'
  BY StepPreserves DEF AInv
<1>2. CASE UNCHANGED vars
  <2>1. \A e \in Member : Rows(e)' /\ Held(e)' = Held(e)
    BY <1>2, RowsStay DEF vars, AInv, Held
  <2> QED
    BY <1>1, <1>2, <2>1, SegsStay, FilesStay, WrittenNumbers, QuietStep DEF vars
<1> QED
  BY <1>1, <1>2, LeaverKeeps, DeliverKeeps, PassKeeps, LocalKeeps, StartKeeps, RebuildKeeps, PullKeeps, FinishKeeps
  DEF Next, SyncStep

LEMMA SameHeld ==
  ASSUME AInv, CutoffHolds, NEW d \in Member, NEW e \in Member, UpToDate(d), UpToDate(e)
  PROVE  Held(d) \subseteq Held(e)
<1>1. pos[d][Leaver].hash = pos[e][Leaver].hash
  BY DEF CutoffHolds, UpToDate
<1>2. ASSUME NEW c, Belongs(d, c) PROVE Belongs(e, c)
  <2>1. CASE c \in OwnChanges(d, made[d])
    BY <2>1 DEF UpToDate, Belongs
  <2>2. CASE \E x \in Member \ {d} : c \in OwnChanges(x, pos[d][x].seq)
    BY <2>2 DEF UpToDate, Belongs
  <2>3. CASE c \in LineOf(pos[d][Leaver].hash)
    BY <1>1, <2>3 DEF Belongs
  <2> QED
    BY <1>2, <2>1, <2>2, <2>3 DEF Belongs
<1> QED
  BY <1>2 DEF AInv, Holds

(* What a change in the tables of d needs is there; and so it is with e.   *)
LEMMA NeedsThere ==
  ASSUME AInv, NEW d \in Member, NEW e \in Member, Held(d) \subseteq Held(e),
         NEW c \in Held(d), c[1] # Leaver, NeedsOf(c) \in rows[d]
  PROVE  NeedsOf(c) = None \/ NeedsOf(c) \in rows[e]
<1>1. PICK x \in Member : \E m \in 1 .. made[x] : c = Change(x, m)
  BY HeldPath
<1>2. PICK m \in 1 .. made[x] : c = Change(x, m)
  BY <1>1
<1>3. made[x] \in 0 .. MaxOwn /\ MaxOwn \in Nat
  BY BoundNat DEF AInv, IInv, TypeInv
<1>4. <<c[1], c[2]>> \in Member \X (1 .. MaxOwn)
  BY <1>2, <1>3 DEF Change
<1>5. NeedsOf(c) = None \/ NeedsOf(c)[1] = Leaver
  BY <1>4 DEF AInv, NeedsInv, NeedsOf
<1>6. NeedsOf(c) \in Held(e) /\ \A r \in pend[e] : r[1] # Leaver
  BY DEF Held, AInv, Rows
<1> QED
  BY <1>5, <1>6 DEF Held

(* Devices that have all changes have the same tables: what both hold is   *)
(* the same, and of that a change is in the tables exactly if it needs     *)
(* nothing or a row that is there.                                         *)
LEMMA SameRows ==
  ASSUME AInv, CutoffHolds, NEW d \in Member, NEW e \in Member, UpToDate(d), UpToDate(e)
  PROVE  rows[d] \subseteq rows[e] /\ pend[d] \subseteq pend[e]
<1>1. Held(d) \subseteq Held(e) /\ Held(e) \subseteq Held(d)
  BY SameHeld
<1>2. \A x \in {d, e} : \A c \in pend[x] : c[1] # Leaver /\ NeedsOf(c) # None /\ NeedsOf(c) \notin rows[x]
  BY DEF AInv, Rows, UpToDate, NeedsOf
<1>3. \A x \in {d, e} : \A c \in rows[x] : c[1] # Leaver => NeedsOf(c) \in rows[x] \cup {None}
  BY DEF AInv, Rows
<1>4. ASSUME NEW c \in rows[d] PROVE c \in rows[e]
  <2> SUFFICES ASSUME c \in pend[e] PROVE FALSE
    BY <1>1 DEF Held
  <2>1. c[1] # Leaver /\ NeedsOf(c) # None /\ NeedsOf(c) \notin rows[e]
    BY <1>2
  <2>2. NeedsOf(c) \in rows[d] /\ c \in Held(d)
    BY <1>3, <2>1 DEF Held
  <2> QED
    BY <1>1, <2>1, <2>2, NeedsThere
<1>5. ASSUME NEW c \in pend[d] PROVE c \in pend[e]
  <2> SUFFICES ASSUME c \in rows[e] PROVE FALSE
    BY <1>1 DEF Held
  <2>1. c[1] # Leaver /\ NeedsOf(c) # None /\ NeedsOf(c) \notin rows[d]
    BY <1>2
  <2>2. NeedsOf(c) \in rows[e] /\ c \in Held(e)
    BY <1>3, <2>1 DEF Held
  <2> QED
    BY <1>1, <2>1, <2>2, NeedsThere
<1> QED
  BY <1>4, <1>5

(* Devices that have come through the revocation and have all of each      *)
(* other's changes agree, whatever they had applied before it, as long as  *)
(* nobody writes while a rebuild is prepared (pullStream, rebuild).        *)
THEOREM DevicesAgree == ASSUME WritesInWindow = FALSE PROVE Spec => []UpToDateAgree
<1>1. AInv => UpToDateAgree
  <2> SUFFICES ASSUME AInv, NEW d \in Member, NEW e \in Member, UpToDate(d), UpToDate(e)
               PROVE  rows[d] = rows[e] /\ pend[d] = pend[e]
    BY DEF UpToDateAgree
  <2>1. CutoffHolds
    BY HoldsCutoff DEF AInv
  <2> QED
    BY <2>1, SameRows
<1> QED
  BY <1>1, AInit, AStep, PTL DEF Spec

(* In that case a rebuild loses no change of the device's own user either. *)
THEOREM OwnChangesAreKept == ASSUME WritesInWindow = FALSE PROVE Spec => []OwnChangesStay
<1>1. AInv => OwnChangesStay
  BY DEF AInv, Holds, Belongs, OwnChangesStay
<1> QED
  BY <1>1, AInit, AStep, PTL DEF Spec
=============================================================================
