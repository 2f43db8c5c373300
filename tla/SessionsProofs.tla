--------------------------- MODULE SessionsProofs ---------------------------
(***************************************************************************)
(* Theorems about Sessions: a login has at most one refresh token that can *)
(* be exchanged, one that has ended does not come back, and a change of an *)
(* account ends its logins, for any number of accounts and of requests in  *)
(* flight, and all lifetimes.                                              *)
(***************************************************************************)
EXTENDS Sessions, FiniteSetTheorems, WellFoundedInduction, TLAPS

(* The fields of a row of refresh_tokens, and of a request in flight. *)
RowShape(t) ==
  /\ t = [x \in DOMAIN t |-> t[x]]
  /\ DOMAIN t = {"id", "family", "email", "role", "user", "created", "expires", "replaced", "from"}
RequestShape(q) ==
  /\ q = [x \in DOMAIN q |-> q[x]]
  /\ DOMAIN q = {"at", "email", "pass", "source", "role", "row", "time", "who", "epoch", "raced"}

(* Ids of rows and of logins come from one counter, and none comes twice. *)
IdsIssued ==
  /\ nextId \in Nat
  /\ \A t \in tokens : RowShape(t) /\ t.id \in Nat /\ t.family \in Nat /\ t.id < nextId /\ t.family < nextId
  /\ \A t, u \in tokens : t.id = u.id => t = u

(* The row a refresh has read: if it is still there, it belongs to the     *)
(* login it belonged to.  A row is replaced at a time that is not NULL.    *)
Reading(r) == req[r].at \in {"checking", "rotating"}
RowRead(r) ==
  /\ RowShape(req[r].row) /\ req[r].row.id \in Nat /\ req[r].row.id < nextId
  /\ \A t \in tokens : t.id = req[r].row.id => t.family = req[r].row.family

RequestsRead ==
  /\ req = [r \in Slot |-> req[r]]
  /\ \A r \in Slot : /\ RequestShape(req[r])
                     /\ Reading(r) => RowRead(r)
                     /\ req[r].at = "rotating" => req[r].time \in Nat \ {0}

IInv == now \in Nat \ {0} /\ IdsIssued /\ RequestsRead /\ OneCurrentToken
-----------------------------------------------------------------------------
LEMMA InitEstablishes == Init => IInv
<1> SUFFICES ASSUME Init PROVE IInv
  OBVIOUS
<1>1. tokens = {} /\ req = [r \in Slot |-> Quiet] /\ now = 1 /\ nextId = 1
  BY DEF Init
<1>2. RequestsRead
  BY <1>1 DEF RequestsRead, RequestShape, Reading, Quiet
<1> QED
  BY <1>1, <1>2 DEF IInv, IdsIssued, OneCurrentToken

(* A request goes on: it reads no row that it has not read before. *)
Onward(r) ==
  /\ RequestShape(req'[r])
  /\ Reading(r)' => Reading(r) /\ req'[r].row = req[r].row
  /\ req'[r].at = "rotating" => req'[r].time \in Nat \ {0}

(* What was issued to the administrator may be kept, with a mark that is   *)
(* none of the program's.                                                  *)
Marked(t) == IF Spared(t) THEN [t EXCEPT !.from.raced = TRUE] ELSE t
RowsGone == tokens' \subseteq tokens \/ KeepAdminTokens

LEMMA MarkedRow ==
  ASSUME NEW t, RowShape(t)
  PROVE  /\ RowShape(Marked(t)) /\ Marked(t).id = t.id /\ Marked(t).family = t.family
         /\ Marked(t).replaced = t.replaced
BY DEF Marked, RowShape

(* Of every row that is there afterwards there was one before. *)
LEMMA RowBefore ==
  ASSUME IdsIssued, RowsGone
  PROVE  /\ \A t \in tokens' : \E u \in tokens : /\ RowShape(t) /\ t.id = u.id /\ t.family = u.family
                                                 /\ t.replaced = u.replaced
         /\ \A t, u \in tokens' : t.id = u.id => t = u
<1>1. CASE tokens' \subseteq tokens
  BY <1>1 DEF IdsIssued
<1>2. CASE KeepAdminTokens
  <2>1. tokens' = {Marked(t) : t \in tokens}
    BY <1>2 DEF KeepAdminTokens, Marked
  <2>2. \A t \in tokens : /\ RowShape(Marked(t)) /\ Marked(t).id = t.id /\ Marked(t).family = t.family
                          /\ Marked(t).replaced = t.replaced
    BY MarkedRow DEF IdsIssued
  <2> QED
    BY <2>1, <2>2 DEF IdsIssued
<1> QED
  BY <1>1, <1>2 DEF RowsGone

(* What most steps do: rows go, time passes, requests go on. *)
LEMMA RowsGo ==
  ASSUME IInv, RowsGone, nextId' = nextId, now' \in Nat \ {0},
         req' = [r \in Slot |-> req'[r]], \A r \in Slot : Onward(r)
  PROVE  IInv'
<1>1. /\ \A t \in tokens' : \E u \in tokens : /\ RowShape(t) /\ t.id = u.id /\ t.family = u.family
                                              /\ t.replaced = u.replaced
      /\ \A t, u \in tokens' : t.id = u.id => t = u
  BY RowBefore DEF IInv
<1>2. IdsIssued'
  BY <1>1 DEF IInv, IdsIssued
<1>3. RequestsRead'
  <2>1. ASSUME NEW r \in Slot, Reading(r)'
        PROVE  RowRead(r)'
    BY <1>1, <2>1 DEF IInv, IdsIssued, RequestsRead, RowRead, Onward
  <2> QED
    BY <2>1 DEF RequestsRead, Onward
<1>4. OneCurrentToken'
  BY <1>1 DEF IInv, IdsIssued, OneCurrentToken
<1> QED
  BY <1>2, <1>3, <1>4 DEF IInv

LEMMA LoginInv ==
  ASSUME IInv, NEW r \in Slot, LoginStep(r)
  PROVE  IInv'
<1> USE DEF IInv, RequestsRead
<1>1. ASSUME NEW email, NEW pass, NEW source, LoginStart(r, email, pass, source)
      PROVE  IInv'
  <2>1. tokens' = tokens /\ nextId' = nextId /\ now' = now /\ req' = [s \in Slot |-> req'[s]]
    BY <1>1 DEF LoginStart
  <2>2. \A s \in Slot : Onward(s)
    BY <1>1 DEF LoginStart, Onward, Reading, RequestShape, Quiet
  <2> QED
    BY <2>1, <2>2, RowsGo DEF RowsGone
<1>2. CASE LoginVerify(r)
  <2>1. tokens' = tokens /\ nextId' = nextId /\ now' = now /\ req' = [s \in Slot |-> req'[s]]
    BY <1>2 DEF LoginVerify, End
  <2>2. \A s \in Slot : Onward(s)
    <3>1. CASE End(r)
      BY <3>1 DEF End, Onward, Reading, RequestShape, Quiet
    <3>2. ASSUME NEW u \in Account,
                 req' = [req EXCEPT ![r] = [@ EXCEPT !.at = "minting", !.role = account[u].role,
                                                     !.who = u, !.epoch = account[u].epoch]]
          PROVE  \A s \in Slot : Onward(s)
      BY <3>2 DEF Onward, Reading, RequestShape
    <3>3. CASE ~End(r)
      <4>1. PICK u \in {v \in With(req[r].email) : account[v].pass = req[r].pass} :
                 req' = [req EXCEPT ![r] = [@ EXCEPT !.at = "minting", !.role = account[u].role,
                                                     !.who = u, !.epoch = account[u].epoch]]
        BY <1>2, <3>3 DEF LoginVerify
      <4>2. u \in Account
        BY DEF With
      <4> QED
        BY <3>2, <4>1, <4>2
    <3> QED
      BY <3>1, <3>3
  <2> QED
    BY <2>1, <2>2, RowsGo DEF RowsGone
<1>3. CASE LoginMint(r)
  <2>1. tokens' = tokens /\ nextId' = nextId /\ now' = now /\ req' = [s \in Slot |-> req'[s]]
    BY <1>3 DEF LoginMint, Goto
  <2>2. \A s \in Slot : Onward(s)
    BY <1>3 DEF LoginMint, Goto, Is, Onward, Reading, RequestShape
  <2> QED
    BY <2>1, <2>2, RowsGo DEF RowsGone
<1>4. CASE LoginIssue(r)
  <2>1. \A s \in Slot : Onward(s)
    BY <1>4 DEF LoginIssue, End, Onward, Reading, RequestShape, Quiet
  <2>2. CASE tokens' = tokens /\ nextId' = nextId
    BY <1>4, <2>1, <2>2, RowsGo DEF LoginIssue, End, RowsGone
  <2>3. ASSUME NEW row, RowShape(row), row.id = nextId, row.family = nextId, nextId' = nextId + 1,
               tokens' = {t \in tokens : t.expires >= now} \cup {row}
        PROVE  IInv'
    <3>1. IdsIssued'
      BY <2>3 DEF IdsIssued
    <3>2. RequestsRead'
      BY <1>4, <2>1, <2>3 DEF LoginIssue, End, Onward, RowRead, Reading, IdsIssued
    <3>3. OneCurrentToken'
      BY <2>3 DEF OneCurrentToken, IdsIssued
    <3> QED
      BY <3>1, <3>2, <3>3, <1>4 DEF LoginIssue
  <2> QED
    <3>1. CASE With(req[r].email) # {}
      <4>1. PICK u \in With(req[r].email) :
              CreateRefreshToken([id |-> nextId, family |-> nextId, email |-> req[r].email, role |-> req[r].role,
                                  user |-> IF u = Admin THEN None ELSE u, created |-> now,
                                  expires |-> now + TokenTTL, replaced |-> 0, from |-> Origin(r)])
        BY <1>4, <3>1 DEF LoginIssue
      <4> DEFINE row == [id |-> nextId, family |-> nextId, email |-> req[r].email, role |-> req[r].role,
                         user |-> IF u = Admin THEN None ELSE u, created |-> now,
                         expires |-> now + TokenTTL, replaced |-> 0, from |-> Origin(r)]
      <4>2. RowShape(row) /\ row.id = nextId /\ row.family = nextId
        BY DEF RowShape
      <4>3. nextId' = nextId + 1 /\ tokens' = {t \in tokens : t.expires >= now} \cup {row}
        BY <1>4, <3>1, <4>1 DEF LoginIssue, CreateRefreshToken
      <4> QED
        BY <2>3, <4>2, <4>3
    <3> QED
      BY <1>4, <2>2, <3>1 DEF LoginIssue
<1> QED
  BY <1>1, <1>2, <1>3, <1>4 DEF LoginStep

LEMMA RefreshReadInv ==
  ASSUME IInv, NEW r \in Slot, NEW t \in tokens, RefreshRead(r, t)
  PROVE  IInv'
<1> USE DEF IInv
<1>1. IdsIssued' /\ OneCurrentToken' /\ now' \in Nat \ {0}
  BY DEF RefreshRead, IdsIssued, OneCurrentToken
<1>2. RequestShape(req'[r]) /\ req'[r].at = "checking" /\ req'[r].row = t
  BY DEF RefreshRead, RequestsRead, RequestShape, Quiet
<1>3. \A s \in Slot \ {r} : req'[s] = req[s]
  BY DEF RefreshRead, RequestsRead
<1>4. RowRead(r)'
  BY <1>2 DEF RefreshRead, RowRead, IdsIssued
<1>5. ASSUME NEW s \in Slot \ {r}, Reading(s)'
      PROVE  RowRead(s)'
  BY <1>3, <1>5 DEF RefreshRead, RequestsRead, Reading, RowRead
<1>6. req' = [s \in Slot |-> req'[s]]
  BY DEF RefreshRead, RequestsRead
<1> QED
  BY <1>1, <1>2, <1>3, <1>4, <1>5, <1>6 DEF RequestsRead

(* The row that a rotation adds. *)
Successor(t, id, created, expires, from) ==
  [t EXCEPT !.id = id, !.created = created, !.expires = expires, !.from = from]

LEMMA SuccessorRow ==
  ASSUME NEW t, NEW id, NEW created, NEW expires, NEW from, RowShape(t)
  PROVE  /\ RowShape(Successor(t, id, created, expires, from))
         /\ Successor(t, id, created, expires, from).id = id
         /\ Successor(t, id, created, expires, from).family = t.family
BY DEF Successor, RowShape

(* The rotation: the row that was read is still current, so it is the only *)
(* one of its login, and it is replaced in the step that adds the next.    *)
LEMMA RotateInv ==
  ASSUME IInv, NEW r \in Slot, RefreshRotate(r)
  PROVE  IInv'
<1> USE DEF IInv
<1>1. req' = [s \in Slot |-> req'[s]] /\ now' = now
  BY DEF RefreshRotate, Goto, RequestsRead
<1>2. \A s \in Slot : Onward(s)
  BY DEF RefreshRotate, Goto, Onward, RequestsRead, Reading, RequestShape
<1>3. CASE ~StillCurrent(r)
  BY <1>1, <1>2, <1>3, RowsGo DEF RefreshRotate, RowsGone
<1>4. CASE StillCurrent(r)
  <2> DEFINE old == req[r].row
             new == [old EXCEPT !.id = nextId, !.created = req[r].time,
                                !.expires = req[r].time + TokenTTL, !.from = Origin(r)]
             Replace(t) == IF t.id = old.id THEN [t EXCEPT !.replaced = req[r].time] ELSE t
  <2>1. RowShape(old) /\ (\A t \in tokens : t.id = old.id => t.family = old.family) /\ req[r].time \in Nat \ {0}
    BY DEF RefreshRotate, Is, RequestsRead, Reading, RowRead
  <2>2. tokens' = {Replace(t) : t \in tokens} \cup {new} /\ nextId' = nextId + 1
    BY <1>4 DEF RefreshRotate
  <2>3. PICK cur \in tokens : cur.id = old.id /\ cur.replaced = 0
    BY <1>4 DEF StillCurrent
  <2>4. RowShape(new) /\ new.id = nextId /\ new.family = cur.family
    <3>1. new = Successor(old, nextId, req[r].time, req[r].time + TokenTTL, Origin(r))
      BY DEF Successor
    <3>2. cur.family = old.family /\ RowShape(old)
      BY <2>1, <2>3
    <3> HIDE DEF old, new
    <3> QED
      BY <3>1, <3>2, SuccessorRow
  <2>5. \A t \in tokens : /\ RowShape(Replace(t)) /\ Replace(t).id = t.id /\ Replace(t).family = t.family
                          /\ t.replaced # 0 \/ t.id = old.id => Replace(t).replaced # 0
    BY <2>1 DEF IdsIssued, RowShape
  <2> HIDE DEF new, Replace
  <2>6. IdsIssued'
    BY <2>2, <2>4, <2>5 DEF IdsIssued
  <2>7. RequestsRead'
    <3>1. ASSUME NEW s \in Slot, Reading(s)'
          PROVE  RowRead(s)'
      BY <1>2, <2>2, <2>4, <2>5, <3>1 DEF Onward, RequestsRead, RowRead, IdsIssued
    <3> QED
      BY <1>1, <1>2, <3>1 DEF RequestsRead, Onward
  <2>8. OneCurrentToken'
    <3>1. \A t \in tokens : t.family = cur.family => Replace(t).replaced # 0
      BY <2>3, <2>5 DEF OneCurrentToken, IdsIssued
    <3>2. \A t, u \in tokens : Replace(t) # Replace(u) /\ t.family = u.family
            => Replace(t).replaced # 0 \/ Replace(u).replaced # 0
      BY <2>5 DEF OneCurrentToken
    <3> QED
      BY <2>2, <2>4, <2>5, <3>1, <3>2 DEF OneCurrentToken
  <2> QED
    BY <1>1, <2>6, <2>7, <2>8
<1> QED
  BY <1>3, <1>4

LEMMA RefreshInv ==
  ASSUME IInv, NEW r \in Slot, RefreshStep(r)
  PROVE  IInv'
<1>1. CASE RefreshCheck(r)
  <2>1. tokens' \subseteq tokens /\ nextId' = nextId /\ now' = now /\ req' = [s \in Slot |-> req'[s]]
    <3>1. req' = [s \in Slot |-> req'[s]]
      BY <1>1 DEF RefreshCheck, End, IInv, RequestsRead
    <3> QED
      BY <1>1, <3>1 DEF RefreshCheck, Revoked
  <2>2. ASSUME End(r)
        PROVE  \A s \in Slot : Onward(s)
    BY <2>2 DEF End, Onward, Reading, RequestShape, Quiet, IInv, RequestsRead
  <2>3. ASSUME req' = [req EXCEPT ![r].at = IF req[r].row.replaced = 0 THEN "rotating" ELSE "granting", ![r].time = now]
        PROVE  \A s \in Slot : Onward(s)
    <3>1. req'[r] = [req[r] EXCEPT !.at = IF req[r].row.replaced = 0 THEN "rotating" ELSE "granting", !.time = now]
      BY <2>3 DEF IInv, RequestsRead
    <3>3. Onward(r)
      BY <1>1, <3>1 DEF RefreshCheck, Is, Onward, Reading, RequestShape, IInv, RequestsRead
    <3>4. \A s \in Slot \ {r} : req'[s] = req[s]
      BY <2>3 DEF IInv, RequestsRead
    <3>5. ASSUME NEW s \in Slot \ {r} PROVE Onward(s)
      BY <3>4 DEF Onward, Reading, IInv, RequestsRead
    <3> QED
      BY <3>3, <3>5
  <2> QED
    <3>1. End(r) \/ req' = [req EXCEPT ![r].at = IF req[r].row.replaced = 0 THEN "rotating" ELSE "granting", ![r].time = now]
      BY <1>1 DEF RefreshCheck
    <3> QED
      BY <2>1, <2>2, <2>3, <3>1, RowsGo DEF IInv, RowsGone
<1>2. CASE RefreshGrant(r)
  <2>1. tokens' = tokens /\ nextId' = nextId /\ now' = now /\ req' = [s \in Slot |-> req'[s]]
    BY <1>2 DEF RefreshGrant, End, IInv, RequestsRead
  <2>2. \A s \in Slot : Onward(s)
    BY <1>2 DEF RefreshGrant, End, Onward, Reading, RequestShape, Quiet, IInv, RequestsRead
  <2> QED
    BY <2>1, <2>2, RowsGo DEF RowsGone, IInv
<1> QED
  BY <1>1, <1>2, RefreshReadInv, RotateInv DEF RefreshStep

LEMMA ChangeInv ==
  ASSUME IInv, NEW r \in Slot, ChangeStep(r)
  PROVE  IInv'
<1> USE DEF IInv
<1>1. ASSUME RowsGone, nextId' = nextId, now' = now,
             NEW q, RequestShape(q), q.at \notin {"checking", "rotating"},
             \/ req' = [req EXCEPT ![r] = q]
             \/ \E emails : Overtaken(emails, r, q)
      PROVE  IInv'
  <2>1. req' = [s \in Slot |-> req'[s]] /\ req'[r] = q
    BY <1>1 DEF Overtaken, RequestsRead
  <2>2. ASSUME NEW s \in Slot \ {r}
        PROVE  Onward(s)
    <3>1. req'[s] = req[s] \/ req'[s] = [req[s] EXCEPT !.raced = TRUE]
      BY <1>1 DEF Overtaken, RequestsRead
    <3> QED
      BY <3>1 DEF Onward, Reading, RequestShape, RequestsRead
  <2>3. Onward(r)
    BY <1>1, <2>1 DEF Onward, Reading
  <2> QED
    BY <1>1, <2>1, <2>2, <2>3, RowsGo
<1>2. RequestShape(Quiet) /\ Quiet.at = "idle"
  BY DEF RequestShape, Quiet
<1>3. ASSUME NEW b \in bearer, ChangeStart(r, b)
      PROVE  IInv'
  <2> DEFINE q == [Quiet EXCEPT !.at = "setting", !.email = b.email]
  <2>1. RequestShape(q) /\ q.at = "setting"
    BY DEF RequestShape, Quiet
  <2> QED
    BY <1>1, <1>3, <2>1 DEF ChangeStart, RowsGone
<1>4. ASSUME NEW l \in links, ResetConsume(r, l)
      PROVE  IInv'
  <2> DEFINE q == [Quiet EXCEPT !.at = "resetting", !.who = l.user]
  <2>1. RequestShape(q) /\ q.at = "resetting"
    BY DEF RequestShape, Quiet
  <2> QED
    BY <1>1, <1>4, <2>1 DEF ResetConsume, RowsGone
<1>5. CASE ResetFind(r)
  <2> DEFINE q == [Quiet EXCEPT !.at = "setting", !.email = account[req[r].who].email]
  <2>1. RequestShape(q) /\ q.at = "setting"
    BY DEF RequestShape, Quiet
  <2> QED
    BY <1>1, <1>2, <1>5, <2>1 DEF ResetFind, End, RowsGone
<1>6. CASE SetUserPassword(r)
  BY <1>1, <1>2, <1>6 DEF SetUserPassword, End, RowsGone
<1>7. CASE SetAdminPassword(r)
  <2> DEFINE q == [Quiet EXCEPT !.at = "revoking", !.email = AdminEmail]
  <2>1. RequestShape(q) /\ q.at = "revoking"
    BY DEF RequestShape, Quiet
  <2> QED
    BY <1>1, <1>7, <2>1 DEF SetAdminPassword, RowsGone
<1>8. CASE RevokeAdminTokens(r)
  BY <1>1, <1>2, <1>8 DEF RevokeAdminTokens, RowsGone
<1> QED
  BY <1>3, <1>4, <1>5, <1>6, <1>7, <1>8 DEF ChangeStep

(* Steps that no request in flight takes. *)
LEMMA OtherInv ==
  ASSUME IInv,
         \/ \E t \in tokens : Logout(t)
         \/ \E u \in Account : ForgotPassword(u)
         \/ ManageUsers \/ Tick \/ Restart
         \/ UNCHANGED vars
  PROVE  IInv'
<1> USE DEF IInv
<1>1. RowsGone
  BY DEF RowsGone, Logout, Revoked, ForgotPassword, ManageUsers, CreateUser, UpdateUser, DeleteUser, Tick, Restart, vars
<1>2. nextId' = nextId /\ now' \in {now, now + 1}
  BY DEF Logout, ForgotPassword, ManageUsers, CreateUser, UpdateUser, DeleteUser, Tick, Restart, vars
<1>3. \/ req' = req
      \/ req' = [s \in Slot |-> Quiet]
      \/ \E emails : Overtaken(emails, None, Quiet)
  BY DEF Logout, ForgotPassword, ManageUsers, CreateUser, UpdateUser, DeleteUser, Tick, Restart, vars
<1>4. req' = [s \in Slot |-> req'[s]]
  BY <1>3 DEF Overtaken, RequestsRead
<1>5. ASSUME NEW s \in Slot
      PROVE  Onward(s)
  <2>1. req'[s] \in {req[s], Quiet, [req[s] EXCEPT !.raced = TRUE]}
    BY <1>3 DEF Overtaken, RequestsRead
  <2> QED
    BY <2>1 DEF Onward, Reading, RequestShape, RequestsRead, Quiet
<1> QED
  BY <1>1, <1>2, <1>4, <1>5, RowsGo

LEMMA StepPreserves == IInv /\ [Next]_vars => IInv'
BY LoginInv, RefreshInv, ChangeInv, OtherInv DEF Next
-----------------------------------------------------------------------------
(* A login has at most one refresh token that can be exchanged for another *)
(* one (RotateRefreshToken), with any number of requests in flight.        *)
THEOREM OneCurrent == Spec => []OneCurrentToken
<1>1. IInv => OneCurrentToken
  BY DEF IInv
<1> QED
  BY <1>1, InitEstablishes, StepPreserves, PTL DEF Spec

(* A step adds a row only to a login that has one already, or to a new one.*)
LEMMA FamiliesGrow ==
  ASSUME IInv, [Next]_vars
  PROVE  \A f \in Families' : f \in Families \/ f = nextId
<1>1. CASE RowsGone
  BY <1>1, RowBefore DEF Families, IInv
<1>2. ASSUME NEW r \in Slot, LoginIssue(r)
      PROVE  \A f \in Families' : f \in Families \/ f = nextId
  BY <1>2 DEF LoginIssue, CreateRefreshToken, Families
<1>3. ASSUME NEW r \in Slot, RefreshRotate(r), StillCurrent(r)
      PROVE  \A f \in Families' : f \in Families \/ f = nextId
  <2> DEFINE new == Successor(req[r].row, nextId, req[r].time, req[r].time + TokenTTL, Origin(r))
  <2>1. RowRead(r)
    BY <1>3 DEF RefreshRotate, Is, IInv, RequestsRead, Reading
  <2>2. new.family \in Families
    BY <1>3, <2>1, SuccessorRow DEF StillCurrent, RowRead, Families
  <2>3. \A t \in tokens : [t EXCEPT !.replaced = req[r].time].family = t.family
    BY DEF IInv, IdsIssued, RowShape
  <2>4. \A t \in tokens' : t = new \/ \E u \in tokens : t \in {u, [u EXCEPT !.replaced = req[r].time]}
    BY <1>3 DEF RefreshRotate, Successor
  <2> HIDE DEF new
  <2>5. ASSUME NEW t \in tokens' PROVE t.family \in Families
    <3>1. CASE t = new
      BY <2>2, <3>1
    <3>2. CASE \E u \in tokens : t \in {u, [u EXCEPT !.replaced = req[r].time]}
      <4>1. PICK u \in tokens : t \in {u, [u EXCEPT !.replaced = req[r].time]}
        BY <3>2
      <4>2. t.family = u.family
        BY <2>3, <4>1
      <4> QED
        BY <4>2 DEF Families
    <3> QED
      BY <2>4, <3>1, <3>2
  <2> QED
    BY <2>5 DEF Families
<1>4. \/ RowsGone
      \/ \E r \in Slot : LoginIssue(r) \/ (RefreshRotate(r) /\ StillCurrent(r))
  <2>1. ASSUME NEW r \in Slot, LoginStep(r) PROVE RowsGone \/ LoginIssue(r)
    BY <2>1 DEF RowsGone, LoginStep, LoginStart, LoginVerify, LoginMint
  <2>2. ASSUME NEW r \in Slot, RefreshStep(r)
        PROVE  RowsGone \/ (RefreshRotate(r) /\ StillCurrent(r))
    <3>1. ASSUME NEW t \in tokens, RefreshRead(r, t) PROVE tokens' = tokens
      BY <3>1 DEF RefreshRead
    <3>2. CASE RefreshCheck(r)
      BY <3>2 DEF RefreshCheck, Revoked, RowsGone
    <3>3. CASE RefreshRotate(r)
      BY <3>3 DEF RefreshRotate, RowsGone
    <3>4. CASE RefreshGrant(r)
      BY <3>4 DEF RefreshGrant, RowsGone
    <3> QED
      BY <2>2, <3>1, <3>2, <3>3, <3>4 DEF RefreshStep, RowsGone
  <2>3. ASSUME NEW r \in Slot, ChangeStep(r) PROVE RowsGone
    BY <2>3 DEF RowsGone, ChangeStep, ChangeStart, ResetConsume, ResetFind, SetUserPassword, SetAdminPassword, RevokeAdminTokens
  <2>4. CASE \/ \E t \in tokens : Logout(t)
             \/ \E u \in Account : ForgotPassword(u)
             \/ ManageUsers \/ Tick \/ Restart
             \/ UNCHANGED vars
    BY <2>4 DEF RowsGone, Logout, Revoked, ForgotPassword, ManageUsers, CreateUser, UpdateUser, DeleteUser, Tick, Restart, vars
  <2> QED
    BY <2>1, <2>2, <2>3, <2>4 DEF Next
<1> QED
  BY <1>1, <1>2, <1>3, <1>4

(* A login that has ended does not come back, also when a refresh or a     *)
(* password change was under way (RotateRefreshToken's condition).         *)
THEOREM EndedForGood == Spec => EndedStaysEnded
<1>1. IInv /\ [Next]_vars => [\A f \in Families' : f \in Families \/ f = nextId]_vars
  BY FamiliesGrow
<1> QED
  BY <1>1, InitEstablishes, StepPreserves, PTL DEF Spec, EndedStaysEnded
-----------------------------------------------------------------------------
(* What a login gives stands as long as the account it was made to has the *)
(* address and has not changed.                                            *)
Stands(email, who, epoch) == who \in With(email) /\ epoch = account[who].epoch
UserOf(u) == IF u = Admin THEN None ELSE u

AccountShape(a) ==
  /\ a = [x \in DOMAIN a |-> a[x]] /\ DOMAIN a = {"live", "email", "role", "pass", "changed", "epoch"}
  /\ a.changed \in Nat

(* The address of an account that is there is its own. *)
AccountsInv ==
  /\ account = [u \in Account |-> account[u]]
  /\ \A u \in Account : AccountShape(account[u]) /\ account[u].changed <= now
  /\ \A u, v \in Account : account[u].live /\ account[v].live /\ account[u].email = account[v].email => u = v
  /\ account[Admin].live /\ account[Admin].email = AdminEmail

(* An access token of an earlier login was issued no later than the change.*)
BearerOk(b) ==
  /\ b.issued \in Nat /\ b.issued <= now
  /\ b.from.raced \/ Stands(b.email, b.from.who, b.from.epoch) \/ \A u \in With(b.email) : b.issued <= account[u].changed

(* A change deletes the refresh tokens of earlier logins; those of the     *)
(* administrator are deleted a step later, or refused for their time.      *)
TokenOk(t) ==
  /\ t.created \in Nat /\ t.created <= now
  /\ t.from = [x \in DOMAIN t.from |-> t.from[x]] /\ DOMAIN t.from = {"who", "epoch", "raced"}
  /\ \/ t.from.raced
     \/ Stands(t.email, t.from.who, t.from.epoch) /\ t.user = UserOf(t.from.who)
     \/ /\ t.email = AdminEmail /\ t.created <= account[Admin].changed
        /\ t.created = account[Admin].changed => AdminChanging(AdminEmail)

(* A request in flight that has looked an account up. *)
RequestOk(q) ==
  /\ q.at \in {"minting", "issuing", "rotating", "granting"} => q.raced \/ Stands(q.email, q.who, q.epoch)
  /\ q.at \in {"checking", "rotating"} =>
       /\ q.email = q.row.email
       /\ \/ q.raced
          \/ Stands(q.email, q.who, q.epoch) /\ q.row.user = UserOf(q.who)
          \/ /\ q.at = "checking" /\ q.email = AdminEmail
             /\ q.row.created \in Nat /\ q.row.created < account[Admin].changed
  /\ q.at = "rotating" => q.time \in Nat /\ q.time <= now

CInv == /\ AccountsInv
        /\ \A b \in bearer : BearerOk(b)
        /\ \A t \in tokens : TokenOk(t)
        /\ \A r \in Slot : RequestOk(req[r])

LEMMA InitStands == Init => CInv
<1> SUFFICES ASSUME Init PROVE CInv
  OBVIOUS
<1>1. PICK first \in User, email \in Email \ {AdminEmail}, role \in Role :
        account = [u \in Account |->
          IF u = Admin THEN [live |-> TRUE, email |-> AdminEmail, role |-> AdminRole, pass |-> 1, changed |-> 0, epoch |-> 1]
          ELSE IF u = first THEN [live |-> TRUE, email |-> email, role |-> role, pass |-> 1, changed |-> 0, epoch |-> 1]
          ELSE NoAccount]
  BY DEF Init
<1>2. tokens = {} /\ bearer = {} /\ now = 1 /\ req = [r \in Slot |-> Quiet]
  BY DEF Init
<1>3. AccountsInv
  <2>1. Admin \in Account /\ Admin # first /\ \A u \in Account : account[u].changed = 0
    BY <1>1, SessionsAssumption DEF Account, NoAccount
  <2>2. /\ account[Admin].live /\ account[Admin].email = AdminEmail /\ account[first].email = email
        /\ \A u \in Account : account[u].live => u \in {Admin, first}
    BY <1>1, <2>1 DEF Account, NoAccount
  <2>3. \A u \in Account : AccountShape(account[u])
    BY <1>1 DEF AccountShape, NoAccount
  <2>4. \A u \in Account : account[u].changed <= now
    BY <1>2, <2>1
  <2>5. account = [u \in Account |-> account[u]]
    BY <1>1
  <2>6. \A u, v \in Account : account[u].live /\ account[v].live /\ account[u].email = account[v].email => u = v
    BY <2>2
  <2> QED
    BY <2>2, <2>3, <2>4, <2>5, <2>6 DEF AccountsInv
<1>4. RequestOk(Quiet)
  BY DEF RequestOk, Quiet
<1> QED
  BY <1>2, <1>3, <1>4 DEF CInv

(* Steps that change no account. *)
LEMMA AccountsStay ==
  ASSUME CInv, account' = account, now \in Nat, now' \in {now, now + 1},
         \A b \in bearer' : b \in bearer \/ BearerOk(b)',
         \A t \in tokens' : \/ TokenOk(t)'
                            \/ t \in tokens /\ (AdminChanging(AdminEmail) => AdminChanging(AdminEmail)'),
         \A s \in Slot : req'[s] = req[s] \/ RequestOk(req[s])'
  PROVE  CInv'
<1>1. AccountsInv'
  <2>1. ASSUME NEW u \in Account PROVE account[u].changed <= now'
    <3>1. account[u].changed \in Nat /\ account[u].changed <= now
      BY DEF CInv, AccountsInv, AccountShape
    <3> QED
      BY <3>1
  <2> QED
    BY <2>1 DEF CInv, AccountsInv, AccountShape
<1>2. ASSUME NEW b \in bearer PROVE BearerOk(b)'
  <2>1. b.issued <= now'
    <3>1. b.issued \in Nat /\ b.issued <= now
      BY <1>2 DEF CInv, BearerOk
    <3> QED
      BY <3>1
  <2> QED
    BY <1>2, <2>1 DEF CInv, BearerOk, Stands, With
<1>3. ASSUME NEW t \in tokens, AdminChanging(AdminEmail) => AdminChanging(AdminEmail)'
      PROVE  TokenOk(t)'
  <2>1. t.created <= now'
    <3>1. t.created \in Nat /\ t.created <= now
      BY <1>3 DEF CInv, TokenOk
    <3> QED
      BY <3>1
  <2>2. TokenOk(t)
    BY <1>3 DEF CInv
  <2> QED
    BY <1>3, <2>1, <2>2 DEF TokenOk, Stands, With
<1>4. ASSUME NEW s \in Slot, req'[s] = req[s] PROVE RequestOk(req[s])'
  <2>1. RequestOk(req[s])
    BY DEF CInv
  <2>2. req[s].at = "rotating" => req[s].time <= now'
    <3>1. req[s].at = "rotating" => req[s].time \in Nat /\ req[s].time <= now
      BY <2>1 DEF RequestOk
    <3> QED
      BY <3>1
  <2> QED
    BY <1>4, <2>1, <2>2 DEF RequestOk, Stands, With
<1> QED
  BY <1>1, <1>2, <1>3, <1>4 DEF CInv

(* Steps of a single request that change no account. *)
LEMMA OneGoesOn ==
  ASSUME IInv, CInv, NEW r \in Slot, ~Is(r, "revoking"), account' = account, now' = now,
         \A b \in bearer' : b \in bearer \/ BearerOk(b)',
         \A t \in tokens' : t \in tokens \/ TokenOk(t)',
         \A s \in Slot \ {r} : req'[s] = req[s],
         RequestOk(req[r])'
  PROVE  CInv'
<1>1. AdminChanging(AdminEmail) => AdminChanging(AdminEmail)'
  BY DEF AdminChanging, Is
<1>2. now \in Nat /\ now' \in {now, now + 1}
  BY DEF IInv
<1> QED
  BY <1>1, <1>2, AccountsStay

LEMMA LoginStands ==
  ASSUME IInv, CInv, NEW r \in Slot, LoginStep(r)
  PROVE  CInv'
<1>1. req = [s \in Slot |-> req[s]] /\ RequestShape(req[r]) /\ RequestOk(req[r])
  BY DEF IInv, RequestsRead, CInv
<1>2. ASSUME NEW email, NEW pass, NEW source, LoginStart(r, email, pass, source)
      PROVE  CInv'
  <2>1. req'[r].at = "verifying" /\ \A s \in Slot \ {r} : req'[s] = req[s]
    BY <1>1, <1>2 DEF LoginStart, Quiet
  <2>2. RequestOk(req[r])'
    BY <2>1 DEF RequestOk
  <2> QED
    BY <1>2, <2>1, <2>2, OneGoesOn DEF LoginStart, Is
<1>3. CASE LoginVerify(r)
  <2>1. CASE End(r)
    <3>1. req'[r].at = "idle" /\ \A s \in Slot \ {r} : req'[s] = req[s]
      BY <1>1, <2>1 DEF End, Quiet
    <3>2. RequestOk(req[r])'
      BY <3>1 DEF RequestOk
    <3> QED
      BY <1>3, <3>1, <3>2, OneGoesOn DEF LoginVerify, Is
  <2>2. CASE ~End(r)
    <3>1. PICK u \in {v \in With(req[r].email) : account[v].pass = req[r].pass} :
               req' = [req EXCEPT ![r] = [@ EXCEPT !.at = "minting", !.role = account[u].role,
                                                   !.who = u, !.epoch = account[u].epoch]]
      BY <1>3, <2>2 DEF LoginVerify
    <3>2. req'[r] = [req[r] EXCEPT !.at = "minting", !.role = account[u].role, !.who = u, !.epoch = account[u].epoch]
      BY <1>1, <3>1
    <3>3. /\ req'[r].at = "minting" /\ req'[r].email = req[r].email /\ req'[r].who = u
          /\ req'[r].epoch = account[u].epoch
      BY <1>1, <3>2 DEF RequestShape
    <3>4. account' = account /\ u \in With(req[r].email)
      BY <1>3 DEF LoginVerify
    <3>5. RequestOk(req[r])'
      BY <3>3, <3>4 DEF RequestOk, Stands, With
    <3>6. \A s \in Slot \ {r} : req'[s] = req[s]
      BY <1>1, <3>1
    <3> QED
      BY <1>3, <3>5, <3>6, OneGoesOn DEF LoginVerify, Is
  <2> QED
    BY <2>1, <2>2
<1>4. CASE LoginMint(r)
  <2>1. req'[r] = [req[r] EXCEPT !.at = "issuing"] /\ \A s \in Slot \ {r} : req'[s] = req[s]
    BY <1>1, <1>4 DEF LoginMint, Goto
  <2>2. /\ req'[r].at = "issuing" /\ req'[r].email = req[r].email /\ req'[r].who = req[r].who
        /\ req'[r].epoch = req[r].epoch /\ req'[r].raced = req[r].raced
    BY <1>1, <2>1 DEF RequestShape
  <2>3. req[r].raced \/ Stands(req[r].email, req[r].who, req[r].epoch)
    BY <1>1, <1>4 DEF LoginMint, Is, RequestOk
  <2>4. account' = account /\ now' = now
    BY <1>4 DEF LoginMint
  <2>5. RequestOk(req[r])'
    BY <2>2, <2>3, <2>4 DEF RequestOk, Stands, With
  <2>6. ASSUME NEW b \in bearer', b \notin bearer PROVE BearerOk(b)'
    <3>1. b = [email |-> req[r].email, role |-> req[r].role, issued |-> now, from |-> Origin(r)]
      BY <1>4, <2>6 DEF LoginMint, Bearer
    <3> QED
      BY <2>3, <2>4, <3>1 DEF Origin, BearerOk, Stands, With, IInv
  <2> QED
    BY <1>4, <2>1, <2>4, <2>5, <2>6, OneGoesOn DEF LoginMint, Is
<1>5. CASE LoginIssue(r)
  <2>1. req'[r].at = "idle" /\ \A s \in Slot \ {r} : req'[s] = req[s]
    BY <1>1, <1>5 DEF LoginIssue, End, Quiet
  <2>2. RequestOk(req[r])'
    BY <2>1 DEF RequestOk
  <2>3. req[r].raced \/ Stands(req[r].email, req[r].who, req[r].epoch)
    BY <1>1, <1>5 DEF LoginIssue, Is, RequestOk
  <2>4. account' = account /\ now' = now /\ bearer' = bearer
    BY <1>5 DEF LoginIssue
  <2>5. ASSUME NEW t \in tokens', t \notin tokens PROVE TokenOk(t)'
    <3>1. PICK u \in With(req[r].email) :
            t = [id |-> nextId, family |-> nextId, email |-> req[r].email, role |-> req[r].role,
                 user |-> IF u = Admin THEN None ELSE u, created |-> now,
                 expires |-> now + TokenTTL, replaced |-> 0, from |-> Origin(r)]
      BY <1>5, <2>5 DEF LoginIssue, CreateRefreshToken
    <3>2. /\ t.email = req[r].email /\ t.user = UserOf(u) /\ t.created = now
          /\ t.from = [who |-> req[r].who, epoch |-> req[r].epoch, raced |-> req[r].raced]
      BY <3>1 DEF UserOf, Origin
    <3>3. req[r].who \in With(req[r].email) => u = req[r].who
      BY DEF With, CInv, AccountsInv
    <3> QED
      BY <2>3, <2>4, <3>2, <3>3 DEF TokenOk, Stands, With, IInv
  <2> QED
    BY <1>5, <2>1, <2>2, <2>4, <2>5, OneGoesOn DEF LoginIssue, Is
<1> QED
  BY <1>2, <1>3, <1>4, <1>5 DEF LoginStep

LEMMA RefreshStands ==
  ASSUME IInv, CInv, NEW r \in Slot, RefreshStep(r)
  PROVE  CInv'
<1>1. req = [s \in Slot |-> req[s]] /\ RequestShape(req[r]) /\ RequestOk(req[r])
  BY DEF IInv, RequestsRead, CInv
<1>2. ASSUME NEW t \in tokens, RefreshRead(r, t)
      PROVE  CInv'
  <2>1. /\ req'[r].at = "checking" /\ req'[r].email = t.email /\ req'[r].row = t
        /\ req'[r].who = t.from.who /\ req'[r].epoch = t.from.epoch
        /\ req'[r].raced = (t.from.raced \/ AdminChanging(t.email))
    BY <1>1, <1>2 DEF RefreshRead, Quiet
  <2>2. \A s \in Slot \ {r} : req'[s] = req[s]
    BY <1>1, <1>2 DEF RefreshRead
  <2>3. account' = account
    BY <1>2 DEF RefreshRead
  <2>4. TokenOk(t) /\ account[Admin].changed \in Nat
    BY DEF CInv, AccountsInv, AccountShape, Account
  <2>5. \/ req'[r].raced
        \/ Stands(req'[r].email, req'[r].who, req'[r].epoch) /\ t.user = UserOf(req'[r].who)
        \/ t.email = AdminEmail /\ t.created \in Nat /\ t.created < account[Admin].changed
    <3>1. t.from.raced => req'[r].raced
      BY <2>1
    <3>2. t.email = AdminEmail /\ AdminChanging(AdminEmail) => req'[r].raced
      BY <2>1
    <3>3. CASE t.email = AdminEmail /\ t.created < account[Admin].changed
      BY <2>4, <3>3 DEF TokenOk
    <3>4. CASE t.email = AdminEmail /\ t.created = account[Admin].changed /\ AdminChanging(AdminEmail)
      BY <3>2, <3>4
    <3>5. CASE t.from.raced
      BY <3>1, <3>5
    <3>6. CASE Stands(t.email, t.from.who, t.from.epoch) /\ t.user = UserOf(t.from.who)
      BY <2>1, <3>6
    <3>7. t.created \in Nat /\ t.created <= account[Admin].changed => t.created < account[Admin].changed \/ t.created = account[Admin].changed
      BY <2>4
    <3> QED
      BY <2>4, <3>3, <3>4, <3>5, <3>6, <3>7 DEF TokenOk
  <2>6. RequestOk(req[r])'
    BY <2>1, <2>3, <2>5 DEF RequestOk, Stands, With
  <2> QED
    BY <1>2, <2>2, <2>6, OneGoesOn DEF RefreshRead, Is
<1>3. CASE RefreshCheck(r)
  <2>1. tokens' \subseteq tokens
    BY <1>3 DEF RefreshCheck, Revoked
  <2>2. CASE End(r)
    <3>1. req'[r].at = "idle" /\ \A s \in Slot \ {r} : req'[s] = req[s]
      BY <1>1, <2>2 DEF End, Quiet
    <3>2. RequestOk(req[r])'
      BY <3>1 DEF RequestOk
    <3> QED
      BY <1>3, <2>1, <3>1, <3>2, OneGoesOn DEF RefreshCheck, Is
  <2>3. CASE ~End(r)
    <3>1. /\ ~EndsLogin(req[r].row)
          /\ req' = [req EXCEPT ![r].at = IF req[r].row.replaced = 0 THEN "rotating" ELSE "granting", ![r].time = now]
      BY <1>3, <2>3 DEF RefreshCheck
    <3>2. req'[r] = [req[r] EXCEPT !.at = IF req[r].row.replaced = 0 THEN "rotating" ELSE "granting", !.time = now]
      BY <1>1, <3>1
    <3>3. /\ req'[r].at \in {"rotating", "granting"} /\ req'[r].email = req[r].email /\ req'[r].who = req[r].who
          /\ req'[r].epoch = req[r].epoch /\ req'[r].raced = req[r].raced /\ req'[r].row = req[r].row
          /\ req'[r].time = now
      BY <1>1, <3>2 DEF RequestShape
    <3>4. \A s \in Slot \ {r} : req'[s] = req[s]
      BY <1>1, <3>1
    <3>5. account' = account /\ now' = now /\ now \in Nat
      BY <1>3 DEF RefreshCheck, IInv
    <3>6. ASSUME req[r].row.email = AdminEmail
          PROVE  ~ (req[r].row.created \in Nat /\ req[r].row.created < account[Admin].changed)
      <4>1. PICK u \in With(AdminEmail) : req[r].row.created >= account[u].changed
        BY <3>1, <3>6 DEF EndsLogin, ValidateSession
      <4>2. u = Admin /\ account[Admin].changed \in Nat
        BY DEF With, CInv, AccountsInv, AccountShape, Account
      <4> QED
        BY <4>1, <4>2
    <3>7. /\ req[r].email = req[r].row.email
          /\ req[r].raced \/ (Stands(req[r].email, req[r].who, req[r].epoch) /\ req[r].row.user = UserOf(req[r].who))
      BY <1>1, <1>3, <3>6 DEF RefreshCheck, Is, RequestOk
    <3>8. RequestOk(req[r])'
      BY <3>3, <3>5, <3>7 DEF RequestOk, Stands, With
    <3> QED
      BY <1>3, <2>1, <3>4, <3>8, OneGoesOn DEF RefreshCheck, Is
  <2> QED
    BY <2>2, <2>3
<1>4. CASE RefreshRotate(r)
  <2>1. req'[r] = [req[r] EXCEPT !.at = "granting"] /\ \A s \in Slot \ {r} : req'[s] = req[s]
    BY <1>1, <1>4 DEF RefreshRotate, Goto
  <2>2. /\ req'[r].at = "granting" /\ req'[r].email = req[r].email /\ req'[r].who = req[r].who
        /\ req'[r].epoch = req[r].epoch /\ req'[r].raced = req[r].raced
    BY <1>1, <2>1 DEF RequestShape
  <2>3. /\ req[r].email = req[r].row.email /\ req[r].time \in Nat /\ req[r].time <= now
        /\ req[r].raced \/ (Stands(req[r].email, req[r].who, req[r].epoch) /\ req[r].row.user = UserOf(req[r].who))
    BY <1>1, <1>4 DEF RefreshRotate, Is, RequestOk
  <2>4. account' = account /\ now' = now /\ bearer' = bearer
    BY <1>4 DEF RefreshRotate
  <2>5. RequestOk(req[r])'
    BY <2>2, <2>3, <2>4 DEF RequestOk, Stands, With
  <2>6. RowShape(req[r].row)
    BY <1>4 DEF RefreshRotate, Is, IInv, RequestsRead, Reading, RowRead
  <2>7. ASSUME NEW t \in tokens', t \notin tokens
        PROVE  TokenOk(t)'
    <3>1. \/ \E u \in tokens : t = [u EXCEPT !.replaced = req[r].time]
          \/ t = Successor(req[r].row, nextId, req[r].time, req[r].time + TokenTTL, Origin(r))
      BY <1>4, <2>7 DEF RefreshRotate, Successor
    <3>2. ASSUME NEW u \in tokens, t = [u EXCEPT !.replaced = req[r].time]
          PROVE  TokenOk(t)'
      <4>1. TokenOk(u) /\ RowShape(u)
        BY DEF IInv, IdsIssued, CInv
      <4>2. t.email = u.email /\ t.user = u.user /\ t.created = u.created /\ t.from = u.from
        BY <3>2, <4>1 DEF RowShape
      <4>3. AdminChanging(AdminEmail) => AdminChanging(AdminEmail)'
        BY <1>4, <2>1 DEF AdminChanging, Is, RefreshRotate
      <4> QED
        BY <2>4, <4>1, <4>2, <4>3 DEF TokenOk, Stands, With
    <3>3. CASE t = Successor(req[r].row, nextId, req[r].time, req[r].time + TokenTTL, Origin(r))
      <4>1. t.email = req[r].row.email /\ t.user = req[r].row.user /\ t.created = req[r].time /\ t.from = Origin(r)
        BY <2>6, <3>3 DEF Successor, RowShape
      <4>2. t.from = [who |-> req[r].who, epoch |-> req[r].epoch, raced |-> req[r].raced]
        BY <4>1 DEF Origin
      <4> QED
        BY <2>3, <2>4, <4>1, <4>2 DEF TokenOk, Stands, With
    <3> QED
      BY <3>1, <3>2, <3>3
  <2> QED
    BY <1>4, <2>1, <2>4, <2>5, <2>7, OneGoesOn DEF RefreshRotate, Is
<1>5. CASE RefreshGrant(r)
  <2>1. req'[r].at = "idle" /\ \A s \in Slot \ {r} : req'[s] = req[s]
    BY <1>1, <1>5 DEF RefreshGrant, End, Quiet
  <2>2. RequestOk(req[r])'
    BY <2>1 DEF RequestOk
  <2>3. req[r].raced \/ Stands(req[r].email, req[r].who, req[r].epoch)
    BY <1>1, <1>5 DEF RefreshGrant, Is, RequestOk
  <2>4. account' = account /\ now' = now
    BY <1>5 DEF RefreshGrant
  <2>5. ASSUME NEW b \in bearer', b \notin bearer PROVE BearerOk(b)'
    <3>1. b = [email |-> req[r].email, role |-> req[r].role, issued |-> now, from |-> Origin(r)]
      BY <1>5, <2>5 DEF RefreshGrant, Bearer
    <3> QED
      BY <2>3, <2>4, <3>1 DEF Origin, BearerOk, Stands, With, IInv
  <2> QED
    BY <1>5, <2>1, <2>2, <2>4, <2>5, OneGoesOn DEF RefreshGrant, Is
<1> QED
  BY <1>2, <1>3, <1>4, <1>5 DEF RefreshStep

(* A request that an account change overtakes is marked. *)
LEMMA OvertakenStands ==
  ASSUME NEW q, NEW n, RequestShape(q), RequestOk(q), n = [q EXCEPT !.raced = TRUE], now' = now
  PROVE  RequestOk(n)'
<1>2. n.at = q.at /\ n.email = q.email /\ n.row = q.row /\ n.time = q.time /\ n.raced
  BY DEF RequestShape
<1> QED
  BY <1>2 DEF RequestOk

(* The refresh tokens of the administrator after the step that revokes     *)
(* them, or fails to.                                                      *)
LEMMA AdminTokensStand ==
  ASSUME IInv, CInv, account' = account, now' = now,
         tokens' = {t \in tokens : t.email # AdminEmail} \/ KeepAdminTokens
  PROVE  \A t \in tokens' : TokenOk(t)'
<1>1. account[Admin].changed \in Nat
  BY DEF CInv, AccountsInv, AccountShape, Account
<1>2. ASSUME NEW t \in tokens, ~Spared(t)
      PROVE  TokenOk(t)'
  <2>1. TokenOk(t)
    BY DEF CInv
  <2>2. t.email = AdminEmail => t.created < account[Admin].changed
    <3>1. t.created \in Nat
      BY <2>1 DEF TokenOk
    <3> QED
      BY <1>1, <1>2, <3>1 DEF Spared
  <2> QED
    BY <1>1, <2>1, <2>2 DEF TokenOk, Stands, With
<1>3. ASSUME NEW t \in tokens, NEW n, n = [t EXCEPT !.from.raced = TRUE]
      PROVE  TokenOk(n)'
  <2>1. TokenOk(t) /\ RowShape(t)
    BY DEF CInv, IInv, IdsIssued
  <2>2. n.created = t.created /\ n.from = [t.from EXCEPT !.raced = TRUE]
    BY <1>3, <2>1 DEF RowShape
  <2>3. n.from = [x \in DOMAIN n.from |-> n.from[x]] /\ DOMAIN n.from = {"who", "epoch", "raced"} /\ n.from.raced
    BY <2>1, <2>2 DEF TokenOk
  <2> QED
    BY <2>1, <2>2, <2>3 DEF TokenOk
<1>4. CASE tokens' = {t \in tokens : t.email # AdminEmail}
  BY <1>2, <1>4 DEF Spared
<1>5. CASE KeepAdminTokens
  BY <1>2, <1>3, <1>5 DEF KeepAdminTokens
<1> QED
  BY <1>4, <1>5

LEMMA ChangeStands ==
  ASSUME IInv, CInv, NEW r \in Slot,
         \/ \E b \in bearer : ChangeStart(r, b)
         \/ \E l \in links : ResetConsume(r, l)
         \/ ResetFind(r)
         \/ SetUserPassword(r) /\ With(req[r].email) = {}
         \/ RevokeAdminTokens(r)
  PROVE  CInv'
<1>1. req = [s \in Slot |-> req[s]]
  BY DEF IInv, RequestsRead
<1>3. ASSUME ~Is(r, "revoking"), account' = account, now' = now, bearer' = bearer, tokens' = tokens,
             \A s \in Slot \ {r} : req'[s] = req[s], req'[r].at \in {"idle", "setting", "resetting"}
      PROVE  CInv'
  <2>1. RequestOk(req[r])'
    BY <1>3 DEF RequestOk
  <2> QED
    BY <1>3, <2>1, OneGoesOn
<1>4. ASSUME NEW b \in bearer, ChangeStart(r, b)
      PROVE  CInv'
  <2>1. req'[r].at = "setting" /\ \A s \in Slot \ {r} : req'[s] = req[s]
    BY <1>1, <1>4 DEF ChangeStart, Quiet
  <2> QED
    BY <1>3, <1>4, <2>1 DEF ChangeStart, Is
<1>5. ASSUME NEW l \in links, ResetConsume(r, l)
      PROVE  CInv'
  <2>1. req'[r].at = "resetting" /\ \A s \in Slot \ {r} : req'[s] = req[s]
    BY <1>1, <1>5 DEF ResetConsume, Quiet
  <2> QED
    BY <1>3, <1>5, <2>1 DEF ResetConsume, Is
<1>6. CASE ResetFind(r)
  <2>1. req'[r].at \in {"idle", "setting"} /\ \A s \in Slot \ {r} : req'[s] = req[s]
    <3>1. CASE End(r)
      BY <1>1, <3>1 DEF End, Quiet
    <3>2. CASE ~End(r)
      <4>1. req' = [req EXCEPT ![r] = [Quiet EXCEPT !.at = "setting", !.email = account[req[r].who].email]]
        BY <1>6, <3>2 DEF ResetFind
      <4> QED
        BY <1>1, <4>1 DEF Quiet
    <3> QED
      BY <3>1, <3>2
  <2> QED
    BY <1>3, <1>6, <2>1 DEF ResetFind, Is
<1>7. CASE SetUserPassword(r) /\ With(req[r].email) = {}
  <2>1. req'[r].at = "idle" /\ \A s \in Slot \ {r} : req'[s] = req[s]
    BY <1>1, <1>7 DEF SetUserPassword, End, Quiet
  <2> QED
    BY <1>3, <1>7, <2>1 DEF SetUserPassword, Is
<1>8. CASE RevokeAdminTokens(r)
  <2>1. account' = account /\ now' = now /\ now \in Nat /\ bearer' = bearer
    BY <1>8 DEF RevokeAdminTokens, IInv
  <2>2. \A t \in tokens' : TokenOk(t)'
    BY <1>8, <2>1, AdminTokensStand DEF RevokeAdminTokens
  <2>3. ASSUME NEW s \in Slot PROVE req'[s] = req[s] \/ RequestOk(req[s])'
    <3>1. req'[s] \in {Quiet, req[s], [req[s] EXCEPT !.raced = TRUE]}
      BY <1>8 DEF RevokeAdminTokens, Overtaken
    <3>2. CASE req'[s] = [req[s] EXCEPT !.raced = TRUE]
      <4>1. RequestShape(req[s]) /\ RequestOk(req[s])
        BY DEF IInv, RequestsRead, CInv
      <4> QED
        BY <2>1, <3>2, <4>1, OvertakenStands
    <3>3. CASE req'[s] = Quiet
      BY <3>3 DEF RequestOk, Quiet
    <3> QED
      BY <3>1, <3>2, <3>3
  <2> QED
    BY <2>1, <2>2, <2>3, AccountsStay
<1> QED
  BY <1>4, <1>5, <1>6, <1>7, <1>8

(* What a change of an account makes of it. *)
LEMMA ChangedAccount ==
  ASSUME AccountsInv, NEW u \in Account, now \in Nat
  PROVE  LET a == Changed(account[u]) IN
         /\ AccountShape(a) /\ a.changed = now /\ a.live = account[u].live /\ a.email = account[u].email
BY DEF AccountsInv, AccountShape, Changed

(* An account changes: its address is that of no other, and the time of    *)
(* the change is kept.                                                     *)
LEMMA AccountsInvKept ==
  ASSUME AccountsInv, now \in Nat, now' = now, NEW u \in Account, NEW a,
         account' = [account EXCEPT ![u] = a],
         AccountShape(a), a.changed = now,
         a.live => With(a.email) \subseteq {u},
         u = Admin => a.live /\ a.email = AdminEmail
  PROVE  AccountsInv'
<1>1. account'[u] = a /\ \A v \in Account \ {u} : account'[v] = account[v]
  BY DEF AccountsInv
<1>2. account' = [v \in Account |-> account'[v]]
  BY DEF AccountsInv
<1>3. \A v \in Account : AccountShape(account'[v]) /\ account'[v].changed <= now
  BY <1>1 DEF AccountsInv, AccountShape
<1>4. ASSUME NEW v \in Account, NEW w \in Account, account'[v].live, account'[w].live,
             account'[v].email = account'[w].email
      PROVE  v = w
  BY <1>1, <1>4 DEF AccountsInv, With
<1>5. account'[Admin].live /\ account'[Admin].email = AdminEmail
  BY <1>1 DEF AccountsInv, Account
<1> QED
  BY <1>2, <1>3, <1>4, <1>5 DEF AccountsInv, AccountShape

(* The step in which an account changes leaves no token of an earlier      *)
(* login to it, and marks the requests that are in flight.                 *)
LEMMA AccountChanges ==
  ASSUME IInv, CInv, AccountsInv', now' = now, bearer' = bearer, tokens' \subseteq tokens,
         NEW u \in Account, account'[u].changed = now,
         \A v \in Account \ {u} : account'[v] = account[v],
         NEW emails, account[u].live => account[u].email \in emails,
         \A s \in Slot : \/ RequestOk(req[s])'
                         \/ req[s].email \notin emails /\ req'[s] = req[s]
                         \/ req'[s] = [req[s] EXCEPT !.raced = TRUE],
         u = Admin => AdminChanging(AdminEmail)',
         u # Admin /\ account[u].live => \A t \in tokens' : ~ (t.user = u /\ t.email = account[u].email),
         AdminChanging(AdminEmail) => AdminChanging(AdminEmail)'
  PROVE  CInv'
<1>1. now \in Nat /\ account[u].changed \in Nat
  BY DEF IInv, CInv, AccountsInv, AccountShape
<1>2. ASSUME NEW email, NEW who, NEW epoch, Stands(email, who, epoch), who # u
      PROVE  Stands(email, who, epoch)'
  BY <1>2 DEF Stands, With
<1>3. ASSUME NEW b \in bearer PROVE BearerOk(b)'
  <2>1. BearerOk(b)
    BY DEF CInv
  <2>2. CASE b.from.raced \/ (Stands(b.email, b.from.who, b.from.epoch) /\ b.from.who # u)
    BY <1>2, <2>1, <2>2 DEF BearerOk
  <2>3. CASE Stands(b.email, u, b.from.epoch)
    <3>1. \A v \in With(b.email)' : v = u
      BY <2>3 DEF Stands, With, CInv, AccountsInv
    <3> QED
      BY <2>1, <3>1 DEF BearerOk
  <2>4. CASE \A v \in With(b.email) : b.issued <= account[v].changed
    <3>1. ASSUME NEW v \in With(b.email)' PROVE b.issued <= account'[v].changed
      BY <2>1, <2>4 DEF BearerOk, With
    <3> QED
      BY <2>1, <3>1 DEF BearerOk
  <2> QED
    BY <2>1, <2>2, <2>3, <2>4 DEF BearerOk
<1>4. ASSUME NEW t \in tokens' PROVE TokenOk(t)'
  <2>1. TokenOk(t)
    BY DEF CInv
  <2>2. CASE t.from.raced
    BY <2>1, <2>2 DEF TokenOk
  <2>3. CASE Stands(t.email, t.from.who, t.from.epoch) /\ t.user = UserOf(t.from.who) /\ t.from.who # u
    BY <1>2, <2>1, <2>3 DEF TokenOk
  <2>4. CASE Stands(t.email, u, t.from.epoch) /\ t.user = UserOf(u)
    <3>1. u = Admin
      BY <2>4 DEF UserOf, Stands, With
    <3>2. t.email = AdminEmail /\ t.created \in Nat /\ t.created <= account'[Admin].changed
      BY <2>1, <2>4, <3>1 DEF Stands, With, CInv, AccountsInv, TokenOk
    <3> QED
      BY <2>1, <3>1, <3>2 DEF TokenOk
  <2>5. CASE /\ t.email = AdminEmail /\ t.created <= account[Admin].changed
             /\ t.created = account[Admin].changed => AdminChanging(AdminEmail)
    <3>1. CASE u = Admin
      BY <2>1, <2>5, <3>1 DEF TokenOk
    <3>2. CASE u # Admin
      <4>1. account'[Admin] = account[Admin]
        BY <3>2 DEF Account
      <4> QED
        BY <2>1, <2>5, <4>1 DEF TokenOk
    <3> QED
      BY <3>1, <3>2
  <2> QED
    BY <2>1, <2>2, <2>3, <2>4, <2>5 DEF TokenOk
<1>5. ASSUME NEW s \in Slot PROVE RequestOk(req[s])'
  <2>1. RequestShape(req[s]) /\ RequestOk(req[s])
    BY DEF IInv, RequestsRead, CInv
  <2>2. CASE req'[s] = [req[s] EXCEPT !.raced = TRUE]
    BY <2>1, <2>2, OvertakenStands
  <2>3. CASE req[s].email \notin emails /\ req'[s] = req[s]
    <3>1. PICK q : q = req[s]
      OBVIOUS
    <3>2. Stands(q.email, q.who, q.epoch) => Stands(q.email, q.who, q.epoch)'
      <4>1. q.who = u /\ Stands(q.email, q.who, q.epoch) => FALSE
        BY <2>3, <3>1 DEF Stands, With
      <4> QED
        BY <1>2, <4>1
    <3>3. q.email = AdminEmail => account'[Admin] = account[Admin]
      BY <2>3, <3>1 DEF CInv, AccountsInv, Account
    <3>4. RequestOk(q)'
      BY <2>1, <3>1, <3>2, <3>3 DEF RequestOk
    <3> QED
      BY <2>3, <3>1, <3>4
  <2> QED
    BY <2>2, <2>3
<1> QED
  BY <1>3, <1>4, <1>5 DEF CInv

LEMMA PasswordStands ==
  ASSUME IInv, CInv, NEW r \in Slot,
         (SetUserPassword(r) /\ With(req[r].email) # {}) \/ SetAdminPassword(r)
  PROVE  CInv'
<1>1. PICK u \in Account : /\ NewPassword(u) /\ account[u].live /\ account[u].email = req[r].email
                           /\ u = Admin <=> req[r].email = AdminEmail
  <2>1. CASE SetUserPassword(r) /\ With(req[r].email) # {}
    BY <2>1 DEF SetUserPassword, With, CInv, AccountsInv
  <2>2. CASE SetAdminPassword(r)
    BY <2>2 DEF SetAdminPassword, CInv, AccountsInv, Account
  <2> QED
    BY <2>1, <2>2
<1>2. now \in Nat /\ now' = now /\ bearer' = bearer
  BY DEF SetUserPassword, SetAdminPassword, IInv
<1>3. AccountsInv' /\ account'[u].changed = now /\ \A v \in Account \ {u} : account'[v] = account[v]
  <2> DEFINE c == Changed(account[u])
             a == [c EXCEPT !.pass = @ + 1]
  <2>1. AccountShape(c) /\ c.changed = now /\ c.live = account[u].live /\ c.email = account[u].email
    BY <1>2, ChangedAccount DEF CInv
  <2>2. account' = [account EXCEPT ![u] = a]
    BY <1>1 DEF NewPassword
  <2> HIDE DEF c
  <2>3. AccountShape(a) /\ a.changed = now /\ a.live = account[u].live /\ a.email = account[u].email
    BY <2>1 DEF AccountShape
  <2> HIDE DEF a
  <2>4. With(a.email) \subseteq {u}
    BY <1>1, <2>3 DEF With, CInv, AccountsInv
  <2>5. AccountsInv'
    BY <1>1, <1>2, <2>2, <2>3, <2>4, AccountsInvKept DEF CInv
  <2> QED
    BY <2>2, <2>3, <2>5 DEF CInv, AccountsInv
<1>4. PICK then : /\ Overtaken({req[r].email}, r, then)
                  /\ then.at = IF SetAdminPassword(r) THEN "revoking" ELSE "idle"
  <2>1. CASE SetAdminPassword(r)
    <3> DEFINE q == [Quiet EXCEPT !.at = "revoking", !.email = AdminEmail]
    <3>1. Overtaken({req[r].email}, r, q)
      BY <2>1 DEF SetAdminPassword
    <3>2. q.at = "revoking"
      BY DEF Quiet
    <3> HIDE DEF q
    <3> QED
      BY <2>1, <3>1, <3>2
  <2>2. CASE ~SetAdminPassword(r)
    <3>1. Overtaken({req[r].email}, r, Quiet)
      BY <2>2 DEF SetUserPassword
    <3>2. Quiet.at = "idle"
      BY DEF Quiet
    <3> QED
      BY <2>2, <3>1, <3>2
  <2> QED
    BY <2>1, <2>2
<1>5. /\ req'[r] = then
      /\ \A s \in Slot \ {r} : \/ req[s].email \notin {req[r].email} /\ req'[s] = req[s]
                               \/ req'[s] = [req[s] EXCEPT !.raced = TRUE]
  BY <1>4 DEF Overtaken
<1>6. RequestOk(req[r])'
  BY <1>4, <1>5 DEF RequestOk
<1>7. \A s \in Slot \ {r} : req'[s].at = req[s].at
  BY <1>5 DEF IInv, RequestsRead, RequestShape
<1>8. req[r].at = "setting"
  BY DEF SetUserPassword, SetAdminPassword, Is
<1>9. AdminChanging(AdminEmail) => AdminChanging(AdminEmail)'
  BY <1>7, <1>8 DEF AdminChanging, Is
<1>10. u = Admin => AdminChanging(AdminEmail)'
  BY <1>1, <1>4, <1>5 DEF SetUserPassword, AdminChanging, Is
<1>11. /\ tokens' \subseteq tokens
       /\ u # Admin => \A t \in tokens' : ~ (t.user = u /\ t.email = account[u].email)
  BY <1>1 DEF SetUserPassword, SetAdminPassword
<1>12. PICK emails : emails = {req[r].email}
  OBVIOUS
<1>13. \A s \in Slot : \/ RequestOk(req[s])'
                       \/ req[s].email \notin emails /\ req'[s] = req[s]
                       \/ req'[s] = [req[s] EXCEPT !.raced = TRUE]
  <2>1. TAKE s \in Slot
  <2>2. CASE s = r
    BY <1>6, <2>2
  <2>3. CASE s # r
    BY <1>5, <1>12, <2>3
  <2> QED
    BY <2>2, <2>3
<1>14. account[u].live => account[u].email \in emails
  BY <1>1, <1>12
<1> QED
  BY <1>2, <1>3, <1>9, <1>10, <1>11, <1>13, <1>14, AccountChanges

(* An administrator makes, changes or deletes an account. *)
LEMMA ManageStands ==
  ASSUME IInv, CInv, ManageUsers
  PROVE  CInv'
<1>1. now \in Nat /\ now' = now /\ bearer' = bearer
  BY DEF ManageUsers, CreateUser, UpdateUser, DeleteUser, IInv
<1>2. ASSUME NEW u \in User, NEW a, NEW emails, account' = [account EXCEPT ![u] = a],
             AccountShape(a), a.changed = now, a.live => With(a.email) \subseteq {u},
             Overtaken(emails, None, Quiet), account[u].live => account[u].email \in emails,
             tokens' \subseteq tokens, account[u].live => \A t \in tokens' : t.user # u
      PROVE  CInv'
  <2>1. u \in Account /\ u # Admin
    BY SessionsAssumption DEF Account
  <2>2. AccountsInv' /\ account'[u].changed = now /\ \A v \in Account \ {u} : account'[v] = account[v]
    BY <1>1, <1>2, <2>1, AccountsInvKept DEF CInv, AccountsInv
  <2>3. \A s \in Slot : \/ req[s].email \notin emails /\ req'[s] = req[s]
                        \/ req'[s] = [req[s] EXCEPT !.raced = TRUE]
    BY <1>2, SessionsAssumption DEF Overtaken
  <2>4. \A s \in Slot : req'[s].at = req[s].at
    BY <2>3 DEF IInv, RequestsRead, RequestShape
  <2>5. AdminChanging(AdminEmail) => AdminChanging(AdminEmail)'
    BY <2>4 DEF AdminChanging, Is
  <2> QED
    BY <1>1, <1>2, <2>1, <2>2, <2>3, <2>5, AccountChanges
<1>3. ASSUME NEW u \in User, NEW email \in Email, NEW role \in Role, CreateUser(u, email, role)
      PROVE  CInv'
  <2> DEFINE a == [live |-> TRUE, email |-> email, role |-> role, pass |-> 1, changed |-> now, epoch |-> 1]
  <2>1. account' = [account EXCEPT ![u] = a] /\ tokens' = tokens /\ Overtaken({email}, None, Quiet)
    BY <1>3 DEF CreateUser
  <2>2. AccountShape(a) /\ a.changed = now /\ With(a.email) \subseteq {u}
    BY <1>1, <1>3 DEF CreateUser, Available, AccountShape
  <2>3. ~account[u].live
    BY <1>3 DEF CreateUser, NoAccount
  <2> QED
    BY <1>2, <2>1, <2>2, <2>3
<1>4. ASSUME NEW u \in User, NEW email \in Email, NEW role \in Role, UpdateUser(u, email, role)
      PROVE  CInv'
  <2> DEFINE c == Changed(account[u])
             a == [c EXCEPT !.email = email, !.role = role]
  <2>1. account' = [account EXCEPT ![u] = a]
    BY <1>4 DEF UpdateUser
  <2>2. AccountShape(c) /\ c.changed = now
    BY <1>1, ChangedAccount DEF CInv, Account
  <2> HIDE DEF c
  <2>3. AccountShape(a) /\ a.changed = now /\ a.email = email
    BY <2>2 DEF AccountShape
  <2> HIDE DEF a
  <2>4. /\ Overtaken({email, account[u].email}, None, Quiet) /\ With(a.email) \subseteq {u}
        /\ tokens' \subseteq tokens /\ \A t \in tokens' : t.user # u
    BY <1>4, <2>3 DEF UpdateUser, Available
  <2> QED
    BY <1>2, <2>1, <2>3, <2>4
<1>5. ASSUME NEW u \in User, DeleteUser(u)
      PROVE  CInv'
  <2> DEFINE c == Changed(account[u])
             a == [c EXCEPT !.live = FALSE]
  <2>1. account' = [account EXCEPT ![u] = a]
    BY <1>5 DEF DeleteUser
  <2>2. AccountShape(c) /\ c.changed = now
    BY <1>1, ChangedAccount DEF CInv, Account
  <2> HIDE DEF c
  <2>3. AccountShape(a) /\ a.changed = now /\ ~a.live
    BY <2>2 DEF AccountShape
  <2> HIDE DEF a
  <2>4. /\ Overtaken({account[u].email}, None, Quiet)
        /\ tokens' \subseteq tokens /\ \A t \in tokens' : t.user # u
    BY <1>5 DEF DeleteUser
  <2> QED
    BY <1>2, <2>1, <2>3, <2>4
<1> QED
  BY <1>3, <1>4, <1>5 DEF ManageUsers

LEMMA OtherStands ==
  ASSUME IInv, CInv,
         \/ \E t \in tokens : Logout(t)
         \/ \E u \in Account : ForgotPassword(u)
         \/ Tick \/ Restart
         \/ UNCHANGED vars
  PROVE  CInv'
<1>1. now \in Nat
  BY DEF IInv
<1>2. CASE Restart
  <2>1. account' = account /\ now' = now /\ bearer' = bearer /\ req' = [s \in Slot |-> Quiet]
    BY <1>2 DEF Restart
  <2>2. \A s \in Slot : RequestOk(req[s])'
    BY <2>1 DEF RequestOk, Quiet
  <2>3. \A t \in tokens' : \/ TokenOk(t)'
                           \/ t \in tokens /\ (AdminChanging(AdminEmail) => AdminChanging(AdminEmail)')
    BY <1>2, <2>1, AdminTokensStand DEF Restart
  <2> QED
    BY <1>1, <2>1, <2>2, <2>3, AccountsStay
<1>3. CASE ~Restart
  <2>1. account' = account /\ now' \in {now, now + 1} /\ bearer' \subseteq bearer /\ req' = req /\ tokens' \subseteq tokens
    BY <1>3 DEF Logout, Revoked, ForgotPassword, Tick, vars
  <2>2. AdminChanging(AdminEmail) => AdminChanging(AdminEmail)'
    BY <2>1 DEF AdminChanging, Is
  <2> QED
    BY <1>1, <2>1, <2>2, AccountsStay
<1> QED
  BY <1>2, <1>3

LEMMA StepStands == IInv /\ CInv /\ [Next]_vars => CInv'
<1> SUFFICES ASSUME IInv, CInv, [Next]_vars PROVE CInv'
  OBVIOUS
<1>1. ASSUME NEW r \in Slot, ChangeStep(r) PROVE CInv'
  BY <1>1, ChangeStands, PasswordStands DEF ChangeStep
<1> QED
  BY <1>1, LoginStands, RefreshStands, ManageStands, OtherStands DEF Next

LEMMA StandsSuffices == CInv => ChangeEndsLogins
<1> SUFFICES ASSUME CInv PROVE ChangeEndsLogins
  OBVIOUS
<1>1. \A u \in Account : account[u].changed \in Nat
  BY DEF CInv, AccountsInv, AccountShape
<1>2. ASSUME NEW b \in bearer, Accepted(b)
      PROVE  UpToDate(b.email, b.from) \/ SameSecond(b.email, b.issued)
  <2>1. BearerOk(b)
    BY DEF CInv
  <2>2. PICK u \in With(b.email) : b.issued >= account[u].changed
    BY <1>2 DEF Accepted, ValidateSession
  <2>3. CASE b.issued <= account[u].changed
    <3>1. b.issued \in Nat /\ account[u].changed \in Nat
      BY <1>1, <2>1 DEF BearerOk, With
    <3>2. b.issued = account[u].changed
      BY <2>2, <2>3, <3>1
    <3> QED
      BY <3>2 DEF SameSecond
  <2> QED
    BY <2>1, <2>3 DEF BearerOk, Stands, UpToDate
<1>3. ASSUME NEW t \in tokens, ~EndsLogin(t)
      PROVE  UpToDate(t.email, t.from) \/ SameSecond(t.email, t.created)
  <2>1. TokenOk(t)
    BY DEF CInv
  <2>2. CASE t.email = AdminEmail /\ t.created <= account[Admin].changed
    <3>1. PICK u \in With(AdminEmail) : t.created >= account[u].changed
      BY <1>3, <2>2 DEF EndsLogin, ValidateSession
    <3>2. u = Admin
      BY DEF With, CInv, AccountsInv, Account
    <3>3. t.created \in Nat /\ account[Admin].changed \in Nat
      BY <1>1, <2>1 DEF TokenOk, Account
    <3>4. account[Admin].changed = t.created
      BY <2>2, <3>1, <3>2, <3>3
    <3> QED
      BY <2>2, <3>1, <3>2, <3>4 DEF SameSecond
  <2> QED
    BY <2>1, <2>2 DEF TokenOk, Stands, UpToDate
<1> QED
  BY <1>2, <1>3 DEF ChangeEndsLogins

(* "Deleted users, changed roles and password changes end the login": what *)
(* is accepted comes from a login to the account as it is now, but for the *)
(* exceptions that ChangeEndsLogins names (ValidateSession,                *)
(* revokeAdminRefreshTokens).                                              *)
THEOREM ChangesEnd == Spec => []ChangeEndsLogins
<1>1. Init => IInv /\ CInv
  BY InitEstablishes, InitStands
<1>2. IInv /\ CInv /\ [Next]_vars => IInv' /\ CInv'
  BY StepPreserves, StepStands
<1> QED
  BY <1>1, <1>2, StandsSuffices, PTL DEF Spec
-----------------------------------------------------------------------------
(* Guessing.  What is waiting to be verified can fail this second, so the  *)
(* failures counted must have taken long enough for these as well; and the *)
(* lockout of the last one ends late enough for the next attempt to begin. *)
Guessing(e) == {r \in Slot : req[r].at = "verifying" /\ req[r].email = e}
FailShape(f) ==
  /\ f = [x \in DOMAIN f |-> f[x]] /\ DOMAIN f = {"n", "last", "until", "since"}
  /\ f.n \in Nat /\ f.last \in Nat /\ f.until \in Nat /\ f.since \in Nat
Paced(e, f, waiting, time) ==
  f.n # 0 =>
    /\ time - f.since >= MinTime[f.n + waiting]
    /\ f.n >= AccountThreshold => f.until - f.since >= MinTime[f.n] + Lockout(f.n, AccountThreshold)
GInv ==
  /\ fails = [k \in Email \cup Source |-> fails[k]]
  /\ \A k \in Email \cup Source : FailShape(fails[k])
  /\ \A r \in Slot : req[r].at = "verifying" => req[r].source \in Source
  /\ \A e \in Email : Paced(e, fails[e], Cardinality(Guessing(e)), now)
-----------------------------------------------------------------------------
(* Lockouts are numbers, and later ones of a row are as long at least.     *)
LEMMA LockoutGrows ==
  ASSUME NEW first \in Nat, NEW n \in Nat, NEW m \in Nat, first <= n, n <= m
  PROVE  Lockout(n, first) \in Nat /\ Lockout(n, first) <= Lockout(m, first)
<1>1. BaseLockout \in Nat /\ MaxLockout \in Nat
  BY SessionsAssumption
<1> DEFINE i == n - first
           j == m - first
           p == BaseLockout * 2 ^ i
           q == BaseLockout * 2 ^ j
<1>2. i \in Nat /\ j \in Nat /\ i <= j
  BY <1>1
<1> DEFINE pow(x) == 2 ^ x
           Powers == {1, 2, 4, 8, 16, 32, 64, 128, 256, 512}
<1>3. /\ pow(0) = 1 /\ pow(1) = 2 /\ pow(2) = 4 /\ pow(3) = 8 /\ pow(4) = 16
      /\ pow(5) = 32 /\ pow(6) = 64 /\ pow(7) = 128 /\ pow(8) = 256 /\ pow(9) = 512
  OBVIOUS
<1> HIDE DEF pow
<1>4. ASSUME NEW x \in Nat, x < 10
      PROVE  pow(x) \in Powers /\ \A y \in Nat : x <= y /\ y < 10 => pow(x) <= pow(y)
  <2> SUFFICES ASSUME NEW y \in Nat, x <= y, y < 10
               PROVE  pow(x) \in Powers /\ pow(x) <= pow(y)
    BY <1>4
  <2>1. x \in {0, 1, 2, 3, 4, 5, 6, 7, 8, 9} /\ y \in {0, 1, 2, 3, 4, 5, 6, 7, 8, 9}
    BY <1>4
  <2> QED
    BY <1>3, <2>1
<1> HIDE DEF i, j
<1>5. j < 10 => pow(i) \in Nat /\ pow(j) \in Nat /\ pow(i) <= pow(j)
  BY <1>2, <1>4
<1>6. i < 10 => p \in Nat
  <2>1. i < 10 => pow(i) \in Nat
    BY <1>2, <1>4
  <2> QED
    BY <1>1, <2>1 DEF pow
<1>7. j < 10 => p <= q /\ q \in Nat
  <2> SUFFICES ASSUME j < 10 PROVE p <= q /\ q \in Nat
    OBVIOUS
  <2> DEFINE x == 2 ^ i
             y == 2 ^ j
  <2>1. x \in Nat /\ y \in Nat /\ x <= y
    BY <1>5 DEF pow
  <2> HIDE DEF x, y
  <2>2. BaseLockout * x <= BaseLockout * y /\ BaseLockout * y \in Nat
    BY <1>1, <2>1
  <2> QED
    BY <2>2 DEF x, y
<1>8. /\ Lockout(n, first) = IF i < 10 /\ p < MaxLockout THEN p ELSE MaxLockout
      /\ Lockout(m, first) = IF j < 10 /\ q < MaxLockout THEN q ELSE MaxLockout
  BY DEF Lockout, i, j
<1> HIDE DEF p, q
<1> QED
  BY <1>1, <1>2, <1>6, <1>7, <1>8

(* Every set of natural numbers has a smallest element. *)
LEMMA Smallest ==
  ASSUME NEW S, S \subseteq Nat, NEW a \in S
  PROVE  \E m \in S : \A n \in S : m <= n
<1> DEFINE U == 0 .. a
           T == {0 .. n : n \in {n \in S : n <= a}}
           Below == StrictSubsetOrdering(U)
<1>1. IsWellFoundedOn(Below, SUBSET U)
  <2>1. IsFiniteSet(U)
    BY FS_Interval
  <2>2. FiniteSubsetsOf(U) = SUBSET U
    BY <2>1, FS_FiniteSubsetsOfFinite
  <2> QED
    BY <2>1, <2>2, FS_StrictSubsetOrderingWellFounded
<1>2. T \subseteq SUBSET U /\ T # {}
  OBVIOUS
<1>3. \A x, y \in SUBSET U : x \subseteq y /\ x # y => <<x, y>> \in Below
  BY DEF StrictSubsetOrdering
<1> HIDE DEF Below
<1>4. PICK t \in T : \A y \in T : ~ (<<y, t>> \in Below)
  <2> HIDE DEF T, U
  <2> QED
    BY <1>1, <1>2, WFMin
<1>5. PICK m \in S : m <= a /\ t = 0 .. m
  OBVIOUS
<1>6. \A n \in S : n <= a => m <= n
  <2> SUFFICES ASSUME NEW n \in S, n <= a, n < m PROVE FALSE
    BY <1>5
  <2>1. 0 .. n \in T /\ 0 .. n \subseteq 0 .. m /\ m \in 0 .. m /\ m \notin 0 .. n
    OBVIOUS
  <2> QED
    BY <1>2, <1>3, <1>4, <1>5, <2>1
<1> QED
  BY <1>5, <1>6

(* MinTime up to n: what defines it, with k requests at a time; only one   *)
(* function does.                                                          *)
Wait(f, k, n) == IF n - k < AccountThreshold THEN 0 ELSE f[n - k] + Lockout(n - k, AccountThreshold)
Waits(f, k, n) == f = [i \in 0 .. n |-> Wait(f, k, i)]

LEMMA WaitsAgree ==
  ASSUME NEW k \in Nat \ {0}, NEW n \in Nat, NEW m \in Nat, NEW f, NEW g, Waits(f, k, n), Waits(g, k, m),
         NEW i \in Nat, i <= n, i <= m
  PROVE  f[i] = g[i]
<1> DEFINE Bad == {j \in Nat : j <= n /\ j <= m /\ f[j] # g[j]}
<1> SUFFICES ASSUME i \in Bad PROVE FALSE
  OBVIOUS
<1>1. PICK j \in Bad : \A l \in Bad : j <= l
  <2>1. Bad \subseteq Nat
    OBVIOUS
  <2> HIDE DEF Bad
  <2> QED
    BY <2>1, Smallest
<1>2. j \in 0 .. n /\ j \in 0 .. m
  BY <1>1
<1>3. f[j] = Wait(f, k, j) /\ g[j] = Wait(g, k, j)
  BY <1>2 DEF Waits
<1>4. CASE j - k < AccountThreshold
  BY <1>1, <1>3, <1>4 DEF Wait
<1>5. CASE ~ (j - k < AccountThreshold)
  <2>1. AccountThreshold \in Nat
    BY SessionsAssumption
  <2>2. j - k \in Nat /\ j - k < j /\ j - k <= n /\ j - k <= m
    BY <1>2, <1>5, <2>1
  <2>3. f[j - k] = g[j - k]
    BY <1>1, <2>2
  <2> QED
    BY <1>1, <1>3, <1>5, <2>3 DEF Wait
<1> QED
  BY <1>4, <1>5

LEMMA WaitsExist ==
  ASSUME NEW k \in Nat \ {0}, NEW n \in Nat
  PROVE  \E f : Waits(f, k, n)
<1> DEFINE Bad == {m \in Nat : ~ \E f : Waits(f, k, m)}
<1>0. AccountThreshold \in Nat \ {0}
  BY SessionsAssumption
<1>1. ASSUME NEW b \in Bad PROVE FALSE
  <2>1. PICK m \in Bad : \A i \in Bad : m <= i
    <3>1. Bad \subseteq Nat
      OBVIOUS
    <3> HIDE DEF Bad
    <3> QED
      BY <1>1, <3>1, Smallest
  <2>2. m \in Nat /\ ~ \E f : Waits(f, k, m)
    BY <2>1
  <2>3. CASE m = 0
    <3>1. Waits([i \in 0 .. 0 |-> 0], k, 0)
      BY <1>0 DEF Waits, Wait
    <3> QED
      BY <2>2, <2>3, <3>1
  <2>4. CASE m # 0
    <3>1. m - 1 \in Nat /\ m - 1 \notin Bad
      BY <2>1, <2>2, <2>4
    <3>2. PICK g : Waits(g, k, m - 1)
      BY <3>1
    <3> DEFINE f == [i \in 0 .. m |-> IF i < m THEN g[i] ELSE Wait(g, k, m)]
    <3>3. ASSUME NEW i \in 0 .. m PROVE f[i] = Wait(f, k, i)
      <4>1. i < m => g[i] = Wait(g, k, i)
        BY <2>2, <3>2 DEF Waits
      <4>2. i - k < AccountThreshold \/ f[i - k] = g[i - k]
        <5> SUFFICES ASSUME ~ (i - k < AccountThreshold) PROVE f[i - k] = g[i - k]
          OBVIOUS
        <5>1. i - k \in 0 .. m /\ i - k < m
          BY <1>0, <2>2
        <5> QED
          BY <5>1
      <4>3. f[i] = IF i < m THEN g[i] ELSE Wait(g, k, m)
        OBVIOUS
      <4>4. i < m \/ i = m
        BY <2>2
      <4> HIDE DEF f
      <4> QED
        BY <4>1, <4>2, <4>3, <4>4 DEF Wait
    <3>4. Waits(f, k, m)
      BY <3>3 DEF Waits
    <3> HIDE DEF f
    <3> QED
      BY <2>2, <3>4
  <2> QED
    BY <2>3, <2>4
<1> QED
  BY <1>1

(* MinTime is what it is defined to be.                                    *)
LEMMA MinTimeIs ==
  ASSUME Cardinality(Slot) \in Nat \ {0}, NEW n \in Nat
  PROVE  MinTime[n] = Wait(MinTime, Cardinality(Slot), n)
<1> DEFINE k == Cardinality(Slot)
           upTo(m) == CHOOSE f : Waits(f, k, m)
           all == [m \in Nat |-> upTo(m)[m]]
<1>1. k \in Nat \ {0} /\ AccountThreshold \in Nat \ {0}
  BY SessionsAssumption
<1>2. MinTime = CHOOSE f : f = [m \in Nat |-> Wait(f, k, m)]
  BY DEF MinTime, Wait
<1> HIDE DEF k
<1>3. ASSUME NEW m \in Nat PROVE Waits(upTo(m), k, m)
  BY <1>1, WaitsExist
<1> HIDE DEF upTo
<1>4. ASSUME NEW m \in Nat PROVE all[m] = Wait(all, k, m)
  <2>1. upTo(m)[m] = Wait(upTo(m), k, m)
    BY <1>3 DEF Waits
  <2>2. CASE m - k < AccountThreshold
    BY <2>1, <2>2 DEF Wait
  <2>3. CASE ~ (m - k < AccountThreshold)
    <3>1. m - k \in Nat /\ m - k <= m
      BY <1>1, <2>3
    <3>2. upTo(m)[m - k] = upTo(m - k)[m - k]
      BY <1>1, <1>3, <3>1, WaitsAgree
    <3>3. all[m] = upTo(m)[m] /\ all[m - k] = upTo(m - k)[m - k]
      BY <3>1
    <3> HIDE DEF all
    <3> QED
      BY <2>1, <2>3, <3>2, <3>3 DEF Wait
  <2> QED
    BY <2>2, <2>3
<1>5. all = [m \in Nat |-> Wait(all, k, m)]
  BY <1>4
<1> HIDE DEF all
<1>6. MinTime = [m \in Nat |-> Wait(MinTime, k, m)]
  BY <1>2, <1>5
<1> QED
  BY <1>6 DEF k

LEMMA MinTimeGrows ==
  ASSUME Cardinality(Slot) \in Nat \ {0}
  PROVE  /\ \A n \in Nat : MinTime[n] \in Nat
         /\ \A n, m \in Nat : n <= m => MinTime[n] <= MinTime[m]
         /\ \A n \in Nat : n <= Cardinality(Slot) => MinTime[n] = 0
<1> DEFINE k == Cardinality(Slot)
<1>1. k \in Nat \ {0} /\ AccountThreshold \in Nat \ {0}
  BY SessionsAssumption
<1>2. \A n \in Nat : MinTime[n] = Wait(MinTime, k, n)
  BY MinTimeIs
<1> HIDE DEF k
<1>3. \A n \in Nat : n <= k => MinTime[n] = 0
  BY <1>1, <1>2 DEF Wait
<1>4. ASSUME NEW n \in Nat PROVE MinTime[n] \in Nat
  <2> DEFINE Bad == {m \in Nat : MinTime[m] \notin Nat}
  <2> SUFFICES ASSUME n \in Bad PROVE FALSE
    OBVIOUS
  <2>1. PICK m \in Bad : \A l \in Bad : m <= l
    <3>1. Bad \subseteq Nat
      OBVIOUS
    <3> HIDE DEF Bad
    <3> QED
      BY <3>1, Smallest
  <2>2. m \in Nat /\ MinTime[m] \notin Nat /\ ~ (m - k < AccountThreshold)
    BY <1>2, <2>1 DEF Wait
  <2>3. m - k \in Nat /\ m - k < m /\ AccountThreshold <= m - k
    BY <1>1, <2>2
  <2>4. MinTime[m - k] \in Nat
    BY <2>1, <2>3
  <2>5. Lockout(m - k, AccountThreshold) \in Nat
    BY <1>1, <2>3, LockoutGrows
  <2> QED
    BY <1>2, <2>2, <2>4, <2>5 DEF Wait
<1>5. ASSUME NEW n0 \in Nat, NEW m0 \in Nat, n0 <= m0 PROVE MinTime[n0] <= MinTime[m0]
  <2> DEFINE Bad == {m \in Nat : \E n \in Nat : n <= m /\ ~ (MinTime[n] <= MinTime[m])}
  <2> SUFFICES ASSUME m0 \in Bad PROVE FALSE
    BY <1>5
  <2>1. PICK m \in Bad : \A l \in Bad : m <= l
    <3>1. Bad \subseteq Nat
      OBVIOUS
    <3> HIDE DEF Bad
    <3> QED
      BY <3>1, Smallest
  <2>2. PICK n \in Nat : n <= m /\ ~ (MinTime[n] <= MinTime[m])
    BY <2>1
  <2>3. m \in Nat /\ MinTime[m] \in Nat /\ MinTime[n] \in Nat
    BY <1>4, <2>1
  <2>4. ~ (n - k < AccountThreshold)
    <3>1. MinTime[n] # 0
      BY <2>2, <2>3
    <3> QED
      BY <1>2, <3>1 DEF Wait
  <2>5. /\ n - k \in Nat /\ m - k \in Nat /\ n - k <= m - k /\ m - k < m
        /\ AccountThreshold <= n - k /\ ~ (m - k < AccountThreshold)
    BY <1>1, <2>2, <2>3, <2>4
  <2>6. m - k \notin Bad
    BY <2>1, <2>5
  <2>7. MinTime[n - k] <= MinTime[m - k] /\ MinTime[n - k] \in Nat /\ MinTime[m - k] \in Nat
    BY <1>4, <2>5, <2>6
  <2> DEFINE a == Lockout(n - k, AccountThreshold)
             b == Lockout(m - k, AccountThreshold)
  <2>8. a \in Nat /\ b \in Nat /\ a <= b
    <3>1. AccountThreshold \in Nat /\ n - k \in Nat /\ m - k \in Nat /\ n - k <= m - k
          /\ AccountThreshold <= n - k /\ AccountThreshold <= m - k
      BY <1>1, <2>5
    <3> QED
      BY <3>1, LockoutGrows
  <2>9. MinTime[n] = MinTime[n - k] + a /\ MinTime[m] = MinTime[m - k] + b
    BY <1>2, <2>3, <2>4, <2>5 DEF Wait
  <2> HIDE DEF a, b, Bad
  <2> QED
    BY <2>2, <2>7, <2>8, <2>9
<1> QED
  BY <1>3, <1>4, <1>5 DEF k

(* A pace that holds for more waiting requests holds for fewer, and later. *)
LEMMA PacedLater ==
  ASSUME Cardinality(Slot) \in Nat \ {0}, NEW e, NEW f, FailShape(f), NEW w \in Nat, NEW v \in Nat, v <= w,
         NEW t \in Nat, NEW u \in Nat, t <= u, Paced(e, f, w, t)
  PROVE  Paced(e, f, v, u)
<1> SUFFICES ASSUME f.n # 0
             PROVE  u - f.since >= MinTime[f.n + v]
  BY DEF Paced
<1>1. f.n \in Nat /\ f.since \in Nat /\ f.n + v \in Nat /\ f.n + w \in Nat /\ f.n + v <= f.n + w
  BY DEF FailShape
<1>2. MinTime[f.n + v] <= MinTime[f.n + w] /\ MinTime[f.n + v] \in Nat /\ MinTime[f.n + w] \in Nat
  BY <1>1, MinTimeGrows
<1>3. t - f.since >= MinTime[f.n + w]
  BY DEF Paced
<1> QED
  BY <1>1, <1>2, <1>3

(* One more request may begin when its account is not locked.              *)
LEMMA PacedStart ==
  ASSUME Cardinality(Slot) \in Nat \ {0}, NEW e, NEW f, FailShape(f), NEW w \in Nat, w + 1 <= Cardinality(Slot),
         NEW t \in Nat, f.until <= t, Paced(e, f, w, t)
  PROVE  Paced(e, f, w + 1, t)
<1> SUFFICES ASSUME f.n # 0
             PROVE  t - f.since >= MinTime[f.n + (w + 1)]
  BY DEF Paced
<1> DEFINE k == Cardinality(Slot)
           n == f.n + (w + 1)
<1>1. k \in Nat \ {0} /\ w + 1 <= k /\ AccountThreshold \in Nat \ {0}
  BY SessionsAssumption
<1>2. MinTime[n] = Wait(MinTime, k, n)
  BY MinTimeIs DEF FailShape
<1>3. f.n \in Nat /\ f.since \in Nat /\ f.until \in Nat /\ n \in Nat /\ n - k <= f.n
  BY <1>1 DEF FailShape
<1>4. t - f.since >= 0
  <2>1. t - f.since >= MinTime[f.n + w]
    BY DEF Paced
  <2>2. f.n + w \in Nat
    BY <1>3
  <2>3. MinTime[f.n + w] \in Nat
    BY <2>2, MinTimeGrows
  <2> QED
    BY <1>3, <2>1, <2>3
<1> HIDE DEF k, n
<1>5. CASE n - k < AccountThreshold
  BY <1>2, <1>4, <1>5 DEF Wait, n
<1>6. CASE ~ (n - k < AccountThreshold)
  <2>1. n - k \in Nat /\ AccountThreshold <= n - k /\ AccountThreshold <= f.n
    BY <1>1, <1>3, <1>6
  <2>2. f.until - f.since >= MinTime[f.n] + Lockout(f.n, AccountThreshold)
    BY <1>1, <1>3, <2>1 DEF Paced
  <2>3. MinTime[n - k] <= MinTime[f.n] /\ MinTime[n - k] \in Nat /\ MinTime[f.n] \in Nat
    BY <1>3, <2>1, MinTimeGrows
  <2> DEFINE a == Lockout(n - k, AccountThreshold)
             b == Lockout(f.n, AccountThreshold)
  <2>4. a \in Nat /\ b \in Nat /\ a <= b
    BY <1>1, <1>3, <2>1, LockoutGrows
  <2>5. MinTime[n] = MinTime[n - k] + a
    BY <1>2, <1>6 DEF Wait
  <2> HIDE DEF a, b
  <2>6. f.until - f.since >= MinTime[f.n] + b
    BY <2>2 DEF b
  <2>7. t - f.since >= MinTime[n]
    BY <1>3, <2>3, <2>4, <2>5, <2>6
  <2> QED
    BY <2>7 DEF n
<1> QED
  BY <1>5, <1>6

(* The entry of a key stays one when a failure is recorded. *)
LEMMA RecordedShape ==
  ASSUME NEW k, FailShape(fails[k]), now \in Nat
  PROVE  FailShape(Recorded(k))
<1> DEFINE old == IF fails[k].n = 0 \/ now - fails[k].last > FailureWindow THEN [NoFailures EXCEPT !.since = now]
                  ELSE fails[k]
           first == Threshold(k)
<1>1. FailShape(old)
  BY DEF FailShape, NoFailures
<1>2. first \in Nat
  BY SessionsAssumption DEF Threshold
<1>3. Recorded(k) = [old EXCEPT !.n = @ + 1, !.last = now,
                                !.until = IF old.n + 1 >= first THEN now + Lockout(old.n + 1, first) ELSE @]
  BY DEF Recorded
<1> HIDE DEF old, first
<1>4. ASSUME old.n + 1 >= first PROVE Lockout(old.n + 1, first) \in Nat
  <2>1. old.n + 1 \in Nat
    BY <1>1 DEF FailShape
  <2> QED
    BY <1>2, <1>4, <2>1, LockoutGrows
<1> DEFINE u == IF old.n + 1 >= first THEN now + Lockout(old.n + 1, first) ELSE old.until
<1>5. u \in Nat /\ old.n + 1 \in Nat
  BY <1>1, <1>4 DEF FailShape
<1>6. Recorded(k) = [old EXCEPT !.n = @ + 1, !.last = now, !.until = u]
  BY <1>3
<1> HIDE DEF u
<1> QED
  BY <1>1, <1>5, <1>6 DEF FailShape

(* A failure that is recorded leaves one request less waiting.             *)
LEMMA PacedFailure ==
  ASSUME Cardinality(Slot) \in Nat \ {0}, NEW e \in Email, FailShape(fails[e]), now \in Nat,
         NEW w \in Nat, w + 1 <= Cardinality(Slot), Paced(e, fails[e], w + 1, now)
  PROVE  Paced(e, Recorded(e), w, now)
<1> DEFINE old == IF fails[e].n = 0 \/ now - fails[e].last > FailureWindow THEN [NoFailures EXCEPT !.since = now]
                  ELSE fails[e]
           f == Recorded(e)
<1>0. AccountThreshold \in Nat \ {0} /\ Threshold(e) = AccountThreshold
  BY SessionsAssumption DEF Threshold
<1>1. FailShape(old)
  BY DEF FailShape, NoFailures
<1>2. MinTime[old.n + (w + 1)] \in Nat /\ now - old.since >= MinTime[old.n + (w + 1)]
  <2>1. CASE old = fails[e] /\ fails[e].n # 0
    <3>1. fails[e].n + (w + 1) \in Nat
      BY DEF FailShape
    <3> QED
      BY <2>1, <3>1, MinTimeGrows DEF Paced
  <2>2. CASE old = [NoFailures EXCEPT !.since = now]
    <3>1. old.n + (w + 1) = w + 1 /\ old.since = now
      BY <2>2 DEF NoFailures
    <3>2. MinTime[w + 1] = 0
      BY MinTimeGrows
    <3> HIDE DEF old
    <3> QED
      BY <3>1, <3>2
  <2> QED
    BY <2>1, <2>2
<1>3. f = [old EXCEPT !.n = @ + 1, !.last = now,
                      !.until = IF old.n + 1 >= AccountThreshold THEN now + Lockout(old.n + 1, AccountThreshold) ELSE @]
  BY <1>0 DEF Recorded
<1> HIDE DEF old, f
<1>4. ASSUME old.n + 1 >= AccountThreshold PROVE Lockout(old.n + 1, AccountThreshold) \in Nat
  <2>1. old.n + 1 \in Nat
    BY <1>1 DEF FailShape
  <2> QED
    BY <1>0, <1>4, <2>1, LockoutGrows
<1>5. f.n = old.n + 1 /\ f.since = old.since /\ f.last = now
      /\ (f.n >= AccountThreshold => f.until = now + Lockout(f.n, AccountThreshold))
      /\ (~ (f.n >= AccountThreshold) => f.until = old.until)
  BY <1>1, <1>3 DEF FailShape
<1>6. Paced(e, f, w, now)
  <2>1. f.n + w = old.n + (w + 1) /\ f.n \in Nat /\ f.since \in Nat /\ f.n <= f.n + w
    BY <1>1, <1>5 DEF FailShape
  <2>2. MinTime[f.n + w] \in Nat /\ now - f.since >= MinTime[f.n + w]
    BY <1>2, <1>5, <2>1
  <2>3. MinTime[f.n] <= MinTime[f.n + w] /\ MinTime[f.n] \in Nat
    BY <2>1, MinTimeGrows
  <2>4. ASSUME f.n >= AccountThreshold
        PROVE  f.until - f.since >= MinTime[f.n] + Lockout(f.n, AccountThreshold)
    <3> DEFINE b == Lockout(f.n, AccountThreshold)
    <3>1. b \in Nat /\ f.until = now + b
      BY <1>4, <1>5, <2>4
    <3> HIDE DEF b
    <3>2. f.until - f.since >= MinTime[f.n] + b
      BY <2>1, <2>2, <2>3, <3>1
    <3> QED
      BY <3>2 DEF b
  <2> QED
    BY <2>2, <2>4 DEF Paced
<1> QED
  BY <1>6 DEF f

(* As many requests can be waiting as there are slots. *)
LEMMA WaitingCount ==
  /\ Cardinality(Slot) \in Nat \ {0}
  /\ \A e : IsFiniteSet(Guessing(e)) /\ Cardinality(Guessing(e)) \in Nat /\ Cardinality(Guessing(e)) <= Cardinality(Slot)
<1>1. IsFiniteSet(Slot) /\ Slot # {}
  BY SessionsAssumption
<1>2. Cardinality(Slot) \in Nat \ {0}
  BY <1>1, FS_CardinalityType, FS_EmptySet
<1>3. ASSUME NEW e
      PROVE  IsFiniteSet(Guessing(e)) /\ Cardinality(Guessing(e)) \in Nat /\ Cardinality(Guessing(e)) <= Cardinality(Slot)
  <2> DEFINE G == Guessing(e)
  <2>1. G \subseteq Slot
    BY DEF Guessing
  <2> HIDE DEF G
  <2>2. IsFiniteSet(G) /\ Cardinality(G) <= Cardinality(Slot)
    BY <1>1, <2>1, FS_Subset
  <2>3. Cardinality(G) \in Nat
    BY <2>2, FS_CardinalityType
  <2> QED
    BY <2>2, <2>3 DEF G
<1> QED
  BY <1>2, <1>3

(* The same of the state after a step.                                     *)
LEMMA WaitingFewer ==
  ASSUME NEW G, NEW H, IsFiniteSet(G), H \subseteq G
  PROVE  Cardinality(H) \in Nat /\ Cardinality(G) \in Nat /\ Cardinality(H) <= Cardinality(G)
<1>1. IsFiniteSet(H) /\ Cardinality(H) <= Cardinality(G)
  BY FS_Subset
<1> QED
  BY <1>1, FS_CardinalityType

LEMMA InitPaced == Init => GInv
<1> SUFFICES ASSUME Init PROVE GInv
  OBVIOUS
<1>1. fails = [k \in Email \cup Source |-> NoFailures] /\ req = [r \in Slot |-> Quiet]
  BY DEF Init
<1>2. FailShape(NoFailures) /\ NoFailures.n = 0 /\ Quiet.at = "idle"
  BY DEF FailShape, NoFailures, Quiet
<1> QED
  BY <1>1, <1>2 DEF GInv, Paced

(* Steps that count no failure and begin no login. *)
LEMMA NoGuess ==
  ASSUME GInv, now \in Nat, now' \in {now, now + 1},
         fails' = [k \in Email \cup Source |-> fails'[k]],
         \A k \in Email \cup Source : fails'[k] \in {fails[k], NoFailures},
         \A s \in Slot : req'[s].at = "verifying" => /\ req[s].at = "verifying"
                                                     /\ req'[s].email = req[s].email /\ req'[s].source = req[s].source
  PROVE  GInv'
<1>1. FailShape(NoFailures) /\ NoFailures.n = 0
  BY DEF FailShape, NoFailures
<1>2. \A k \in Email \cup Source : FailShape(fails[k]) /\ FailShape(fails'[k])
  BY <1>1 DEF GInv
<1>3. ASSUME NEW e \in Email
      PROVE  Paced(e, fails'[e], Cardinality(Guessing(e)'), now')
  <2> DEFINE G == Guessing(e)
             H == Guessing(e)'
  <2>1. H \subseteq G
    BY DEF Guessing
  <2>2. IsFiniteSet(G)
    BY WaitingCount
  <2> HIDE DEF G, H
  <2>3. Cardinality(H) \in Nat /\ Cardinality(G) \in Nat /\ Cardinality(H) <= Cardinality(G)
    BY <2>1, <2>2, WaitingFewer
  <2>4. Paced(e, fails[e], Cardinality(G), now)
    BY DEF GInv, G
  <2>5. Paced(e, fails[e], Cardinality(H), now')
    <3>1. now' \in Nat /\ now <= now' /\ FailShape(fails[e])
      BY <1>2
    <3> QED
      BY <2>3, <2>4, <3>1, WaitingCount, PacedLater
  <2>6. Paced(e, NoFailures, Cardinality(H), now')
    BY <1>1 DEF Paced
  <2>7. fails'[e] = fails[e] \/ fails'[e] = NoFailures
    OBVIOUS
  <2>8. Paced(e, fails'[e], Cardinality(H), now')
    BY <2>5, <2>6, <2>7
  <2> QED
    BY <2>8 DEF H
<1>4. \A r \in Slot : req'[r].at = "verifying" => req'[r].source \in Source
  BY DEF GInv
<1> QED
  BY <1>2, <1>3, <1>4 DEF GInv, Paced, FailShape

(* A login that is not locked out begins to wait. *)
LEMMA GuessBegins ==
  ASSUME GInv, RequestsRead, now \in Nat, NEW r \in Slot, NEW email, NEW pass, NEW source \in Source,
         LoginStart(r, email, pass, source)
  PROVE  GInv'
<1> DEFINE q == [Quiet EXCEPT !.at = "verifying", !.email = email, !.pass = pass, !.source = source]
<1>1. req' = [req EXCEPT ![r] = q] /\ fails' = fails /\ now' = now /\ req[r].at = "idle"
      /\ ~ (fails[email].until > now)
  BY DEF LoginStart, Is, Locked
<1>2. q.at = "verifying" /\ q.email = email /\ q.source = source
  BY DEF Quiet
<1> HIDE DEF q
<1>3. \A s \in Slot : req'[s] = IF s = r THEN q ELSE req[s]
  BY <1>1 DEF RequestsRead
<1>4. ASSUME NEW e \in Email
      PROVE  Paced(e, fails[e], Cardinality(Guessing(e)'), now)
  <2> DEFINE G == Guessing(e)
             H == Guessing(e)'
  <2>1. IsFiniteSet(G) /\ Cardinality(G) \in Nat /\ r \notin G
    BY <1>1, WaitingCount DEF Guessing
  <2>2. H \subseteq Slot
    BY DEF Guessing
  <2>3. Paced(e, fails[e], Cardinality(G), now) /\ FailShape(fails[e])
    BY DEF GInv
  <2>4. CASE e # email
    <3>1. H = G
      BY <1>1, <1>2, <1>3, <2>4 DEF Guessing
    <3> QED
      BY <2>3, <3>1
  <2>5. CASE e = email
    <3>1. H = G \cup {r}
      BY <1>2, <1>3, <2>5 DEF Guessing
    <3> HIDE DEF G, H
    <3>2. Cardinality(H) = Cardinality(G) + 1
      BY <2>1, <3>1, FS_AddElement
    <3>3. Cardinality(H) <= Cardinality(Slot)
      BY <2>2, SessionsAssumption, FS_Subset
    <3>4. Paced(e, fails[e], Cardinality(G) + 1, now)
      <4>1. fails[e].until <= now
        BY <1>1, <2>3, <2>5 DEF FailShape
      <4> QED
        BY <4>1, <2>1, <2>3, <2>5, <3>2, <3>3, WaitingCount, PacedStart
    <3>5. Paced(e, fails[e], Cardinality(H), now)
      BY <3>2, <3>4
    <3> QED
      BY <3>5 DEF H
  <2> QED
    BY <2>4, <2>5
<1>5. \A s \in Slot : req'[s].at = "verifying" => req'[s].source \in Source
  BY <1>2, <1>3 DEF GInv
<1> QED
  BY <1>1, <1>4, <1>5 DEF GInv, Paced, FailShape

(* A login that fails counts for its account and its source. *)
LEMMA GuessFails ==
  ASSUME GInv, RequestsRead, now \in Nat, NEW r \in Slot, req[r].at = "verifying",
         Failed(req[r].email, req[r].source), End(r), now' = now
  PROVE  GInv'
<1> DEFINE email == req[r].email
           source == req[r].source
<1>1. /\ \A k \in Email \cup Source : fails'[k] = IF k \in {email, source} THEN Recorded(k)
                                                  ELSE IF Pruned(k) THEN NoFailures ELSE fails[k]
      /\ fails' = [k \in Email \cup Source |-> fails'[k]]
  <2>1. DOMAIN fails = Email \cup Source
    BY DEF GInv
  <2> QED
    BY <2>1 DEF Failed
<1>2. \A s \in Slot : req'[s] = IF s = r THEN Quiet ELSE req[s]
  BY DEF End, RequestsRead
<1>3. Quiet.at = "idle" /\ FailShape(NoFailures) /\ NoFailures.n = 0
  BY DEF Quiet, FailShape, NoFailures
<1>4. source \in Source /\ source \notin Email
  BY SessionsAssumption DEF GInv
<1> HIDE DEF email, source
<1>5. ASSUME NEW k \in Email \cup Source PROVE FailShape(Recorded(k))
  BY <1>5, RecordedShape DEF GInv
<1>6. ASSUME NEW e \in Email
      PROVE  Paced(e, fails'[e], Cardinality(Guessing(e)'), now)
  <2> DEFINE G == Guessing(e)
             H == Guessing(e)'
  <2>1. IsFiniteSet(G) /\ Cardinality(G) \in Nat /\ Cardinality(G) <= Cardinality(Slot)
    BY WaitingCount
  <2>2. Paced(e, fails[e], Cardinality(G), now) /\ FailShape(fails[e])
    BY DEF GInv
  <2>3. CASE e = email
    <3>1. r \in G /\ H = G \ {r}
      BY <1>2, <1>3, <2>3 DEF Guessing, email
    <3> HIDE DEF G, H
    <3>2. Cardinality(H) = Cardinality(G) - 1 /\ IsFiniteSet(H)
      BY <2>1, <3>1, FS_RemoveElement
    <3>3. Cardinality(H) \in Nat /\ Cardinality(H) + 1 = Cardinality(G)
      BY <2>1, <3>2, FS_CardinalityType
    <3>4. Paced(e, Recorded(e), Cardinality(H), now)
      BY <2>1, <2>2, <3>3, WaitingCount, PacedFailure
    <3>5. fails'[e] = Recorded(e)
      BY <1>1, <2>3
    <3> QED
      BY <3>4, <3>5 DEF H
  <2>4. CASE e # email
    <3>1. H = G
      BY <1>2, <1>3, <2>4 DEF Guessing, email
    <3>2. fails'[e] = NoFailures \/ fails'[e] = fails[e]
      BY <1>1, <1>4, <2>4
    <3>3. Paced(e, NoFailures, Cardinality(G), now)
      BY <1>3 DEF Paced
    <3> HIDE DEF G, H
    <3>4. Paced(e, fails'[e], Cardinality(H), now)
      BY <2>2, <3>1, <3>2, <3>3
    <3> QED
      BY <3>4 DEF H
  <2> QED
    BY <2>3, <2>4
<1>7. \A k \in Email \cup Source : FailShape(fails'[k])
  BY <1>1, <1>3, <1>5 DEF GInv
<1>8. \A s \in Slot : req'[s].at = "verifying" => req'[s].source \in Source
  BY <1>2, <1>3 DEF GInv
<1> QED
  BY <1>1, <1>6, <1>7, <1>8 DEF GInv, Paced, FailShape

LEMMA StepPaced == IInv /\ GInv /\ [Next]_vars => GInv'
<1> SUFFICES ASSUME IInv, GInv, [Next]_vars PROVE GInv'
  OBVIOUS
<1>1. now \in Nat /\ RequestsRead
  BY DEF IInv
<1>2. fails = [k \in Email \cup Source |-> fails[k]] /\ Quiet.at = "idle"
  BY DEF GInv, Quiet
<1>3. ASSUME NEW r \in Slot, LoginStep(r) PROVE GInv'
  <2>1. ASSUME NEW u \in Account, NEW source \in Source, NEW pass, LoginStart(r, account[u].email, pass, source)
        PROVE  GInv'
    BY <1>1, <2>1, GuessBegins
  <2>2. CASE LoginVerify(r)
    <3>1. CASE Failed(req[r].email, req[r].source) /\ End(r)
      BY <1>1, <2>2, <3>1, GuessFails DEF LoginVerify, Is
    <3>2. ASSUME NEW q, q.at = "minting",
                 fails' = [fails EXCEPT ![req[r].email] = NoFailures], req' = [req EXCEPT ![r] = q]
          PROVE  GInv'
      <4>1. \A s \in Slot : req'[s] = IF s = r THEN q ELSE req[s]
        BY <1>1, <3>2 DEF RequestsRead
      <4>2. fails' = [k \in Email \cup Source |-> fails'[k]]
            /\ \A k \in Email \cup Source : fails'[k] \in {fails[k], NoFailures}
        BY <1>2, <3>2
      <4>3. now' = now
        BY <2>2 DEF LoginVerify
      <4> QED
        BY <1>1, <3>2, <4>1, <4>2, <4>3, NoGuess
    <3>3. \/ Failed(req[r].email, req[r].source) /\ End(r)
          \/ \E q : /\ q.at = "minting" /\ req' = [req EXCEPT ![r] = q]
                    /\ fails' = [fails EXCEPT ![req[r].email] = NoFailures]
      <4>1. ASSUME NEW u PROVE [req[r] EXCEPT !.at = "minting", !.role = account[u].role,
                                              !.who = u, !.epoch = account[u].epoch].at = "minting"
        BY <1>1 DEF RequestsRead, RequestShape
      <4> QED
        BY <2>2, <4>1 DEF LoginVerify
    <3> QED
      BY <3>1, <3>2, <3>3
  <2>3. CASE LoginMint(r)
    BY <1>1, <1>2, <2>3, NoGuess DEF LoginMint, Goto, RequestsRead, RequestShape
  <2>4. CASE LoginIssue(r)
    BY <1>1, <1>2, <2>4, NoGuess DEF LoginIssue, End, RequestsRead, RequestShape
  <2> QED
    BY <1>3, <2>1, <2>2, <2>3, <2>4 DEF LoginStep
<1>4. ASSUME NEW r \in Slot, RefreshStep(r) PROVE GInv'
  <2>1. now' = now /\ fails' = fails
    BY <1>4 DEF RefreshStep, RefreshRead, RefreshCheck, RefreshRotate, RefreshGrant
  <2>2. ASSUME NEW s \in Slot, req'[s].at = "verifying" PROVE req'[s] = req[s]
    <3>1. ASSUME NEW t \in tokens, RefreshRead(r, t) PROVE req'[s] = req[s]
      BY <1>1, <2>2, <3>1 DEF RefreshRead, RequestsRead, Quiet
    <3>2. CASE RefreshCheck(r)
      BY <1>1, <1>2, <2>2, <3>2 DEF RefreshCheck, End, RequestsRead, RequestShape
    <3>3. CASE RefreshRotate(r) \/ RefreshGrant(r)
      BY <1>1, <1>2, <2>2, <3>3 DEF RefreshRotate, RefreshGrant, Goto, End, RequestsRead, RequestShape
    <3> QED
      BY <1>4, <3>1, <3>2, <3>3 DEF RefreshStep
  <2> QED
    BY <1>1, <1>2, <2>1, <2>2, NoGuess
<1>5. ASSUME NEW r \in Slot, ChangeStep(r) PROVE GInv'
  <2>1. now' = now /\ fails' = fails
    BY <1>5 DEF ChangeStep, ChangeStart, ResetConsume, ResetFind, SetUserPassword, SetAdminPassword, RevokeAdminTokens
  <2>2. ASSUME NEW s \in Slot, req'[s].at = "verifying"
        PROVE  req[s].at = "verifying" /\ req'[s].email = req[s].email /\ req'[s].source = req[s].source
    <3>1. ASSUME NEW b \in bearer, ChangeStart(r, b) PROVE req'[s] = req[s]
      BY <1>1, <2>2, <3>1 DEF ChangeStart, RequestsRead, Quiet
    <3>2. ASSUME NEW l \in links, ResetConsume(r, l) PROVE req'[s] = req[s]
      <4> DEFINE q == [Quiet EXCEPT !.at = "resetting", !.who = l.user]
      <4>1. q.at = "resetting" /\ req' = [req EXCEPT ![r] = q]
        BY <3>2 DEF ResetConsume, Quiet
      <4> HIDE DEF q
      <4> QED
        BY <1>1, <2>2, <4>1 DEF RequestsRead
    <3>3. CASE ResetFind(r)
      <4> DEFINE q == [Quiet EXCEPT !.at = "setting", !.email = account[req[r].who].email]
      <4>1. q.at = "setting" /\ (req' = [req EXCEPT ![r] = q] \/ req' = [req EXCEPT ![r] = Quiet])
        BY <3>3 DEF ResetFind, End, Quiet
      <4> HIDE DEF q
      <4>2. CASE req' = [req EXCEPT ![r] = q]
        BY <1>1, <2>2, <4>1, <4>2 DEF RequestsRead
      <4>3. CASE req' = [req EXCEPT ![r] = Quiet]
        BY <1>1, <1>2, <2>2, <4>3 DEF RequestsRead
      <4> QED
        BY <4>1, <4>2, <4>3
    <3>4. CASE SetUserPassword(r) \/ SetAdminPassword(r) \/ RevokeAdminTokens(r)
      <4> DEFINE q == [Quiet EXCEPT !.at = "revoking", !.email = AdminEmail]
      <4>1. q.at = "revoking"
        BY DEF Quiet
      <4>2. \/ req' = [req EXCEPT ![r] = Quiet]
            \/ \E emails : \E then \in {Quiet, q} : Overtaken(emails, r, then)
        BY <3>4 DEF SetUserPassword, SetAdminPassword, RevokeAdminTokens, End
      <4> HIDE DEF q
      <4>3. CASE req' = [req EXCEPT ![r] = Quiet]
        BY <1>1, <1>2, <2>2, <4>3 DEF RequestsRead
      <4>4. ASSUME NEW emails, NEW then \in {Quiet, q}, Overtaken(emails, r, then)
            PROVE  req[s].at = "verifying" /\ req'[s].email = req[s].email /\ req'[s].source = req[s].source
        <5>1. then.at # "verifying"
          BY <1>2, <4>1
        <5>2. req'[s] = IF s = r THEN then ELSE IF req[s].email \in emails THEN [req[s] EXCEPT !.raced = TRUE] ELSE req[s]
          BY <4>4 DEF Overtaken
        <5>3. req'[s] \in {[req[s] EXCEPT !.raced = TRUE], req[s]}
          BY <2>2, <5>1, <5>2
        <5> QED
          BY <1>1, <2>2, <5>3 DEF RequestsRead, RequestShape
      <4> QED
        BY <4>2, <4>3, <4>4
    <3> QED
      BY <1>5, <2>2, <3>1, <3>2, <3>3, <3>4 DEF ChangeStep
  <2> QED
    BY <1>1, <1>2, <2>1, <2>2, NoGuess
<1>6. ASSUME \/ \E t \in tokens : Logout(t)
             \/ \E u \in Account : ForgotPassword(u)
             \/ ManageUsers \/ Tick
             \/ UNCHANGED vars
      PROVE  GInv'
  <2>1. now' \in {now, now + 1} /\ fails' = fails
    BY <1>6 DEF Logout, ForgotPassword, ManageUsers, CreateUser, UpdateUser, DeleteUser, Tick, vars
  <2>2. req' = req \/ \E emails : Overtaken(emails, None, Quiet)
    BY <1>6 DEF Logout, ForgotPassword, ManageUsers, CreateUser, UpdateUser, DeleteUser, Tick, vars
  <2>3. ASSUME NEW s \in Slot
        PROVE  req'[s].at = "verifying" => /\ req[s].at = "verifying"
                                           /\ req'[s].email = req[s].email /\ req'[s].source = req[s].source
    BY <1>1, <1>2, <2>2 DEF Overtaken, RequestsRead, RequestShape
  <2> QED
    BY <1>1, <1>2, <2>1, <2>3, NoGuess
<1>7. CASE Restart
  BY <1>1, <1>2, <1>7, NoGuess DEF Restart
<1> QED
  BY <1>3, <1>4, <1>5, <1>6, <1>7 DEF Next

(* Guessing takes its time: the failures counted for an account have taken *)
(* at least the lockouts of every Cardinality(Slot)-th of them, with any   *)
(* number of requests at a time, thresholds, lockouts and windows          *)
(* (loginLimiter).                                                         *)
THEOREM GuessingTakesTime == Spec => []GuessRate
<1>1. IInv /\ GInv => GuessRate
  <2> SUFFICES ASSUME IInv, GInv, NEW e \in Email, fails[e].n # 0
               PROVE  now - fails[e].since >= MinTime[fails[e].n]
    BY DEF GuessRate
  <2>1. FailShape(fails[e]) /\ now \in Nat /\ Paced(e, fails[e], Cardinality(Guessing(e)), now)
    BY DEF GInv, IInv
  <2>2. Paced(e, fails[e], 0, now)
    BY <2>1, WaitingCount, PacedLater
  <2>3. fails[e].n + 0 = fails[e].n
    BY <2>1 DEF FailShape
  <2> QED
    BY <2>2, <2>3 DEF Paced
<1> QED
  BY <1>1, InitEstablishes, StepPreserves, InitPaced, StepPaced, PTL DEF Spec
=============================================================================
