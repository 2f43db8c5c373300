------------------------------ MODULE Joining ------------------------------
(***************************************************************************)
(* How a device joins a club: invites and their markers, join requests,    *)
(* approval and rejection by admin devices, cancelling (packages club and  *)
(* collab).  Devices and admins only meet in the storage folder.  The      *)
(* mutex of a club makes the operations of one program exclude each other, *)
(* but not those of other programs: each operation is a sequence of steps, *)
(* one for every file or row it writes, and a program may stop between two *)
(* of them.  A storage error ends an operation at the same places, so one  *)
(* action stands for both.                                                 *)
(*                                                                         *)
(* Signatures, proofs and safety codes are data: requests are genuine, and *)
(* an admin types the right code or a wrong one.  A request counts when    *)
(* its file follows its signature, so the two are one step.                *)
(***************************************************************************)
EXTENDS Integers, FiniteSets

CONSTANTS
  Device,             \* devices that want to join
  Admin,              \* admin devices
  Invite,             \* invites
  OwnerOf,            \* OwnerOf[i]: the admin device that creates invite i
  None,
  LocalData,          \* devices that hold data of their own before they join
  MaxApproveAttempts, \* wrong safety codes before a request is rejected
  Budgets             \* how often each kind of operation happens in a behaviour

Notice == [inv : Invite, by : Admin]
Kinds == {"join", "invite", "withdraw", "expire", "approve", "reject", "guess", "cancel", "stop"}

ASSUME JoiningAssumption ==
  /\ OwnerOf \in [Invite -> Admin]
  /\ LocalData \subseteq Device
  /\ None \notin Device \cup Admin \cup Invite \cup Notice
  /\ MaxApproveAttempts \in Nat \ {0}
  /\ Budgets \subseteq [Kinds -> Nat]

VARIABLES
  invite,     \* sync_invites of the owner: "none", "open", "used" or "gone"
  expired,    \* invites past expires_at
  marker,     \* invites/<marker>.json: "absent", "open" or "used"
  request,    \* requests/<device>.json: the invite it names, or None
  rejection,  \* requests/<device>.rejected.json and its signature
  via,        \* the access list: the invite a device was admitted with
  standing,   \* sync_club.status of a device, "local" without a row
  asked,      \* sync_club.join_invite_id
  told,       \* Service.joinRejected
  local,      \* the synced tables: own "data", "empty", "saved" and cleared,
              \* the data of the "club", or those "cleared" by a second Join
  step,       \* what a joining device is doing
  work,       \* what an admin device is doing
  attempts,   \* Service.attempts of an admin
  refused,    \* what admins decided to reject: device and invite
  halted,     \* invites whose approval stopped before they were marked used
  crossed,    \* devices whose request was rejected while others touched it
  left        \* operations left of each kind

folder == <<marker, request, rejection>>
device == <<standing, asked, told, local, step>>
admin == <<invite, expired, via, work, attempts>>
witness == <<refused, halted, crossed>>
vars == <<folder, device, admin, witness, left>>

(* Bound: one more operation of a kind. *)
Spend(kind) == left[kind] > 0 /\ left' = [left EXCEPT ![kind] = @ - 1]

Idle == [at |-> "idle", dev |-> None, inv |-> None]
Rest == [at |-> "idle", inv |-> None, cancel |-> FALSE]

Init ==
  /\ invite = [i \in Invite |-> "none"] /\ expired = {}
  /\ marker = [i \in Invite |-> "absent"]
  /\ request = [d \in Device |-> None]
  /\ rejection = [d \in Device |-> [file |-> None, sig |-> None]]
  /\ via = [d \in Device |-> None]
  /\ standing = [d \in Device |-> "local"]
  /\ asked = [d \in Device |-> None]
  /\ told = {}
  /\ local = [d \in Device |-> IF d \in LocalData THEN "data" ELSE "empty"]
  /\ step = [d \in Device |-> Rest]
  /\ work = [a \in Admin |-> Idle]
  /\ attempts = [a \in Admin |-> [d \in Device |-> 0]]
  /\ refused = {} /\ halted = {} /\ crossed = {}
  /\ left \in Budgets

Listed == {d \in Device : via[d] # None}

(* An operation on the files of d crosses the rejection of its request.    *)
Rejecting(d) == {a \in Admin : work[a].dev = d /\ work[a].at \in {"signing", "noticing", "dropping"}}
Cross(d) == crossed' = IF Rejecting(d) # {} THEN crossed \cup {d} ELSE crossed

-----------------------------------------------------------------------------
(* The joining device. *)

At(d, at) == step[d].at = at
Continue(d, at) == step' = [step EXCEPT ![d].at = at]
Finish(d) == step' = [step EXCEPT ![d] = Rest]

(* checkInviteMarker *)
MarkerAllows(i) == marker[i] = "open" /\ i \notin expired

(* Join, first half: replaceLocalData saves and clears the synced tables   *)
(* before anything else is checked, those of a member as well; then a      *)
(* device with a club, or with data, is turned away.                       *)
ClearSyncedData(d) ==
  [local EXCEPT ![d] = IF @ = "data" THEN "saved" ELSE IF @ = "club" THEN "cleared" ELSE @]
BackupAndClear(d, replace) == local' = IF replace THEN ClearSyncedData(d) ELSE local
EmptySyncedData(data) == data # "data"

JoinStart(d, i, replace) ==
  /\ Spend("join")
  /\ At(d, "idle")
  /\ BackupAndClear(d, replace)
  /\ IF standing[d] = "local" /\ EmptySyncedData(local'[d]) /\ MarkerAllows(i)
     THEN step' = [step EXCEPT ![d] = [at |-> "clearing", inv |-> i, cancel |-> FALSE]]
     ELSE UNCHANGED step
  /\ UNCHANGED <<folder, standing, asked, told, admin, witness>>

(* Join removes what an earlier request left, sends its own and records it. *)
JoinClearRequest(d) ==
  /\ At(d, "clearing") /\ Continue(d, "clearingNotice")
  /\ request' = [request EXCEPT ![d] = None]
  /\ Cross(d)
  /\ UNCHANGED <<marker, rejection, standing, asked, told, local, admin, refused, halted, left>>

NoNotice == [file |-> None, sig |-> None]

JoinClearNotice(d) ==
  /\ At(d, "clearingNotice") /\ Continue(d, "sending")
  /\ rejection' = [rejection EXCEPT ![d] = NoNotice]
  /\ Cross(d)
  /\ UNCHANGED <<marker, request, standing, asked, told, local, admin, refused, halted, left>>

JoinSend(d) ==
  /\ At(d, "sending") /\ Continue(d, "adopting")
  /\ request' = [request EXCEPT ![d] = step[d].inv]
  /\ Cross(d)
  /\ UNCHANGED <<marker, rejection, standing, asked, told, local, admin, refused, halted, left>>

JoinAdopt(d) ==
  /\ At(d, "adopting") /\ Finish(d)
  /\ standing' = [standing EXCEPT ![d] = "joining"]
  /\ asked' = [asked EXCEPT ![d] = step[d].inv]
  /\ told' = told \ {d}
  /\ UNCHANGED <<folder, local, admin, witness, left>>

(* Both begin with the access list; the rejection is read afterwards, as   *)
(* long as the device is not listed.                                       *)
ReadAccessList(d, cancel) ==
  /\ standing[d] = "joining" /\ At(d, "idle")
  /\ IF d \in Listed
     THEN standing' = [standing EXCEPT ![d] = "member"] /\ UNCHANGED step
     ELSE step' = [step EXCEPT ![d] = [at |-> "asking", inv |-> None, cancel |-> cancel]] /\ UNCHANGED standing
  /\ UNCHANGED <<folder, asked, told, admin, witness>>

(* Sync: a device that is a member then pulls the data of the club.        *)
Refresh(d) ==
  /\ ReadAccessList(d, FALSE)
  /\ local' = IF d \in Listed THEN [local EXCEPT ![d] = "club"] ELSE local
  /\ UNCHANGED left

CancelJoin(d) == Spend("cancel") /\ ReadAccessList(d, TRUE) /\ UNCHANGED local

(* Mutant: the notice of an earlier request counts. *)
AnyNoticeCounts(d) ==
  rejection[d].file \in Notice /\ rejection[d].sig = rejection[d].file

(* rejected: signed by an admin, for the invite this device asked with.    *)
RejectionCounts(d) ==
  /\ rejection[d].file \in Notice
  /\ rejection[d].sig = rejection[d].file
  /\ rejection[d].file.inv = asked[d]

RefreshAnswer(d) ==
  /\ At(d, "asking")
  /\ IF RejectionCounts(d) THEN Continue(d, "leaving")
     ELSE IF step[d].cancel THEN Continue(d, "giving up")
     ELSE Finish(d)
  /\ UNCHANGED <<folder, standing, asked, told, local, admin, witness, left>>

(* leave: the device's files first, then its local state.                  *)
LeaveFiles(d) ==
  /\ \/ At(d, "leaving") /\ Continue(d, "left")
     \/ At(d, "giving up") /\ Continue(d, "given up")
  /\ request' = [request EXCEPT ![d] = None]
  /\ rejection' = [rejection EXCEPT ![d] = NoNotice]
  /\ Cross(d)
  /\ UNCHANGED <<marker, standing, asked, told, local, admin, refused, halted, left>>

AbandonJoin(d) ==
  /\ \/ At(d, "left") /\ told' = IF step[d].cancel THEN told \ {d} ELSE told \cup {d}
     \/ At(d, "given up") /\ told' = told \ {d}
  /\ Finish(d)
  /\ standing' = [standing EXCEPT ![d] = "local"]
  /\ asked' = [asked EXCEPT ![d] = None]
  /\ UNCHANGED <<folder, local, admin, witness, left>>

(* CancelJoin without a storage location: only the local state goes.       *)
CancelOffline(d) ==
  /\ Spend("cancel")
  /\ standing[d] = "joining" /\ At(d, "idle")
  /\ standing' = [standing EXCEPT ![d] = "local"]
  /\ asked' = [asked EXCEPT ![d] = None]
  /\ told' = told \ {d}
  /\ UNCHANGED <<folder, local, step, admin, witness>>

(* The program of a device ends, wherever it is.                           *)
DeviceStops(d) ==
  /\ Spend("stop")
  /\ ~At(d, "idle") /\ Finish(d)
  /\ told' = told \ {d}
  /\ crossed' = IF step[d].at \in {"left", "given up"} THEN crossed \cup {d} ELSE crossed
  /\ UNCHANGED <<folder, standing, asked, local, admin, refused, halted>>

-----------------------------------------------------------------------------
(* The admin devices. *)

Doing(a, at) == work[a].at = at
Go(a, at, d, i) == work' = [work EXCEPT ![a] = [at |-> at, dev |-> d, inv |-> i]]
Done(a) == work' = [work EXCEPT ![a] = Idle]

(* publishInviteMarker: what the marker of an invite with a row should be. *)
MarkerFor(i) == IF i \in expired THEN "absent" ELSE invite[i]

CreateInvite(a, i) ==
  /\ Spend("invite")
  /\ Doing(a, "idle") /\ OwnerOf[i] = a /\ invite[i] = "none"
  /\ invite' = [invite EXCEPT ![i] = "open"]
  /\ Go(a, "publishing", None, i)
  /\ UNCHANGED <<folder, device, expired, via, attempts, witness>>

(* The marker is written, or the row is deleted again.                     *)
PublishMarker(a) ==
  /\ Doing(a, "publishing") /\ Done(a)
  /\ \/ marker' = [marker EXCEPT ![work[a].inv] = MarkerFor(work[a].inv)] /\ UNCHANGED invite
     \/ invite' = [invite EXCEPT ![work[a].inv] = "gone"] /\ UNCHANGED marker
  /\ UNCHANGED <<request, rejection, device, expired, via, attempts, witness, left>>

WithdrawInvite(a, i) ==
  /\ Spend("withdraw")
  /\ Doing(a, "idle") /\ OwnerOf[i] = a /\ invite[i] = "open"
  /\ invite' = [invite EXCEPT ![i] = "gone"]
  /\ Go(a, "withdrawing", None, i)
  /\ UNCHANGED <<folder, device, expired, via, attempts, witness>>

DeleteMarker(a) ==
  /\ Doing(a, "withdrawing") /\ Done(a)
  /\ marker' = [marker EXCEPT ![work[a].inv] = "absent"]
  /\ UNCHANGED <<request, rejection, device, invite, expired, via, attempts, witness, left>>

Expire(i) ==
  /\ Spend("expire")
  /\ invite[i] # "none" /\ i \notin expired
  /\ expired' = expired \cup {i}
  /\ UNCHANGED <<folder, device, invite, via, work, attempts, witness>>

(* syncInviteMarkers, at the end of every refresh of an admin.             *)
SyncInviteMarkers(a) ==
  /\ Doing(a, "idle")
  /\ marker' = [i \in Invite |-> IF OwnerOf[i] = a /\ invite[i] \in {"open", "used"} THEN MarkerFor(i) ELSE marker[i]]
  /\ marker' # marker
  /\ UNCHANGED <<request, rejection, device, admin, witness, left>>

(* Mutant: a used invite is good for another device. *)
UsedInviteAccepted(a, d) ==
  /\ request[d] # None /\ d \notin Listed
  /\ OwnerOf[request[d]] = a
  /\ invite[request[d]] \in {"open", "used"}
  /\ request[d] \notin expired

(* checkRequest: known to this admin, neither used nor expired, not listed. *)
RequestOk(a, d) ==
  /\ request[d] # None /\ d \notin Listed
  /\ OwnerOf[request[d]] = a
  /\ invite[request[d]] = "open"
  /\ request[d] \notin expired

(* joinRequests: several good requests with one invite contest each other. *)
Approvable(a, d) ==
  /\ RequestOk(a, d)
  /\ \A e \in Device \ {d} : ~(RequestOk(a, e) /\ request[e] = request[d])

(* Approve: the refresh and the check, the version that lists the device,  *)
(* the invite, its marker, and the request file last.                      *)
ApproveCheck(a, d) ==
  /\ Spend("approve")
  /\ Doing(a, "idle") /\ Approvable(a, d)
  /\ Go(a, "listing", d, request[d])
  /\ UNCHANGED <<folder, device, invite, expired, via, attempts, witness>>

ApproveList(a) ==
  /\ Doing(a, "listing") /\ work[a].dev \notin Listed
  /\ via' = [via EXCEPT ![work[a].dev] = work[a].inv]
  /\ work' = [work EXCEPT ![a].at = "marking"]
  /\ UNCHANGED <<folder, device, invite, expired, attempts, witness, left>>

ApproveMark(a) ==
  /\ Doing(a, "marking")
  /\ invite' = [invite EXCEPT ![work[a].inv] = "used"]
  /\ work' = [work EXCEPT ![a].at = "announcing"]
  /\ UNCHANGED <<folder, device, expired, via, attempts, witness, left>>

ApproveAnnounce(a) ==
  /\ Doing(a, "announcing")
  /\ marker' = [marker EXCEPT ![work[a].inv] = MarkerFor(work[a].inv)]
  /\ work' = [work EXCEPT ![a].at = "closing"]
  /\ UNCHANGED <<request, rejection, device, invite, expired, via, attempts, witness, left>>

ApproveClose(a) ==
  /\ Doing(a, "closing") /\ Done(a)
  /\ request' = [request EXCEPT ![work[a].dev] = None]
  /\ attempts' = [attempts EXCEPT ![a][work[a].dev] = 0]
  /\ UNCHANGED <<marker, rejection, device, invite, expired, via, witness, left>>

(* writeRejection reads the request to learn its invite; without a request *)
(* there is no notice, but the file is deleted all the same.               *)
StartReject(a, d) ==
  /\ IF request[d] = None
     THEN Go(a, "dropping", d, None) /\ UNCHANGED refused
     ELSE Go(a, "signing", d, request[d]) /\ refused' = refused \cup {<<d, request[d]>>}
  /\ Cross(d)

RejectRequest(a, d) ==
  /\ Spend("reject")
  /\ Doing(a, "idle")
  /\ StartReject(a, d)
  /\ UNCHANGED <<folder, device, invite, expired, via, attempts, halted>>

(* A wrong safety code is counted, and the last allowed one rejects.       *)
WrongSafetyCode(a, d) ==
  /\ Spend("guess")
  /\ Doing(a, "idle") /\ Approvable(a, d)
  /\ attempts' = [attempts EXCEPT ![a][d] = @ + 1]
  /\ IF attempts'[a][d] >= MaxApproveAttempts
     THEN StartReject(a, d)
     ELSE UNCHANGED <<work, refused, crossed>>
  /\ UNCHANGED <<folder, device, invite, expired, via, halted>>

NoticeOf(a) == [inv |-> work[a].inv, by |-> a]

(* Mutant: the request goes before the notice is complete. *)
DropFirst(a) ==
  /\ Doing(a, "signing")
  /\ request' = [request EXCEPT ![work[a].dev] = None]
  /\ rejection' = [rejection EXCEPT ![work[a].dev] = [file |-> None, sig |-> NoticeOf(a)]]
  /\ work' = [work EXCEPT ![a].at = "noticing"]
  /\ UNCHANGED <<marker, device, invite, expired, via, attempts, witness, left>>

(* deleteRejection, then the signature of the new notice.                  *)
RejectSign(a) ==
  /\ Doing(a, "signing")
  /\ rejection' = [rejection EXCEPT ![work[a].dev] = [file |-> None, sig |-> NoticeOf(a)]]
  /\ work' = [work EXCEPT ![a].at = "noticing"]
  /\ UNCHANGED <<marker, request, device, invite, expired, via, attempts, witness, left>>

(* Create fails when another admin's notice is there already.              *)
RejectNotice(a) ==
  /\ Doing(a, "noticing")
  /\ IF rejection[work[a].dev].file = None
     THEN /\ rejection' = [rejection EXCEPT ![work[a].dev].file = NoticeOf(a)]
          /\ work' = [work EXCEPT ![a].at = "dropping"]
     ELSE Done(a) /\ UNCHANGED rejection
  /\ UNCHANGED <<marker, request, device, invite, expired, via, attempts, witness, left>>

RejectDrop(a) ==
  /\ Doing(a, "dropping") /\ Done(a)
  /\ request' = [request EXCEPT ![work[a].dev] = None]
  /\ attempts' = [attempts EXCEPT ![a][work[a].dev] = 0]
  /\ UNCHANGED <<marker, rejection, device, invite, expired, via, witness, left>>

(* An operation of an admin ends early: an error, or the end of the        *)
(* program, which also forgets the counted attempts.                       *)
AdminStops(a) ==
  /\ Spend("stop")
  /\ ~Doing(a, "idle") /\ Done(a)
  /\ \/ attempts' = [attempts EXCEPT ![a] = [d \in Device |-> 0]]
     \/ UNCHANGED attempts
  /\ halted' = IF Doing(a, "marking") THEN halted \cup {work[a].inv} ELSE halted
  /\ UNCHANGED <<folder, device, invite, expired, via, refused, crossed>>

-----------------------------------------------------------------------------
DeviceStep(d) ==
  \/ \E i \in Invite, replace \in BOOLEAN : JoinStart(d, i, replace)
  \/ JoinClearRequest(d) \/ JoinClearNotice(d) \/ JoinSend(d) \/ JoinAdopt(d)
  \/ Refresh(d) \/ CancelJoin(d)
  \/ RefreshAnswer(d) \/ LeaveFiles(d) \/ AbandonJoin(d)
  \/ CancelOffline(d) \/ DeviceStops(d)

AdminStep(a) ==
  \/ \E i \in Invite : CreateInvite(a, i) \/ WithdrawInvite(a, i)
  \/ PublishMarker(a) \/ DeleteMarker(a) \/ SyncInviteMarkers(a)
  \/ \E d \in Device : ApproveCheck(a, d) \/ RejectRequest(a, d) \/ WrongSafetyCode(a, d)
  \/ ApproveList(a) \/ ApproveMark(a) \/ ApproveAnnounce(a) \/ ApproveClose(a)
  \/ RejectSign(a) \/ RejectNotice(a) \/ RejectDrop(a)
  \/ AdminStops(a)

Next ==
  \/ \E d \in Device : DeviceStep(d)
  \/ \E a \in Admin : AdminStep(a)
  \/ \E i \in Invite : Expire(i)

(* Service.Run refreshes every 30 seconds, and an operation that has begun *)
(* goes on unless its program stops.                                       *)
Fairness == \A d \in Device :
  /\ WF_vars(Refresh(d))
  /\ WF_vars(RefreshAnswer(d))
  /\ WF_vars(LeaveFiles(d))
  /\ WF_vars(AbandonJoin(d))

Spec == Init /\ [][Next]_vars /\ Fairness

-----------------------------------------------------------------------------

(* An invite admits one device, unless an approval stopped after the       *)
(* device was listed and before the invite was marked used: nothing else   *)
(* lets a second request with the same code pass (Approve, checkRequest).  *)
OneDevicePerInvite == \A d, e \in Listed : d # e /\ via[d] = via[e] => via[d] \in halted

(* A device that waits has a request in the storage or an answer it will   *)
(* accept, also after programs stopped in the middle of a rejection; the   *)
(* exceptions are rejections that overlap with another rejection of the    *)
(* device or with its own join or leave, and a device that stopped halfway *)
(* through leaving (writeRejection before deleteRequest, rejected, leave). *)
RequestOrAnswer == \A d \in Device :
  standing[d] = "joining" /\ step[d].at \notin {"left", "given up"} =>
    d \in Listed \/ request[d] = asked[d] \/ RejectionCounts(d) \/ d \in crossed

(* Joining as its users see it: only admitted devices become members, only *)
(* devices an admin refused with the invite they asked with are sent away, *)
(* and a device that waits learns of its admission.                        *)
Promise == INSTANCE Admission WITH
  Device <- Device, Invite <- Invite, NoInvite <- None,
  standing <- standing, asked <- asked, told <- told, listed <- Listed, refused <- refused
ImplementsAdmission == Promise!Spec

=============================================================================
