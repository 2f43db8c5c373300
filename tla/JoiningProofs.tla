---------------------------- MODULE JoiningProofs ----------------------------
(***************************************************************************)
(* Theorems about Joining, for any number of devices, admins and invites:  *)
(* an invite admits one device, every step of devices and admins is a step *)
(* of Admission, or none, and a device that waits has a request in the     *)
(* storage or an answer to it.                                             *)
(***************************************************************************)
EXTENDS Joining, TLAPS

(* What a device is doing has these fields, and an invite or none; what an *)
(* admin is doing has these.                                               *)
IsStep(s) ==
  /\ s = [x \in DOMAIN s |-> s[x]] /\ DOMAIN s = {"at", "inv", "cancel"}
  /\ s.inv \in Invite \cup {None}
IsWork(w) == w = [x \in DOMAIN w |-> w[x]] /\ DOMAIN w = {"at", "dev", "inv"}

TypeInv ==
  /\ invite \in [Invite -> {"none", "open", "used", "gone"}]
  /\ via \in [Device -> Invite \cup {None}]
  /\ request \in [Device -> Invite \cup {None}]
  /\ step = [d \in Device |-> step[d]] /\ \A d \in Device : IsStep(step[d])
  /\ work = [a \in Admin |-> work[a]] /\ \A a \in Admin : IsWork(work[a])

(* An admin works on its own invites, and approves devices.                *)
OwnWork == \A a \in Admin :
  /\ work[a].at \in {"publishing", "listing", "marking"} => work[a].inv \in Invite /\ OwnerOf[work[a].inv] = a
  /\ work[a].at \in {"listing", "marking"} => work[a].dev \in Device

(* The invite of a listed device is no longer open, or its approval is at  *)
(* the step that marks it, or stopped there.                               *)
Spent(i) ==
  \/ invite[i] \in {"used", "gone"}
  \/ work[OwnerOf[i]].at = "marking" /\ work[OwnerOf[i]].inv = i
  \/ i \in halted
InvitesSpent == \A d \in Listed : Spent(via[d])

(* Nobody has been listed with the invite of a device about to be listed.  *)
FirstListed == \A a \in Admin : work[a].at = "listing" =>
  \A d \in Listed : via[d] = work[a].inv => via[d] \in halted

IInv == TypeInv /\ OwnWork /\ InvitesSpent /\ FirstListed /\ OneDevicePerInvite
-----------------------------------------------------------------------------
LEMMA InitEstablishes == Init => IInv
<1> SUFFICES ASSUME Init PROVE IInv
  OBVIOUS
<1>1. TypeInv
  <2>1. IsStep(Rest) /\ IsWork(Idle)
    BY DEF Rest, Idle, IsStep, IsWork
  <2>2. /\ invite = [i \in Invite |-> "none"] /\ via = [d \in Device |-> None] /\ request = [d \in Device |-> None]
        /\ step = [d \in Device |-> Rest] /\ work = [a \in Admin |-> Idle]
    BY DEF Init
  <2> QED
    BY <2>1, <2>2 DEF TypeInv
<1>2. Listed = {} /\ \A a \in Admin : work[a].at = "idle"
  BY DEF Init, Listed, Idle
<1> QED
  BY <1>1, <1>2 DEF IInv, OwnWork, InvitesSpent, FirstListed, OneDevicePerInvite

(* Steps that neither list a device nor touch invites and work.            *)
LEMMA Elsewhere ==
  ASSUME IInv, TypeInv', invite' = invite, via' = via, work' = work, halted' = halted
  PROVE  IInv'
BY DEF IInv, OwnWork, InvitesSpent, Spent, FirstListed, OneDevicePerInvite, Listed

LEMMA DeviceInv ==
  ASSUME IInv, NEW d \in Device, DeviceStep(d)
  PROVE  IInv'
<1> USE DEF IInv
<1>1. invite' = invite /\ via' = via /\ work' = work /\ halted' = halted
  BY DEF DeviceStep, JoinStart, JoinClearRequest, JoinClearNotice, JoinSend, JoinAdopt, Refresh, CancelJoin,
         ReadAccessList, RefreshAnswer, LeaveFiles, AbandonJoin, CancelOffline, DeviceStops, admin, witness
<1>2. step' = [e \in Device |-> step'[e]] /\ \A e \in Device : IsStep(step'[e])
  <2>1. \/ UNCHANGED step
        \/ \E s : IsStep(s) /\ step' = [step EXCEPT ![d] = s]
        \/ \E at : step' = [step EXCEPT ![d].at = at]
    <3>1. ASSUME NEW i \in Invite, NEW replace \in BOOLEAN, JoinStart(d, i, replace)
          PROVE  UNCHANGED step \/ \E s : IsStep(s) /\ step' = [step EXCEPT ![d] = s]
      <4>1. IsStep([at |-> "clearing", inv |-> i, cancel |-> FALSE])
        BY DEF IsStep
      <4> QED
        BY <3>1, <4>1 DEF JoinStart
    <3>2. ASSUME NEW cancel, ReadAccessList(d, cancel)
          PROVE  UNCHANGED step \/ \E s : IsStep(s) /\ step' = [step EXCEPT ![d] = s]
      <4>1. IsStep([at |-> "asking", inv |-> None, cancel |-> cancel])
        BY DEF IsStep
      <4> QED
        BY <3>2, <4>1 DEF ReadAccessList
    <3>3. IsStep(Rest)
      BY DEF Rest, IsStep
    <3>4. ASSUME \/ JoinClearRequest(d) \/ JoinClearNotice(d) \/ JoinSend(d) \/ JoinAdopt(d)
                 \/ RefreshAnswer(d) \/ LeaveFiles(d) \/ AbandonJoin(d)
                 \/ CancelOffline(d) \/ DeviceStops(d)
          PROVE  UNCHANGED step \/ Finish(d) \/ \E at : Continue(d, at)
      BY <3>4 DEF JoinClearRequest, JoinClearNotice, JoinSend, JoinAdopt, RefreshAnswer, LeaveFiles, AbandonJoin,
                  CancelOffline, DeviceStops
    <3> QED
      BY <3>1, <3>2, <3>3, <3>4 DEF DeviceStep, Refresh, CancelJoin, Continue, Finish
  <2> QED
    BY <2>1 DEF TypeInv, IsStep
<1>3. request' \in [Device -> Invite \cup {None}]
  <2>1. CASE JoinSend(d)
    BY <2>1 DEF JoinSend, TypeInv, IsStep
  <2>2. CASE request' \in {request, [request EXCEPT ![d] = None]}
    BY <2>2 DEF TypeInv
  <2> QED
    BY <2>1, <2>2 DEF DeviceStep, JoinStart, JoinClearRequest, JoinClearNotice, JoinAdopt, Refresh, CancelJoin,
         ReadAccessList, RefreshAnswer, LeaveFiles, AbandonJoin, CancelOffline, DeviceStops, folder
<1>4. TypeInv'
  BY <1>1, <1>2, <1>3 DEF TypeInv
<1> QED
  BY <1>1, <1>4, Elsewhere

(* What an admin does at no step of an approval: it goes on to something   *)
(* else, and no invite opens again.                                        *)
LEMMA OtherWork ==
  ASSUME IInv, TypeInv', NEW a \in Admin,
         via' = via, halted' = halted,
         work[a].at # "marking",
         work'[a].at \notin {"listing", "marking"},
         work'[a].at = "publishing" => work'[a].inv \in Invite /\ OwnerOf[work'[a].inv] = a,
         \A b \in Admin \ {a} : work'[b] = work[b],
         \A i \in Invite : invite[i] \in {"used", "gone"} => invite'[i] \in {"used", "gone"}
  PROVE  IInv'
<1> USE DEF IInv
<1>1. OwnWork'
  BY DEF OwnWork
<1>2. InvitesSpent'
  BY JoiningAssumption DEF InvitesSpent, Spent, Listed, TypeInv
<1>3. FirstListed' /\ OneDevicePerInvite'
  BY DEF FirstListed, OneDevicePerInvite, Listed
<1> QED
  BY <1>1, <1>2, <1>3

(* Every step of an admin keeps the types. *)
LEMMA AdminTypes ==
  ASSUME IInv, NEW a \in Admin, AdminStep(a)
  PROVE  TypeInv'
<1> USE DEF IInv
<1>1. step' = step
  BY DEF AdminStep, CreateInvite, WithdrawInvite, PublishMarker, DeleteMarker, SyncInviteMarkers, ApproveCheck,
         RejectRequest, WrongSafetyCode, ApproveList, ApproveMark, ApproveAnnounce, ApproveClose, RejectSign,
         RejectNotice, RejectDrop, AdminStops, device
<1>2. work' = [b \in Admin |-> work'[b]] /\ \A b \in Admin : IsWork(work'[b])
  <2>1. \/ UNCHANGED work
        \/ \E w : IsWork(w) /\ work' = [work EXCEPT ![a] = w]
        \/ \E at : work' = [work EXCEPT ![a].at = at]
    <3>1. IsWork(Idle)
      BY DEF IsWork, Idle
    <3>2. \A at, d, i : IsWork([at |-> at, dev |-> d, inv |-> i])
      BY DEF IsWork
    <3>3. \/ UNCHANGED work \/ Done(a) \/ \E at, d, i : Go(a, at, d, i)
          \/ \E at : work' = [work EXCEPT ![a].at = at]
      BY DEF AdminStep, CreateInvite, WithdrawInvite, PublishMarker, DeleteMarker, SyncInviteMarkers, ApproveCheck,
             RejectRequest, WrongSafetyCode, StartReject, ApproveList, ApproveMark, ApproveAnnounce, ApproveClose,
             RejectSign, RejectNotice, RejectDrop, AdminStops, admin
    <3> QED
      BY <3>1, <3>2, <3>3 DEF Done, Go
  <2> QED
    BY <2>1 DEF TypeInv, IsWork
<1>3. request' \in [Device -> Invite \cup {None}]
  <2>1. request' = request \/ \E d : request' = [request EXCEPT ![d] = None]
    BY DEF AdminStep, CreateInvite, WithdrawInvite, PublishMarker, DeleteMarker, SyncInviteMarkers, ApproveCheck,
           RejectRequest, WrongSafetyCode, ApproveList, ApproveMark, ApproveAnnounce, ApproveClose, RejectSign,
           RejectNotice, RejectDrop, AdminStops, folder
  <2> QED
    BY <2>1 DEF TypeInv
<1>4. invite' \in [Invite -> {"none", "open", "used", "gone"}]
  <2>1. invite' = invite \/ \E i : \E s \in {"open", "used", "gone"} : invite' = [invite EXCEPT ![i] = s]
    BY DEF AdminStep, CreateInvite, WithdrawInvite, PublishMarker, DeleteMarker, SyncInviteMarkers, ApproveCheck,
           RejectRequest, WrongSafetyCode, ApproveList, ApproveMark, ApproveAnnounce, ApproveClose, RejectSign,
           RejectNotice, RejectDrop, AdminStops, admin
  <2> QED
    BY <2>1 DEF TypeInv
<1>5. via' \in [Device -> Invite \cup {None}]
  <2>1. via' = via \/ ApproveList(a)
    BY DEF AdminStep, CreateInvite, WithdrawInvite, PublishMarker, DeleteMarker, SyncInviteMarkers, ApproveCheck,
           RejectRequest, WrongSafetyCode, ApproveMark, ApproveAnnounce, ApproveClose, RejectSign,
           RejectNotice, RejectDrop, AdminStops, admin
  <2> QED
    BY <2>1 DEF ApproveList, Doing, OwnWork, TypeInv
<1> QED
  BY <1>1, <1>2, <1>3, <1>4, <1>5 DEF TypeInv

LEMMA ListInv ==
  ASSUME IInv, NEW a \in Admin, ApproveList(a)
  PROVE  IInv'
<1> USE DEF IInv
<1> DEFINE d == work[a].dev
           i == work[a].inv
<1>1. d \in Device /\ i \in Invite /\ OwnerOf[i] = a /\ d \notin Listed
  BY DEF ApproveList, Doing, OwnWork
<1>2. via' = [via EXCEPT ![d] = i] /\ invite' = invite /\ halted' = halted
  BY DEF ApproveList, witness
<1>3. work' = [work EXCEPT ![a].at = "marking"] /\ work[a].at = "listing" /\ request' = request /\ step' = step
  BY DEF ApproveList, Doing, folder, device
<1>4. TypeInv'
  BY AdminTypes DEF AdminStep
<1>5. work'[a].at = "marking" /\ work'[a].dev = d /\ work'[a].inv = i /\ \A b \in Admin \ {a} : work'[b] = work[b]
  BY <1>3 DEF TypeInv, IsWork
<1> HIDE DEF d, i
<1>6. Listed' = Listed \cup {d} /\ via'[d] = i /\ \A e \in Listed : e # d /\ via'[e] = via[e]
  BY <1>1, <1>2, JoiningAssumption DEF Listed, TypeInv
<1>7. \A e \in Listed : via[e] = i => i \in halted
  BY <1>3 DEF FirstListed, i
<1>8. \A e \in Listed : via[e] \in Invite /\ OwnerOf[via[e]] \in Admin
  BY JoiningAssumption DEF Listed, TypeInv
<1>9. OwnWork'
  BY <1>1, <1>5 DEF OwnWork
<1>10. InvitesSpent'
  BY <1>1, <1>2, <1>3, <1>5, <1>6, <1>8 DEF InvitesSpent, Spent
<1>11. FirstListed'
  <2> SUFFICES ASSUME NEW b \in Admin, work'[b].at = "listing", NEW e \in Listed', via'[e] = work'[b].inv
               PROVE  via'[e] \in halted'
    BY DEF FirstListed
  <2>1. b # a /\ work'[b] = work[b]
    BY <1>5
  <2>2. OwnerOf[work[b].inv] = b
    BY <2>1 DEF OwnWork
  <2> QED
    BY <1>1, <1>2, <1>6, <2>1, <2>2 DEF FirstListed
<1>12. OneDevicePerInvite'
  BY <1>2, <1>6, <1>7 DEF OneDevicePerInvite
<1> QED
  BY <1>4, <1>9, <1>10, <1>11, <1>12

(* Approve checks the request: with an open invite of its own that an      *)
(* earlier device was listed with, that approval stopped.                  *)
LEMMA CheckInv ==
  ASSUME IInv, NEW a \in Admin, NEW d \in Device, ApproveCheck(a, d)
  PROVE  IInv'
<1> USE DEF IInv
<1>1. TypeInv'
  BY AdminTypes DEF AdminStep
<1>2. via' = via /\ invite' = invite /\ halted' = halted
  BY DEF ApproveCheck, witness
<1>3. work[a].at = "idle" /\ request[d] \in Invite /\ OwnerOf[request[d]] = a /\ invite[request[d]] = "open"
  BY DEF ApproveCheck, Doing, Approvable, RequestOk, TypeInv
<1>4. /\ work'[a].at = "listing" /\ work'[a].dev = d /\ work'[a].inv = request[d]
      /\ \A b \in Admin \ {a} : work'[b] = work[b]
  BY DEF ApproveCheck, Go, TypeInv
<1>5. OwnWork'
  BY <1>3, <1>4 DEF OwnWork
<1>6. InvitesSpent'
  BY <1>2, <1>3, <1>4, JoiningAssumption DEF InvitesSpent, Spent, Listed, TypeInv
<1>7. FirstListed'
  <2>1. \A e \in Listed : via[e] = request[d] => request[d] \in halted
    BY <1>3 DEF InvitesSpent, Spent
  <2> QED
    BY <1>2, <1>4, <2>1 DEF FirstListed, Listed
<1>8. OneDevicePerInvite'
  BY <1>2 DEF OneDevicePerInvite, Listed
<1> QED
  BY <1>1, <1>5, <1>6, <1>7, <1>8

(* The invite is marked used. *)
LEMMA MarkInv ==
  ASSUME IInv, NEW a \in Admin, ApproveMark(a)
  PROVE  IInv'
<1> USE DEF IInv
<1>1. TypeInv'
  BY AdminTypes DEF AdminStep
<1>2. via' = via /\ halted' = halted /\ invite' = [invite EXCEPT ![work[a].inv] = "used"]
  BY DEF ApproveMark, witness
<1>3. work'[a].at = "announcing" /\ \A b \in Admin \ {a} : work'[b] = work[b]
  BY DEF ApproveMark, TypeInv, IsWork
<1>4. work[a].inv \in Invite /\ OwnerOf[work[a].inv] = a
  BY DEF ApproveMark, Doing, OwnWork
<1>5. OwnWork' /\ FirstListed' /\ OneDevicePerInvite'
  BY <1>2, <1>3 DEF OwnWork, FirstListed, OneDevicePerInvite, Listed
<1>6. InvitesSpent'
  <2>1. \A i \in Invite : Spent(i) => Spent(i)'
    BY <1>2, <1>3, <1>4, JoiningAssumption DEF Spent, TypeInv
  <2> QED
    BY <1>2, <2>1 DEF InvitesSpent, Listed, TypeInv
<1> QED
  BY <1>1, <1>5, <1>6

(* A program that stops between listing and marking leaves its trace.      *)
LEMMA StopsInv ==
  ASSUME IInv, NEW a \in Admin, AdminStops(a)
  PROVE  IInv'
<1> USE DEF IInv
<1>1. TypeInv'
  BY AdminTypes DEF AdminStep
<1>2. via' = via /\ invite' = invite /\ halted \subseteq halted'
  BY DEF AdminStops, admin
<1>3. work'[a].at = "idle" /\ \A b \in Admin \ {a} : work'[b] = work[b]
  BY DEF AdminStops, Done, Idle, TypeInv
<1>4. work[a].at = "marking" => work[a].inv \in halted'
  BY DEF AdminStops, Doing
<1>5. OwnWork' /\ FirstListed' /\ OneDevicePerInvite'
  BY <1>2, <1>3 DEF OwnWork, FirstListed, OneDevicePerInvite, Listed
<1>6. InvitesSpent'
  <2>1. \A i \in Invite : Spent(i) => Spent(i)'
    BY <1>2, <1>3, <1>4, JoiningAssumption DEF Spent
  <2> QED
    BY <1>2, <2>1 DEF InvitesSpent, Listed, TypeInv
<1> QED
  BY <1>1, <1>5, <1>6

LEMMA RejectInv ==
  ASSUME IInv, NEW a \in Admin, NEW d \in Device, RejectRequest(a, d) \/ WrongSafetyCode(a, d)
  PROVE  IInv'
<1> USE DEF IInv
<1>1. TypeInv'
  BY AdminTypes DEF AdminStep
<1>2. via' = via /\ invite' = invite /\ halted' = halted /\ work[a].at = "idle"
  BY DEF RejectRequest, WrongSafetyCode, Doing
<1>3. UNCHANGED work \/ Go(a, "dropping", d, None) \/ Go(a, "signing", d, request[d])
  BY DEF RejectRequest, WrongSafetyCode, StartReject
<1>4. work'[a].at \in {"idle", "dropping", "signing"} /\ \A b \in Admin \ {a} : work'[b] = work[b]
  BY <1>2, <1>3 DEF Go, TypeInv
<1> QED
  BY <1>1, <1>2, <1>4, OtherWork

(* The steps that create, withdraw and announce invites and that answer    *)
(* requests.                                                               *)
LEMMA PaperworkInv ==
  ASSUME IInv, NEW a \in Admin,
         \/ \E i \in Invite : CreateInvite(a, i) \/ WithdrawInvite(a, i)
         \/ PublishMarker(a) \/ DeleteMarker(a) \/ ApproveAnnounce(a) \/ ApproveClose(a)
         \/ RejectSign(a) \/ RejectNotice(a) \/ RejectDrop(a)
  PROVE  IInv'
<1> USE DEF IInv
<1>1. TypeInv'
  BY AdminTypes DEF AdminStep
<1>2. via' = via /\ halted' = halted /\ work[a].at # "marking"
  BY DEF CreateInvite, WithdrawInvite, PublishMarker, DeleteMarker, ApproveAnnounce, ApproveClose, RejectSign,
         RejectNotice, RejectDrop, Doing, witness
<1>3. /\ work'[a].at \notin {"listing", "marking"}
      /\ work'[a].at = "publishing" => work'[a].inv \in Invite /\ OwnerOf[work'[a].inv] = a
      /\ \A b \in Admin \ {a} : work'[b] = work[b]
  <2>1. ASSUME NEW i \in Invite, CreateInvite(a, i) PROVE Go(a, "publishing", None, i) /\ OwnerOf[i] = a
    BY <2>1 DEF CreateInvite
  <2>2. ASSUME NEW i \in Invite, WithdrawInvite(a, i) PROVE Go(a, "withdrawing", None, i)
    BY <2>2 DEF WithdrawInvite
  <2>3. ASSUME \/ PublishMarker(a) \/ DeleteMarker(a) \/ ApproveAnnounce(a) \/ ApproveClose(a)
               \/ RejectSign(a) \/ RejectNotice(a) \/ RejectDrop(a)
        PROVE  Done(a) \/ \E at \in {"closing", "noticing", "dropping"} : work' = [work EXCEPT ![a].at = at]
    BY <2>3 DEF PublishMarker, DeleteMarker, ApproveAnnounce, ApproveClose, RejectSign, RejectNotice, RejectDrop
  <2> QED
    BY <2>1, <2>2, <2>3 DEF Go, Done, Idle, TypeInv, IsWork
<1>4. \A i \in Invite : invite[i] \in {"used", "gone"} => invite'[i] \in {"used", "gone"}
  <2>1. \/ invite' = invite
        \/ \E i : invite' = [invite EXCEPT ![i] = "gone"]
        \/ \E i : invite[i] = "none" /\ invite' = [invite EXCEPT ![i] = "open"]
    BY DEF CreateInvite, WithdrawInvite, PublishMarker, DeleteMarker, ApproveAnnounce, ApproveClose, RejectSign,
           RejectNotice, RejectDrop
  <2> QED
    BY <2>1 DEF TypeInv
<1> QED
  BY <1>1, <1>2, <1>3, <1>4, OtherWork

LEMMA StepPreserves == IInv /\ [Next]_vars => IInv'
<1> SUFFICES ASSUME IInv, [Next]_vars PROVE IInv'
  OBVIOUS
<1>1. ASSUME NEW d \in Device, DeviceStep(d) PROVE IInv'
  BY <1>1, DeviceInv
<1>2. ASSUME NEW a \in Admin, AdminStep(a) PROVE IInv'
  <2>1. CASE SyncInviteMarkers(a)
    <3>1. TypeInv'
      BY <1>2, AdminTypes
    <3> QED
      BY <2>1, <3>1, Elsewhere DEF SyncInviteMarkers, admin, witness
  <2> QED
    BY <1>2, <2>1, CheckInv, ListInv, MarkInv, StopsInv, RejectInv, PaperworkInv DEF AdminStep
<1>3. ASSUME NEW i \in Invite, Expire(i) PROVE IInv'
  <2>1. TypeInv'
    BY <1>3 DEF Expire, IInv, TypeInv, folder, device
  <2> QED
    BY <1>3, <2>1, Elsewhere DEF Expire, witness
<1>4. CASE UNCHANGED vars
  <2>1. TypeInv'
    BY <1>4 DEF IInv, TypeInv, vars, folder, device, admin
  <2> QED
    BY <1>4, <2>1, Elsewhere DEF vars, admin, witness
<1> QED
  BY <1>1, <1>2, <1>3, <1>4 DEF Next

(* An invite admits one device, whatever the devices and admins do and     *)
(* wherever they stop, except an invite whose approval stopped between the *)
(* access list and the mark (Approve in package club).                     *)
THEOREM OneDevice == Spec => []OneDevicePerInvite
<1>1. IInv => OneDevicePerInvite
  BY DEF IInv
<1> QED
  BY InitEstablishes, StepPreserves, <1>1, PTL DEF Spec
-----------------------------------------------------------------------------
(* What joining promises a device. *)

IsRejection(r) == r = [x \in DOMAIN r |-> r[x]] /\ DOMAIN r = {"file", "sig"}

AnswerTypes ==
  /\ standing = [d \in Device |-> standing[d]]
  /\ asked = [d \in Device |-> asked[d]]
  /\ rejection = [d \in Device |-> rejection[d]] /\ \A d \in Device : IsRejection(rejection[d])

(* A device asks while it is on its own, and reads answers and leaves while *)
(* it waits.                                                               *)
StageOf(d) ==
  /\ step[d].at \in {"clearing", "clearingNotice", "sending", "adopting"} => standing[d] = "local" /\ step[d].inv \in Invite
  /\ step[d].at \in {"asking", "leaving", "giving up", "left", "given up"} => standing[d] = "joining"

(* Admins sign what they decided, and a device that leaves without giving  *)
(* up itself was refused with the invite it asked with.                    *)
SignedFor(d) == rejection[d].sig \in Notice => <<d, rejection[d].sig.inv>> \in refused
SentAway(d) == step[d].at \in {"leaving", "left"} => <<d, asked[d]>> \in refused
Decided(a) == work[a].at = "signing" => work[a].dev \in Device /\ <<work[a].dev, work[a].inv>> \in refused

Answered(d) == StageOf(d) /\ SignedFor(d) /\ SentAway(d)
AInv == AnswerTypes /\ (\A d \in Device : Answered(d)) /\ (\A a \in Admin : Decided(a))

LEMMA InitAnswers == Init => AInv
<1> SUFFICES ASSUME Init PROVE AInv
  OBVIOUS
<1>1. AnswerTypes
  BY DEF Init, AnswerTypes, IsRejection
<1>2. \A d \in Device : Answered(d)
  BY JoiningAssumption DEF Init, Rest, Answered, StageOf, SignedFor, SentAway
<1>3. \A a \in Admin : Decided(a)
  BY DEF Init, Idle, Decided
<1> QED
  BY <1>1, <1>2, <1>3 DEF AInv

(* A step of a device changes its own state and files.                     *)
LEMMA OwnState ==
  ASSUME TypeInv, AnswerTypes, NEW d \in Device, DeviceStep(d)
  PROVE  /\ AnswerTypes'
         /\ work' = work /\ refused' = refused /\ via' = via
         /\ \A e \in Device \ {d} :
              step'[e] = step[e] /\ standing'[e] = standing[e] /\ asked'[e] = asked[e] /\ rejection'[e] = rejection[e]
<1>1. work' = work /\ refused' = refused /\ via' = via
  BY DEF DeviceStep, JoinStart, JoinClearRequest, JoinClearNotice, JoinSend, JoinAdopt, Refresh, CancelJoin,
         ReadAccessList, RefreshAnswer, LeaveFiles, AbandonJoin, CancelOffline, DeviceStops, admin, witness
<1>2. \/ UNCHANGED standing
      \/ \E s : standing' = [standing EXCEPT ![d] = s]
  BY DEF DeviceStep, JoinStart, JoinClearRequest, JoinClearNotice, JoinSend, JoinAdopt, Refresh, CancelJoin,
         ReadAccessList, RefreshAnswer, LeaveFiles, AbandonJoin, CancelOffline, DeviceStops
<1>3. \/ UNCHANGED asked
      \/ \E i : asked' = [asked EXCEPT ![d] = i]
  BY DEF DeviceStep, JoinStart, JoinClearRequest, JoinClearNotice, JoinSend, JoinAdopt, Refresh, CancelJoin,
         ReadAccessList, RefreshAnswer, LeaveFiles, AbandonJoin, CancelOffline, DeviceStops
<1>4. \/ UNCHANGED rejection
      \/ rejection' = [rejection EXCEPT ![d] = NoNotice]
  BY DEF DeviceStep, JoinStart, JoinClearRequest, JoinClearNotice, JoinSend, JoinAdopt, Refresh, CancelJoin,
         ReadAccessList, RefreshAnswer, LeaveFiles, AbandonJoin, CancelOffline, DeviceStops, folder
<1>5. \/ UNCHANGED step
      \/ \E s : step' = [step EXCEPT ![d] = s]
      \/ \E at : step' = [step EXCEPT ![d].at = at]
  BY DEF DeviceStep, JoinStart, JoinClearRequest, JoinClearNotice, JoinSend, JoinAdopt, Refresh, CancelJoin,
         ReadAccessList, RefreshAnswer, LeaveFiles, AbandonJoin, CancelOffline, DeviceStops, Continue, Finish
<1>6. IsRejection(NoNotice)
  BY DEF IsRejection, NoNotice
<1>7. AnswerTypes'
  BY <1>2, <1>3, <1>4, <1>6 DEF AnswerTypes
<1> QED
  BY <1>1, <1>2, <1>3, <1>4, <1>5, <1>7 DEF AnswerTypes, TypeInv

LEMMA DeviceAnswers ==
  ASSUME IInv, AInv, NEW d \in Device, DeviceStep(d)
  PROVE  AInv'
<1>1. /\ AnswerTypes'
      /\ work' = work /\ refused' = refused /\ via' = via
      /\ \A e \in Device \ {d} :
           step'[e] = step[e] /\ standing'[e] = standing[e] /\ asked'[e] = asked[e] /\ rejection'[e] = rejection[e]
  BY OwnState DEF IInv, AInv
<1>2. \A e \in Device \ {d} : Answered(e)'
  BY <1>1 DEF AInv, Answered, StageOf, SignedFor, SentAway
<1>3. \A a \in Admin : Decided(a)'
  BY <1>1 DEF AInv, Decided
<1>4. Answered(d)'
  <2>1. /\ \A s : step' = [step EXCEPT ![d] = s] => step'[d] = s
        /\ \A s : standing' = [standing EXCEPT ![d] = s] => standing'[d] = s
        /\ \A i : asked' = [asked EXCEPT ![d] = i] => asked'[d] = i
        /\ rejection' = [rejection EXCEPT ![d] = NoNotice] => rejection'[d] = NoNotice
    BY DEF IInv, TypeInv, AInv, AnswerTypes
  <2>2. ASSUME NEW at, Continue(d, at)
        PROVE  step'[d].at = at /\ step'[d].inv = step[d].inv
    BY <2>2 DEF Continue, IsStep, IInv, TypeInv
  <2>3. Finish(d) => step'[d].at = "idle"
    BY DEF Finish, Rest, IInv, TypeInv
  <2>4. rejection'[d] = NoNotice => SignedFor(d)'
    BY JoiningAssumption DEF NoNotice, SignedFor
  <2>5. StageOf(d) /\ SignedFor(d) /\ SentAway(d)
    BY DEF AInv, Answered
  <2>6. refused' = refused
    BY <1>1
  <2>7. ASSUME NEW i \in Invite, NEW replace \in BOOLEAN, JoinStart(d, i, replace) PROVE Answered(d)'
    <3>1. \/ UNCHANGED step
          \/ standing[d] = "local" /\ step'[d].at = "clearing" /\ step'[d].inv = i
      BY <2>7 DEF JoinStart, IInv, TypeInv
    <3>2. UNCHANGED <<rejection, standing, asked>>
      BY <2>7 DEF JoinStart, folder
    <3> QED
      BY <2>5, <2>6, <3>1, <3>2 DEF Answered, StageOf, SignedFor, SentAway
  <2>8. CASE JoinClearRequest(d) \/ JoinSend(d)
    <3>1. /\ UNCHANGED <<rejection, standing, asked>>
          /\ step[d].at \in {"clearing", "sending"} /\ step'[d].at \in {"clearingNotice", "adopting"} /\ step'[d].inv = step[d].inv
      BY <2>2, <2>8 DEF JoinClearRequest, JoinSend, At
    <3> QED
      BY <2>5, <2>6, <3>1 DEF Answered, StageOf, SignedFor, SentAway
  <2>9. CASE JoinClearNotice(d)
    <3>1. /\ UNCHANGED <<standing, asked>> /\ rejection'[d] = NoNotice
          /\ step[d].at = "clearingNotice" /\ step'[d].at = "sending" /\ step'[d].inv = step[d].inv
      BY <2>1, <2>2, <2>9 DEF JoinClearNotice, At
    <3> QED
      BY <2>4, <2>5, <3>1 DEF Answered, StageOf, SentAway
  <2>10. ASSUME NEW cancel, ReadAccessList(d, cancel) PROVE Answered(d)'
    <3>1. UNCHANGED <<rejection, asked>> /\ standing[d] = "joining" /\ step[d].at = "idle"
      BY <2>10 DEF ReadAccessList, folder, At
    <3>2. \/ UNCHANGED step
          \/ UNCHANGED standing /\ step'[d].at = "asking"
      BY <2>10 DEF ReadAccessList, IInv, TypeInv
    <3> QED
      BY <2>5, <2>6, <3>1, <3>2 DEF Answered, StageOf, SignedFor, SentAway
  <2>11. CASE RefreshAnswer(d)
    <3>1. RejectionCounts(d) => <<d, asked[d]>> \in refused
      BY <2>5 DEF RejectionCounts, SignedFor
    <3>2. /\ UNCHANGED <<rejection, standing, asked>> /\ step[d].at = "asking"
          /\ \/ RejectionCounts(d) /\ step'[d].at = "leaving"
             \/ step'[d].at \in {"giving up", "idle"}
      BY <2>2, <2>3, <2>11 DEF RefreshAnswer, folder, At
    <3> QED
      BY <2>5, <2>6, <3>1, <3>2 DEF Answered, StageOf, SignedFor, SentAway
  <2>12. CASE LeaveFiles(d)
    <3>1. /\ UNCHANGED <<standing, asked>> /\ rejection'[d] = NoNotice
          /\ \/ step[d].at = "leaving" /\ step'[d].at = "left"
             \/ step[d].at = "giving up" /\ step'[d].at = "given up"
      BY <2>1, <2>2, <2>12 DEF LeaveFiles, At
    <3> QED
      BY <2>4, <2>5, <2>6, <3>1 DEF Answered, StageOf, SentAway
  <2>13. CASE JoinAdopt(d) \/ AbandonJoin(d) \/ DeviceStops(d)
    <3>1. step'[d].at = "idle" /\ UNCHANGED rejection
      BY <2>3, <2>13 DEF JoinAdopt, AbandonJoin, DeviceStops, folder
    <3> QED
      BY <2>5, <2>6, <3>1 DEF Answered, StageOf, SignedFor, SentAway
  <2>14. CASE CancelOffline(d)
    <3>1. step'[d].at = "idle" /\ UNCHANGED rejection
      BY <2>14 DEF CancelOffline, At, folder
    <3> QED
      BY <2>5, <2>6, <3>1 DEF Answered, StageOf, SignedFor, SentAway
  <2> QED
    BY <2>7, <2>8, <2>9, <2>10, <2>11, <2>12, <2>13, <2>14 DEF DeviceStep, Refresh, CancelJoin
<1> QED
  BY <1>1, <1>2, <1>3, <1>4 DEF AInv

(* Admins touch nothing of a device but the answer to its request.         *)
LEMMA AdminAnswers ==
  ASSUME IInv, AInv, NEW a \in Admin, AdminStep(a)
  PROVE  AInv'
<1>1. UNCHANGED <<standing, asked, step>>
  BY DEF AdminStep, CreateInvite, WithdrawInvite, PublishMarker, DeleteMarker, SyncInviteMarkers, ApproveCheck,
         RejectRequest, WrongSafetyCode, ApproveList, ApproveMark, ApproveAnnounce, ApproveClose, RejectSign,
         RejectNotice, RejectDrop, AdminStops, device
<1>2. refused \subseteq refused'
  BY DEF AdminStep, CreateInvite, WithdrawInvite, PublishMarker, DeleteMarker, SyncInviteMarkers, ApproveCheck,
         RejectRequest, WrongSafetyCode, StartReject, ApproveList, ApproveMark, ApproveAnnounce, ApproveClose,
         RejectSign, RejectNotice, RejectDrop, AdminStops, witness
<1>3. RejectSign(a) \/ RejectNotice(a) \/ UNCHANGED rejection
  BY DEF AdminStep, CreateInvite, WithdrawInvite, PublishMarker, DeleteMarker, SyncInviteMarkers, ApproveCheck,
         RejectRequest, WrongSafetyCode, ApproveList, ApproveMark, ApproveAnnounce, ApproveClose, RejectDrop,
         AdminStops, folder
<1>4. rejection = [d \in Device |-> rejection[d]] /\ \A d \in Device : IsRejection(rejection[d])
  BY DEF AInv, AnswerTypes
<1>5. /\ rejection' = [d \in Device |-> rejection'[d]]
      /\ \A d \in Device : IsRejection(rejection'[d]) /\ SignedFor(d)'
  <2>1. \A d \in Device : SignedFor(d)
    BY DEF AInv, Answered
  <2>2. CASE RejectSign(a)
    <3>1. work[a].dev \in Device /\ <<work[a].dev, work[a].inv>> \in refused
      BY <2>2 DEF RejectSign, Doing, AInv, Decided
    <3>2. rejection' = [rejection EXCEPT ![work[a].dev] = [file |-> None, sig |-> NoticeOf(a)]]
      BY <2>2 DEF RejectSign
    <3>3. IsRejection([file |-> None, sig |-> NoticeOf(a)])
      BY DEF IsRejection
    <3>4. /\ rejection'[work[a].dev].sig.inv = work[a].inv
          /\ \A d \in Device \ {work[a].dev} : rejection'[d] = rejection[d]
      BY <1>4, <3>1, <3>2 DEF NoticeOf
    <3>5. \A d \in Device : SignedFor(d)'
      BY <1>2, <2>1, <3>1, <3>4 DEF SignedFor
    <3> QED
      BY <1>4, <3>2, <3>3, <3>5
  <2>3. CASE RejectNotice(a)
    <3>1. \/ UNCHANGED rejection
          \/ \E n : rejection' = [rejection EXCEPT ![work[a].dev].file = n]
      BY <2>3 DEF RejectNotice
    <3>2. /\ rejection' = [d \in Device |-> rejection'[d]]
          /\ \A d \in Device : IsRejection(rejection'[d]) /\ rejection'[d].sig = rejection[d].sig
      <4>1. CASE UNCHANGED rejection
        BY <1>4, <4>1
      <4>2. ASSUME NEW n, rejection' = [rejection EXCEPT ![work[a].dev].file = n]
            PROVE  /\ rejection' = [d \in Device |-> rejection'[d]]
                   /\ \A d \in Device : IsRejection(rejection'[d]) /\ rejection'[d].sig = rejection[d].sig
        BY <1>4, <4>2 DEF IsRejection
      <4> QED
        BY <3>1, <4>1, <4>2
    <3> QED
      BY <1>2, <2>1, <3>2 DEF SignedFor
  <2>4. CASE UNCHANGED rejection
    BY <1>2, <1>4, <2>1, <2>4 DEF SignedFor
  <2> QED
    BY <1>3, <2>2, <2>3, <2>4
<1>6. AnswerTypes'
  BY <1>1, <1>5 DEF AInv, AnswerTypes
<1>7. \A d \in Device : Answered(d)'
  BY <1>1, <1>2, <1>5 DEF AInv, Answered, StageOf, SentAway
<1>8. \A b \in Admin : Decided(b)'
  <2>1. \/ UNCHANGED work
        \/ \E d \in Device : Go(a, "signing", d, request[d]) /\ <<d, request[d]>> \in refused'
        \/ \E at, d, i : at # "signing" /\ Go(a, at, d, i)
        \/ \E at : at # "signing" /\ work' = [work EXCEPT ![a].at = at]
        \/ Done(a)
    BY DEF AdminStep, CreateInvite, WithdrawInvite, PublishMarker, DeleteMarker, SyncInviteMarkers, ApproveCheck,
           RejectRequest, WrongSafetyCode, StartReject, ApproveList, ApproveMark, ApproveAnnounce, ApproveClose,
           RejectSign, RejectNotice, RejectDrop, AdminStops, admin
  <2>2. \A b \in Admin \ {a} : work'[b] = work[b]
    BY <2>1 DEF Go, Done, IInv, TypeInv
  <2>3. \/ work'[a] = work[a] \/ work'[a].at # "signing"
        \/ work'[a].dev \in Device /\ <<work'[a].dev, work'[a].inv>> \in refused'
    <3>1. work = [b \in Admin |-> work[b]] /\ IsWork(work[a])
      BY DEF IInv, TypeInv
    <3>2. ASSUME NEW at, NEW d, NEW i, Go(a, at, d, i)
          PROVE  work'[a].at = at /\ work'[a].dev = d /\ work'[a].inv = i
      BY <3>1, <3>2 DEF Go
    <3>3. ASSUME NEW at, work' = [work EXCEPT ![a].at = at] PROVE work'[a].at = at
      BY <3>1, <3>3 DEF IsWork
    <3>4. Done(a) => work'[a].at # "signing"
      BY <3>1 DEF Done, Idle
    <3>5. ASSUME NEW d \in Device, Go(a, "signing", d, request[d]), <<d, request[d]>> \in refused'
          PROVE  work'[a].dev \in Device /\ <<work'[a].dev, work'[a].inv>> \in refused'
      <4>1. work'[a].dev = d /\ work'[a].inv = request[d]
        BY <3>2, <3>5
      <4> QED
        BY <3>5, <4>1
    <3>6. ASSUME NEW at, NEW d, NEW i, at # "signing", Go(a, at, d, i) PROVE work'[a].at # "signing"
      BY <3>2, <3>6
    <3> QED
      BY <2>1, <3>3, <3>4, <3>5, <3>6
  <2> QED
    BY <1>2, <2>2, <2>3 DEF AInv, Decided
<1> QED
  BY <1>6, <1>7, <1>8 DEF AInv

LEMMA StepAnswers == IInv /\ AInv /\ [Next]_vars => AInv'
<1> SUFFICES ASSUME IInv, AInv, [Next]_vars PROVE AInv'
  OBVIOUS
<1>1. CASE (\E i \in Invite : Expire(i)) \/ UNCHANGED vars
  <2>1. UNCHANGED <<standing, asked, rejection, step, work, refused>>
    BY <1>1 DEF Expire, vars, folder, device, admin, witness
  <2> QED
    BY <2>1 DEF AInv, AnswerTypes, Answered, StageOf, SignedFor, SentAway, Decided
<1> QED
  BY <1>1, DeviceAnswers, AdminAnswers DEF Next

(* A step of a device is one of the promise, or none.                      *)
LEMMA DeviceKeepsPromise ==
  ASSUME IInv, AInv, NEW d \in Device, DeviceStep(d)
  PROVE  [Promise!Next]_(Promise!vars)
<1>1. refused' = refused /\ Listed' = Listed
  BY OwnState DEF IInv, AInv, Listed
<1>2. StageOf(d) /\ SentAway(d)
  BY DEF AInv, Answered
<1>3. CASE JoinAdopt(d)
  <2>1. standing[d] = "local" /\ step[d].inv \in Invite
    BY <1>2, <1>3 DEF JoinAdopt, At, StageOf
  <2>2. Promise!Ask(d, step[d].inv)
    BY <1>1, <1>3, <2>1 DEF JoinAdopt, Promise!Ask
  <2> QED
    BY <2>1, <2>2 DEF Promise!Next
<1>4. ASSUME NEW cancel, ReadAccessList(d, cancel) PROVE [Promise!Next]_(Promise!vars)
  <2>1. Promise!Enter(d) \/ UNCHANGED Promise!vars
    BY <1>1, <1>4 DEF ReadAccessList, Promise!Enter, Promise!vars
  <2> QED
    BY <2>1 DEF Promise!Next
<1>5. CASE AbandonJoin(d)
  <2>1. standing[d] = "joining" /\ (step[d].at = "left" => <<d, asked[d]>> \in refused)
    BY <1>2, <1>5 DEF AbandonJoin, At, StageOf, SentAway
  <2>2. Promise!Depart(d)
    BY <1>1, <1>5, <2>1 DEF AbandonJoin, At, Promise!Depart
  <2> QED
    BY <2>2 DEF Promise!Next
<1>6. CASE CancelOffline(d)
  <2>1. Promise!Depart(d)
    BY <1>1, <1>6 DEF CancelOffline, Promise!Depart
  <2> QED
    BY <2>1 DEF Promise!Next
<1>7. CASE DeviceStops(d)
  <2>1. Promise!Forget(d)
    BY <1>1, <1>7 DEF DeviceStops, Promise!Forget
  <2> QED
    BY <2>1 DEF Promise!Next
<1>8. CASE UNCHANGED <<standing, asked, told>>
  BY <1>1, <1>8 DEF Promise!vars
<1> QED
  BY <1>3, <1>4, <1>5, <1>6, <1>7, <1>8
  DEF DeviceStep, JoinStart, JoinClearRequest, JoinClearNotice, JoinSend, Refresh, CancelJoin, RefreshAnswer, LeaveFiles

(* A step of an admin lists a device, refuses one, or is none of the promise. *)
LEMMA AdminKeepsPromise ==
  ASSUME IInv, NEW a \in Admin, AdminStep(a)
  PROVE  [Promise!Next]_(Promise!vars)
<1>1. UNCHANGED <<standing, asked, told>>
  BY DEF AdminStep, CreateInvite, WithdrawInvite, PublishMarker, DeleteMarker, SyncInviteMarkers, ApproveCheck,
         RejectRequest, WrongSafetyCode, ApproveList, ApproveMark, ApproveAnnounce, ApproveClose, RejectSign,
         RejectNotice, RejectDrop, AdminStops, device
<1>2. CASE ApproveList(a)
  <2>1. /\ work[a].dev \in Device /\ work[a].dev \notin Listed /\ work[a].inv \in Invite
        /\ via' = [via EXCEPT ![work[a].dev] = work[a].inv] /\ refused' = refused
    BY <1>2 DEF ApproveList, Doing, IInv, OwnWork, witness
  <2>2. Listed' = Listed \cup {work[a].dev}
    BY <2>1, JoiningAssumption DEF Listed, IInv, TypeInv
  <2>3. Promise!Admit(work[a].dev)
    BY <1>1, <2>1, <2>2 DEF Promise!Admit
  <2> QED
    BY <2>1, <2>3 DEF Promise!Next
<1>3. ASSUME NEW d \in Device, RejectRequest(a, d) \/ WrongSafetyCode(a, d)
      PROVE  [Promise!Next]_(Promise!vars)
  <2>1. Listed' = Listed
    BY <1>3 DEF RejectRequest, WrongSafetyCode, Listed
  <2>2. \/ refused' = refused
        \/ request[d] \in Invite /\ refused' = refused \cup {<<d, request[d]>>}
    BY <1>3 DEF RejectRequest, WrongSafetyCode, StartReject, IInv, TypeInv
  <2>3. (request[d] \in Invite /\ Promise!Refuse(d, request[d])) \/ UNCHANGED Promise!vars
    BY <1>1, <2>1, <2>2 DEF Promise!Refuse, Promise!vars
  <2> QED
    BY <2>3 DEF Promise!Next
<1>4. CASE via' = via /\ refused' = refused
  BY <1>1, <1>4 DEF Promise!vars, Listed
<1> QED
  BY <1>2, <1>3, <1>4 DEF AdminStep, CreateInvite, WithdrawInvite, PublishMarker, DeleteMarker, SyncInviteMarkers,
     ApproveCheck, ApproveMark, ApproveAnnounce, ApproveClose, RejectSign, RejectNotice, RejectDrop, AdminStops,
     admin, witness

(* Joining does nothing its users were not promised: only listed devices   *)
(* become members, and a device is told that it was rejected only if an    *)
(* admin refused it with the invite it asked with last (rejected, leave in *)
(* package club).                                                          *)
THEOREM KeepsPromise == Spec => Promise!Init /\ [][Promise!Next]_(Promise!vars)
<1>1. Init => Promise!Init
  BY DEF Init, Promise!Init, Listed
<1>2. IInv /\ AInv /\ [Next]_vars => [Promise!Next]_(Promise!vars)
  <2> SUFFICES ASSUME IInv, AInv, [Next]_vars PROVE [Promise!Next]_(Promise!vars)
    OBVIOUS
  <2>1. CASE (\E i \in Invite : Expire(i)) \/ UNCHANGED vars
    <3>1. UNCHANGED <<standing, asked, told, via, refused>>
      BY <2>1 DEF Expire, vars, device, admin, witness
    <3> QED
      BY <3>1 DEF Promise!vars, Listed
  <2> QED
    BY <2>1, DeviceKeepsPromise, AdminKeepsPromise DEF Next
<1> QED
  BY InitEstablishes, StepPreserves, InitAnswers, StepAnswers, <1>1, <1>2, PTL DEF Spec
-----------------------------------------------------------------------------
(* A device that waits has a request in the storage or an answer to it.    *)
(* A device that waits for an answer, or is about to; the invite it asked  *)
(* with; a complete answer to it.                                          *)
Asking(d) == step[d].at = "adopting" \/ standing[d] = "joining"
Pending(d) == Asking(d) /\ step[d].at \notin {"left", "given up"}
Wanted(d) == IF step[d].at = "adopting" THEN step[d].inv ELSE asked[d]
Answer(d, i) ==
  rejection[d].file \in Notice /\ rejection[d].sig = rejection[d].file /\ rejection[d].file.inv = i

(* The request of a device that waits names the invite it asked with, as   *)
(* long as it is there.                                                    *)
RequestStands(d) == Asking(d) => Wanted(d) \in Invite /\ request[d] \in {Wanted(d), None}
Heard(d) == Pending(d) => request[d] = Wanted(d) \/ Answer(d, Wanted(d))

(* One admin at a time writes a rejection, and the request is there until  *)
(* the notice is complete.                                                 *)
Alone(d) == \A a, b \in Rejecting(d) : a = b
Underway(d) == \A a \in Rejecting(d) :
  /\ work[a].at \in {"signing", "noticing"} => work[a].inv \in Invite /\ request[d] = work[a].inv
  /\ work[a].at = "noticing" => rejection[d] = [file |-> None, sig |-> NoticeOf(a)]
  /\ work[a].at = "dropping" =>
       \/ request[d] = None
       \/ /\ work[a].inv \in Invite /\ request[d] = work[a].inv
          /\ rejection[d] = [file |-> NoticeOf(a), sig |-> NoticeOf(a)]

Tended(d) == d \in Listed \/ d \in crossed \/ (Heard(d) /\ Alone(d) /\ Underway(d))
ListedFirst(a) == work[a].at \in {"marking", "announcing", "closing"} => work[a].dev \in Listed
RInv ==
  /\ \A d \in Device : RequestStands(d) /\ Tended(d)
  /\ \A a \in Admin : ListedFirst(a)

LEMMA InitTended == Init => RInv
<1> SUFFICES ASSUME Init PROVE RInv
  OBVIOUS
<1>1. \A d \in Device : ~Asking(d) /\ Rejecting(d) = {}
  BY DEF Init, Pending, Asking, Rejecting, Rest, Idle
<1>2. \A a \in Admin : ListedFirst(a)
  BY DEF Init, Idle, ListedFirst
<1> QED
  BY <1>1, <1>2 DEF RInv, RequestStands, Tended, Heard, Pending, Alone, Underway

(* What leaves a device alone leaves it tended. *)
LEMMA TendedStays ==
  ASSUME NEW d \in Device, RequestStands(d), Tended(d),
         work' = work, via'[d] = via[d], d \in crossed => d \in crossed',
         step'[d].at = step[d].at, step'[d].inv = step[d].inv,
         standing'[d] = standing[d], asked'[d] = asked[d], rejection'[d] = rejection[d], request'[d] = request[d]
  PROVE  RequestStands(d)' /\ Tended(d)'
<1>1. Rejecting(d)' = Rejecting(d) /\ (d \in Listed <=> d \in Listed')
  BY DEF Rejecting, Listed
<1> QED
  BY <1>1 DEF RequestStands, Tended, Heard, Asking, Pending, Wanted, Answer, Alone, Underway, NoticeOf

(* A step of a device on its own files is tended when no admin is at work  *)
(* on its rejection.                                                       *)
LEMMA CrossTended ==
  ASSUME NEW d \in Device, Cross(d), work' = work,
         Rejecting(d) = {} => Heard(d)'
  PROVE  Tended(d)'
<1>1. CASE Rejecting(d) # {}
  BY <1>1 DEF Cross, Tended
<1>2. CASE Rejecting(d) = {}
  <2>1. Rejecting(d)' = {}
    BY <1>2 DEF Rejecting
  <2> QED
    BY <1>2, <2>1 DEF Tended, Alone, Underway
<1> QED
  BY <1>1, <1>2

LEMMA DeviceTended ==
  ASSUME IInv, AInv, RInv, NEW d \in Device, DeviceStep(d)
  PROVE  RInv'
<1>1. /\ work' = work /\ via' = via
      /\ \A e \in Device \ {d} :
           step'[e] = step[e] /\ standing'[e] = standing[e] /\ asked'[e] = asked[e] /\ rejection'[e] = rejection[e]
  BY OwnState DEF IInv, AInv
<1>2. \/ UNCHANGED request
      \/ \E i : request' = [request EXCEPT ![d] = i]
  BY DEF DeviceStep, JoinStart, JoinClearRequest, JoinClearNotice, JoinSend, JoinAdopt, Refresh, CancelJoin,
         ReadAccessList, RefreshAnswer, LeaveFiles, AbandonJoin, CancelOffline, DeviceStops, folder
<1>3. crossed' = crossed \/ crossed' = crossed \cup {d}
  BY DEF DeviceStep, JoinStart, JoinClearRequest, JoinClearNotice, JoinSend, JoinAdopt, Refresh, CancelJoin,
         ReadAccessList, RefreshAnswer, LeaveFiles, AbandonJoin, CancelOffline, DeviceStops, witness, Cross
<1>4. ASSUME NEW e \in Device \ {d}
      PROVE  RequestStands(e)' /\ Tended(e)'
  BY <1>1, <1>2, <1>3, TendedStays DEF RInv, IInv, TypeInv
<1>5. \A a \in Admin : ListedFirst(a)'
  BY <1>1 DEF RInv, ListedFirst, Listed
<1>6. RequestStands(d)' /\ Tended(d)'
  <2>1. /\ \A s : step' = [step EXCEPT ![d] = s] => step'[d] = s
        /\ \A s : standing' = [standing EXCEPT ![d] = s] => standing'[d] = s
        /\ \A i : asked' = [asked EXCEPT ![d] = i] => asked'[d] = i
        /\ rejection' = [rejection EXCEPT ![d] = NoNotice] => rejection'[d] = NoNotice
        /\ \A i : request' = [request EXCEPT ![d] = i] => request'[d] = i
    BY DEF IInv, TypeInv, AInv, AnswerTypes
  <2>2. ASSUME NEW at, Continue(d, at)
        PROVE  step'[d].at = at /\ step'[d].inv = step[d].inv
    BY <2>2 DEF Continue, IsStep, IInv, TypeInv
  <2>3. Finish(d) => step'[d].at = "idle"
    BY DEF Finish, Rest, IInv, TypeInv
  <2>4. StageOf(d) /\ RequestStands(d) /\ Tended(d)
    BY DEF AInv, Answered, RInv
  <2>5. ASSUME d \in crossed => d \in crossed', Asking(d)' => Asking(d) /\ Wanted(d)' = Wanted(d), Pending(d)' => Pending(d) \/ d \in crossed',
               rejection'[d] = rejection[d], request'[d] = request[d]
        PROVE  RequestStands(d)' /\ Tended(d)'
    <3>1. Rejecting(d)' = Rejecting(d) /\ (d \in Listed => d \in Listed')
      BY <1>1 DEF Rejecting, Listed
    <3>2. RequestStands(d)'
      BY <2>4, <2>5 DEF RequestStands
    <3>3. Heard(d) => Heard(d)' \/ d \in crossed'
      BY <2>5 DEF Heard, Answer, Pending
    <3>4. Alone(d) /\ Underway(d) => Alone(d)' /\ Underway(d)'
      BY <1>1, <2>5, <3>1 DEF Alone, Underway, NoticeOf
    <3> QED
      BY <2>4, <2>5, <3>1, <3>2, <3>3, <3>4 DEF Tended
  <2>6. ASSUME NEW i \in Invite, NEW replace \in BOOLEAN, JoinStart(d, i, replace)
        PROVE  RequestStands(d)' /\ Tended(d)'
    <3>1. UNCHANGED <<rejection, request, standing, asked, crossed>>
      BY <2>6 DEF JoinStart, folder, witness
    <3>2. \/ UNCHANGED step
          \/ standing[d] = "local" /\ step'[d].at = "clearing"
      BY <2>1, <2>6 DEF JoinStart
    <3> QED
      BY <2>5, <3>1, <3>2 DEF Asking, Pending, Wanted
  <2>7. CASE JoinClearRequest(d) \/ JoinClearNotice(d)
    <3>1. Cross(d) /\ UNCHANGED <<standing, asked>> /\ standing[d] = "local" /\ step'[d].at \in {"clearingNotice", "sending"}
      BY <2>2, <2>4, <2>7 DEF JoinClearRequest, JoinClearNotice, At, StageOf
    <3>2. ~Asking(d)'
      BY <3>1 DEF Asking
    <3> QED
      BY <1>1, <3>1, <3>2, CrossTended DEF RequestStands, Heard, Pending
  <2>8. CASE JoinSend(d)
    <3>1. /\ Cross(d) /\ step'[d].at = "adopting" /\ step'[d].inv = step[d].inv
          /\ step[d].inv \in Invite /\ request'[d] = step[d].inv
      BY <2>1, <2>2, <2>4, <2>8 DEF JoinSend, At, StageOf
    <3>2. RequestStands(d)' /\ Heard(d)'
      BY <3>1 DEF RequestStands, Heard, Asking, Pending, Wanted
    <3> QED
      BY <1>1, <3>1, <3>2, CrossTended
  <2>9. CASE JoinAdopt(d)
    <3>1. /\ UNCHANGED <<rejection, request, crossed>> /\ step[d].at = "adopting" /\ step'[d].at = "idle"
          /\ asked'[d] = step[d].inv
      BY <2>1, <2>3, <2>9 DEF JoinAdopt, At, folder, witness
    <3> QED
      BY <2>5, <3>1 DEF Asking, Pending, Wanted
  <2>10. ASSUME NEW cancel, ReadAccessList(d, cancel)
         PROVE  RequestStands(d)' /\ Tended(d)'
    <3>1. UNCHANGED <<rejection, request, asked, crossed>> /\ standing[d] = "joining" /\ step[d].at = "idle"
      BY <2>10 DEF ReadAccessList, folder, witness, At
    <3>2. \/ UNCHANGED step
          \/ UNCHANGED standing /\ step'[d].at = "asking"
      BY <2>1, <2>10 DEF ReadAccessList
    <3> QED
      BY <2>5, <3>1, <3>2 DEF Asking, Pending, Wanted
  <2>11. CASE RefreshAnswer(d)
    <3>1. /\ UNCHANGED <<rejection, request, standing, asked, crossed>> /\ step[d].at = "asking"
          /\ step'[d].at \in {"leaving", "giving up", "idle"}
      BY <2>2, <2>3, <2>11 DEF RefreshAnswer, folder, witness, At
    <3> QED
      BY <2>4, <2>5, <3>1 DEF Asking, Pending, Wanted, StageOf
  <2>12. CASE LeaveFiles(d)
    <3>1. /\ Cross(d) /\ UNCHANGED <<standing, asked>> /\ step'[d].at \in {"left", "given up"}
          /\ step[d].at \in {"leaving", "giving up"} /\ request'[d] = None
      BY <2>1, <2>2, <2>12 DEF LeaveFiles, At
    <3>2. ~Pending(d)'
      BY <3>1 DEF Pending
    <3>3. RequestStands(d)'
      BY <2>4, <3>1 DEF RequestStands, Asking, Wanted
    <3> QED
      BY <1>1, <3>1, <3>2, <3>3, CrossTended DEF Heard
  <2>13. CASE AbandonJoin(d) \/ CancelOffline(d)
    <3>1. /\ UNCHANGED <<rejection, request, crossed>> /\ standing'[d] = "local" /\ step'[d].at = "idle"
      BY <2>1, <2>3, <2>13 DEF AbandonJoin, CancelOffline, folder, witness, At
    <3> QED
      BY <2>5, <3>1 DEF Asking, Pending
  <2>14. CASE DeviceStops(d)
    <3>1. /\ UNCHANGED <<rejection, request, standing, asked>> /\ step'[d].at = "idle"
          /\ step[d].at \in {"left", "given up"} => d \in crossed'
      BY <2>3, <2>14 DEF DeviceStops, folder
    <3> QED
      BY <1>3, <2>4, <2>5, <3>1 DEF Asking, Pending, Wanted, StageOf
  <2> QED
    BY <2>6, <2>7, <2>8, <2>9, <2>10, <2>11, <2>12, <2>13, <2>14 DEF DeviceStep, Refresh, CancelJoin
<1> QED
  BY <1>4, <1>5, <1>6 DEF RInv

(* A step of an admin that neither touches the files of a device nor       *)
(* starts to reject it.                                                    *)
LEMMA AsideTended ==
  ASSUME NEW d \in Device, RequestStands(d), Tended(d), UNCHANGED <<standing, asked, step>>,
         request'[d] = request[d], rejection'[d] = rejection[d],
         d \in Listed => d \in Listed', d \in crossed => d \in crossed',
         \A b \in Rejecting(d)' : b \in Rejecting(d) /\ work'[b] = work[b]
  PROVE  RequestStands(d)' /\ Tended(d)'
<1>1. RequestStands(d)'
  BY DEF RequestStands, Asking, Wanted
<1>2. Heard(d) => Heard(d)'
  BY DEF Heard, Pending, Asking, Wanted, Answer
<1>3. Alone(d) => Alone(d)'
  BY DEF Alone
<1>4. Underway(d) => Underway(d)'
  BY DEF Underway, NoticeOf
<1> QED
  BY <1>1, <1>2, <1>3, <1>4 DEF Tended

(* The work of one admin is on one device. *)
LEMMA OthersRejecting ==
  ASSUME NEW a \in Admin, NEW d \in Device,
         \A b \in Admin \ {a} : work'[b] = work[b],
         ~(work'[a].dev = d /\ work'[a].at \in {"signing", "noticing", "dropping"})
  PROVE  \A b \in Rejecting(d)' : b \in Rejecting(d) /\ work'[b] = work[b]
BY DEF Rejecting

LEMMA SignTended ==
  ASSUME IInv, AInv, RInv, NEW a \in Admin, NEW d \in Device, work[a].dev = d,
         RejectSign(a) \/ RejectNotice(a) \/ RejectDrop(a)
  PROVE  RequestStands(d)' /\ Tended(d)'
<1>1. /\ RequestStands(d) /\ Tended(d) /\ IsWork(work[a]) /\ work = [b \in Admin |-> work[b]]
      /\ rejection = [e \in Device |-> rejection[e]] /\ IsRejection(rejection[d])
      /\ request \in [Device -> Invite \cup {None}]
  BY DEF RInv, IInv, TypeInv, AInv, AnswerTypes
<1>2. UNCHANGED <<standing, asked, step, via, crossed>>
  BY DEF RejectSign, RejectNotice, RejectDrop, device, witness
<1>3. CASE d \in Listed \/ d \in crossed
  <2>1. request'[d] \in {request[d], None}
    BY <1>1 DEF RejectSign, RejectNotice, RejectDrop
  <2> QED
    BY <1>1, <1>2, <1>3, <2>1 DEF Tended, Listed, RequestStands, Asking, Wanted
<1>4. CASE d \notin Listed /\ d \notin crossed
  <2>1. Heard(d) /\ Alone(d) /\ Underway(d)
    BY <1>1, <1>4 DEF Tended
  <2>2. work[a].at \in {"signing", "noticing", "dropping"} /\ a \in Rejecting(d)
    BY DEF RejectSign, RejectNotice, RejectDrop, Doing, Rejecting
  <2>3. Rejecting(d) = {a}
    BY <2>1, <2>2 DEF Alone
  <2>4. \A b \in Admin \ {a} : work'[b] = work[b]
    BY <1>1 DEF RejectSign, RejectNotice, RejectDrop, Done
  <2>5. Rejecting(d)' \subseteq {a}
    BY <2>3, <2>4 DEF Rejecting
  <2>6. Alone(d)'
    BY <2>5 DEF Alone
  <2>7. CASE RejectSign(a)
    <3>1. /\ work'[a].at = "noticing" /\ work'[a].dev = d /\ work'[a].inv = work[a].inv
          /\ rejection'[d] = [file |-> None, sig |-> NoticeOf(a)] /\ request' = request
          /\ work[a].inv \in Invite /\ request[d] = work[a].inv
      BY <1>1, <2>1, <2>2, <2>7 DEF RejectSign, Doing, Underway, IsWork
    <3>2. Underway(d)'
      BY <2>5, <3>1 DEF Underway, NoticeOf
    <3>3. RequestStands(d)' /\ Heard(d)'
      BY <1>1, <1>2, <3>1, JoiningAssumption DEF RequestStands, Heard, Pending, Asking, Wanted
    <3> QED
      BY <2>6, <3>2, <3>3 DEF Tended
  <2>8. CASE RejectNotice(a)
    <3>1. /\ rejection[d] = [file |-> None, sig |-> NoticeOf(a)] /\ request' = request
          /\ work[a].inv \in Invite /\ request[d] = work[a].inv
      BY <2>1, <2>2, <2>8 DEF RejectNotice, Doing, Underway
    <3>2. /\ rejection' = [rejection EXCEPT ![d].file = NoticeOf(a)]
          /\ work' = [work EXCEPT ![a].at = "dropping"]
      BY <2>8, <3>1 DEF RejectNotice
    <3>3. /\ work'[a].at = "dropping" /\ work'[a].inv = work[a].inv
          /\ rejection'[d] = [file |-> NoticeOf(a), sig |-> NoticeOf(a)]
      BY <1>1, <3>1, <3>2 DEF IsWork
    <3>4. Underway(d)'
      BY <2>5, <3>1, <3>3 DEF Underway, NoticeOf
    <3>5. RequestStands(d)' /\ Heard(d)'
      BY <1>1, <1>2, <3>1, JoiningAssumption DEF RequestStands, Heard, Pending, Asking, Wanted
    <3> QED
      BY <2>6, <3>4, <3>5 DEF Tended
  <2>9. CASE RejectDrop(a)
    <3>1. /\ work'[a].at = "idle" /\ rejection' = rejection /\ request'[d] = None
      BY <1>1, <2>9 DEF RejectDrop, Done, Idle
    <3>2. Rejecting(d)' = {}
      BY <2>5, <3>1 DEF Rejecting
    <3>3. RequestStands(d)'
      BY <1>1, <1>2, <3>1 DEF RequestStands, Asking, Wanted
    <3>4. Heard(d)'
      <4>1. ASSUME Pending(d), request[d] = Wanted(d)
            PROVE  Answer(d, Wanted(d))
        <5>1. Wanted(d) \in Invite /\ request[d] # None
          BY <1>1, <4>1, JoiningAssumption DEF RequestStands, Pending
        <5>2. /\ work[a].inv \in Invite /\ request[d] = work[a].inv
              /\ rejection[d] = [file |-> NoticeOf(a), sig |-> NoticeOf(a)]
          BY <2>1, <2>2, <2>9, <5>1 DEF Underway, RejectDrop, Doing
        <5> QED
          BY <4>1, <5>2 DEF Answer, NoticeOf, Notice
      <4> QED
        BY <1>2, <2>1, <3>1, <4>1 DEF Heard, Pending, Asking, Wanted, Answer
    <3> QED
      BY <2>6, <3>2, <3>3, <3>4 DEF Tended, Underway
  <2> QED
    BY <2>7, <2>8, <2>9
<1> QED
  BY <1>3, <1>4

(* An admin starts to reject a device. *)
LEMMA StartTended ==
  ASSUME IInv, RInv, NEW a \in Admin, NEW d \in Device, StartReject(a, d), work[a].at = "idle",
         UNCHANGED <<standing, asked, step, request, rejection, via>>
  PROVE  RequestStands(d)' /\ Tended(d)'
<1>1. /\ RequestStands(d) /\ Tended(d) /\ work = [b \in Admin |-> work[b]]
      /\ request \in [Device -> Invite \cup {None}]
  BY DEF RInv, IInv, TypeInv
<1>2. RequestStands(d)'
  BY <1>1 DEF RequestStands, Asking, Wanted
<1>3. CASE d \in Listed \/ d \in crossed'
  BY <1>2, <1>3 DEF Tended, Listed
<1>4. CASE d \notin Listed /\ d \notin crossed'
  <2>1. Rejecting(d) = {} /\ d \notin crossed
    BY <1>4 DEF StartReject, Cross
  <2>2. Heard(d)'
    BY <1>1, <1>4, <2>1 DEF Tended, Heard, Pending, Asking, Wanted, Answer
  <2>3. \/ request[d] = None /\ work'[a].at = "dropping"
        \/ request[d] \in Invite /\ work'[a].at = "signing" /\ work'[a].inv = request[d]
    BY <1>1 DEF StartReject, Go
  <2>4. \A b \in Admin \ {a} : work'[b] = work[b]
    BY <1>1 DEF StartReject, Go
  <2>5. Rejecting(d)' \subseteq {a}
    BY <2>1, <2>4 DEF Rejecting
  <2>6. Alone(d)' /\ Underway(d)'
    BY <2>3, <2>5 DEF Alone, Underway
  <2> QED
    BY <1>2, <2>2, <2>6 DEF Tended
<1> QED
  BY <1>3, <1>4

LEMMA AdminTended ==
  ASSUME IInv, AInv, RInv, NEW a \in Admin, AdminStep(a)
  PROVE  RInv'
<1>1. UNCHANGED <<standing, asked, step>>
  BY DEF AdminStep, CreateInvite, WithdrawInvite, PublishMarker, DeleteMarker, SyncInviteMarkers, ApproveCheck,
         RejectRequest, WrongSafetyCode, ApproveList, ApproveMark, ApproveAnnounce, ApproveClose, RejectSign,
         RejectNotice, RejectDrop, AdminStops, device
<1>2. work = [b \in Admin |-> work[b]] /\ IsWork(work[a]) /\ \A b \in Admin \ {a} : work'[b] = work[b]
  <2>1. \/ UNCHANGED work
        \/ \E at, d, i : Go(a, at, d, i)
        \/ \E at : work' = [work EXCEPT ![a].at = at]
        \/ Done(a)
    BY DEF AdminStep, CreateInvite, WithdrawInvite, PublishMarker, DeleteMarker, SyncInviteMarkers, ApproveCheck,
           RejectRequest, WrongSafetyCode, StartReject, ApproveList, ApproveMark, ApproveAnnounce, ApproveClose,
           RejectSign, RejectNotice, RejectDrop, AdminStops, admin
  <2> QED
    BY <2>1 DEF Go, Done, IInv, TypeInv
<1>3. Listed \subseteq Listed' /\ crossed \subseteq crossed'
  <2>1. via' = via \/ ApproveList(a)
    BY DEF AdminStep, CreateInvite, WithdrawInvite, PublishMarker, DeleteMarker, SyncInviteMarkers, ApproveCheck,
           RejectRequest, WrongSafetyCode, ApproveMark, ApproveAnnounce, ApproveClose, RejectSign,
           RejectNotice, RejectDrop, AdminStops, admin
  <2>2. ApproveList(a) => work[a].inv # None
    BY JoiningAssumption DEF ApproveList, Doing, IInv, OwnWork
  <2>3. Listed \subseteq Listed'
    BY <2>1, <2>2 DEF ApproveList, Listed, IInv, TypeInv
  <2>4. crossed \subseteq crossed'
    BY DEF AdminStep, CreateInvite, WithdrawInvite, PublishMarker, DeleteMarker, SyncInviteMarkers, ApproveCheck,
           RejectRequest, WrongSafetyCode, StartReject, Cross, ApproveList, ApproveMark, ApproveAnnounce, ApproveClose,
           RejectSign, RejectNotice, RejectDrop, AdminStops, witness
  <2> QED
    BY <2>3, <2>4
<1>4. ASSUME NEW d \in Device, request'[d] = request[d], rejection'[d] = rejection[d],
             ~(work'[a].dev = d /\ work'[a].at \in {"signing", "noticing", "dropping"})
      PROVE  RequestStands(d)' /\ Tended(d)'
  BY <1>1, <1>2, <1>3, <1>4, OthersRejecting, AsideTended DEF RInv
<1>5. ASSUME work'[a].at \notin {"signing", "noticing", "dropping"}, UNCHANGED <<request, rejection>>
      PROVE  \A d \in Device : RequestStands(d)' /\ Tended(d)'
  BY <1>4, <1>5
<1>6. \A d \in Device : RequestStands(d)' /\ Tended(d)'
  <2>1. CASE \/ \E i \in Invite : CreateInvite(a, i) \/ WithdrawInvite(a, i)
             \/ PublishMarker(a) \/ DeleteMarker(a) \/ \E d \in Device : ApproveCheck(a, d)
             \/ ApproveList(a) \/ ApproveMark(a) \/ ApproveAnnounce(a) \/ AdminStops(a)
    <3>1. UNCHANGED <<request, rejection>>
      BY <2>1 DEF CreateInvite, WithdrawInvite, PublishMarker, DeleteMarker, ApproveCheck, ApproveList, ApproveMark,
                  ApproveAnnounce, AdminStops, folder
    <3>2. \/ \E d, i : Go(a, "publishing", d, i) \/ Go(a, "withdrawing", d, i) \/ Go(a, "listing", d, i)
          \/ \E at \in {"marking", "announcing", "closing"} : work' = [work EXCEPT ![a].at = at]
          \/ Done(a)
      BY <2>1 DEF CreateInvite, WithdrawInvite, PublishMarker, DeleteMarker, ApproveCheck, ApproveList, ApproveMark,
                  ApproveAnnounce, AdminStops
    <3>3. work'[a].at \notin {"signing", "noticing", "dropping"}
      BY <1>2, <3>2 DEF Go, Done, Idle, IsWork
    <3> QED
      BY <1>5, <3>1, <3>3
  <2>2. CASE SyncInviteMarkers(a)
    BY <1>5, <2>2 DEF SyncInviteMarkers, Doing, admin
  <2>3. CASE ApproveClose(a)
    <3>1. /\ request' = [request EXCEPT ![work[a].dev] = None] /\ work'[a].at = "idle" /\ work[a].dev \in Listed
          /\ rejection' = rejection
      BY <1>2, <2>3 DEF ApproveClose, Doing, Done, Idle, RInv, ListedFirst
    <3>2. ASSUME NEW d \in Device, d # work[a].dev
          PROVE  RequestStands(d)' /\ Tended(d)'
      BY <1>4, <3>1, <3>2 DEF IInv, TypeInv
    <3>3. ASSUME NEW d \in Device, d = work[a].dev
          PROVE  RequestStands(d)' /\ Tended(d)'
      <4>1. d \in Listed' /\ request'[d] = None /\ RequestStands(d)
        BY <1>3, <3>1, <3>3 DEF IInv, TypeInv, RInv
      <4> QED
        BY <1>1, <4>1 DEF Tended, RequestStands, Asking, Wanted
    <3> QED
      BY <3>2, <3>3
  <2>4. ASSUME NEW e \in Device, RejectRequest(a, e) \/ WrongSafetyCode(a, e)
        PROVE  \A d \in Device : RequestStands(d)' /\ Tended(d)'
    <3>1. UNCHANGED <<request, rejection, via>> /\ work[a].at = "idle"
      BY <2>4 DEF RejectRequest, WrongSafetyCode, Doing, folder
    <3>2. CASE UNCHANGED work
      BY <1>5, <3>1, <3>2
    <3>3. CASE StartReject(a, e)
      <4>1. work'[a].dev = e
        BY <1>2, <3>3 DEF StartReject, Go
      <4>2. RequestStands(e)' /\ Tended(e)'
        BY <1>1, <3>1, <3>3, StartTended
      <4> QED
        BY <1>4, <3>1, <4>1, <4>2
    <3> QED
      BY <2>4, <3>2, <3>3 DEF RejectRequest, WrongSafetyCode
  <2>5. CASE RejectSign(a) \/ RejectNotice(a) \/ RejectDrop(a)
    <3>1. \A d \in Device \ {work[a].dev} : request'[d] = request[d] /\ rejection'[d] = rejection[d]
      BY <2>5 DEF RejectSign, RejectNotice, RejectDrop, AInv, AnswerTypes, IInv, TypeInv
    <3>2. work'[a].at = "idle" \/ work'[a].dev = work[a].dev
      BY <1>2, <2>5 DEF RejectSign, RejectNotice, RejectDrop, Done, Idle, IsWork
    <3>3. ASSUME NEW d \in Device \ {work[a].dev}
          PROVE  RequestStands(d)' /\ Tended(d)'
      BY <1>4, <3>1, <3>2
    <3> QED
      BY <2>5, <3>3, SignTended
  <2> QED
    BY <2>1, <2>2, <2>3, <2>4, <2>5 DEF AdminStep
<1>7. \A b \in Admin : ListedFirst(b)'
  <2>1. \A b \in Admin \ {a} : ListedFirst(b)'
    BY <1>2, <1>3 DEF RInv, ListedFirst
  <2>2. ListedFirst(a)'
    <3>1. CASE ApproveList(a)
      <4>1. via'[work[a].dev] = work[a].inv /\ work[a].inv # None /\ work'[a].dev = work[a].dev /\ work[a].dev \in Device
        BY <1>2, <3>1, JoiningAssumption DEF ApproveList, Doing, IInv, OwnWork, TypeInv, IsWork
      <4> QED
        BY <4>1 DEF ListedFirst, Listed
    <3>2. CASE ApproveMark(a) \/ ApproveAnnounce(a)
      <4>1. work[a].at \in {"marking", "announcing"} /\ work'[a].dev = work[a].dev
        BY <1>2, <3>2 DEF ApproveMark, ApproveAnnounce, Doing, IsWork
      <4> QED
        BY <1>3, <4>1 DEF ListedFirst, RInv
    <3>3. CASE UNCHANGED work
      BY <1>3, <3>3 DEF ListedFirst, RInv
    <3>4. CASE ~(ApproveList(a) \/ ApproveMark(a) \/ ApproveAnnounce(a) \/ UNCHANGED work)
      <4>1. \/ \E at \in {"publishing", "withdrawing", "listing", "signing", "dropping"} : \E d, i : Go(a, at, d, i)
            \/ \E at \in {"noticing", "dropping"} : work' = [work EXCEPT ![a].at = at]
            \/ Done(a)
        BY <3>4 DEF AdminStep, CreateInvite, WithdrawInvite, PublishMarker, DeleteMarker, SyncInviteMarkers, ApproveCheck,
           RejectRequest, WrongSafetyCode, StartReject, ApproveClose, RejectSign, RejectNotice, RejectDrop, AdminStops, admin
      <4>2. work'[a].at \notin {"marking", "announcing", "closing"}
        BY <1>2, <4>1 DEF Go, Done, Idle, IsWork
      <4> QED
        BY <4>2 DEF ListedFirst
    <3> QED
      BY <3>1, <3>2, <3>3, <3>4
  <2> QED
    BY <2>1, <2>2
<1> QED
  BY <1>6, <1>7 DEF RInv

LEMMA StepTended == IInv /\ AInv /\ RInv /\ [Next]_vars => RInv'
<1> SUFFICES ASSUME IInv, AInv, RInv, [Next]_vars PROVE RInv'
  OBVIOUS
<1>1. CASE (\E i \in Invite : Expire(i)) \/ UNCHANGED vars
  <2>1. UNCHANGED <<standing, asked, request, rejection, step, work, via, crossed>>
    BY <1>1 DEF Expire, vars, folder, device, admin, witness
  <2>2. \A d \in Device : RequestStands(d)' /\ Tended(d)'
    BY <2>1, TendedStays DEF RInv
  <2> QED
    BY <2>1, <2>2 DEF RInv, ListedFirst, Listed
<1> QED
  BY <1>1, DeviceTended, AdminTended DEF Next

(* A device that waits has a request in the storage or an answer it will   *)
(* accept, wherever programs stopped, but for the rejections that crossed  *)
(* another operation on the files of the device (writeRejection before     *)
(* deleteRequest, rejected, leave in package club).                        *)
THEOREM RequestOrAnswered == Spec => []RequestOrAnswer
<1>1. AInv /\ RInv => RequestOrAnswer
  <2> SUFFICES ASSUME AInv, RInv, NEW d \in Device, standing[d] = "joining", step[d].at \notin {"left", "given up"},
                      d \notin Listed, d \notin crossed
               PROVE  request[d] = asked[d] \/ RejectionCounts(d)
    BY DEF RequestOrAnswer
  <2>1. Heard(d) /\ Pending(d) /\ step[d].at # "adopting"
    BY DEF RInv, Tended, Pending, Asking, AInv, Answered, StageOf
  <2> QED
    BY <2>1 DEF Heard, Wanted, Answer, RejectionCounts
<1> QED
  BY InitEstablishes, StepPreserves, InitAnswers, StepAnswers, InitTended, StepTended, <1>1, PTL DEF Spec
=============================================================================
