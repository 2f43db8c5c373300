----------------------------- MODULE Admission -----------------------------
(***************************************************************************)
(* What joining a club promises a device, without files and processes: it  *)
(* becomes a member only if an admin admitted it, it is sent away only if  *)
(* an admin refused it with the invite it asked with, and an admission     *)
(* reaches it as long as it waits.                                         *)
(***************************************************************************)
CONSTANTS Device, Invite, NoInvite

VARIABLES
  standing,  \* "local", "joining" or "member"
  asked,     \* the invite a joining device asked with
  told,      \* devices that were told that they were rejected
  listed,    \* devices in the access list
  refused    \* what admins decided to refuse: device and invite

vars == <<standing, asked, told, listed, refused>>

Init ==
  /\ standing = [d \in Device |-> "local"]
  /\ asked = [d \in Device |-> NoInvite]
  /\ told = {} /\ listed = {} /\ refused = {}

Ask(d, i) ==
  /\ standing[d] = "local"
  /\ standing' = [standing EXCEPT ![d] = "joining"]
  /\ asked' = [asked EXCEPT ![d] = i]
  /\ told' = told \ {d}
  /\ UNCHANGED <<listed, refused>>

(* The device gives up, or is sent away. *)
Depart(d) ==
  /\ standing[d] = "joining"
  /\ standing' = [standing EXCEPT ![d] = "local"]
  /\ asked' = [asked EXCEPT ![d] = NoInvite]
  /\ \/ told' = told \ {d}
     \/ <<d, asked[d]>> \in refused /\ told' = told \cup {d}
  /\ UNCHANGED <<listed, refused>>

Enter(d) ==
  /\ standing[d] = "joining" /\ d \in listed
  /\ standing' = [standing EXCEPT ![d] = "member"]
  /\ UNCHANGED <<asked, told, listed, refused>>

Admit(d) ==
  /\ d \notin listed
  /\ listed' = listed \cup {d}
  /\ UNCHANGED <<standing, asked, told, refused>>

(* A program that starts again has forgotten what it told its user. *)
Forget(d) ==
  /\ told' = told \ {d}
  /\ UNCHANGED <<standing, asked, listed, refused>>

Refuse(d, i) ==
  /\ refused' = refused \cup {<<d, i>>}
  /\ UNCHANGED <<standing, asked, told, listed>>

Next == \E d \in Device :
  \/ Depart(d) \/ Enter(d) \/ Admit(d) \/ Forget(d)
  \/ \E i \in Invite : Ask(d, i) \/ Refuse(d, i)

Spec == Init /\ [][Next]_vars /\ \A d \in Device : WF_vars(Enter(d))
=============================================================================
