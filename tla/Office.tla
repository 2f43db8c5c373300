------------------------------- MODULE Office -------------------------------
(***************************************************************************)
(* The database of one device with all its tables: records of members,     *)
(* finances, receipts, calendar and inventory.  Requests interleave; only  *)
(* deleting a member or a group reaches into the tables of all.            *)
(***************************************************************************)
EXTENDS Receipts, Calendar, Inventory

vars == <<recordVars, feeVars, receiptVars, calendarVars, inventoryVars, budget>>

Init == RecordsInit /\ FeesInit /\ ReceiptsInit /\ CalendarInit /\ InventoryInit

DeleteMemberKeepingLoans(m) ==
  /\ Spend("leave") /\ ScopeGuard("members")
  /\ DeleteRecordsOf(m) /\ DeleteFinancesOf(m) /\ DeleteAttendanceOf(m)
  /\ UNCHANGED <<receiptVars, inventoryVars>>
(* Donations and receipts keep the member. *)
DeleteMember(m) ==
  /\ Spend("leave") /\ ScopeGuard("members")
  /\ DeleteRecordsOf(m) /\ DeleteFinancesOf(m) /\ DeleteAttendanceOf(m) /\ DeleteLoansOf(m)
  /\ UNCHANGED receiptVars

DeleteNamed(g) ==
  /\ Spend("group") /\ ScopeGuard("groups")
  /\ DeleteGroupLinks(g) /\ DeleteAudienceOf(g)
  /\ UNCHANGED <<feeVars, receiptVars, inventoryVars>>

Next ==
  \/ RecordsNext /\ UNCHANGED <<feeVars, receiptVars, calendarVars, inventoryVars>>
  \/ FeesNext /\ UNCHANGED <<recordVars, receiptVars, calendarVars, inventoryVars>>
  \/ ReceiptsNext /\ UNCHANGED <<recordVars, feeVars, calendarVars, inventoryVars>>
  \/ CalendarNext /\ UNCHANGED <<recordVars, feeVars, receiptVars, inventoryVars>>
  \/ InventoryNext /\ UNCHANGED <<recordVars, feeVars, receiptVars, calendarVars>>
  \/ \E m \in Member : DeleteMember(m)
  \/ \E g \in Group : DeleteNamed(g)

Spec == Init /\ [][Next]_vars
-----------------------------------------------------------------------------
(* A row is live only as long as what it belongs to: records, fees,        *)
(* attendance and loans of members, audiences of groups and events, loans, *)
(* conditions and maintenance of items; who pays for a household lives in  *)
(* it (DeleteMember, DeleteNamed, DeleteEvent, DeleteItem).  Tasks and     *)
(* donations keep the reference, attendance may outlive an event deleted   *)
(* while it was recorded.                                                  *)
NoOrphans ==
  /\ RecordsOfLiveMembers
  /\ \A f \in LiveFees : fees[f].member \in LiveMembers
  /\ \A m \in Member \ LiveMembers : assigned[m] = "auto" /\ mandate[m] = 0
  /\ \A a \in attendance : a.member \in LiveMembers
  /\ \A a \in audience : a[1] \in LiveEvents /\ a[2] \in LiveGroups
  /\ \A x \in exceptions : x[1] \in LiveEvents
  /\ \A i \in DOMAIN loans : loans[i].live => loans[i].member \in LiveMembers /\ loans[i].item \in LiveItems
  /\ \A i \in DOMAIN maintenance : maintenance[i].live => maintenance[i].item \in LiveItems
  /\ \A x \in ItemId \ LiveItems : ~itemStatus[x].live
=============================================================================
