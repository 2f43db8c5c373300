------------------------------ MODULE Inventory ------------------------------
(***************************************************************************)
(* Club inventory: items, their condition, loans to members, maintenance.  *)
(* An operation is one transaction of the store; the handler that edits a  *)
(* loan loads it first and writes all its fields back.  Dates, prices, the *)
(* maintenance schedule and the expense a maintenance may book are left    *)
(* out.                                                                    *)
(***************************************************************************)
EXTENDS ClubRecords

CONSTANTS
  ItemId,     \* ids of items
  Conditions  \* of an item; only what is "ready" may be lent

ASSUME InventoryAssumption == "ready" \in Conditions

VARIABLES
  items,        \* inventory_items: absent, live or deleted
  itemStatus,   \* inventory_item_status: a row, or not live
  loans,        \* inventory_loans
  loanForm,     \* the loan an edit has loaded, with its changes
  maintenance   \* inventory_maintenance

inventoryVars == <<items, itemStatus, loans, loanForm, maintenance>>

NoLoanForm == [loan |-> 0]

InventoryInit ==
  /\ items = [x \in ItemId |-> "absent"]
  /\ itemStatus = [x \in ItemId |-> [live |-> FALSE, condition |-> "ready"]]
  /\ loans = << >> /\ maintenance = << >>
  /\ loanForm = NoLoanForm

LiveItems == {x \in ItemId : items[x] = "live"}
(* requireReadyItem: an item without a row is ready. *)
ReadyItem(x) == itemStatus[x].live => itemStatus[x].condition = "ready"

CreateItem(x) ==
  /\ items[x] = "absent"
  /\ items' = [items EXCEPT ![x] = "live"]
  /\ UNCHANGED <<itemStatus, loans, loanForm, maintenance>>

DeleteItem(x) ==
  /\ x \in LiveItems
  /\ items' = [items EXCEPT ![x] = "deleted"]
  /\ itemStatus' = [itemStatus EXCEPT ![x].live = FALSE]
  /\ loans' = RowsWithout(loans, {i \in DOMAIN loans : loans[i].item = x})
  /\ maintenance' = RowsWithout(maintenance, {i \in DOMAIN maintenance : maintenance[i].item = x})
  /\ UNCHANGED loanForm

ItemRequest ==
  /\ Spend("item") /\ ScopeGuard("inventory")
  /\ \E x \in ItemId : CreateItem(x) \/ DeleteItem(x)
-----------------------------------------------------------------------------
(* Loans.  How many of an item are lent is not looked at. *)

CreateLoan(x, m) ==
  /\ Spend("loan")
  /\ m \in LiveMembers /\ x \in LiveItems
  /\ ReadyItem(x)
  /\ loans' = Append(loans, [item |-> x, member |-> m, returned |-> FALSE, live |-> TRUE])
  /\ UNCHANGED <<items, itemStatus, loanForm, maintenance>>

(* A request can return a loan but not take that back. *)
LoadLoan(i, x, m, returned) ==
  /\ Spend("loan")
  /\ loanForm = NoLoanForm
  /\ loans[i].live
  /\ loanForm' = [loan |-> i, item |-> x, member |-> m, returned |-> returned \/ loans[i].returned]
  /\ UNCHANGED <<items, itemStatus, loans, maintenance>>

Accepted ==
  /\ loanForm.member \in LiveMembers /\ loanForm.item \in LiveItems
  /\ loans[loanForm.loan].live

WriteForm ==
  loans' = [loans EXCEPT ![loanForm.loan] = [@ EXCEPT !.item = loanForm.item, !.member = loanForm.member,
                                                      !.returned = loanForm.returned]]

UpdateLoanUnchecked ==
  /\ loanForm # NoLoanForm
  /\ loanForm' = NoLoanForm
  /\ IF Accepted THEN WriteForm ELSE UNCHANGED loans
  /\ UNCHANGED <<items, itemStatus, maintenance, budget>>
(* An open loan can only be moved to an item that is ready. *)
UpdateLoan ==
  /\ loanForm # NoLoanForm
  /\ loanForm' = NoLoanForm
  /\ IF Accepted /\ (loans[loanForm.loan].item = loanForm.item \/ loanForm.returned \/ ReadyItem(loanForm.item))
     THEN WriteForm ELSE UNCHANGED loans
  /\ UNCHANGED <<items, itemStatus, maintenance, budget>>

DeleteLoan(i) ==
  /\ Spend("loan")
  /\ loans[i].live
  /\ loans' = [loans EXCEPT ![i].live = FALSE]
  /\ UNCHANGED <<items, itemStatus, loanForm, maintenance>>

LoanRequest ==
  /\ ScopeGuard("inventory")
  /\ \/ \E x \in ItemId, m \in Member :
          \/ CreateLoan(x, m)
          \/ \E i \in DOMAIN loans, returned \in BOOLEAN : LoadLoan(i, x, m, returned)
     \/ \E i \in DOMAIN loans : DeleteLoan(i)
-----------------------------------------------------------------------------
(* Condition and maintenance. *)

SetItemStatus(x, condition) ==
  /\ x \in LiveItems
  /\ itemStatus' = [itemStatus EXCEPT ![x] = [live |-> TRUE, condition |-> condition]]
  /\ UNCHANGED <<items, loans, loanForm, maintenance>>

(* A condition may be given; an item without a row becomes ready. *)
RecordMaintenance(x) ==
  /\ x \in LiveItems
  /\ maintenance' = Append(maintenance, [item |-> x, live |-> TRUE])
  /\ \E given \in Conditions \cup {IF itemStatus[x].live THEN itemStatus[x].condition ELSE "ready"} :
       itemStatus' = [itemStatus EXCEPT ![x] = [live |-> TRUE, condition |-> given]]
  /\ UNCHANGED <<items, loans, loanForm>>

DeleteMaintenance(i) ==
  /\ maintenance[i].live
  /\ maintenance' = [maintenance EXCEPT ![i].live = FALSE]
  /\ UNCHANGED <<items, itemStatus, loans, loanForm>>

MaintenanceRequest ==
  /\ Spend("keep") /\ ScopeGuard("inventory")
  /\ \/ \E x \in ItemId : RecordMaintenance(x) \/ \E condition \in Conditions : SetItemStatus(x, condition)
     \/ \E i \in DOMAIN maintenance : DeleteMaintenance(i)
-----------------------------------------------------------------------------
(* DeleteMember, as far as this module's tables go. *)
DeleteLoansOf(m) ==
  /\ loans' = RowsWithout(loans, {i \in DOMAIN loans : loans[i].member = m})
  /\ UNCHANGED <<items, itemStatus, loanForm, maintenance>>

InventoryNext == ItemRequest \/ LoanRequest \/ UpdateLoan \/ MaintenanceRequest
-----------------------------------------------------------------------------
(* Whatever is edited at the same time, an item goes out only when it is   *)
(* ready: a loan that opens, or that moves to another item, finds it ready.*)
(* An edit that overtakes a return puts the loan back as it was loaded     *)
(* (CreateLoan, UpdateLoan, requireReadyItem).                             *)
OpenLoan(r) == r.live /\ ~r.returned
Overtaken(i) == loans[i].live /\ loans[i].returned /\ loanForm.loan = i /\ ~loanForm.returned
LentWhenReady ==
  [][\A i \in DOMAIN loans' :
       OpenLoan(loans'[i]) /\ ~(i \in DOMAIN loans /\ OpenLoan(loans[i]) /\ loans[i].item = loans'[i].item)
         => \/ ReadyItem(loans'[i].item)
            \/ i \in DOMAIN loans /\ Overtaken(i) /\ loans[i].item = loans'[i].item]_inventoryVars
=============================================================================
