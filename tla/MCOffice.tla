---------------------------- MODULE MCOffice ----------------------------
EXTENDS Office

(* A year of two months, two years.  Member 1 comes of age in the second.  *)
Core(age, entry, exit) == [age |-> age, entry |-> entry, exit |-> exit]
MCCores == (1 :> <<Core(17, 2, 9), Core(17, 2, 3)>>) @@ (2 :> <<Core(40, 1, 4)>>) @@ (3 :> <<Core(30, 1, 9)>>)

Tariff(name, interval, limited, lo, hi, proRata) ==
  [name |-> name, cents |-> 3, interval |-> interval, limited |-> limited, lo |-> lo, hi |-> hi, proRata |-> proRata]
MCTariffs == {Tariff(1, 2, TRUE, 0, 17, TRUE), Tariff(2, 1, TRUE, 16, 200, FALSE), Tariff(3, 2, FALSE, 0, 200, TRUE)}

(* Nothing, the address, or both. *)
MCSharings == {[address |-> a, bank |-> b] : a, b \in BOOLEAN} \ {[address |-> FALSE, bank |-> TRUE]}

(* A year, both years, and a range across the turn of the year. *)
MCRanges == {[from |-> 1, to |-> 2], [from |-> 1, to |-> 4], [from |-> 2, to |-> 3]}

(* Two payments and a return of the first fee. *)
Entry(date, amount, isReturn, strong, named, e2e) ==
  [date |-> date, amount |-> amount, income |-> ~isReturn, isReturn |-> isReturn,
   strong |-> strong, named |-> named, surnamed |-> {}, e2e |-> e2e]
MCEntries == (1 :> Entry(1, 2, FALSE, {1}, {}, 0)) @@ (2 :> Entry(2, 3, FALSE, {}, {2}, 0)) @@ (3 :> Entry(2, 2, TRUE, {}, {}, 1))

MCByName == <<<<"member", 2>>, <<"donor", 1>>, <<"member", 1>>, <<"donor", 2>>, <<"member", 3>>>>

(* Halves of days.  Short and long weekly series, one every other week that*)
(* ends, the 31st of the month, and four days once.                        *)
Event(start, end, allDay, recurrence, until) ==
  [start |-> start, end |-> end, allDay |-> allDay, recurrence |-> recurrence, until |-> until]
MCSeries ==
  {Event(6, 7, FALSE, "weekly", 0), Event(4, 35, FALSE, "weekly", 0), Event(7, 8, TRUE, "biweekly", 33),
   Event(62, 62, TRUE, "monthly", 0), Event(20, 29, FALSE, "none", 0)}
MCWindows == {[from |-> 38, to |-> 38], [from |-> 13, to |-> 61], [from |-> 60, to |-> 60], [from |-> 60, to |-> 92]}
MCMonthDays == <<31, 28, 31, 30, 31, 30, 31, 31, 30, 31, 30, 31>>

Task(assignee, role, linked, due, recurrence) ==
  [assignee |-> assignee, role |-> role, linked |-> linked, due |-> due, recurrence |-> recurrence]
MCTaskForms ==
  {Task(2, 0, 1, 31, "monthly"), Task(0, 1, 0, 28, "weekly"), Task(0, 0, 2, 59, "yearly"), Task(0, 0, 0, 0, "none")}

(* The operations of a behaviour; of the other kinds it has none. *)
Only(some) == some @@ [k \in Kinds |-> 0]
(* Billing; collecting; reconciling; all of them in a short behaviour. *)
FeeBudgets ==
  {Only([tariff |-> 3, run |-> 2]), Only([tariff |-> 2, run |-> 2, fee |-> 1]), Only([setup |-> 3, access |-> 1, fee |-> 2, debit |-> 3]),
   Only([fee |-> 1, entry |-> 3, link |-> 4]),
   Only([setup |-> 2, fee |-> 1, debit |-> 1, entry |-> 2, link |-> 2]),
   Only([fee |-> 2, entry |-> 2, link |-> 2]), Only([setup |-> 2, tariff |-> 1, run |-> 2, debit |-> 2]),
   Only([tariff |-> 1, run |-> 1, fee |-> 1, entry |-> 1, link |-> 1])}
(* Families; merits; members that leave with what they owe. *)
PeopleBudgets ==
  {Only([member |-> 1, leave |-> 1, household |-> 1]), Only([leave |-> 1, household |-> 2]), Only([member |-> 2, household |-> 1]),
   Only([access |-> 1, household |-> 2]),
   Only([member |-> 1, group |-> 2]), Only([leave |-> 1, group |-> 1, merit |-> 3]),
   Only([leave |-> 1, run |-> 2, tariff |-> 1, fee |-> 1]),
   Only([leave |-> 1, setup |-> 2, fee |-> 1, debit |-> 1, entry |-> 1, link |-> 1])}
(* Donations and paid fees that are certified, annual receipts of several. *)
ReceiptBudgets ==
  {Only([donation |-> 2, entry |-> 2, fee |-> 1, receipt |-> 2, void |-> 1]), Only([donation |-> 3, entry |-> 1, receipt |-> 2, void |-> 2]),
   Only([donation |-> 4, entry |-> 2, receipt |-> 2]), Only([donation |-> 1, fee |-> 1, leave |-> 1, member |-> 1, receipt |-> 1]),
   Only([fee |-> 2, leave |-> 1, member |-> 1, receipt |-> 1])}
CalendarBudgets ==
  {Only([event |-> 3]), Only([event |-> 2, attend |-> 1, leave |-> 1]), Only([event |-> 1, attend |-> 2]),
   Only([group |-> 1, event |-> 1, attend |-> 1]), Only([group |-> 3, event |-> 1]), Only([task |-> 3]),
   Only([leave |-> 1, task |-> 2, group |-> 2])}
InventoryBudgets == {Only([leave |-> 1, item |-> 2, loan |-> 3, keep |-> 1]), Only([item |-> 1, keep |-> 3])}

MCBudgets == FeeBudgets \cup PeopleBudgets \cup ReceiptBudgets \cup CalendarBudgets \cup InventoryBudgets
=============================================================================
