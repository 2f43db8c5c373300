------------------------------ MODULE Receipts ------------------------------
(***************************************************************************)
(* Donations and their receipts: who gave an income, what can be certified *)
(* in a year, single, collective and annual receipts, duplicates and       *)
(* voiding.  The items are incomes of the cash book and paid fees of       *)
(* FeeLedger, the addresses those of ClubRecords.                          *)
(*                                                                         *)
(* A receipt is one transaction; the annual receipts read the candidates   *)
(* first and issue them with what holds by then.  Texts, amounts and dates *)
(* printed on a receipt are left out.                                      *)
(***************************************************************************)
EXTENDS FeeLedger

CONSTANTS
  DonorId,       \* ids of external donors
  DatesPerYear,  \* dates of a calendar year
  ByName         \* members and donors in the order of their names

ASSUME ReceiptsAssumption ==
  /\ DatesPerYear \in Nat \ {0}
  /\ Len(ByName) \in Nat /\ DOMAIN ByName = 1 .. Len(ByName)
  /\ Range(ByName) = {<<"member", m>> : m \in Member} \cup {<<"donor", d>> : d \in DonorId}

VARIABLES
  issuer,    \* donation_settings: none, plain, or with deductible fees
  donors,    \* donors
  donation,  \* finance_transaction_donations: who gave, or NoRecipient
  receipts,  \* donation_receipts with their items
  annual     \* the receipts the annual request has read and not yet issued

receiptVars == <<issuer, donors, donation, receipts, annual>>

NoRecipient == <<"nobody", 0>>
Recipients == Range(ByName)

ReceiptsInit ==
  /\ issuer = "none"
  /\ donors = [d \in DonorId |-> [state |-> "absent", address |-> 0]]
  /\ donation = [t \in DOMAIN Entries |-> NoRecipient]
  /\ receipts = << >> /\ annual = << >>

(* An address of a street and a town; a deleted member has none. *)
PostalAddress(to) == IF to[1] = "member" THEN AddressIn(contact, to[2]) ELSE donors[to[2]].address
LiveRecipient(to) == IF to[1] = "member" THEN to[2] \in LiveMembers ELSE donors[to[2]].state = "live"
-----------------------------------------------------------------------------
(* What can be certified.  Items are transactions and fees. *)

CalendarYear(date) == 1 + (date - 1) \div DatesPerYear
ItemDate(ref) == IF ref[1] = "tx" THEN Entries[ref[2]].date ELSE fees[ref[2]].paid

(* donationCandidates: donations of the recipient, fees it has paid. *)
Donated(to) == {<<"tx", t>> : t \in {u \in LiveTxs : txs[u].income /\ donation[u] = to}}
PaidFees(to) == {<<"fee", f>> : f \in {g \in LiveFees : /\ issuer = "fees" /\ to = <<"member", fees[g].member>>
                                                        /\ fees[g].paid # 0 /\ fees[g].amount > 0}}
DonationCandidates(to, year) == {ref \in Donated(to) \cup PaidFees(to) : CalendarYear(ItemDate(ref)) = year}
Years == {CalendarYear(Entries[t].date) : t \in DOMAIN Entries} \cup {CalendarYear(d) : d \in Dates}

(* liveReceiptItems: duplicates repeat their original and do not count. *)
LiveOriginals(R) == {i \in DOMAIN R : ~R[i].voided /\ R[i].original = 0}
CertifiedBy(R, ref) == {i \in LiveOriginals(R) : ref \in R[i].items}
CertifiedReceipt(t) == CertifiedBy(receipts, <<"tx", t>>) # {}
-----------------------------------------------------------------------------
(* Settings, donors and donations. *)

SetDonationSettings(kind) ==
  /\ issuer' = kind
  /\ UNCHANGED <<donors, donation, receipts, annual>>

WriteDonor(d, from, to, address) ==
  /\ donors[d].state = from
  /\ donors' = [donors EXCEPT ![d] = [state |-> to, address |-> address]]
  /\ UNCHANGED <<issuer, donation, receipts, annual>>
CreateDonor(d, address) == WriteDonor(d, "absent", "live", address)
UpdateDonor(d, address) == WriteDonor(d, "live", "live", address)
DeleteDonor(d) ==
  /\ \A t \in LiveTxs : donation[t] # <<"donor", d>>
  /\ WriteDonor(d, "live", "deleted", donors[d].address)

SetDonation(t, to) ==
  /\ t \in LiveTxs /\ txs[t].income
  /\ ~CertifiedReceipt(t)
  /\ LiveRecipient(to)
  /\ donation' = [donation EXCEPT ![t] = to]
  /\ UNCHANGED <<issuer, donors, receipts, annual>>

RemoveAnyDonation(t) ==
  /\ donation[t] # NoRecipient
  /\ donation' = [donation EXCEPT ![t] = NoRecipient]
  /\ UNCHANGED <<issuer, donors, receipts, annual>>
RemoveDonation(t) ==
  /\ ~CertifiedReceipt(t)
  /\ donation[t] # NoRecipient
  /\ donation' = [donation EXCEPT ![t] = NoRecipient]
  /\ UNCHANGED <<issuer, donors, receipts, annual>>

(* donationAccess: the finances written, the addresses only read. *)
DonationAccess == FinanceAccess

SettingsRequest ==
  /\ Spend("donation") /\ DonationAccess
  /\ \E kind \in {"plain", "fees"} : SetDonationSettings(kind)

DonorRequest ==
  /\ Spend("donation") /\ DonationAccess
  /\ \E d \in DonorId :
       \/ \E address \in {0} \cup Addresses : CreateDonor(d, address) \/ UpdateDonor(d, address)
       \/ DeleteDonor(d)

DonationRequest ==
  /\ Spend("donation") /\ DonationAccess
  /\ \E t \in DOMAIN Entries : RemoveDonation(t) \/ \E to \in Recipients : SetDonation(t, to)
-----------------------------------------------------------------------------
(* Receipts. *)

NumberByCount(R, year) == 1 + Cardinality({i \in LiveOriginals(R) : R[i].year = year})
(* One above the highest of the year; duplicates have none of their own. *)
NextNumber(R, year) == 1 + Max({0} \cup {R[i].seq : i \in {j \in DOMAIN R : R[j].year = year}})

Original(R, req, year) ==
  [year |-> year, seq |-> NextNumber(R, year), to |-> req.to, items |-> req.items, original |-> 0, voided |-> FALSE]
Duplicate(R, i) == [R[i] EXCEPT !.seq = 0, !.original = i]

(* createReceipt: all items are candidates of one year.  Items nothing     *)
(* certifies give a receipt, exactly those of one receipt its duplicate.   *)
Answer(R, req) ==
  LET certified == UNION {CertifiedBy(R, ref) : ref \in req.items}
      years == {y \in Years : req.items \subseteq DonationCandidates(req.to, y)}
  IN {Original(R, req, y) : y \in {z \in years : certified = {} /\ PostalAddress(req.to) # 0}}
     \cup {Duplicate(R, i) : i \in {j \in certified : years # {} /\ certified = {j} /\ R[j].items = req.items}}

(* CreateReceipts: one transaction for all requests, each seeing the       *)
(* receipts of those before it; one that is refused refuses all.           *)
Issued(done, req) ==
  LET given == IF done.ok THEN Answer(done.rows, req) ELSE {}
  IN [ok |-> given # {}, rows |-> IF given = {} THEN done.rows ELSE Append(done.rows, CHOOSE r \in given : TRUE)]
IssueAll(reqs) ==
  LET after[k \in 0 .. Len(reqs)] ==
        IF k = 0 THEN [ok |-> TRUE, rows |-> receipts] ELSE Issued(after[k - 1], reqs[k])
  IN after[Len(reqs)]

CreateReceipts(reqs) ==
  /\ issuer # "none"
  /\ IssueAll(reqs).ok
  /\ receipts' = IssueAll(reqs).rows

CreateDonationReceipt(to, items) ==
  /\ items # {}
  /\ CreateReceipts(<<[to |-> to, items |-> items]>>)
  /\ UNCHANGED <<issuer, donors, donation, annual>>

(* What is not certified in the year, of everyone with an address. *)
OpenItems(to, year) == {ref \in DonationCandidates(to, year) : CertifiedBy(receipts, ref) = {}}
ToIssue(year) == {k \in DOMAIN ByName : OpenItems(ByName[k], year) # {} /\ PostalAddress(ByName[k]) # 0}
ReadAnnual(year) ==
  /\ annual = << >>
  /\ issuer # "none"
  /\ annual' = [k \in 1 .. Cardinality(ToIssue(year)) |->
                LET to == ByName[Nth(ToIssue(year), k)] IN [to |-> to, items |-> OpenItems(to, year)]]
  /\ UNCHANGED <<issuer, donors, donation, receipts>>

IssueAnnual ==
  /\ annual # << >>
  /\ annual' = << >>
  /\ CreateReceipts(annual) \/ (~IssueAll(annual).ok /\ UNCHANGED receipts)
  /\ UNCHANGED <<issuer, donors, donation, budget>>

(* A duplicate of a duplicate is one of the original. *)
DuplicateReceipt(i) ==
  /\ LET o == IF receipts[i].original = 0 THEN i ELSE receipts[i].original
     IN ~receipts[o].voided /\ receipts' = Append(receipts, Duplicate(receipts, o))
  /\ UNCHANGED <<issuer, donors, donation, annual>>

VoidReceipt(i) ==
  /\ ~receipts[i].voided
  /\ receipts' = [j \in DOMAIN receipts |-> [receipts[j] EXCEPT !.voided = @ \/ i \in {j, receipts[j].original}]]
  /\ UNCHANGED <<issuer, donors, donation, annual>>

ReceiptRequest ==
  /\ DonationAccess
  /\ \/ /\ Spend("receipt")
        /\ \/ \E to \in Recipients, year \in Years :
                \E items \in SUBSET DonationCandidates(to, year) : CreateDonationReceipt(to, items)
           \/ \E year \in Years : ReadAnnual(year)
     \/ /\ Spend("void")
        /\ \E i \in DOMAIN receipts : DuplicateReceipt(i) \/ VoidReceipt(i)

ReceiptsNext == SettingsRequest \/ DonorRequest \/ DonationRequest \/ ReceiptRequest \/ IssueAnnual
-----------------------------------------------------------------------------
(* No two receipts that are not voided certify the same donation or fee,   *)
(* and a certified donation stays with who the receipt is for, whatever is *)
(* assigned, deleted or issued at the same time (createReceipt,            *)
(* ErrDonationCertified).                                                  *)
CertifiedOnce ==
  \A i \in LiveOriginals(receipts) :
     /\ \A j \in LiveOriginals(receipts) \ {i} : receipts[i].items \cap receipts[j].items = {}
     /\ \A ref \in receipts[i].items : ref[1] = "tx" => donation[ref[2]] = receipts[i].to

(* The log of receipts: the receipts of a year are numbered 1, 2, ... in   *)
(* the order they were issued, voided ones included, and a duplicate has   *)
(* its original's data and does not outlive it.                            *)
ReceiptLog ==
  /\ \A i \in DOMAIN receipts : receipts[i].original = 0 =>
       receipts[i].seq = Cardinality({j \in 1 .. i : receipts[j].original = 0 /\ receipts[j].year = receipts[i].year})
  /\ \A i \in DOMAIN receipts : \A o \in {receipts[i].original} \ {0} :
       /\ receipts[o].original = 0
       /\ receipts[i].to = receipts[o].to /\ receipts[i].items = receipts[o].items
       /\ receipts[o].voided => receipts[i].voided
=============================================================================
