----------------------------- MODULE FeeLedger -----------------------------
(***************************************************************************)
(* The finances of one device: fee models and billing runs, fees, direct   *)
(* debit runs, the imported bank statement and its reconciliation with the *)
(* fees.  Every operation is one transaction of the store, except two: the *)
(* handler that confirms all certain suggestions is a loop of them, and    *)
(* the one that edits a fee loads it before it writes it back.  Other      *)
(* requests run in between, also those of ClubRecords, whose members and   *)
(* households the finances refer to; Office puts them together.            *)
(*                                                                         *)
(* Rows are never removed: fees, runs, debit runs and payments are         *)
(* sequences in the order of their ids (UUIDv7), and deleted_at is a flag. *)
(* A date is a number and 0 is NULL; money is a whole number.              *)
(***************************************************************************)
EXTENDS FeeRules, ClubRecords

CONSTANTS
  ModelId,         \* ids of fee models
  Tariffs,         \* contents a fee model can have
  NoTariff,        \* no live model with this id
  LastMonth,       \* the months members and models are looked at
  Ranges,          \* what billing runs cover: from and to
  Mandates,        \* mandate references
  Entries,         \* bank statement entries by transaction id
  Dates,           \* dates of payments entered by hand and of collections
  Amounts          \* amounts entered by hand for fees and transactions

(* matchMembers: a member and the household it lives in. *)
HouseholdOf == [m \in Member |-> Home(households, belongs, m)]
Matcher == INSTANCE Matching WITH HouseholdOf <- HouseholdOf

(* parseCamt053: what is left of the sign says income or expense, and only *)
(* a debit can be a return.                                                *)
Parsed(e) == e.amount \in Nat /\ (e.isReturn => ~e.income)

ASSUME FeeLedgerAssumption ==
  /\ \A t \in DOMAIN Entries : Parsed(Entries[t])
  /\ NoTariff \notin Tariffs
  /\ Tariffs \subseteq [name : Nat, cents : Nat, interval : {i \in 1 .. YearLen : YearLen % i = 0},
                       limited : BOOLEAN, lo : Nat, hi : Nat, proRata : BOOLEAN]
  /\ Dates \subseteq Nat \ {0}
  /\ Amounts \subseteq Nat \ {0}
  /\ 0 \notin Mandates
  /\ LastMonth \in Nat /\ Ranges \subseteq [from : Nat, to : Nat]
  /\ \A range \in Ranges : 1 <= range.from /\ range.from <= range.to /\ range.to <= LastMonth

VARIABLES
  models,    \* fee_models
  assigned,  \* member_fee_models: "auto", "exempt" or a model id
  runs,      \* fee_runs: live or not
  fees,      \* member_fees, each with its row in fee_charges
  debits,    \* sepa_runs with their items
  mandate,   \* member_sepa_mandates, 0 for none
  creditor,  \* sepa_creditor is set up
  txs,       \* finance_transactions with finance_transaction_bank
  links,     \* member_fee_payments
  form,      \* the fee an edit has loaded and not yet written, and its values
  batch      \* what the confirmation of all certain suggestions is about to do

billing == <<models, assigned, runs>>
collection == <<debits, mandate, creditor>>
statement == <<txs, links>>
requests == <<form, batch>>
feeVars == <<billing, fees, collection, statement, requests>>

NoPeriod == [start |-> 0, end |-> 0]
NoForm == [fee |-> 0, member |-> 0, amount |-> 0, paid |-> 0]
NoBatch == [phase |-> "idle", tx |-> 0, alloc |-> << >>, done |-> {}]
Absent == [state |-> "absent", amount |-> 0, income |-> TRUE, bank |-> FALSE, dismissed |-> FALSE]

FeesInit ==
  /\ models = [i \in ModelId |-> NoTariff]
  /\ assigned = [m \in Member |-> "auto"]
  /\ runs = << >> /\ fees = << >> /\ debits = << >> /\ links = << >>
  /\ mandate = [m \in Member |-> 0]
  /\ creditor = FALSE
  /\ txs = [t \in DOMAIN Entries |-> Absent]
  /\ form = NoForm /\ batch = NoBatch

FinanceAccess == "finance" \in scopes
FinanceBankAccess == {"finance", "members_bank"} \subseteq scopes

-----------------------------------------------------------------------------
(* Fee models. *)

LiveModels == {i \in ModelId : models[i] # NoTariff}
NameTaken(i, name) == \E j \in LiveModels \ {i} : models[j].name = name

WriteModel(i, tariff) ==
  /\ Spend("tariff")
  /\ ~NameTaken(i, tariff.name)
  /\ models' = [models EXCEPT ![i] = tariff]
  /\ UNCHANGED <<assigned, runs, fees, collection, statement, requests>>

CreateFeeModel(i, tariff) == i \notin LiveModels /\ WriteModel(i, tariff)
UpdateFeeModel(i, tariff) == i \in LiveModels /\ WriteModel(i, tariff)

(* The members assigned to the model fall back to the selection by age. *)
DeleteFeeModel(i) ==
  /\ Spend("tariff")
  /\ i \in LiveModels
  /\ models' = [models EXCEPT ![i] = NoTariff]
  /\ assigned' = [m \in Member |-> IF assigned[m] = i THEN "auto" ELSE assigned[m]]
  /\ UNCHANGED <<runs, fees, collection, statement, requests>>

SetFeeAssignment(m, mode) ==
  /\ Spend("tariff")
  /\ m \in LiveMembers
  /\ mode \in {"auto", "exempt"} \cup LiveModels
  /\ assigned' = [assigned EXCEPT ![m] = mode]
  /\ UNCHANGED <<models, runs, fees, collection, statement, requests>>
-----------------------------------------------------------------------------
(* Billing runs. *)

Facts(m) == core[m]
AgeIn(m, year) == Facts(m).age + year

(* modelFor: the ids of the models that apply to m in a year, none or one. *)
(* The age counts on the first day of the year.                            *)
ModelsFor(m, year) ==
  CASE assigned[m] = "exempt" -> {}
    [] assigned[m] = "auto" ->
         {i \in LiveModels : models[i] \in SelectByAge({models[j] : j \in LiveModels}, AgeIn(m, year))}
    [] OTHER -> {assigned[m]} \cap LiveModels

(* chargedPeriods: the periods of live fees of runs. *)
LiveFees == {f \in DOMAIN fees : fees[f].live}
ChargedTo(m) == {f \in LiveFees : fees[f].run # 0 /\ fees[f].chargedTo = m}
Charged(m) == {fees[f].period : f \in ChargedTo(m)}

(* What m owes between two months, before what is charged is left out. *)
Owed(m, from, to) ==
  {o \in UNION {{[member |-> m, model |-> i, period |-> p] : p \in Periods(models[i].interval, from, to)}
                : i \in LiveModels} :
     ActiveIn(Facts(m), o.period) /\ o.model \in ModelsFor(m, Year(o.period.start))}

PlanByStart(from, to) ==
  {o \in UNION {Owed(m, from, to) : m \in LiveMembers} :
     \A c \in Charged(o.member) : o.period.start # c.start}
(* planFeeRun.  The periods of a year come from one model, so those of one *)
(* plan do not overlap and only what was charged before is skipped.        *)
Plan(from, to) ==
  {o \in UNION {Owed(m, from, to) : m \in LiveMembers} :
     \A c \in Charged(o.member) : ~Overlaps(o.period, c)}

NewFee(member, amount, due, run, period) ==
  [member |-> member, amount |-> amount, due |-> due, paid |-> 0, live |-> TRUE,
   run |-> run, period |-> period, chargedTo |-> member]

PlannedBefore(o, p) ==
  o.member < p.member \/ (o.member = p.member /\ o.period.start < p.period.start)
PlanOrder(plan) ==
  [k \in 1 .. Cardinality(plan) |->
     CHOOSE o \in plan : Cardinality({p \in plan : PlannedBefore(p, o)}) = k - 1]

(* Due at the start of the run, or of a later period. *)
CreateFeeRun(from, to) ==
  /\ Spend("run")
  /\ \E plan \in {Plan(from, to)} :
       /\ plan # {}
       /\ runs' = Append(runs, TRUE)
       /\ fees' = fees \o [k \in 1 .. Cardinality(plan) |->
                           LET o == PlanOrder(plan)[k]
                           IN NewFee(o.member, Amount(models[o.model], o.period, Facts(o.member)),
                                     Max({from, o.period.start}), Len(runs) + 1, o.period)]
  /\ UNCHANGED <<models, assigned, collection, statement, requests>>

InCollection(f) ==
  \E d \in DOMAIN debits : debits[d].live /\ debits[d].paid = 0 /\ f \in DOMAIN debits[d].items

FeesOfRun(r) == {f \in LiveFees : fees[f].run = r}

(* The open fees go, and with the last fee the run.  The payments assigned *)
(* to a fee that goes stay.                                                *)
DeleteFeeRun(r) ==
  /\ Spend("run")
  /\ runs[r]
  /\ LET open == {f \in FeesOfRun(r) : fees[f].paid = 0}
     IN /\ \A f \in open : ~InCollection(f)
        /\ fees' = [f \in DOMAIN fees |-> [fees[f] EXCEPT !.live = @ /\ f \notin open]]
        /\ runs' = [runs EXCEPT ![r] = FeesOfRun(r) # open]
  /\ UNCHANGED <<models, assigned, collection, statement, requests>>
-----------------------------------------------------------------------------
(* Payments of fees. *)

(* feePayments: live links of the fee whose transaction is live. *)
LinksOf(L, f) == {l \in DOMAIN L : L[l].live /\ L[l].fee = f /\ txs[L[l].tx].state = "live"}

SumOf(L, ls) == MapThenSumSet(LAMBDA l : L[l].amount, ls)

(* A return reverses everything paid before it. *)
PaidSinceReturn(L, f) ==
  LET ls == LinksOf(L, f)
      returned == Max({0} \cup {l \in ls : L[l].amount < 0})
  IN SumOf(L, {l \in ls : l > returned})

(* What the fee counts as paid, and whether it can take a payment. *)
PaidCents(f) == IF fees[f].paid # 0 THEN fees[f].amount ELSE PaidSinceReturn(links, f)
StillDue(f) == fees[f].amount - PaidCents(f)
Open(f) == fees[f].paid = 0 /\ ~InCollection(f) /\ StillDue(f) > 0

Covered(F, L, f) ==
  LET ls == LinksOf(L, f)
  IN ls # {} /\ L[Max(ls)].amount > 0 /\ PaidSinceReturn(L, f) >= F[f].amount

LastPayment(L, f) == Max({Entries[L[l].tx].date : l \in {k \in LinksOf(L, f) : L[k].amount > 0}})

(* settleFee: the paid date that follows from the payments. *)
Settled(F, L, f) ==
  IF LinksOf(L, f) = {} THEN F[f].paid
  ELSE IF ~Covered(F, L, f) THEN 0
  ELSE IF F[f].paid # 0 THEN F[f].paid ELSE LastPayment(L, f)

SettleAll(F, L, fs) == [f \in DOMAIN F |-> IF f \in fs /\ F[f].live
                                          THEN [F[f] EXCEPT !.paid = Settled(F, L, f)] ELSE F[f]]

(* removePayments: the links of a transaction go.  A fee whose latest      *)
(* links these were gets back its paid date from before them, another one  *)
(* is settled from the links that are left.                                *)
LinksOfTx(L, t) == {l \in DOMAIN L : L[l].live /\ L[l].tx = t}
Unlinked(L, t) == [l \in DOMAIN L |-> [L[l] EXCEPT !.live = @ /\ L[l].tx # t]]

PaidWithout(F, L, t, f) ==
  LET first == Min({l \in LinksOfTx(L, t) : L[l].fee = f})
  IN IF \E l \in LinksOf(Unlinked(L, t), f) : l > first
     THEN Settled(F, Unlinked(L, t), f) ELSE L[first].prior

WithoutTx(F, L, t) ==
  LET fs == {L[l].fee : l \in LinksOfTx(L, t)}
  IN [f \in DOMAIN F |-> IF f \in fs /\ F[f].live
                         THEN [F[f] EXCEPT !.paid = PaidWithout(F, L, t, f)] ELSE F[f]]
-----------------------------------------------------------------------------
(* Fees by hand. *)

CreateFee(m, amount, paid) ==
  /\ Spend("fee")
  /\ m \in LiveMembers
  /\ fees' = Append(fees, [NewFee(m, amount, 1, 0, NoPeriod) EXCEPT !.paid = paid])
  /\ UNCHANGED <<billing, collection, statement, requests>>

(* UpdateMemberFee: the fee is loaded, the fields of the request are put   *)
(* over it, and all its fields are written, also those only loaded.  The   *)
(* request can set a paid date but not remove one.                         *)
LoadFee(f, m, amount, paid) ==
  /\ Spend("fee")
  /\ form = NoForm
  /\ f \in LiveFees
  /\ form' = [fee |-> f, member |-> m, amount |-> amount, paid |-> IF paid = 0 THEN fees[f].paid ELSE paid]
  /\ UNCHANGED <<billing, fees, collection, statement, batch>>

UpdateFee ==
  /\ form # NoForm
  /\ form' = NoForm
  /\ fees' = IF form.fee \in LiveFees /\ form.member \in LiveMembers
             THEN [fees EXCEPT ![form.fee] = [@ EXCEPT !.member = form.member, !.amount = form.amount,
                                                       !.paid = form.paid]]
             ELSE fees
  /\ UNCHANGED <<billing, collection, statement, batch, budget>>

DeleteFee(f) ==
  /\ Spend("fee")
  /\ f \in LiveFees
  /\ fees' = [fees EXCEPT ![f].live = FALSE]
  /\ links' = [l \in DOMAIN links |-> [links[l] EXCEPT !.live = @ /\ links[l].fee # f]]
  /\ UNCHANGED <<billing, collection, txs, requests>>

(* Fee models, assignments and direct debit runs stay. *)
ResetFinance ==
  /\ Spend("fee")
  /\ fees' = [f \in DOMAIN fees |-> [fees[f] EXCEPT !.live = FALSE]]
  /\ links' = [l \in DOMAIN links |-> [links[l] EXCEPT !.live = FALSE]]
  /\ runs' = [r \in DOMAIN runs |-> FALSE]
  /\ txs' = [t \in DOMAIN txs |-> IF txs[t].state = "live" THEN [txs[t] EXCEPT !.state = "deleted"] ELSE txs[t]]
  /\ UNCHANGED <<models, assigned, collection, requests>>
-----------------------------------------------------------------------------
(* Direct debits. *)

SetSEPACreditor ==
  /\ Spend("setup")
  /\ creditor' = TRUE
  /\ UNCHANGED <<billing, fees, debits, mandate, statement, requests>>

SetMandateReference(m, ref) ==
  /\ Spend("setup")
  /\ m \in LiveMembers
  /\ \A n \in Member \ {m} : ref # 0 => mandate[n] # ref
  /\ mandate' = [mandate EXCEPT ![m] = ref]
  /\ UNCHANGED <<billing, fees, debits, creditor, statement, requests>>

UnpaidFees == {f \in LiveFees : fees[f].paid = 0}
(* An open fee, and one without an issue: only what is still due after     *)
(* partial payments is collected.                                          *)
Candidates == {f \in LiveFees : fees[f].paid = 0 /\ ~InCollection(f)}
CollectedAmount(f) == fees[f].amount - PaidSinceReturn(links, f)
Collectable(f) ==
  f \in Candidates /\ AccountIn(bank, fees[f].member) # 0 /\ mandate[fees[f].member] # 0 /\ CollectedAmount(f) > 0

(* FRST until the mandate has been used in a run that was not cancelled. *)
MandateUsed(m) ==
  \E d \in DOMAIN debits : /\ debits[d].live
                           /\ \E f \in DOMAIN debits[d].items :
                                LET i == debits[d].items[f] IN i.member = m /\ i.mandate = mandate[m]

CreateSEPARun(fs) ==
  /\ Spend("debit")
  /\ creditor
  /\ fs # {} /\ \A f \in fs : Collectable(f)
  /\ debits' = Append(debits, [live |-> TRUE, paid |-> 0,
                items |-> [f \in fs |-> [amount |-> CollectedAmount(f), member |-> fees[f].member,
                                         mandate |-> mandate[fees[f].member],
                                         first |-> ~MandateUsed(fees[f].member)]]])
  /\ UNCHANGED <<billing, fees, mandate, creditor, statement, requests>>

CancelSEPARun(d) ==
  /\ Spend("debit")
  /\ debits[d].live /\ debits[d].paid = 0
  /\ debits' = [debits EXCEPT ![d].live = FALSE]
  /\ UNCHANGED <<billing, fees, mandate, creditor, statement, requests>>

(* The bank has collected the run.  It can be confirmed again. *)
ConfirmSEPARun(d, date) ==
  /\ Spend("debit")
  /\ debits[d].live
  /\ debits' = [debits EXCEPT ![d].paid = date]
  /\ fees' = [f \in DOMAIN fees |-> IF f \in DOMAIN debits[d].items /\ fees[f].live /\ fees[f].paid = 0
                                    THEN [fees[f] EXCEPT !.paid = date] ELSE fees[f]]
  /\ UNCHANGED <<billing, mandate, creditor, statement, requests>>
-----------------------------------------------------------------------------
(* The cash book and the bank statement. *)

LiveTxs == {t \in DOMAIN txs : txs[t].state = "live"}

(* Bank data is kept on a device that may write it. *)
ImportTransaction(t) ==
  /\ Spend("entry")
  /\ txs[t].state = "absent"
  /\ txs' = [txs EXCEPT ![t] = [Absent EXCEPT !.state = "live", !.amount = Entries[t].amount,
                                              !.income = Entries[t].income, !.bank = "members_bank" \in scopes]]
  /\ UNCHANGED <<billing, fees, collection, links, requests>>

(* UpdateTransaction: also of an entry that is assigned to fees. *)
UpdateTransaction(t, amount, income) ==
  /\ Spend("entry")
  /\ t \in LiveTxs
  /\ txs' = [txs EXCEPT ![t].amount = amount, ![t].income = income]
  /\ UNCHANGED <<billing, fees, collection, links, requests>>

DeleteTransaction(t) ==
  /\ Spend("entry")
  /\ t \in LiveTxs
  /\ txs' = [txs EXCEPT ![t].state = "deleted"]
  /\ fees' = WithoutTx(fees, links, t)
  /\ links' = Unlinked(links, t)
  /\ UNCHANGED <<billing, collection, requests>>
-----------------------------------------------------------------------------
(* The reconciliation. *)

Assigned(t) == {l \in LinksOfTx(links, t) : fees[links[l].fee].live}
Listed(t) == t \in LiveTxs /\ txs[t].bank
EntryOpen(t) ==
  Listed(t) /\ Assigned(t) = {} /\ ~txs[t].dismissed /\ (txs[t].income \/ Entries[t].isReturn)

(* suggest: payments against what is still due, returns against what counts*)
(* as paid.                                                                *)
Assignable(t) ==
  IF Entries[t].isReturn THEN {f \in LiveFees : Min({PaidCents(f), fees[f].amount}) > 0}
  ELSE {f \in LiveFees : Open(f)}
Capacity(t, f) == IF Entries[t].isReturn THEN Min({PaidCents(f), fees[f].amount}) ELSE StillDue(f)

Suggestion(t) ==
  IF ~EntryOpen(t) THEN Matcher!NoSuggestion
  ELSE Matcher!Match([Entries[t] EXCEPT !.amount = txs[t].amount],
                     {[id |-> f, member |-> fees[f].member, due |-> fees[f].due, amount |-> Capacity(t, f)] :
                        f \in Assignable(t)})

TotalOf(alloc) == MapThenSumSet(LAMBDA f : alloc[f], DOMAIN alloc)

(* The checks of ConfirmReconciliation; alloc maps fees to amounts. *)
Takes(t, f, amount) ==
  /\ f \in LiveFees
  /\ IF Entries[t].isReturn THEN PaidCents(f) > 0 /\ amount <= PaidCents(f)
     ELSE Open(f) /\ amount <= StillDue(f)
ConfirmableAgain(t, alloc) ==
  /\ DOMAIN alloc # {}
  /\ Listed(t)
  /\ txs[t].income \/ Entries[t].isReturn
  /\ TotalOf(alloc) <= txs[t].amount
  /\ \A f \in DOMAIN alloc : alloc[f] \in Nat \ {0} /\ Takes(t, f, alloc[f])
Confirmable(t, alloc) ==
  /\ DOMAIN alloc # {}
  /\ Listed(t) /\ Assigned(t) = {}
  /\ txs[t].income \/ Entries[t].isReturn
  /\ TotalOf(alloc) <= txs[t].amount
  /\ \A f \in DOMAIN alloc : alloc[f] \in Nat \ {0} /\ Takes(t, f, alloc[f])

(* The k-th of a set of numbers. *)
Nth(S, k) == CHOOSE n \in S : Cardinality({i \in S : i < n}) = k - 1

LinksWithoutPrior(t, alloc) ==
  links \o [k \in 1 .. Cardinality(DOMAIN alloc) |->
              LET f == Nth(DOMAIN alloc, k)
              IN [fee |-> f, tx |-> t, live |-> TRUE, prior |-> 0,
                  amount |-> IF Entries[t].isReturn THEN -alloc[f] ELSE alloc[f]]]
(* One link for each fee, with the paid date the fee had. *)
LinksWith(t, alloc) ==
  links \o [k \in 1 .. Cardinality(DOMAIN alloc) |->
              LET f == Nth(DOMAIN alloc, k)
              IN [fee |-> f, tx |-> t, live |-> TRUE, prior |-> fees[f].paid,
                  amount |-> IF Entries[t].isReturn THEN -alloc[f] ELSE alloc[f]]]

Confirm(t, alloc) ==
  /\ Confirmable(t, alloc)
  /\ links' = LinksWith(t, alloc)
  /\ txs' = [txs EXCEPT ![t].dismissed = FALSE]
  /\ fees' = SettleAll(fees, LinksWith(t, alloc), DOMAIN alloc)
  /\ UNCHANGED <<billing, collection>>

ConfirmReconciliation(t, alloc) ==
  /\ Spend("link")
  /\ Confirm(t, alloc)
  /\ UNCHANGED requests

DismissReconciliation(t) ==
  /\ Spend("link")
  /\ Listed(t) /\ Assigned(t) = {}
  /\ txs' = [txs EXCEPT ![t].dismissed = TRUE]
  /\ UNCHANGED <<billing, fees, collection, links, requests>>

ReopenReconciliation(t) ==
  /\ Spend("link")
  /\ Listed(t)
  /\ txs' = [txs EXCEPT ![t].dismissed = FALSE]
  /\ fees' = WithoutTx(fees, links, t)
  /\ links' = Unlinked(links, t)
  /\ UNCHANGED <<billing, collection, requests>>

(* ConfirmCertainReconciliations: access is checked once, then the oldest  *)
(* certain entry is looked up and confirmed again and again, each entry    *)
(* once.  An error ends the loop.                                          *)
Certain == {t \in DOMAIN Entries : Suggestion(t).confidence = "certain"}
Earlier(t, u) == Entries[t].date < Entries[u].date \/ (Entries[t].date = Entries[u].date /\ t <= u)

StartCertain ==
  /\ Spend("link")
  /\ batch.phase = "idle"
  /\ batch' = [NoBatch EXCEPT !.phase = "match"]
  /\ UNCHANGED <<billing, fees, collection, statement, form>>

MatchCertain ==
  /\ batch.phase = "match"
  /\ LET todo == Certain \ batch.done
     IN \/ /\ todo = {}
           /\ batch' = NoBatch
        \/ \E t \in todo :
             /\ \A u \in todo : Earlier(t, u)
             /\ batch' = [phase |-> "confirm", tx |-> t, alloc |-> Suggestion(t).alloc, done |-> batch.done \cup {t}]
  /\ UNCHANGED <<billing, fees, collection, statement, form, budget>>

ConfirmCertain ==
  /\ batch.phase = "confirm"
  /\ \/ /\ Confirm(batch.tx, batch.alloc)
        /\ batch' = [batch EXCEPT !.phase = "match", !.tx = 0, !.alloc = << >>]
     \/ /\ ~Confirmable(batch.tx, batch.alloc)
        /\ batch' = NoBatch
        /\ UNCHANGED <<billing, fees, collection, statement>>
  /\ UNCHANGED <<form, budget>>

(* DeleteMember, as far as this module's tables go: payments of its fees   *)
(* and items of debit runs stay.                                           *)
DeleteFinancesOf(m) ==
  /\ fees' = [f \in DOMAIN fees |-> [fees[f] EXCEPT !.live = @ /\ fees[f].member # m,
                                                    !.run = IF fees[f].chargedTo = m THEN 0 ELSE @]]
  /\ assigned' = [assigned EXCEPT ![m] = "auto"]
  /\ mandate' = [mandate EXCEPT ![m] = 0]
  /\ UNCHANGED <<models, runs, debits, creditor, statement, requests>>
-----------------------------------------------------------------------------
(* The requests: what a handler decodes, the access it checks, and the     *)
(* operation it calls.                                                     *)

ModelRequest ==
  /\ FinanceAccess
  /\ \E i \in ModelId :
       \/ \E tariff \in Tariffs : CreateFeeModel(i, tariff) \/ UpdateFeeModel(i, tariff)
       \/ DeleteFeeModel(i)

AssignmentRequest ==
  /\ FinanceAccess /\ ScopeGuard("members")
  /\ \E m \in Member, mode \in {"auto", "exempt"} \cup ModelId : SetFeeAssignment(m, mode)

(* A run covers at most two years. *)
ValidRange(range) == range.from <= range.to /\ range.to < range.from + 2 * YearLen

RunRequest ==
  /\ FinanceAccess
  /\ \/ \E range \in Ranges : ValidRange(range) /\ CreateFeeRun(range.from, range.to)
     \/ \E r \in DOMAIN runs : DeleteFeeRun(r)

FeeRequest ==
  /\ ScopeGuard("finance")
  /\ \/ \E m \in Member, amount \in Amounts, paid \in {0} \cup Dates :
          \/ CreateFee(m, amount, paid)
          \/ \E f \in DOMAIN fees : LoadFee(f, m, amount, paid)
     \/ \E f \in DOMAIN fees : DeleteFee(f)
     \/ ResetFinance

MandateRequest ==
  /\ FinanceBankAccess
  /\ \/ SetSEPACreditor
     \/ \E m \in Member, ref \in {0} \cup Mandates : SetMandateReference(m, ref)

CollectionRequest ==
  /\ FinanceBankAccess
  /\ \/ \E fs \in SUBSET {f \in DOMAIN fees : Collectable(f)} : CreateSEPARun(fs)
     \/ \E d \in DOMAIN debits : CancelSEPARun(d) \/ \E date \in Dates : ConfirmSEPARun(d, date)

ImportRequest == ScopeGuard("finance") /\ \E t \in DOMAIN Entries : ImportTransaction(t)

TransactionRequest ==
  /\ ScopeGuard("finance")
  /\ \E t \in DOMAIN Entries :
       \/ \E amount \in Amounts, income \in BOOLEAN : UpdateTransaction(t, amount, income)
       \/ DeleteTransaction(t)

(* What is assigned by hand: part or all of one fee, or the suggestion. *)
ByHand(t) == UNION {{[g \in {f} |-> a] : a \in 1 .. txs[t].amount} : f \in LiveFees}
Suggested(t) == {a \in {Suggestion(t).alloc} : Suggestion(t) # Matcher!NoSuggestion}

ReconciliationRequest ==
  /\ FinanceBankAccess
  /\ \/ \E t \in DOMAIN Entries :
          \/ \E alloc \in ByHand(t) \cup Suggested(t) : ConfirmReconciliation(t, alloc)
          \/ DismissReconciliation(t)
          \/ ReopenReconciliation(t)
     \/ StartCertain

FeesNext ==
  \/ ModelRequest \/ AssignmentRequest \/ RunRequest
  \/ FeeRequest \/ UpdateFee
  \/ MandateRequest \/ CollectionRequest
  \/ ImportRequest \/ TransactionRequest
  \/ ReconciliationRequest \/ MatchCertain \/ ConfirmCertain
-----------------------------------------------------------------------------
(* No month is charged to a member twice: the periods of a member's live   *)
(* fees from billing runs never overlap, whatever was deleted, edited or   *)
(* reset in between and whichever models applied (CreateFeeRun).           *)
ChargedOnce ==
  \A m \in Member : \A f, g \in ChargedTo(m) : f # g => ~Overlaps(fees[f].period, fees[g].period)

(* In every year exactly one model charges a member: the periods it owes   *)
(* do not overlap, and when a model applies they cover each month of its   *)
(* membership ("without a gap or an overlap", modelFor).                   *)
NoGapNoOverlap ==
  \A m \in Member :
     \E owed \in {Owed(m, 1, LastMonth)} :
       /\ \A o, p \in owed : o # p => ~Overlaps(o.period, p.period)
       /\ \A month \in 1 .. LastMonth :
            ModelsFor(m, Year(month)) # {} /\ Between(Facts(m), month, month)
              => \E o \in owed : month \in o.period.start .. o.period.end

(* A fee is in at most one debit run the bank has not confirmed.           *)
OneCollection ==
  \A d, e \in DOMAIN debits :
     /\ d # e
     /\ debits[d].live /\ debits[d].paid = 0 /\ debits[e].live /\ debits[e].paid = 0
     => DOMAIN debits[d].items \cap DOMAIN debits[e].items = {}

(* Whatever can be confirmed can be undone: reopening the entry right away *)
(* gives every fee its paid date back, for payments as for returns.        *)
UndoRestores ==
  \A t \in {u \in LiveTxs : Listed(u) /\ Assigned(u) = {}} :
     \A alloc \in ByHand(t) \cup Suggested(t) :
        Confirmable(t, alloc) =>
          LET L == LinksWith(t, alloc)
          IN WithoutTx(SettleAll(fees, L, DOMAIN alloc), L, t) = fees

(* No confirmation spends an entry twice or pays more on a fee than it is, *)
(* also when certain suggestions were matched before another request took  *)
(* the same fee.                                                           *)
SpentOn(t) == SumOf(links, Assigned(t))
MoneyIsSpentOnce ==
  [][Len(links') > Len(links) =>
       /\ \A t \in DOMAIN Entries :
            SpentOn(t)' # SpentOn(t) => SpentOn(t)' <= txs'[t].amount /\ SpentOn(t)' >= -txs'[t].amount
       /\ \A f \in LiveFees :
            PaidSinceReturn(links, f)' > PaidSinceReturn(links, f)
              => PaidSinceReturn(links, f)' <= fees'[f].amount]_feeVars
=============================================================================
