---------------------------- MODULE ClubRecords ----------------------------
(***************************************************************************)
(* The people of a club in one device's database: members with contact     *)
(* data and bank details, households that share an address or an account,  *)
(* guardians, groups, qualifications and honors.  An operation is one      *)
(* transaction of the store, except the one that gives a qualification: it *)
(* reads the type first.                                                   *)
(*                                                                         *)
(* Names, numbers and texts are left out, and with them renaming and the   *)
(* uniqueness that UniqueConflicts is about; roles, groups and sections    *)
(* share their code and are one kind here.  A value 0 is NULL or empty.    *)
(***************************************************************************)
EXTENDS Integers, FiniteSets, SequencesExt

CONSTANTS
  Member,      \* members by number
  Founders,    \* those of the first state, who share household 1
  Cores,       \* Cores[m]: what the core data of m can be, the first at first
  Addresses,   \* postal addresses
  Accounts,    \* bank details
  Household,   \* ids of households
  Sharings,    \* what households may share: [address, bank]
  Group,       \* ids of groups
  QualType,    \* ids of qualification types, the first of them live at first
  Milestones,  \* stages honors are given for
  Budgets      \* how many operations of each kind a behaviour has

Kinds == {"access", "setup", "tariff", "run", "fee", "debit", "entry", "link",
          "member", "leave", "household", "group", "merit",
          "donation", "receipt", "void", "event", "attend", "task", "item", "loan", "keep"}

Nobody == 0

ASSUME ClubRecordsAssumption ==
  /\ Member \subseteq Nat \ {Nobody} /\ IsFiniteSet(Member) /\ Founders \subseteq Member
  /\ Household \subseteq Nat \ {0} /\ 1 \in Household
  /\ 0 \notin Addresses \cup Accounts
  /\ QualType \subseteq Nat /\ QualType # {}
  /\ Cores \in [Member -> Seq([age : Nat, entry : Nat, exit : Nat]) \ {<< >>}]
  /\ Sharings \subseteq [address : BOOLEAN, bank : BOOLEAN]
  /\ Budgets \subseteq [Kinds -> Nat]

VARIABLES
  members,     \* members: absent, live or deleted
  core,        \* their birthday, entry and exit
  contact,     \* member_contacts; a deleted row keeps its values
  bank,        \* member_bank_details
  households,  \* households: [state, payer, address, bank]
  belongs,     \* household_members: the household of the live row, 0 without
  guardians,   \* member_guardians
  groups,      \* groups: absent, live or deleted
  inGroup,     \* live rows of member_groups
  qualTypes,   \* qualification_types: absent, live or deleted
  quals,       \* member_qualifications
  issuing,     \* a qualification whose type is read and which is not written
  honors,      \* member_honors
  adjust,      \* member_membership: live or not
  scopes,      \* the scopes this device may write
  budget       \* operations left

people == <<members, core, contact, bank>>
families == <<households, belongs, guardians>>
teams == <<groups, inGroup>>
merits == <<qualTypes, quals, issuing, honors, adjust>>
recordVars == <<people, families, teams, merits, scopes>>

Spend(kind) == budget[kind] > 0 /\ budget' = [budget EXCEPT ![kind] = @ - 1]

LiveMembers == {m \in Member : members[m] = "live"}
LiveGroups == {g \in Group : groups[g] = "live"}

NoContact == [email |-> 0, address |-> 0]
NoIssue == [member |-> Nobody]
NoHousehold == [state |-> "absent", payer |-> Nobody, address |-> FALSE, bank |-> FALSE]

RecordsInit ==
  /\ members = [m \in Member |-> IF m \in Founders THEN "live" ELSE "absent"]
  /\ core = [m \in Member |-> Cores[m][1]]
  /\ contact = [m \in Member |-> [live |-> m \in Founders, email |-> 1, address |-> 0]]
  /\ bank = [m \in Member |-> [live |-> m \in Founders, account |-> IF m \in Founders THEN Max(Accounts) ELSE 0]]
  /\ households = [h \in Household |-> IF h = 1 THEN [NoHousehold EXCEPT !.state = "live"] ELSE NoHousehold]
  /\ belongs = [m \in Member |-> IF m \in Founders THEN 1 ELSE 0]
  /\ groups = [g \in Group |-> "absent"] /\ inGroup = {}
  /\ qualTypes = [q \in QualType |-> IF q = Min(QualType) THEN "live" ELSE "absent"] /\ issuing = NoIssue
  /\ guardians = << >> /\ quals = << >> /\ honors = << >>
  /\ adjust = [m \in Member |-> FALSE]
  /\ scopes = {"members_core", "members_contact", "members_bank", "finance", "inventory"}
  /\ budget \in Budgets

(* A login whose role may write everything.  The device may write an area  *)
(* of the API with any one of its scopes.                                  *)
WriteScopes ==
  [members   |-> {"members_core", "members_contact", "members_bank"}, groups |-> {"members_core"},
   calendar  |-> {"members_core"}, finance |-> {"finance"}, inventory |-> {"inventory"}]
ScopeGuard(area) == WriteScopes[area] \cap scopes # {}

(* What the device may write can shrink. *)
LoseScope(s) ==
  /\ Spend("access")
  /\ s \in scopes
  /\ scopes' = scopes \ {s}
  /\ UNCHANGED <<people, families, teams, merits>>
-----------------------------------------------------------------------------
(* Contact data, bank details, and what a household shares of them. *)

(* writeMemberParts: an empty part removes the row. *)
WrittenContact(r, c) ==
  IF c = NoContact THEN [r EXCEPT !.live = FALSE] ELSE [live |-> TRUE, email |-> c.email, address |-> c.address]
WrittenBank(r, account) ==
  IF account = 0 THEN [r EXCEPT !.live = FALSE] ELSE [live |-> TRUE, account |-> account]

(* liveColumns *)
AddressIn(C, m) == IF C[m].live THEN C[m].address ELSE 0
AccountIn(B, m) == IF B[m].live THEN B[m].account ELSE 0

CopyToExistingRow(r, address) == IF r.live THEN [r EXCEPT !.address = address] ELSE r
(* A missing row is created for an address only, without its old values. *)
CopyAddress(r, address) ==
  CASE r.live -> [r EXCEPT !.address = address]
    [] ~r.live /\ address = 0 -> r
    [] OTHER -> [live |-> TRUE, email |-> 0, address |-> address]
CopyBank(r, account) == WrittenBank(r, account)

(* The household of m among the households H with the memberships B. *)
Home(H, B, m) == IF B[m] # 0 /\ H[B[m]].state = "live" THEN B[m] ELSE 0

(* shareHouseholdData: source's data goes to the live others of its        *)
(* household, as far as that shares it.                                    *)
Receivers(H, B, source) ==
  IF Home(H, B, source) = 0 THEN {} ELSE {n \in LiveMembers \ {source} : B[n] = B[source]}

ShareAddress(C, H, B, source) ==
  [n \in Member |-> IF n \in Receivers(H, B, source) /\ H[B[source]].address
                    THEN CopyAddress(C[n], AddressIn(C, source)) ELSE C[n]]
ShareBank(A, H, B, source) ==
  [n \in Member |-> IF n \in Receivers(H, B, source) /\ H[B[source]].bank
                    THEN CopyBank(A[n], AccountIn(A, source)) ELSE A[n]]
-----------------------------------------------------------------------------
(* Members. *)

Contacts == [email : {0, 1}, address : {0} \cup Addresses]

(* setLinks checks neither side. *)
SetLinks(old, new) == (inGroup \ old) \cup new
LinksOfMember(m) == {l \in inGroup : l[1] = m}

CreateMember(m, k, c, account) ==
  /\ Spend("member")
  /\ members[m] = "absent"
  /\ members' = [members EXCEPT ![m] = "live"]
  /\ core' = [core EXCEPT ![m] = k]
  /\ contact' = [contact EXCEPT ![m] = WrittenContact(@, c)]
  /\ bank' = [bank EXCEPT ![m] = WrittenBank(@, account)]
  /\ \E gs \in SUBSET Group : inGroup' = SetLinks(LinksOfMember(m), {m} \X gs)
  /\ UNCHANGED <<families, groups, merits, scopes>>

(* All fields are replaced by the request's, then shared. *)
UpdateMember(m, k, c, account) ==
  /\ Spend("member")
  /\ m \in LiveMembers
  /\ core' = [core EXCEPT ![m] = k]
  /\ contact' = ShareAddress([contact EXCEPT ![m] = WrittenContact(@, c)], households, belongs, m)
  /\ bank' = ShareBank([bank EXCEPT ![m] = WrittenBank(@, account)], households, belongs, m)
  /\ \E gs \in SUBSET Group :
       inGroup' \in {inGroup, SetLinks(LinksOfMember(m), {m} \X gs)}
  /\ UNCHANGED <<members, families, groups, merits, scopes>>

MemberRequest ==
  /\ ScopeGuard("members")
  /\ \E m \in Member, c \in Contacts, account \in {0} \cup Accounts :
       \E k \in Range(Cores[m]) : CreateMember(m, k, c, account) \/ UpdateMember(m, k, c, account)

(* The rows at the indices gone are deleted. *)
RowsWithout(rows, gone) ==
  [i \in DOMAIN rows |-> [rows[i] EXCEPT !.live = @ /\ i \notin gone]]

PayerGone(m) == [h \in Household |-> IF households[h].payer = m /\ households[h].state = "live"
                                    THEN [households[h] EXCEPT !.payer = Nobody] ELSE households[h]]

(* DeleteMember, as far as this module's tables go. *)
DeleteRecordsOf(m) ==
  /\ m \in LiveMembers
  /\ members' = [members EXCEPT ![m] = "deleted"]
  /\ contact' = [contact EXCEPT ![m].live = FALSE]
  /\ bank' = [bank EXCEPT ![m].live = FALSE]
  /\ households' = PayerGone(m)
  /\ belongs' = [belongs EXCEPT ![m] = 0]
  /\ guardians' = RowsWithout(guardians, {i \in DOMAIN guardians : m \in {guardians[i].member, guardians[i].guardian}})
  /\ inGroup' = inGroup \ LinksOfMember(m)
  /\ quals' = RowsWithout(quals, {i \in DOMAIN quals : quals[i].member = m})
  /\ honors' = RowsWithout(honors, {i \in DOMAIN honors : honors[i].member = m})
  /\ adjust' = [adjust EXCEPT ![m] = FALSE]
  /\ UNCHANGED <<core, groups, qualTypes, issuing, scopes>>
-----------------------------------------------------------------------------
(* Households and guardians. *)

(* writeHouseholdMembers: the members are exactly ms; the data shared is   *)
(* the payer's, without a payer the first member's.                        *)
WriteHousehold(h, row, ms, source) ==
  /\ ms # {} /\ ms \subseteq LiveMembers
  /\ row.payer \in ms \cup {Nobody}
  /\ source = row.payer \/ (row.payer = Nobody /\ source \in ms)
  /\ \A m \in ms : Home(households, belongs, m) \in {0, h}
  /\ households' = [households EXCEPT ![h] = row]
  /\ belongs' = [m \in Member |-> IF m \in ms THEN h ELSE IF belongs[m] = h THEN 0 ELSE belongs[m]]
  /\ contact' = ShareAddress(contact, households', belongs', source)
  /\ bank' = ShareBank(bank, households', belongs', source)
  /\ UNCHANGED <<members, core, guardians, teams, merits, scopes>>

(* Sharing writes the scopes of what is shared. *)
HouseholdAccess(row) ==
  /\ "members_core" \in scopes
  /\ row.address => "members_contact" \in scopes
  /\ row.bank => "members_bank" \in scopes

CreateHousehold(h, row, ms, source) ==
  households[h].state = "absent" /\ WriteHousehold(h, row, ms, source)
UpdateHousehold(h, row, ms, source) ==
  households[h].state = "live" /\ WriteHousehold(h, row, ms, source)

DeleteHousehold(h) ==
  /\ "members_core" \in scopes
  /\ households[h].state = "live"
  /\ households' = [households EXCEPT ![h].state = "deleted"]
  /\ belongs' = [m \in Member |-> IF belongs[m] = h THEN 0 ELSE belongs[m]]
  /\ UNCHANGED <<people, guardians, teams, merits, scopes>>

HouseholdRequest ==
  /\ Spend("household")
  /\ \E h \in Household :
       \/ \E payer \in Member \cup {Nobody}, shared \in Sharings :
            \E row \in {[state |-> "live", payer |-> payer, address |-> shared.address, bank |-> shared.bank]} :
              /\ HouseholdAccess(row)
              /\ \E ms \in SUBSET LiveMembers : \E source \in ms :
                   CreateHousehold(h, row, ms, source) \/ UpdateHousehold(h, row, ms, source)
       \/ DeleteHousehold(h)

(* A guardian is a member or given by name (Nobody). *)
CreateGuardian(m, guardian) ==
  /\ m # guardian
  /\ m \in LiveMembers /\ guardian \in LiveMembers \cup {Nobody}
  /\ guardians' = Append(guardians, [member |-> m, guardian |-> guardian, live |-> TRUE])
  /\ UNCHANGED <<people, households, belongs, teams, merits, scopes>>

DeleteGuardian(i) ==
  /\ guardians[i].live
  /\ guardians' = [guardians EXCEPT ![i].live = FALSE]
  /\ UNCHANGED <<people, households, belongs, teams, merits, scopes>>

GuardianRequest ==
  /\ Spend("household")
  /\ "members_contact" \in scopes
  /\ \/ \E m \in Member, guardian \in Member \cup {Nobody} : CreateGuardian(m, guardian)
     \/ \E i \in DOMAIN guardians : DeleteGuardian(i)
-----------------------------------------------------------------------------
(* Groups. *)

CreateNamed(g) ==
  /\ groups[g] = "absent"
  /\ groups' = [groups EXCEPT ![g] = "live"]
  /\ UNCHANGED <<people, families, inGroup, merits, scopes>>

SetNamedMembers(g, ms) ==
  /\ g \in LiveGroups
  /\ inGroup' = SetLinks({l \in inGroup : l[2] = g}, ms \X {g})
  /\ UNCHANGED <<people, families, groups, merits, scopes>>

(* DeleteNamed, as far as this module's tables go. *)
DeleteGroupLinks(g) ==
  /\ g \in LiveGroups
  /\ groups' = [groups EXCEPT ![g] = "deleted"]
  /\ inGroup' = {l \in inGroup : l[2] # g}
  /\ UNCHANGED <<people, families, merits, scopes>>

GroupRequest ==
  /\ Spend("group")
  /\ ScopeGuard("groups")
  /\ \E g \in Group : CreateNamed(g) \/ \E ms \in SUBSET Member : SetNamedMembers(g, ms)
-----------------------------------------------------------------------------
(* Qualifications and honors. *)

CreateQualificationType(q) ==
  /\ qualTypes[q] = "absent"
  /\ qualTypes' = [qualTypes EXCEPT ![q] = "live"]
  /\ UNCHANGED <<people, families, teams, quals, issuing, honors, adjust, scopes>>

DeleteQualificationType(q) ==
  /\ qualTypes[q] = "live"
  /\ qualTypes' = [qualTypes EXCEPT ![q] = "deleted"]
  /\ quals' = RowsWithout(quals, {i \in DOMAIN quals : quals[i].type = q})
  /\ UNCHANGED <<people, families, teams, issuing, honors, adjust, scopes>>

(* CreateQualification reads the type before its transaction starts. *)
ReadQualificationType(m, q) ==
  /\ issuing = NoIssue
  /\ qualTypes[q] = "live"
  /\ issuing' = [member |-> m, type |-> q]
  /\ UNCHANGED <<people, families, teams, qualTypes, quals, honors, adjust, scopes>>

CreateQualification ==
  /\ issuing # NoIssue
  /\ issuing' = NoIssue
  /\ quals' = IF issuing.member \in LiveMembers
              THEN Append(quals, [member |-> issuing.member, type |-> issuing.type, live |-> TRUE]) ELSE quals
  /\ UNCHANGED <<people, families, teams, qualTypes, honors, adjust, scopes, budget>>

DeleteQualification(i) ==
  /\ quals[i].live
  /\ quals' = [quals EXCEPT ![i].live = FALSE]
  /\ UNCHANGED <<people, families, teams, qualTypes, issuing, honors, adjust, scopes>>

CreateHonor(m, milestone) ==
  /\ m \in LiveMembers
  /\ honors' = Append(honors, [member |-> m, milestone |-> milestone, live |-> TRUE])
  /\ UNCHANGED <<people, families, teams, qualTypes, quals, issuing, adjust, scopes>>

DeleteHonor(i) ==
  /\ honors[i].live
  /\ honors' = [honors EXCEPT ![i].live = FALSE]
  /\ UNCHANGED <<people, families, teams, qualTypes, quals, issuing, adjust, scopes>>

SetMembershipAdjust(m) ==
  /\ m \in LiveMembers
  /\ adjust' = [adjust EXCEPT ![m] = TRUE]
  /\ UNCHANGED <<people, families, teams, qualTypes, quals, issuing, honors, scopes>>

(* qualificationAccess and honorAccess ask for the same. *)
QualificationAccess == "members_core" \in scopes
HonorAccess == "members_core" \in scopes

TypeRequest ==
  /\ Spend("merit") /\ QualificationAccess
  /\ \E q \in QualType : CreateQualificationType(q) \/ DeleteQualificationType(q)

QualificationRequest ==
  /\ Spend("merit") /\ QualificationAccess
  /\ \/ \E m \in Member, q \in QualType : ReadQualificationType(m, q)
     \/ \E i \in DOMAIN quals : DeleteQualification(i)

HonorRequest ==
  /\ Spend("merit") /\ HonorAccess
  /\ \/ \E m \in Member, milestone \in Milestones : CreateHonor(m, milestone)
     \/ \E i \in DOMAIN honors : DeleteHonor(i)
     \/ \E m \in Member : SetMembershipAdjust(m)

RecordsNext ==
  \/ MemberRequest \/ HouseholdRequest \/ GuardianRequest \/ GroupRequest
  \/ TypeRequest \/ QualificationRequest \/ CreateQualification \/ HonorRequest
  \/ \E s \in scopes : LoseScope(s)
-----------------------------------------------------------------------------
(* Whatever is done to its members, households that share an address or an *)
(* account have one: members that share never differ, also after a payer   *)
(* was deleted, a member moved in or a removed row came back               *)
(* (shareHouseholdData).                                                   *)
SharedDataAgrees ==
  \A m, n \in LiveMembers :
     LET h == Home(households, belongs, m)
     IN h # 0 /\ Home(households, belongs, n) = h =>
          /\ households[h].address => AddressIn(contact, m) = AddressIn(contact, n)
          /\ households[h].bank => AccountIn(bank, m) = AccountIn(bank, n)

(* Live rows belong to live members, and who pays lives in the household.  *)
RecordsOfLiveMembers ==
  /\ \A m \in Member \ LiveMembers :
       ~contact[m].live /\ ~bank[m].live /\ belongs[m] = 0 /\ ~adjust[m]
  /\ \A i \in DOMAIN guardians :
       guardians[i].live => {guardians[i].member, guardians[i].guardian} \subseteq LiveMembers \cup {Nobody}
  /\ \A rows \in {quals, honors} : \A i \in DOMAIN rows : rows[i].live => rows[i].member \in LiveMembers
  /\ \A h \in Household :
       households[h].state = "live" /\ households[h].payer # Nobody => belongs[households[h].payer] = h
=============================================================================
