------------------------------ MODULE Matching ------------------------------
(***************************************************************************)
(* Which fees a bank statement entry pays, or reverses (package            *)
(* reconcile).  What the text of an entry says is data: strong is the set  *)
(* of members it names by number or IBAN, named and surnamed the members   *)
(* whose full or last name it holds, e2e the fee of its end-to-end id or   *)
(* 0.  A fee to assign is a record with its id, member, due month and the  *)
(* amount that can be assigned.                                            *)
(***************************************************************************)
EXTENDS Integers, FiniteSets, SequencesExt

CONSTANT HouseholdOf  \* HouseholdOf[m]: the household of member m, 0 without

NoSuggestion == [confidence |-> "none", alloc |-> << >>]

(* Payments go to the oldest fees first, returns reverse the newest. *)
Before(e, f, g) ==
  \/ IF e.isReturn THEN f.due > g.due ELSE f.due < g.due
  \/ f.due = g.due /\ f.member < g.member
  \/ f.due = g.due /\ f.member = g.member /\ f.id < g.id
InOrder(e, F) == SetToSortSeq(F, LAMBDA f, g : Before(e, f, g))

(* feesFor: member after member, each member's fees in order. *)
FeesFor(e, group, F) ==
  SetToSortSeq({f \in F : f.member \in group},
               LAMBDA f, g : f.member < g.member \/ (f.member = g.member /\ Before(e, f, g)))

Total(F) == MapThenSumSet(LAMBDA f : f.amount, F)

(* The entry is used up along the sequence fs: fees |-> amounts.           *)
UsedBefore(fs, i) == MapThenSumSet(LAMBDA j : fs[j].amount, 1 .. i - 1)
Allocate(e, fs, confidence) ==
  LET used == {i \in DOMAIN fs : UsedBefore(fs, i) < e.amount}
      share(i) == Min({fs[i].amount, e.amount - UsedBefore(fs, i)})
  IN IF fs = << >> THEN NoSuggestion
     ELSE [confidence |-> confidence,
           alloc |-> [f \in {fs[i].id : i \in used} |-> share(CHOOSE i \in used : fs[i].id = f)]]

Family(group, F) ==
  LET homes == {HouseholdOf[m] : m \in group} \ {0}
  IN {f.member : f \in {g \in F : HouseholdOf[g.member] \in homes}}

(* The sum of one fee, of all fees of the members, or of all fees of their *)
(* households equals the entry.                                            *)
ExactAmount(e, group, F, confidence) ==
  LET own == {f \in F : f.member \in group}
      single == {f \in own : f.amount = e.amount}
      family == Family(group, F)
      shared == {f \in F : f.member \in family}
  IN CASE single # {} -> Allocate(e, <<InOrder(e, single)[1]>>, confidence)
       [] single = {} /\ Total(own) = e.amount -> Allocate(e, FeesFor(e, group, F), confidence)
       [] single = {} /\ Total(own) # e.amount /\ Cardinality(family) > Cardinality(group)
            /\ Total(shared) = e.amount -> Allocate(e, FeesFor(e, family, F), confidence)
       [] OTHER -> NoSuggestion

SameHousehold(group) ==
  \/ Cardinality(group) = 1
  \/ \E h \in {HouseholdOf[m] : m \in group} \ {0} : \A m \in group : HouseholdOf[m] = h

(* Whom the text names: only members with fees to assign take part, each   *)
(* with the best of what is found of it.                                   *)
Payers(F) == {f.member : f \in F}
Strong(e, F) == e.strong \cap Payers(F)
Named(e, F) == (e.named \cap Payers(F)) \ Strong(e, F)
Surnamed(e, F) == (e.surnamed \cap Payers(F)) \ (Strong(e, F) \cup Named(e, F))

Match(e, F) ==
  LET strong == Strong(e, F)
      named == Named(e, F)
      surnamed == Surnamed(e, F)
      byId == {f \in F : e.isReturn /\ f.id = e.e2e}
      exact(group, c) == ExactAmount(e, group, F, c)
      byName(group) == group # {} /\ SameHousehold(group) /\ exact(group, "probable") # NoSuggestion
  IN CASE e.amount <= 0 -> NoSuggestion
       [] e.amount > 0 /\ byId # {} -> Allocate(e, InOrder(e, byId), "certain")
       [] byId = {} /\ strong # {} ->
            IF exact(strong, "certain") # NoSuggestion THEN exact(strong, "certain")
            ELSE Allocate(e, FeesFor(e, strong, F), "probable")
       [] byId = {} /\ strong = {} /\ byName(named) -> exact(named, "probable")
       [] byId = {} /\ strong = {} /\ ~byName(named) /\ byName(surnamed) -> exact(surnamed, "probable")
       [] byId = {} /\ strong = {} /\ ~byName(named) /\ ~byName(surnamed) /\ named # {} ->
            Allocate(e, FeesFor(e, named, F), "unclear")
       [] OTHER -> NoSuggestion
=============================================================================
