------------------------- MODULE OfficeNumbersProofs -------------------------
(***************************************************************************)
(* Proofs about Office that count and compute: receipts and their numbers, *)
(* the dates of tasks, what is paid out of the entries of the bank         *)
(* statement, and the occurrences of events.                               *)
(***************************************************************************)
EXTENDS OfficeProofs

-----------------------------------------------------------------------------
(* Donations and their receipts.                                           *)

(* Every set of numbers has a smallest one, so a first that is wrong.      *)
LEMMA Smallest ==
  ASSUME NEW S, S \subseteq Nat, NEW a \in S
  PROVE  \E m \in S : \A n \in S : m <= n
<1> DEFINE T == {n \in S : n <= a}
<1>1. IsFiniteSet(T) /\ T \subseteq Nat /\ a \in T
  <2>0. a \in Nat /\ a \in S /\ \A i \in S : i \in Nat
    OBVIOUS
  <2>1. a \in T
    BY <2>0
  <2>4. T \subseteq Nat
    BY <2>0
  <2>5. \A i \in T : i \in 0 .. a
    BY <2>0
  <2>3. T \in SUBSET (0 .. a)
    <3> HIDE DEF T
    <3> QED BY <2>5
  <2> HIDE DEF T
  <2>2. IsFiniteSet(0 .. a)
    BY <2>0, FS_Interval
  <2> QED BY <2>1, <2>2, <2>3, <2>4, FS_Subset
<1>2. T \subseteq S /\ \A n \in S : n \notin T => a < n
  OBVIOUS
<1> HIDE DEF T
<1>3. Cardinality(T) \in Nat /\ Cardinality(T) # 0
  BY <1>1, FS_CardinalityType, FS_EmptySet
<1> DEFINE m == Nth(T, 1)
<1>4. m \in T /\ Cardinality({i \in T : i < m}) = 0
  <2>1. 1 \in 1 .. Cardinality(T) /\ 1 - 1 = 0
    BY <1>3
  <2> QED BY <1>1, <2>1, NumberRanks DEF OfNumbers
<1>5. {i \in T : i < m} = {}
  <2>1. {i \in T : i < m} \in SUBSET T
    OBVIOUS
  <2>2. IsFiniteSet({i \in T : i < m})
    BY <1>1, <2>1, FS_Subset
  <2> QED BY <1>4, <2>2, FS_EmptySet
<1> HIDE DEF m
<1>6. \A n \in S : m <= n
  BY <1>1, <1>2, <1>4, <1>5
<1> QED BY <1>2, <1>4, <1>6

(* The originals of a year among the first receipts.                       *)
Counted(R, year, i) == {j \in 1 .. i : R[j].original = 0 /\ R[j].year = year}

ReceiptColumns == {"year", "seq", "to", "items", "original", "voided"}
Copies(r, o) == o.original = 0 /\ r.to = o.to /\ r.items = o.items /\ (o.voided => r.voided)

(* The numbers are those of the log, and duplicates have none.             *)
Log(R) ==
  /\ Table(R, ReceiptColumns)
  /\ \A i \in DOMAIN R : R[i].original = 0 => R[i].seq = Cardinality(Counted(R, R[i].year, i))
  /\ \A i \in DOMAIN R : R[i].original # 0 =>
       R[i].seq = 0 /\ R[i].original \in DOMAIN R /\ Copies(R[i], R[R[i].original])

(* What a receipt certifies nothing else does, and it stays given.         *)
Given(ref, to) ==
  /\ ref = <<ref[1], ref[2]>>
  /\ ref[1] = "tx" => ref[2] \in DOMAIN Entries /\ donation[ref[2]] = to
Certifies(R) ==
  \A i \in LiveOriginals(R) :
     /\ \A j \in LiveOriginals(R) \ {i} : R[i].items \cap R[j].items = {}
     /\ \A ref \in R[i].items : Given(ref, R[i].to)

ReceiptsInv ==
  /\ Log(receipts) /\ Certifies(receipts)
  /\ FunctionOn(donation, DOMAIN Entries)
  /\ Len(annual) \in Nat

LEMMA ReceiptsHold ==
  ASSUME ReceiptsInv
  PROVE  CertifiedOnce /\ ReceiptLog
<1>1. CertifiedOnce
  BY DEF ReceiptsInv, Certifies, CertifiedOnce, Given
<1>2. ASSUME NEW i \in DOMAIN receipts, receipts[i].original = 0
      PROVE  receipts[i].seq
               = Cardinality({j \in 1 .. i : receipts[j].original = 0 /\ receipts[j].year = receipts[i].year})
  BY <1>2 DEF ReceiptsInv, Log, Counted
<1>3. ASSUME NEW i \in DOMAIN receipts, NEW o \in {receipts[i].original} \ {0}
      PROVE  Copies(receipts[i], receipts[o])
  BY DEF ReceiptsInv, Log
<1> QED BY <1>1, <1>2, <1>3 DEF ReceiptLog, Copies

(* The originals of a year and their numbers.                              *)
LEMMA CountedIs ==
  ASSUME NEW R, Log(R), NEW year, NEW i \in 0 .. Len(R)
  PROVE  /\ Counted(R, year, i) \subseteq DOMAIN R /\ IsFiniteSet(Counted(R, year, i))
         /\ Cardinality(Counted(R, year, i)) \in Nat
         /\ Cardinality(Counted(R, year, i)) <= Cardinality(Counted(R, year, Len(R)))
<1> DEFINE A == Counted(R, year, i)
           B == Counted(R, year, Len(R))
<1>1. DOMAIN R = 1 .. Len(R) /\ Len(R) \in Nat
  BY RowIds DEF Log, Table
<1>2. A \in SUBSET B /\ B \in SUBSET (1 .. Len(R))
  BY <1>1 DEF Counted
<1> HIDE DEF A, B
<1>3. IsFiniteSet(B)
  <2>1. IsFiniteSet(1 .. Len(R))
    BY <1>1, FS_Interval
  <2> QED BY <1>2, <2>1, FS_Subset
<1>4. IsFiniteSet(A) /\ Cardinality(A) <= Cardinality(B)
  BY <1>2, <1>3, FS_Subset
<1>5. Cardinality(A) \in Nat
  BY <1>4, FS_CardinalityType
<1> QED BY <1>1, <1>2, <1>4, <1>5 DEF A, B

(* One above the highest number is one more than there are.                *)
LEMMA NextIs ==
  ASSUME NEW R, Log(R), NEW year
  PROVE  NextNumber(R, year) = 1 + Cardinality(Counted(R, year, Len(R)))
<1> DEFINE B == Counted(R, year, Len(R))
           c == Cardinality(B)
           T == {0} \cup {R[i].seq : i \in {j \in DOMAIN R : R[j].year = year}}
<1>1. DOMAIN R = 1 .. Len(R) /\ Len(R) \in Nat
  BY RowIds DEF Log, Table
<1>2. B \subseteq DOMAIN R /\ IsFiniteSet(B) /\ c \in Nat
  <2>1. Len(R) \in 0 .. Len(R)
    BY <1>1
  <2> QED BY <2>1, CountedIs
<1>3. ASSUME NEW i \in DOMAIN R, R[i].year = year
      PROVE  R[i].seq \in Nat /\ R[i].seq <= c
  <2>1. CASE R[i].original = 0
    <3>1. R[i].seq = Cardinality(Counted(R, year, i))
      BY <1>3, <2>1 DEF Log
    <3>2. i \in 0 .. Len(R)
      BY <1>1
    <3> QED BY <3>1, <3>2, CountedIs
  <2>2. CASE R[i].original # 0
    BY <1>2, <2>2 DEF Log
  <2> QED BY <2>1, <2>2
<1>4. c \in T
  <2>1. CASE c = 0
    BY <2>1
  <2>2. CASE c # 0
    <3> DEFINE o == Nth(B, c)
    <3>1. o \in B /\ Cardinality({i \in B : i < o}) = c - 1
      <4> HIDE DEF B
      <4>1. OfNumbers(B) /\ c \in 1 .. c
        BY <1>1, <1>2, <2>2 DEF OfNumbers
      <4> QED BY <1>2, <4>1, NumberRanks
    <3>2. o \in DOMAIN R /\ R[o].original = 0 /\ R[o].year = year
      BY <1>1, <3>1 DEF Counted
    <3> HIDE DEF o
    <3>3. Counted(R, year, o) = {i \in B : i < o} \cup {o}
      BY <1>1, <3>2 DEF Counted
    <3>4. IsFiniteSet({i \in B : i < o}) /\ o \notin {i \in B : i < o}
      <4>1. {i \in B : i < o} \in SUBSET B
        OBVIOUS
      <4>2. o \notin {i \in B : i < o}
        BY <1>1, <3>2
      <4> HIDE DEF B
      <4> QED BY <1>2, <4>1, <4>2, FS_Subset
    <3>5. Cardinality({i \in B : i < o} \cup {o}) = Cardinality({i \in B : i < o}) + 1
      <4> DEFINE D == {i \in B : i < o}
      <4>1. IsFiniteSet(D) /\ o \notin D
        BY <3>4
      <4> HIDE DEF D
      <4>2. Cardinality(D \cup {o}) = Cardinality(D) + 1
        BY <4>1, FS_AddElement
      <4> QED BY <4>2 DEF D
    <3>6. R[o].seq = c
      <4> HIDE DEF B
      <4>1. R[o].seq = Cardinality(Counted(R, year, o))
        BY <3>2 DEF Log
      <4> QED BY <1>2, <3>1, <3>3, <3>5, <4>1
    <3> QED BY <3>2, <3>6
  <2> QED BY <2>1, <2>2
<1>5. \A x \in T : x \in Nat /\ x <= c
  BY <1>2, <1>3
<1>6. NextNumber(R, year) = 1 + Max(T)
  BY DEF NextNumber
<1> HIDE DEF T
<1> HIDE DEF c
<1>7. Max(T) = c
  <2>1. \A y \in T : c >= y
    BY <1>2, <1>5
  <2>2. Max(T) \in T /\ \A y \in T : Max(T) >= y
    BY <1>4, <2>1 DEF Max
  <2>3. Max(T) >= c /\ Max(T) <= c /\ Max(T) \in Nat
    BY <1>4, <1>5, <2>2
  <2> QED BY <1>2, <2>3
<1> QED BY <1>6, <1>7 DEF c

(* A receipt added leaves those before it as they are.                     *)
Grown(Q, R, r) ==
  /\ Table(Q, ReceiptColumns)
  /\ DOMAIN R = 1 .. Len(R) /\ Len(R) \in Nat /\ DOMAIN Q = DOMAIN R \cup {Len(R) + 1}
  /\ Q[Len(R) + 1] = r /\ \A i \in DOMAIN R : Q[i] = R[i]
  /\ \A year : \A i \in DOMAIN R : Counted(Q, year, i) = Counted(R, year, i)

LEMMA ReceiptAdded ==
  ASSUME NEW R, Log(R), NEW r, Row(r, ReceiptColumns), NEW Q, Added(Q, R, r)
  PROVE  Grown(Q, R, r)
<1>1. Table(R, ReceiptColumns) /\ Rows(R)
  BY DEF Log, Table
<1>2. Table(Q, ReceiptColumns)
  BY <1>1, TableAdded
<1>3. /\ DOMAIN R \subseteq DOMAIN Q
      /\ \A i \in DOMAIN R : Q[i] = R[i]
      /\ \A i \in DOMAIN Q \ DOMAIN R : i = Len(R) + 1 /\ Q[i] = r
  BY <1>1, RowAdded
<1>4. DOMAIN R = 1 .. Len(R) /\ Len(R) \in Nat /\ DOMAIN Q = 1 .. Len(Q) /\ Len(Q) \in Nat
  BY <1>1, <1>2, RowIds DEF Table
<1>5. Len(R) + 1 \in DOMAIN Q /\ Len(R) + 1 \notin DOMAIN R
  <2> DEFINE S == {R[i] : i \in 1 .. Len(R)} \cup {r}
  <2>1. r \in S /\ \A i \in 1 .. Len(R) : R[i] \in S
    OBVIOUS
  <2> HIDE DEF S
  <2>2. R \in Seq(S)
    BY <1>1, <2>1, RowsAreSeq
  <2>3. Len(Q) = Len(R) + 1
    BY <2>1, <2>2 DEF Added
  <2> QED BY <1>4, <2>3
<1>6. ASSUME NEW year, NEW i \in DOMAIN R
      PROVE  Counted(Q, year, i) = Counted(R, year, i)
  <2>1. 1 .. i \subseteq DOMAIN R
    BY <1>4
  <2>2. \A j \in 1 .. i : Q[j] = R[j]
    BY <1>3, <2>1
  <2> QED BY <2>2 DEF Counted
<1> QED BY <1>2, <1>3, <1>4, <1>5, <1>6 DEF Grown

(* An original has the next number.                                        *)
LEMMA OriginalLogged ==
  ASSUME NEW R, Log(R), NEW r, Row(r, ReceiptColumns), r.original = 0, r.seq = NextNumber(R, r.year),
         NEW Q, Added(Q, R, r)
  PROVE  Log(Q)
<1> DEFINE n == Len(R)
           y == r.year
<1>0. Grown(Q, R, r)
  BY ReceiptAdded
<1>1. /\ Table(Q, ReceiptColumns)
      /\ DOMAIN R = 1 .. n /\ n \in Nat /\ DOMAIN Q = DOMAIN R \cup {n + 1}
      /\ Q[n + 1] = r /\ \A i \in DOMAIN R : Q[i] = R[i]
      /\ \A year : \A i \in DOMAIN R : Counted(Q, year, i) = Counted(R, year, i)
  BY <1>0 DEF Grown
<1>2. Counted(Q, y, n + 1) = Counted(R, y, n) \cup {n + 1}
  <2>1. 1 .. n + 1 = (1 .. n) \cup {n + 1}
    BY <1>1
  <2>2. \A j \in 1 .. n : Q[j] = R[j]
    BY <1>1
  <2> HIDE DEF n
  <2> QED BY <1>1, <2>1, <2>2 DEF Counted
<1>3. Cardinality(Counted(Q, y, n + 1)) = 1 + Cardinality(Counted(R, y, n))
  <2> DEFINE B == Counted(R, y, n)
  <2>1. IsFiniteSet(B) /\ B \subseteq DOMAIN R /\ Cardinality(B) \in Nat
    <3>1. n \in 0 .. Len(R)
      BY <1>1
    <3> QED BY <3>1, CountedIs
  <2>2. n + 1 \notin B /\ Counted(Q, y, n + 1) = B \cup {n + 1}
    BY <1>1, <1>2, <2>1
  <2> HIDE DEF B
  <2>3. Cardinality(B \cup {n + 1}) = Cardinality(B) + 1
    BY <2>1, <2>2, FS_AddElement
  <2>5. Cardinality(B) + 1 = 1 + Cardinality(B)
    BY <2>1
  <2>4. Cardinality(Counted(Q, y, n + 1)) = 1 + Cardinality(B)
    <3> HIDE DEF n, y
    <3> QED BY <2>2, <2>3, <2>5, Zenon
  <2> QED BY <2>4 DEF B
<1>4. r.seq = Cardinality(Counted(Q, y, n + 1))
  BY <1>3, NextIs
<1>5. ASSUME NEW i \in DOMAIN Q, Q[i].original = 0
      PROVE  Q[i].seq = Cardinality(Counted(Q, Q[i].year, i))
  <2>1. CASE i \in DOMAIN R
    <3>1. R[i].seq = Cardinality(Counted(R, R[i].year, i))
      BY <1>1, <1>5, <2>1 DEF Log
    <3> QED BY <1>1, <2>1, <3>1
  <2>2. CASE i = n + 1
    BY <1>1, <1>4, <2>2
  <2> QED BY <1>1, <2>1, <2>2
<1>6. ASSUME NEW i \in DOMAIN Q, Q[i].original # 0
      PROVE  Q[i].seq = 0 /\ Q[i].original \in DOMAIN Q /\ Copies(Q[i], Q[Q[i].original])
  <2>1. i \in DOMAIN R /\ Q[i] = R[i]
    BY <1>1, <1>6
  <2>2. R[i].seq = 0 /\ R[i].original \in DOMAIN R /\ Copies(R[i], R[R[i].original])
    BY <1>6, <2>1 DEF Log
  <2> QED BY <1>1, <2>1, <2>2
<1> QED BY <1>1, <1>5, <1>6 DEF Log

(* A duplicate of a receipt that is not voided has its data and no number. *)
LEMMA DuplicateLogged ==
  ASSUME NEW R, Log(R), Certifies(R), NEW o \in LiveOriginals(R), NEW Q, Added(Q, R, Duplicate(R, o))
  PROVE  Log(Q) /\ Certifies(Q)
<1> DEFINE n == Len(R)
           r == Duplicate(R, o)
<1>1. Row(R[o], ReceiptColumns) /\ o \in DOMAIN R /\ R[o].original = 0 /\ ~ R[o].voided
  BY DEF LiveOriginals, Log, Table
<1>2. /\ Row(r, ReceiptColumns) /\ r.seq = 0 /\ r.original = o
      /\ r.to = R[o].to /\ r.items = R[o].items /\ (R[o].voided => r.voided)
  <2>1. r = [R[o] EXCEPT !.seq = 0, !.original = o]
    BY DEF Duplicate
  <2> QED BY <1>1, <2>1 DEF Row, ReceiptColumns
<1> HIDE DEF r
<1>3. /\ Table(Q, ReceiptColumns)
      /\ DOMAIN R = 1 .. n /\ n \in Nat /\ DOMAIN Q = DOMAIN R \cup {n + 1}
      /\ Q[n + 1] = r /\ \A i \in DOMAIN R : Q[i] = R[i]
      /\ \A year : \A i \in DOMAIN R : Counted(Q, year, i) = Counted(R, year, i)
  <2>1. Added(Q, R, r)
    BY DEF r
  <2>2. Grown(Q, R, r)
    BY <1>2, <2>1, ReceiptAdded
  <2> QED BY <2>2 DEF Grown
<1>4. o # 0
  BY <1>1, <1>3
<1>5. ASSUME NEW i \in DOMAIN Q, Q[i].original = 0
      PROVE  i \in DOMAIN R /\ Q[i].seq = Cardinality(Counted(Q, Q[i].year, i))
  <2>1. i \in DOMAIN R /\ Q[i] = R[i]
    BY <1>2, <1>3, <1>4, <1>5
  <2>2. R[i].seq = Cardinality(Counted(R, R[i].year, i))
    BY <1>5, <2>1 DEF Log
  <2> QED BY <1>3, <2>1, <2>2
<1>6. ASSUME NEW i \in DOMAIN Q, Q[i].original # 0
      PROVE  Q[i].seq = 0 /\ Q[i].original \in DOMAIN Q /\ Copies(Q[i], Q[Q[i].original])
  <2>1. CASE i \in DOMAIN R
    <3>1. Q[i] = R[i]
      BY <1>3, <2>1
    <3>2. R[i].seq = 0 /\ R[i].original \in DOMAIN R /\ Copies(R[i], R[R[i].original])
      BY <1>6, <2>1, <3>1 DEF Log
    <3> QED BY <1>3, <3>1, <3>2
  <2>2. CASE i = n + 1
    BY <1>1, <1>2, <1>3, <2>2 DEF Copies
  <2> QED BY <1>3, <2>1, <2>2
<1>7. Log(Q)
  BY <1>3, <1>5, <1>6 DEF Log
<1>8. LiveOriginals(Q) \subseteq LiveOriginals(R) /\ \A i \in LiveOriginals(Q) : Q[i] = R[i]
  BY <1>3, <1>5 DEF LiveOriginals
<1>9. Certifies(Q)
  BY <1>8 DEF Certifies
<1> QED BY <1>7, <1>9

(* An original of items nothing certifies, given by whom it is for.        *)
LEMMA OriginalCertifies ==
  ASSUME NEW R, Log(R), Certifies(R), NEW r, Row(r, ReceiptColumns),
         \A ref \in r.items : Given(ref, r.to) /\ CertifiedBy(R, ref) = {},
         NEW Q, Added(Q, R, r)
  PROVE  Certifies(Q)
<1> DEFINE n == Len(R)
<1>0. Grown(Q, R, r)
  BY ReceiptAdded
<1>1. /\ DOMAIN R = 1 .. n /\ n \in Nat /\ DOMAIN Q = DOMAIN R \cup {n + 1}
      /\ Q[n + 1] = r /\ \A i \in DOMAIN R : Q[i] = R[i]
  BY <1>0 DEF Grown
<1>2. LiveOriginals(Q) \subseteq LiveOriginals(R) \cup {n + 1} /\ \A i \in LiveOriginals(R) : Q[i] = R[i]
  BY <1>1 DEF LiveOriginals
<1>3. \A i \in LiveOriginals(R) : R[i].items \cap r.items = {}
  BY DEF CertifiedBy
<1> HIDE DEF n
<1>4. ASSUME NEW i \in LiveOriginals(Q), NEW j \in LiveOriginals(Q) \ {i}
      PROVE  Q[i].items \cap Q[j].items = {}
  BY <1>1, <1>2, <1>3, <1>4 DEF Certifies
<1>5. ASSUME NEW i \in LiveOriginals(Q), NEW ref \in Q[i].items
      PROVE  Given(ref, Q[i].to)
  BY <1>1, <1>2, <1>5 DEF Certifies
<1> QED BY <1>4, <1>5 DEF Certifies

(* What createReceipt answers keeps the log and certifies nothing twice.   *)
LEMMA AnswerKeeps ==
  ASSUME LinksInv, NEW R, Log(R), Certifies(R), NEW req, NEW r \in Answer(R, req), NEW Q, Added(Q, R, r)
  PROVE  Log(Q) /\ Certifies(Q)
<1> DEFINE certified == UNION {CertifiedBy(R, ref) : ref \in req.items}
           years == {y \in Years : req.items \subseteq DonationCandidates(req.to, y)}
<1>1. ASSUME NEW y \in years, certified = {}, r = Original(R, req, y)
      PROVE  Log(Q) /\ Certifies(Q)
  <2>1. /\ Row(r, ReceiptColumns) /\ r.original = 0 /\ r.seq = NextNumber(R, r.year)
        /\ r.to = req.to /\ r.items = req.items
    BY <1>1 DEF Original, Row, ReceiptColumns
  <2>2. ASSUME NEW ref \in req.items
        PROVE  Given(ref, req.to) /\ CertifiedBy(R, ref) = {}
    <3>1. CertifiedBy(R, ref) = {}
      BY <1>1
    <3>2. ref \in Donated(req.to) \cup PaidFees(req.to)
      BY <1>1 DEF DonationCandidates
    <3>3. CASE ref \in Donated(req.to)
      <4>1. PICK t \in LiveTxs : donation[t] = req.to /\ ref = <<"tx", t>>
        BY <3>3 DEF Donated
      <4>2. t \in DOMAIN Entries
        BY DEF LiveTxs, LinksInv
      <4> QED BY <3>1, <4>1, <4>2 DEF Given
    <3>4. CASE ref \in PaidFees(req.to)
      <4>1. PICK f \in LiveFees : ref = <<"fee", f>>
        BY <3>4 DEF PaidFees
      <4> QED BY <3>1, <4>1 DEF Given
    <3> QED BY <3>2, <3>3, <3>4
  <2> QED BY <2>1, <2>2, OriginalLogged, OriginalCertifies
<1>2. ASSUME NEW o \in certified, r = Duplicate(R, o)
      PROVE  Log(Q) /\ Certifies(Q)
  <2>1. o \in LiveOriginals(R)
    BY <1>2 DEF CertifiedBy
  <2> QED BY <1>2, <2>1, DuplicateLogged
<1>3. r \in {Original(R, req, y) : y \in {z \in years : certified = {} /\ PostalAddress(req.to) # 0}}
        \cup {Duplicate(R, i) : i \in {j \in certified : years # {} /\ certified = {j} /\ R[j].items = req.items}}
  BY DEF Answer
<1> HIDE DEF certified, years
<1> QED BY <1>1, <1>2, <1>3

(* Issuing request after request: the function IssueAll defines exists.    *)
Issues(f, n, reqs) ==
  f = [k \in 0 .. n |-> IF k = 0 THEN [ok |-> TRUE, rows |-> receipts] ELSE Issued(f[k - 1], reqs[k])]

LEMMA IssuesExist ==
  ASSUME NEW n \in Nat, NEW reqs
  PROVE  \E f : Issues(f, n, reqs)
<1> DEFINE Bad == {m \in 0 .. n : ~ \E f : Issues(f, m, reqs)}
           first == [ok |-> TRUE, rows |-> receipts]
<1>1. ASSUME NEW b \in Bad PROVE FALSE
  <2>1. PICK m \in Bad : \A i \in Bad : m <= i
    <3>1. Bad \subseteq Nat
      OBVIOUS
    <3> HIDE DEF Bad
    <3> QED BY <1>1, <3>1, Smallest
  <2>2. m \in 0 .. n /\ ~ \E f : Issues(f, m, reqs)
    BY <2>1
  <2>3. CASE m = 0
    <3>1. Issues([k \in 0 .. 0 |-> first], 0, reqs)
      BY DEF Issues
    <3> QED BY <2>2, <2>3, <3>1
  <2>4. CASE m # 0
    <3>1. m - 1 \in 0 .. n /\ m - 1 \notin Bad
      BY <2>1, <2>2, <2>4
    <3>2. PICK g : Issues(g, m - 1, reqs)
      BY <3>1
    <3> DEFINE f == [k \in 0 .. m |-> IF k < m THEN g[k] ELSE Issued(g[m - 1], reqs[m])]
    <3>3. ASSUME NEW k \in 0 .. m
          PROVE  f[k] = IF k = 0 THEN first ELSE Issued(f[k - 1], reqs[k])
      <4>1. CASE k = 0
        <5>1. g[0] = first /\ 0 < m
          BY <2>2, <2>4, <3>2 DEF Issues
        <5> QED BY <4>1, <5>1
      <4>2. CASE k # 0 /\ k < m
        <5>1. k \in 0 .. m - 1 /\ k - 1 \in 0 .. m /\ k - 1 < m
          BY <2>2, <4>2
        <5>2. g[k] = Issued(g[k - 1], reqs[k])
          BY <3>2, <4>2, <5>1 DEF Issues
        <5>3. f[k] = g[k] /\ f[k - 1] = g[k - 1]
          BY <4>2, <5>1
        <5> QED BY <4>2, <5>2, <5>3
      <4>3. CASE k = m
        <5>1. f[m] = Issued(g[m - 1], reqs[m]) /\ f[m - 1] = g[m - 1]
          BY <2>2, <2>4
        <5> QED BY <2>4, <4>3, <5>1
      <4> QED BY <2>2, <4>1, <4>2, <4>3
    <3>4. Issues(f, m, reqs)
      BY <3>3 DEF Issues
    <3> HIDE DEF f
    <3> QED BY <2>2, <3>4
  <2> QED BY <2>3, <2>4
<1>2. n \in 0 .. n
  OBVIOUS
<1> QED BY <1>1, <1>2

(* Every request of a transaction keeps what the receipts promise.         *)
LEMMA IssuedKeeps ==
  ASSUME LinksInv, NEW done, Log(done.rows), Certifies(done.rows), NEW req
  PROVE  Log(Issued(done, req).rows) /\ Certifies(Issued(done, req).rows)
<1> DEFINE given == IF done.ok THEN Answer(done.rows, req) ELSE {}
<1>1. CASE given = {}
  BY <1>1 DEF Issued
<1>2. CASE given # {}
  <2>1. PICK r : r = CHOOSE x \in given : TRUE
    OBVIOUS
  <2>2. r \in Answer(done.rows, req)
    BY <1>2, <2>1
  <2>3. Added(Issued(done, req).rows, done.rows, r)
    BY <1>2, <2>1 DEF Issued, Added
  <2> QED BY <2>2, <2>3, AnswerKeeps
<1> QED BY <1>1, <1>2

LEMMA IssueAllKeeps ==
  ASSUME LinksInv, Log(receipts), Certifies(receipts), NEW reqs, Len(reqs) \in Nat
  PROVE  Log(IssueAll(reqs).rows) /\ Certifies(IssueAll(reqs).rows)
<1> DEFINE n == Len(reqs)
           after == CHOOSE f : Issues(f, n, reqs)
<1>1. Issues(after, n, reqs)
  BY IssuesExist
<1>2. IssueAll(reqs) = after[n]
  BY DEF IssueAll, Issues
<1> HIDE DEF after
<1> DEFINE Bad == {k \in 0 .. n : ~ (Log(after[k].rows) /\ Certifies(after[k].rows))}
<1>3. ASSUME NEW b \in Bad PROVE FALSE
  <2>1. PICK m \in Bad : \A i \in Bad : m <= i
    <3>1. Bad \subseteq Nat
      OBVIOUS
    <3> HIDE DEF Bad
    <3> QED BY <1>3, <3>1, Smallest
  <2>2. CASE m = 0
    <3>1. after[0] = [ok |-> TRUE, rows |-> receipts]
      BY <1>1 DEF Issues
    <3>2. after[0].rows = receipts
      BY <3>1
    <3> QED BY <2>1, <2>2, <3>2
  <2>3. CASE m # 0
    <3>1. m \in 0 .. n /\ m - 1 \in 0 .. n /\ m - 1 \notin Bad
      BY <2>1, <2>3
    <3>2. Log(after[m - 1].rows) /\ Certifies(after[m - 1].rows)
      BY <3>1
    <3>3. after[m] = Issued(after[m - 1], reqs[m])
      BY <1>1, <2>3, <3>1 DEF Issues
    <3>4. Log(after[m].rows) /\ Certifies(after[m].rows)
      BY <3>2, <3>3, IssuedKeeps
    <3> QED BY <2>1, <3>4
  <2> QED BY <2>2, <2>3
<1>4. n \in 0 .. n
  OBVIOUS
<1> QED BY <1>2, <1>3, <1>4

(* Voiding an original voids its duplicates.                               *)
LEMMA VoidKeeps ==
  ASSUME Log(receipts), Certifies(receipts), NEW v \in DOMAIN receipts, VoidReceipt(v)
  PROVE  Log(receipts)' /\ Certifies(receipts')
<1> DEFINE R == receipts
           Q == receipts'
<1>1. Q = [j \in DOMAIN R |-> [R[j] EXCEPT !.voided = @ \/ v \in {j, R[j].original}]]
  BY DEF VoidReceipt
<1>2. Table(R, ReceiptColumns) /\ DOMAIN R = 1 .. Len(R) /\ Len(R) \in Nat
  BY RowIds DEF Log, Table
<1>3. Rows(Q) /\ DOMAIN Q = DOMAIN R
  BY <1>1, <1>2, RowsChanged DEF Table
<1>4. ASSUME NEW j \in DOMAIN R
      PROVE  /\ Row(Q[j], ReceiptColumns)
             /\ Q[j].year = R[j].year /\ Q[j].seq = R[j].seq /\ Q[j].to = R[j].to
             /\ Q[j].items = R[j].items /\ Q[j].original = R[j].original
             /\ Q[j].voided = (R[j].voided \/ v \in {j, R[j].original})
  <2>1. Row(R[j], ReceiptColumns)
    BY <1>2 DEF Table
  <2>2. Q[j] = [R[j] EXCEPT !.voided = R[j].voided \/ v \in {j, R[j].original}]
    BY <1>1
  <2> HIDE DEF Q, R
  <2> QED BY <2>1, <2>2 DEF Row, ReceiptColumns
<1> HIDE DEF Q, R
<1>5. ASSUME NEW year, NEW i \in DOMAIN R
      PROVE  Counted(Q, year, i) = Counted(R, year, i)
  <2>1. \A j \in 1 .. i : j \in DOMAIN R
    BY <1>2
  <2> QED BY <1>4, <2>1 DEF Counted
<1>6. ASSUME NEW i \in DOMAIN Q, Q[i].original = 0
      PROVE  Q[i].seq = Cardinality(Counted(Q, Q[i].year, i))
  <2>1. R[i].seq = Cardinality(Counted(R, R[i].year, i))
    BY <1>3, <1>4, <1>6 DEF Log, R
  <2>2. Counted(Q, Q[i].year, i) = Counted(R, R[i].year, i)
    BY <1>3, <1>4, <1>5
  <2> QED BY <1>3, <1>4, <2>1, <2>2
<1>7. ASSUME NEW i \in DOMAIN Q, Q[i].original # 0
      PROVE  Q[i].seq = 0 /\ Q[i].original \in DOMAIN Q /\ Copies(Q[i], Q[Q[i].original])
  <2>1. R[i].seq = 0 /\ R[i].original \in DOMAIN R /\ Copies(R[i], R[R[i].original])
    BY <1>3, <1>4, <1>7 DEF Log, R
  <2> DEFINE o == R[i].original
  <2>2. /\ Q[o].original = R[o].original /\ Q[o].to = R[o].to /\ Q[o].items = R[o].items
        /\ Q[o].voided = (R[o].voided \/ v \in {o, R[o].original})
    BY <1>4, <2>1
  <2>3. /\ Q[i].original = o /\ Q[i].to = R[i].to /\ Q[i].items = R[i].items /\ Q[i].seq = R[i].seq
        /\ Q[i].voided = (R[i].voided \/ v \in {i, o})
    BY <1>3, <1>4
  <2>4. R[o].original = 0 /\ R[i].to = R[o].to /\ R[i].items = R[o].items /\ (R[o].voided => R[i].voided)
    BY <2>1 DEF Copies
  <2>5. o \in DOMAIN R /\ v # 0 /\ R[i].seq = 0
    BY <1>2, <2>1 DEF R
  <2> HIDE DEF o
  <2> QED BY <1>3, <2>2, <2>3, <2>4, <2>5 DEF Copies
<1>8. Log(Q)
  BY <1>3, <1>4, <1>6, <1>7 DEF Log, Table
<1>9. LiveOriginals(Q) \subseteq LiveOriginals(R)
      /\ \A i \in LiveOriginals(Q) : Q[i].items = R[i].items /\ Q[i].to = R[i].to
  BY <1>3, <1>4 DEF LiveOriginals
<1>10. Certifies(Q)
  BY <1>9 DEF Certifies, R
<1> QED BY <1>8, <1>10 DEF Q

(* A step that keeps the log and what it certifies, and every gift's      *)
(* donor, keeps the whole invariant of the receipts.                       *)
LEMMA ReceiptsWritten ==
  ASSUME ReceiptsInv, UNCHANGED donation, Len(annual') \in Nat, Log(receipts'), Certifies(receipts')
  PROVE  ReceiptsInv'
<1>1. Certifies(receipts)'
  BY DEF Certifies, Given, LiveOriginals
<1>2. Log(receipts)'
  OBVIOUS
<1>3. FunctionOn(donation, DOMAIN Entries)'
  BY DEF ReceiptsInv, FunctionOn
<1> QED BY <1>1, <1>2, <1>3 DEF ReceiptsInv

(* So does one that touches neither the receipts nor the donors.           *)
LEMMA ReceiptsSame ==
  ASSUME ReceiptsInv, UNCHANGED <<donation, receipts>>, Len(annual') \in Nat
  PROVE  ReceiptsInv'
<1>1. Log(receipts) /\ Certifies(receipts) /\ receipts' = receipts /\ donation' = donation
  BY DEF ReceiptsInv
<1> QED BY <1>1, ReceiptsWritten

(* Who gave can only change as long as nothing certifies it.               *)
LEMMA DonationWritten ==
  ASSUME ReceiptsInv, NEW t, ~ CertifiedReceipt(t), NEW to, donation' = [donation EXCEPT ![t] = to],
         UNCHANGED <<receipts, annual>>
  PROVE  ReceiptsInv'
<1>1. FunctionOn(donation', DOMAIN Entries) /\ \A u \in DOMAIN Entries \ {t} : donation'[u] = donation[u]
  BY DEF ReceiptsInv, FunctionOn
<1>2. ASSUME NEW i \in LiveOriginals(receipts), NEW ref \in receipts[i].items
      PROVE  /\ ref = <<ref[1], ref[2]>>
             /\ ref[1] = "tx" => ref[2] \in DOMAIN Entries /\ donation'[ref[2]] = receipts[i].to
  <2>1. Given(ref, receipts[i].to)
    BY <1>2 DEF ReceiptsInv, Certifies
  <2>2. ref # <<"tx", t>>
    BY <1>2 DEF CertifiedReceipt, CertifiedBy
  <2> QED BY <1>1, <2>1, <2>2 DEF Given
<1>3. Certifies(receipts)'
  <2>1. LiveOriginals(receipts)' = LiveOriginals(receipts)
    BY DEF LiveOriginals
  <2>2. \A i \in LiveOriginals(receipts) : \A j \in LiveOriginals(receipts) \ {i} :
          receipts[i].items \cap receipts[j].items = {}
    BY DEF ReceiptsInv, Certifies
  <2> QED BY <1>2, <2>1, <2>2 DEF Certifies, Given
<1>4. Log(receipts)' /\ Len(annual)' \in Nat
  <2>1. Log(receipts) /\ Len(annual) \in Nat
    BY DEF ReceiptsInv
  <2> QED BY <2>1
<1> QED BY <1>1, <1>3, <1>4 DEF ReceiptsInv

(* The requests read for a year are as many as there are to issue.         *)
LEMMA AnnualRead ==
  ASSUME NEW year, ReadAnnual(year)
  PROVE  Len(annual') \in Nat
<1> DEFINE S == ToIssue(year)
<1>1. IsFiniteSet(S)
  <2>1. IsFiniteSet(1 .. Len(ByName)) /\ DOMAIN ByName = 1 .. Len(ByName)
    BY ReceiptsAssumption, FS_Interval DEF ReceiptsAssumption
  <2>2. S \in SUBSET (1 .. Len(ByName))
    BY <2>1 DEF ToIssue
  <2> HIDE DEF S
  <2> QED BY <2>1, <2>2, FS_Subset
<1> DEFINE n == Cardinality(S)
           read(k) == LET to == ByName[Nth(S, k)] IN [to |-> to, items |-> OpenItems(to, year)]
<1>2. annual' = [k \in 1 .. n |-> read(k)]
  BY DEF ReadAnnual
<1>3. n \in Nat
  BY <1>1, FS_CardinalityType
<1> HIDE DEF n, read
<1>4. annual' \in Seq({read(k) : k \in 1 .. n})
  BY <1>2, <1>3
<1> QED BY <1>4

LEMMA ReceiptsStep ==
  ASSUME ReceiptsInv, LinksInv, [Next]_vars
  PROVE  ReceiptsInv'
<1>0. Log(receipts) /\ Certifies(receipts) /\ Len(annual) \in Nat
  BY DEF ReceiptsInv
<1>1. CASE UNCHANGED receiptVars
  BY <1>0, <1>1, ReceiptsSame DEF receiptVars
<1>2. CASE SettingsRequest \/ DonorRequest
  BY <1>0, <1>2, ReceiptsSame DEF SettingsRequest, SetDonationSettings, DonorRequest, CreateDonor, UpdateDonor,
                                  DeleteDonor, WriteDonor
<1>3. CASE DonationRequest
  <2>1. PICK t \in DOMAIN Entries : RemoveDonation(t) \/ \E to \in Recipients : SetDonation(t, to)
    BY <1>3 DEF DonationRequest
  <2>2. /\ ~ CertifiedReceipt(t) /\ UNCHANGED <<receipts, annual>>
        /\ \E to : donation' = [donation EXCEPT ![t] = to]
    BY <2>1 DEF RemoveDonation, SetDonation
  <2> QED BY <2>2, DonationWritten
<1>4. ASSUME NEW reqs, Len(reqs) \in Nat, CreateReceipts(reqs), UNCHANGED donation, Len(annual') \in Nat
      PROVE  ReceiptsInv'
  <2>1. receipts' = IssueAll(reqs).rows
    BY <1>4 DEF CreateReceipts
  <2>2. Log(IssueAll(reqs).rows) /\ Certifies(IssueAll(reqs).rows)
    BY <1>0, <1>4, IssueAllKeeps
  <2> QED BY <1>4, <2>1, <2>2, ReceiptsWritten
<1>5. CASE ReceiptRequest
  <2>1. ASSUME NEW to, NEW given, CreateDonationReceipt(to, given)
        PROVE  ReceiptsInv'
    <3>1. CreateReceipts(<<[to |-> to, items |-> given]>>) /\ UNCHANGED <<donation, annual>>
      BY <2>1 DEF CreateDonationReceipt
    <3>2. Len(<<[to |-> to, items |-> given]>>) \in Nat
      OBVIOUS
    <3> QED BY <1>0, <1>4, <3>1, <3>2
  <2>2. ASSUME NEW year, ReadAnnual(year)
        PROVE  ReceiptsInv'
    <3>1. UNCHANGED <<donation, receipts>>
      BY <2>2 DEF ReadAnnual
    <3> QED BY <2>2, <3>1, AnnualRead, ReceiptsSame
  <2>3. ASSUME NEW i \in DOMAIN receipts, DuplicateReceipt(i)
        PROVE  ReceiptsInv'
    <3> DEFINE o == IF receipts[i].original = 0 THEN i ELSE receipts[i].original
    <3>1. /\ ~ receipts[o].voided /\ Added(receipts', receipts, Duplicate(receipts, o))
          /\ UNCHANGED <<donation, annual>>
      BY <2>3 DEF DuplicateReceipt, Added
    <3>2. o \in LiveOriginals(receipts)
      <4>1. o \in DOMAIN receipts /\ receipts[o].original = 0
        BY <1>0 DEF Log, Copies
      <4> QED BY <3>1, <4>1 DEF LiveOriginals
    <3> HIDE DEF o
    <3>3. Log(receipts') /\ Certifies(receipts')
      BY <1>0, <3>1, <3>2, DuplicateLogged
    <3> QED BY <1>0, <3>1, <3>3, ReceiptsWritten
  <2>4. ASSUME NEW i \in DOMAIN receipts, VoidReceipt(i)
        PROVE  ReceiptsInv'
    <3>1. Log(receipts') /\ Certifies(receipts')
      BY <1>0, <2>4, VoidKeeps
    <3>2. UNCHANGED <<donation, annual>>
      BY <2>4 DEF VoidReceipt
    <3> QED BY <1>0, <3>1, <3>2, ReceiptsWritten
  <2>5. \/ \E to, given : CreateDonationReceipt(to, given)
        \/ \E year : ReadAnnual(year)
        \/ \E i \in DOMAIN receipts : DuplicateReceipt(i) \/ VoidReceipt(i)
    BY <1>5 DEF ReceiptRequest
  <2> QED BY <2>1, <2>2, <2>3, <2>4, <2>5
<1>6. CASE IssueAnnual
  <2>1. Len(annual') \in Nat /\ UNCHANGED donation
    BY <1>6, EmptyRows DEF IssueAnnual
  <2>2. CASE UNCHANGED receipts
    BY <2>1, <2>2, ReceiptsSame
  <2>3. CASE CreateReceipts(annual)
    BY <1>0, <1>4, <2>1, <2>3
  <2> QED BY <1>6, <2>2, <2>3 DEF IssueAnnual
<1>7. ASSUME NEW m \in Member, DeleteMember(m) PROVE UNCHANGED receiptVars
  BY <1>7 DEF DeleteMember
<1>8. ASSUME NEW g \in Group, DeleteNamed(g) PROVE UNCHANGED receiptVars
  BY <1>8 DEF DeleteNamed
<1>9. ReceiptsNext => ReceiptsInv'
  BY <1>2, <1>3, <1>5, <1>6 DEF ReceiptsNext
<1>10. UNCHANGED vars => UNCHANGED receiptVars
  BY DEF vars
<1> QED BY <1>1, <1>7, <1>8, <1>9, <1>10 DEF Next

LEMMA ReceiptsAtFirst ==
  ASSUME Init
  PROVE  ReceiptsInv
<1>1. receipts = << >> /\ annual = << >> /\ donation = [t \in DOMAIN Entries |-> NoRecipient]
  BY DEF Init, ReceiptsInit
<1>2. Log(receipts) /\ Certifies(receipts)
  BY <1>1, EmptyRows DEF Log, Certifies, Table, LiveOriginals
<1> QED BY <1>1, <1>2, EmptyRows DEF ReceiptsInv, FunctionOn

LEMMA ReceiptsKept ==
  ASSUME MoneyInv, LinksInv, ReceiptsInv, [Next]_vars
  PROVE  MoneyInv' /\ LinksInv' /\ ReceiptsInv'
BY MoneyStep, LinksStep, ReceiptsStep DEF MoneyInv

(* However receipts are issued, repeated and voided, single, collective or *)
(* annual with the candidates read before others are issued, nothing is    *)
(* certified by two of them, and nobody else becomes its giver             *)
(* (createReceipt, SetDonation, RemoveDonation).                           *)
THEOREM NothingCertifiedTwice == Spec => []CertifiedOnce
<1>1. Init => MoneyInv /\ LinksInv /\ ReceiptsInv
  BY MoneyAtFirst, LinksAtFirst, ReceiptsAtFirst
<1>2. MoneyInv /\ LinksInv /\ ReceiptsInv /\ [Next]_vars => (MoneyInv /\ LinksInv /\ ReceiptsInv)'
  BY ReceiptsKept
<1>3. ReceiptsInv => CertifiedOnce
  BY ReceiptsHold
<1>4. QED
  BY <1>1, <1>2, <1>3, PTL DEF Spec

(* The receipts of every year are numbered without a gap in the order they *)
(* were issued, though the next number is taken from the highest one, and  *)
(* a duplicate repeats its original and is voided with it (createReceipt,  *)
(* DuplicateReceipt, VoidReceipt).                                         *)
THEOREM NumbersWithoutGap == Spec => []ReceiptLog
<1>1. Init => MoneyInv /\ LinksInv /\ ReceiptsInv
  BY MoneyAtFirst, LinksAtFirst, ReceiptsAtFirst
<1>2. MoneyInv /\ LinksInv /\ ReceiptsInv /\ [Next]_vars => (MoneyInv /\ LinksInv /\ ReceiptsInv)'
  BY ReceiptsKept
<1>3. ReceiptsInv => ReceiptLog
  BY ReceiptsHold
<1>4. QED
  BY <1>1, <1>2, <1>3, PTL DEF Spec
-----------------------------------------------------------------------------
(* Dates: the months follow each other without a gap, so that a day is in  *)
(* one month, and counting months on lands in the month counted to.        *)
LEMMA MonthLengths ==
  ASSUME NEW k \in Nat \ {0}
  PROVE  MonthLength(k) \in 28 .. 31
<1>1. Len(MonthDays) \in Nat \ {0} /\ \A i \in 1 .. Len(MonthDays) : MonthDays[i] \in 28 .. 31
  BY CalendarAssumption DEF CalendarAssumption
<1> DEFINE n == Len(MonthDays)
           r == (k - 1) % n
<1>2. r \in 0 .. n - 1
  <2> HIDE DEF n
  <2> QED BY <1>1 DEF n
<1> HIDE DEF r
<1>3. r + 1 \in 1 .. Len(MonthDays)
  BY <1>1, <1>2
<1> QED BY <1>1, <1>3 DEF MonthLength, r

(* The first days of the months up to the n-th, and that FirstDay is what  *)
(* it is defined to be.                                                    *)
DayAt(f, k) == IF k = 1 THEN 1 ELSE f[k - 1] + MonthLength(k - 1)
DaysUpTo(f, n) == f = [k \in 1 .. n |-> DayAt(f, k)]

LEMMA DaysExist ==
  ASSUME NEW n \in Nat
  PROVE  \E f : DaysUpTo(f, n)
<1> DEFINE Bad == {m \in Nat : ~ \E f : DaysUpTo(f, m)}
<1>1. ASSUME NEW b \in Bad PROVE FALSE
  <2>1. PICK m \in Bad : \A i \in Bad : m <= i
    <3>1. Bad \subseteq Nat
      OBVIOUS
    <3> HIDE DEF Bad
    <3> QED BY <1>1, <3>1, Smallest
  <2>2. m \in Nat /\ ~ \E f : DaysUpTo(f, m)
    BY <2>1
  <2>3. CASE m = 0
    <3>1. DaysUpTo([k \in 1 .. 0 |-> 1], 0)
      BY DEF DaysUpTo
    <3> QED BY <2>2, <2>3, <3>1
  <2>4. CASE m # 0
    <3>1. m - 1 \in Nat /\ m - 1 \notin Bad
      BY <2>1, <2>2, <2>4
    <3>2. PICK g : DaysUpTo(g, m - 1)
      BY <3>1
    <3> DEFINE f == [k \in 1 .. m |-> IF k < m THEN g[k] ELSE DayAt(g, m)]
    <3>3. ASSUME NEW k \in 1 .. m PROVE f[k] = DayAt(f, k)
      <4>1. k < m => g[k] = DayAt(g, k)
        <5>1. k < m => k \in 1 .. m - 1
          BY <2>2
        <5> QED BY <3>2, <5>1 DEF DaysUpTo
      <4>2. k = 1 \/ f[k - 1] = g[k - 1]
        <5>1. k # 1 => k - 1 \in 1 .. m /\ k - 1 < m
          BY <2>2
        <5> QED BY <5>1
      <4>3. f[k] = IF k < m THEN g[k] ELSE DayAt(g, m)
        OBVIOUS
      <4>4. k < m \/ k = m
        BY <2>2
      <4> HIDE DEF f
      <4> QED BY <4>1, <4>2, <4>3, <4>4 DEF DayAt
    <3>4. DaysUpTo(f, m)
      BY <3>3 DEF DaysUpTo
    <3> HIDE DEF f
    <3> QED BY <2>2, <3>4
  <2> QED BY <2>3, <2>4
<1> QED BY <1>1

LEMMA DaysAgree ==
  ASSUME NEW n \in Nat, NEW m \in Nat, NEW f, NEW g, DaysUpTo(f, n), DaysUpTo(g, m),
         NEW i \in Nat \ {0}, i <= n, i <= m
  PROVE  f[i] = g[i]
<1> DEFINE Bad == {j \in Nat \ {0} : j <= n /\ j <= m /\ f[j] # g[j]}
<1> SUFFICES ASSUME i \in Bad PROVE FALSE
  OBVIOUS
<1>1. PICK j \in Bad : \A l \in Bad : j <= l
  <2>1. Bad \subseteq Nat
    OBVIOUS
  <2> HIDE DEF Bad
  <2> QED BY <2>1, Smallest
<1>2. j \in 1 .. n /\ j \in 1 .. m /\ f[j] # g[j]
  BY <1>1
<1>3. f[j] = DayAt(f, j) /\ g[j] = DayAt(g, j)
  BY <1>2 DEF DaysUpTo
<1>4. j # 1
  BY <1>2, <1>3 DEF DayAt
<1>5. f[j - 1] = g[j - 1]
  <2>1. j - 1 \in Nat \ {0} /\ j - 1 < j /\ j - 1 <= n /\ j - 1 <= m
    BY <1>2, <1>4
  <2> QED BY <1>1, <2>1
<1> QED BY <1>2, <1>3, <1>4, <1>5 DEF DayAt

LEMMA FirstDayIs ==
  ASSUME NEW k \in Nat \ {0}
  PROVE  FirstDay[k] = DayAt(FirstDay, k)
<1> DEFINE upTo(m) == CHOOSE f : DaysUpTo(f, m)
           all == [m \in Nat \ {0} |-> upTo(m)[m]]
<1>1. FirstDay = CHOOSE f : f = [m \in Nat \ {0} |-> DayAt(f, m)]
  BY DEF FirstDay, DayAt
<1>2. ASSUME NEW m \in Nat \ {0} PROVE DaysUpTo(upTo(m), m)
  BY DaysExist
<1> HIDE DEF upTo
<1>3. ASSUME NEW m \in Nat \ {0} PROVE all[m] = DayAt(all, m)
  <2>1. upTo(m)[m] = DayAt(upTo(m), m)
    BY <1>2 DEF DaysUpTo
  <2>2. all[m] = upTo(m)[m]
    OBVIOUS
  <2>3. m = 1 \/ all[m - 1] = upTo(m)[m - 1]
    <3> SUFFICES ASSUME m # 1 PROVE all[m - 1] = upTo(m)[m - 1]
      OBVIOUS
    <3>1. m - 1 \in Nat \ {0} /\ m - 1 <= m /\ m \in Nat /\ m - 1 \in Nat /\ m - 1 <= m - 1
      OBVIOUS
    <3>2. upTo(m)[m - 1] = upTo(m - 1)[m - 1]
      BY <1>2, <3>1, DaysAgree
    <3> QED BY <3>1, <3>2
  <2> HIDE DEF all
  <2> QED BY <2>1, <2>2, <2>3 DEF DayAt
<1>4. all = [m \in Nat \ {0} |-> DayAt(all, m)]
  BY <1>3
<1> HIDE DEF all
<1>5. FirstDay = [m \in Nat \ {0} |-> DayAt(FirstDay, m)]
  BY <1>1, <1>4
<1> QED BY <1>5

LEMMA FirstDayNext ==
  ASSUME NEW k \in Nat \ {0}
  PROVE  FirstDay[1] = 1 /\ FirstDay[k + 1] = FirstDay[k] + MonthLength(k)
<1>1. 1 \in Nat \ {0} /\ k + 1 \in Nat \ {0} /\ k + 1 # 1 /\ (k + 1) - 1 = k
  OBVIOUS
<1>2. FirstDay[1] = DayAt(FirstDay, 1) /\ FirstDay[k + 1] = DayAt(FirstDay, k + 1)
  BY <1>1, FirstDayIs
<1> QED BY <1>1, <1>2 DEF DayAt

(* Months begin one after the other. *)
LEMMA FirstDayGrows ==
  /\ \A k \in Nat \ {0} : FirstDay[k] \in Nat /\ k <= FirstDay[k]
  /\ \A k, l \in Nat \ {0} : k < l => FirstDay[k + 1] <= FirstDay[l]
<1>1. ASSUME NEW k0 \in Nat \ {0} PROVE FirstDay[k0] \in Nat /\ k0 <= FirstDay[k0]
  <2> DEFINE Bad == {k \in Nat \ {0} : ~ (FirstDay[k] \in Nat /\ k <= FirstDay[k])}
  <2> SUFFICES ASSUME k0 \in Bad PROVE FALSE
    OBVIOUS
  <2>1. PICK k \in Bad : \A l \in Bad : k <= l
    <3>1. Bad \subseteq Nat
      OBVIOUS
    <3> HIDE DEF Bad
    <3> QED BY <3>1, Smallest
  <2>2. k # 1
    BY <2>1, FirstDayNext
  <2>3. k - 1 \in Nat \ {0} /\ k - 1 < k /\ (k - 1) + 1 = k
    BY <2>1, <2>2
  <2>4. FirstDay[k - 1] \in Nat /\ k - 1 <= FirstDay[k - 1]
    BY <2>1, <2>3
  <2>5. FirstDay[k] = FirstDay[k - 1] + MonthLength(k - 1) /\ MonthLength(k - 1) \in 28 .. 31
    BY <2>3, FirstDayNext, MonthLengths
  <2> QED BY <2>1, <2>3, <2>4, <2>5
<1>2. ASSUME NEW k \in Nat \ {0}, NEW l0 \in Nat \ {0}, k < l0 PROVE FirstDay[k + 1] <= FirstDay[l0]
  <2> DEFINE Bad == {l \in Nat \ {0} : k < l /\ ~ (FirstDay[k + 1] <= FirstDay[l])}
  <2> SUFFICES ASSUME l0 \in Bad PROVE FALSE
    BY <1>2
  <2>1. PICK l \in Bad : \A i \in Bad : l <= i
    <3>1. Bad \subseteq Nat
      OBVIOUS
    <3> HIDE DEF Bad
    <3> QED BY <3>1, Smallest
  <2>2. l # k + 1
    <3>1. k + 1 \in Nat \ {0}
      OBVIOUS
    <3>2. FirstDay[k + 1] \in Nat
      BY <1>1, <3>1
    <3> QED BY <2>1, <3>2
  <2>3. l - 1 \in Nat \ {0} /\ l - 1 < l /\ (l - 1) + 1 = l /\ k < l - 1 /\ k + 1 \in Nat \ {0}
    BY <2>1, <2>2
  <2>4. FirstDay[k + 1] <= FirstDay[l - 1]
    BY <2>1, <2>3
  <2>5. FirstDay[l] = FirstDay[l - 1] + MonthLength(l - 1) /\ MonthLength(l - 1) \in 28 .. 31
    BY <2>3, FirstDayNext, MonthLengths
  <2>6. FirstDay[l - 1] \in Nat /\ FirstDay[k + 1] \in Nat
    BY <1>1, <2>3
  <2> QED BY <2>1, <2>4, <2>5, <2>6
<1> QED BY <1>1, <1>2

(* A day between the first of a month and the first of the next one is in  *)
(* that month; every day is in one.                                        *)
LEMMA DayOfMonth ==
  ASSUME NEW m \in Nat \ {0}, NEW day \in Nat, FirstDay[m] <= day, day < FirstDay[m + 1]
  PROVE  MonthOf(day) = m
<1>1. m \in 1 .. day
  BY FirstDayGrows
<1>2. ASSUME NEW k \in 1 .. day, FirstDay[k] <= day, day < FirstDay[k + 1] PROVE k = m
  <2>1. k \in Nat \ {0} /\ k + 1 \in Nat \ {0} /\ m + 1 \in Nat \ {0}
    OBVIOUS
  <2>2. FirstDay[k] \in Nat /\ FirstDay[m] \in Nat /\ FirstDay[k + 1] \in Nat /\ FirstDay[m + 1] \in Nat
    BY <2>1, FirstDayGrows
  <2>3. ~ (k < m)
    BY <1>2, <2>1, <2>2, FirstDayGrows
  <2>4. ~ (m < k)
    BY <1>2, <2>1, <2>2, FirstDayGrows
  <2> QED BY <2>1, <2>3, <2>4
<1> QED BY <1>1, <1>2 DEF MonthOf

LEMMA MonthExists ==
  ASSUME NEW day \in Nat \ {0}
  PROVE  /\ MonthOf(day) \in Nat \ {0} /\ FirstDay[MonthOf(day)] <= day /\ day < FirstDay[MonthOf(day) + 1]
         /\ DayInMonth(day) \in 0 .. MonthLength(MonthOf(day)) - 1
<1> DEFINE Later == {k \in Nat \ {0} : day < FirstDay[k + 1]}
<1>1. day \in Later
  <2>1. day + 1 \in Nat \ {0}
    OBVIOUS
  <2>2. FirstDay[day + 1] \in Nat /\ day + 1 <= FirstDay[day + 1]
    BY <2>1, FirstDayGrows
  <2> QED BY <2>2
<1>2. PICK k \in Later : \A l \in Later : k <= l
  <2>1. Later \subseteq Nat
    OBVIOUS
  <2> HIDE DEF Later
  <2> QED BY <1>1, <2>1, Smallest
<1>3. k \in Nat \ {0} /\ day < FirstDay[k + 1] /\ FirstDay[k] \in Nat
  BY <1>2, FirstDayGrows
<1>4. FirstDay[k] <= day
  <2>1. CASE k = 1
    BY <2>1, FirstDayNext
  <2>2. CASE k # 1
    <3>1. k - 1 \in Nat \ {0} /\ (k - 1) + 1 = k /\ k - 1 < k
      BY <1>3, <2>2
    <3>2. k - 1 \notin Later
      BY <1>2, <1>3, <3>1
    <3>3. ~ (day < FirstDay[k])
      BY <3>1, <3>2
    <3> QED BY <1>3, <3>3
  <2> QED BY <2>1, <2>2
<1>5. MonthOf(day) = k
  BY <1>3, <1>4, DayOfMonth
<1>6. FirstDay[k + 1] = FirstDay[k] + MonthLength(k) /\ MonthLength(k) \in 28 .. 31
  BY <1>3, FirstDayNext, MonthLengths
<1>7. DayInMonth(day) = day - FirstDay[k]
  BY <1>5 DEF DayInMonth
<1>8. DayInMonth(day) \in 0 .. MonthLength(k) - 1
  BY <1>3, <1>4, <1>6, <1>7
<1> QED BY <1>3, <1>4, <1>5, <1>8

(* addMonthClamped lands in the month counted to.                          *)
LEMMA AddMonthsLands ==
  ASSUME NEW day \in Nat \ {0}, NEW n \in Nat \ {0}
  PROVE  AddMonths(day, n) \in Nat /\ day < AddMonths(day, n) /\ MonthOf(AddMonths(day, n)) = MonthOf(day) + n
<1> DEFINE m == MonthOf(day) + n
           d == DayInMonth(day)
           last == MonthLength(m) - 1
           least == Min({d, last})
           to == FirstDay[m] + least
<1>1. MonthOf(day) \in Nat \ {0} /\ day < FirstDay[MonthOf(day) + 1] /\ d \in Nat
  <2>1. MonthLength(MonthOf(day)) \in 28 .. 31
    BY MonthExists, MonthLengths
  <2> QED BY <2>1, MonthExists
<1>2. m \in Nat \ {0} /\ MonthOf(day) < m /\ m + 1 \in Nat \ {0}
  BY <1>1
<1>3. FirstDay[m + 1] = FirstDay[m] + MonthLength(m) /\ MonthLength(m) \in 28 .. 31 /\ FirstDay[m] \in Nat
  BY <1>2, FirstDayNext, MonthLengths, FirstDayGrows
<1>4. FirstDay[MonthOf(day) + 1] <= FirstDay[m]
  BY <1>1, <1>2, FirstDayGrows
<1>5. last \in Nat /\ d \in Nat
  BY <1>1, <1>3
<1>6. least \in Nat /\ least <= last
  <2> HIDE DEF d, last
  <2>1. CASE d <= last
    <3>1. d \in {d, last} /\ \A y \in {d, last} : d <= y
      BY <1>5, <2>1
    <3>2. \A x \in {d, last} : (\A y \in {d, last} : x <= y) => x = d
      BY <1>5, <2>1
    <3>3. least = d
      BY <3>1, <3>2 DEF Min
    <3> QED BY <1>5, <2>1, <3>3
  <2>2. CASE ~ (d <= last)
    <3>1. last \in {d, last} /\ \A y \in {d, last} : last <= y
      BY <1>5, <2>2
    <3>2. \A x \in {d, last} : (\A y \in {d, last} : x <= y) => x = last
      BY <1>5, <2>2
    <3>3. least = last
      BY <3>1, <3>2 DEF Min
    <3> QED BY <1>5, <2>2, <3>3
  <2> QED BY <2>1, <2>2
<1>7. AddMonths(day, n) = to
  BY DEF AddMonths
<1> HIDE DEF least, m, d
<1>8. FirstDay[MonthOf(day) + 1] \in Nat
  BY <1>1, FirstDayGrows
<1>9. to \in Nat /\ FirstDay[m] <= to /\ to < FirstDay[m + 1] /\ day < to
  BY <1>1, <1>3, <1>4, <1>6, <1>8
<1> HIDE DEF to
<1>10. MonthOf(to) = m
  BY <1>2, <1>9, DayOfMonth
<1> QED BY <1>7, <1>9, <1>10 DEF m

(* The task board: rows keep their columns, and a finished task of a       *)
(* series has its follow-up after it.                                      *)
TaskFields == {"assignee", "role", "linked", "due", "recurrence"}
TaskColumns == {"live", "status"} \cup TaskFields
TasksInv == Table(tasks, TaskColumns)

LEMMA TaskRowIs ==
  ASSUME NEW t, DOMAIN t = TaskFields, NEW status
  PROVE  /\ Row(TaskRow(t, status), TaskColumns)
         /\ TaskRow(t, status).status = status /\ TaskRow(t, status).live = TRUE
         /\ TaskRow(t, status).due = t.due /\ TaskRow(t, status).recurrence = t.recurrence
<1> DEFINE row == TaskRow(t, status)
<1>1. DOMAIN row = TaskColumns /\ row = [x \in DOMAIN row |-> row[x]]
  BY DEF TaskRow, TaskColumns, TaskFields
<1>2. row.status = status /\ row.live = TRUE /\ row.due = t.due /\ row.recurrence = t.recurrence
  BY DEF TaskRow
<1> HIDE DEF row
<1>3. Row(row, TaskColumns)
  BY <1>1 DEF Row
<1> QED BY <1>2, <1>3 DEF row

(* The date that follows a date of a series.                               *)
NextDate(due, recurrence, next) ==
  /\ next > due
  /\ recurrence = "weekly" => next = due + 7
  /\ recurrence # "weekly" => MonthOf(next) = MonthOf(due) + (IF recurrence = "monthly" THEN 1 ELSE Len(MonthDays))

LEMMA NextDueFollows ==
  ASSUME NEW t \in TaskForms, t.recurrence # "none", t.due # 0
  PROVE  NextDate(t.due, t.recurrence, NextDue(t))
<1>1. t.due \in Nat \ {0} /\ t.recurrence \in {"weekly", "monthly", "yearly"}
  BY CalendarAssumption DEF CalendarAssumption
<1>2. Len(MonthDays) \in Nat \ {0} /\ 1 \in Nat \ {0}
  BY CalendarAssumption DEF CalendarAssumption
<1>3. CASE t.recurrence = "weekly"
  BY <1>1, <1>3 DEF NextDate, NextDue
<1>4. CASE t.recurrence = "monthly"
  <2>1. NextDue(t) = AddMonths(t.due, 1)
    BY <1>4 DEF NextDue
  <2>2. /\ AddMonths(t.due, 1) \in Nat /\ t.due < AddMonths(t.due, 1)
        /\ MonthOf(AddMonths(t.due, 1)) = MonthOf(t.due) + 1
    BY <1>1, <1>2, AddMonthsLands
  <2> QED BY <1>1, <1>4, <2>1, <2>2 DEF NextDate
<1>5. CASE t.recurrence = "yearly"
  <2>1. NextDue(t) = AddMonths(t.due, Len(MonthDays))
    BY <1>5 DEF NextDue
  <2>2. /\ AddMonths(t.due, Len(MonthDays)) \in Nat /\ t.due < AddMonths(t.due, Len(MonthDays))
        /\ MonthOf(AddMonths(t.due, Len(MonthDays))) = MonthOf(t.due) + Len(MonthDays)
    BY <1>1, <1>2, AddMonthsLands
  <2> QED BY <1>1, <1>5, <2>1, <2>2 DEF NextDate
<1> QED BY <1>1, <1>3, <1>4, <1>5

(* What SeriesContinues says of one task. *)
Finished(i) == tasks'[i].status = "done" /\ tasks[i].status # "done" /\ tasks'[i].recurrence # "none"
Continued(i) ==
  /\ Len(tasks') = Len(tasks) + 1
  /\ tasks'[Len(tasks')].status = "open" /\ NextDate(tasks'[i].due, tasks'[i].recurrence, tasks'[Len(tasks')].due)

LEMMA TaskUpdated ==
  ASSUME TasksInv, NEW i \in DOMAIN tasks, NEW t \in TaskForms, NEW status, UpdateTask(i, t, status)
  PROVE  TasksInv' /\ \A j \in DOMAIN tasks : Finished(j) => Continued(j)
<1> DEFINE row == TaskRow(t, status)
           kept == [tasks EXCEPT ![i] = row]
<1>1. DOMAIN t = TaskFields
  BY CalendarAssumption DEF CalendarAssumption, TaskFields
<1>2. Row(row, TaskColumns) /\ row.status = status /\ row.due = t.due /\ row.recurrence = t.recurrence
  BY <1>1, TaskRowIs
<1> HIDE DEF row
<1>3. Rows(tasks) /\ \A j \in DOMAIN tasks : Row(tasks[j], TaskColumns)
  BY DEF TasksInv, Table
<1>4. kept = [j \in DOMAIN tasks |-> kept[j]] /\ \A j \in DOMAIN tasks : kept[j] = IF j = i THEN row ELSE tasks[j]
  BY <1>3
<1> HIDE DEF kept
<1>5. Rows(kept) /\ Len(kept) = Len(tasks) /\ DOMAIN kept = DOMAIN tasks
  BY <1>3, <1>4, RowsChanged
<1>6. DOMAIN tasks = 1 .. Len(tasks) /\ Len(tasks) \in Nat
  BY <1>3, RowIds
<1>7. tasks' = kept \o FollowUp(t, status, tasks[i].status)
  BY DEF UpdateTask, kept, row
<1>8. CASE ~ (status = "done" /\ tasks[i].status # "done" /\ t.recurrence # "none")
  <2>1. FollowUp(t, status, tasks[i].status) = << >>
    BY <1>8 DEF FollowUp
  <2>2. tasks' = kept
    <3> DEFINE S == {kept[j] : j \in 1 .. Len(kept)}
    <3>1. \A j \in 1 .. Len(kept) : kept[j] \in S
      OBVIOUS
    <3> HIDE DEF S
    <3>2. kept \in Seq(S)
      BY <1>5, <3>1, RowsAreSeq
    <3> QED BY <1>7, <2>1, <3>2
  <2>3. TasksInv'
    BY <1>2, <1>3, <1>4, <1>5, <2>2 DEF TasksInv, Table
  <2>4. \A j \in DOMAIN tasks : ~ Finished(j)
    BY <1>2, <1>4, <1>8, <2>2 DEF Finished
  <2> QED BY <2>3, <2>4
<1>9. CASE status = "done" /\ tasks[i].status # "done" /\ t.recurrence # "none"
  <2> DEFINE next == TaskRow([t EXCEPT !.due = NextDue(t)], "open")
  <2>1. FollowUp(t, status, tasks[i].status) = <<next>>
    BY <1>9 DEF FollowUp
  <2>2. /\ DOMAIN [t EXCEPT !.due = NextDue(t)] = TaskFields /\ [t EXCEPT !.due = NextDue(t)].due = NextDue(t)
    BY <1>1 DEF TaskFields
  <2>3. Row(next, TaskColumns) /\ next.status = "open" /\ next.due = NextDue(t)
    BY <2>2, TaskRowIs
  <2> HIDE DEF next
  <2>4. Added(tasks', kept, next)
    <3> DEFINE S == {kept[j] : j \in 1 .. Len(kept)} \cup {next}
    <3>1. next \in S /\ \A j \in 1 .. Len(kept) : kept[j] \in S
      OBVIOUS
    <3> HIDE DEF S
    <3>2. kept \in Seq(S)
      BY <1>5, <3>1, RowsAreSeq
    <3> QED BY <1>7, <2>1, <3>1, <3>2 DEF Added
  <2>5. /\ Rows(tasks') /\ DOMAIN kept \subseteq DOMAIN tasks'
        /\ \A j \in DOMAIN kept : tasks'[j] = kept[j]
        /\ \A j \in DOMAIN tasks' \ DOMAIN kept : j = Len(kept) + 1 /\ tasks'[j] = next
    BY <1>5, <2>4, RowAdded
  <2>6. Len(tasks') = Len(tasks) + 1 /\ tasks'[Len(tasks')] = next
    <3> DEFINE S == {kept[j] : j \in 1 .. Len(kept)} \cup {next}
    <3>1. next \in S /\ \A j \in 1 .. Len(kept) : kept[j] \in S
      OBVIOUS
    <3> HIDE DEF S
    <3>2. kept \in Seq(S)
      BY <1>5, <3>1, RowsAreSeq
    <3> QED BY <1>5, <2>4, <3>1, <3>2 DEF Added
  <2>7. TasksInv'
    BY <1>2, <1>3, <1>4, <1>5, <2>3, <2>5 DEF TasksInv, Table
  <2>8. t.due # 0
    BY <1>9 DEF UpdateTask, ValidTask
  <2>9. NextDate(t.due, t.recurrence, NextDue(t))
    BY <1>9, <2>8, NextDueFollows
  <2>10. ASSUME NEW j \in DOMAIN tasks, Finished(j) PROVE Continued(j)
    <3>1. tasks'[j] = kept[j]
      BY <1>5, <2>5
    <3>2. j = i
      BY <1>4, <2>10, <3>1 DEF Finished
    <3>3. tasks'[j].due = t.due /\ tasks'[j].recurrence = t.recurrence
      BY <1>2, <1>4, <3>1, <3>2
    <3> QED BY <2>3, <2>6, <2>9, <3>3 DEF Continued
  <2> QED BY <2>7, <2>10
<1> QED BY <1>8, <1>9

LEMMA TasksStep ==
  ASSUME TasksInv, [Next]_vars
  PROVE  TasksInv' /\ \A j \in DOMAIN tasks : Finished(j) => Continued(j)
<1>1. CASE UNCHANGED tasks
  BY <1>1 DEF TasksInv, Finished
<1>2. CASE TaskRequest
  <2>1. ASSUME NEW t \in TaskForms, NEW status, CreateTask(t, status)
        PROVE  TasksInv' /\ \A j \in DOMAIN tasks : ~ Finished(j)
    <3>1. DOMAIN t = TaskFields
      BY CalendarAssumption DEF CalendarAssumption, TaskFields
    <3>2. Row(TaskRow(t, status), TaskColumns)
      BY <3>1, TaskRowIs
    <3>3. Added(tasks', tasks, TaskRow(t, status)) /\ Rows(tasks)
      BY <2>1 DEF CreateTask, Added, TasksInv, Table
    <3> DEFINE row == TaskRow(t, status)
    <3> HIDE DEF row
    <3>4. /\ Rows(tasks') /\ DOMAIN tasks \subseteq DOMAIN tasks'
          /\ \A j \in DOMAIN tasks : tasks'[j] = tasks[j]
          /\ \A j \in DOMAIN tasks' \ DOMAIN tasks : tasks'[j] = row
      BY <3>3, RowAdded DEF row
    <3>5. TasksInv'
      BY <3>2, <3>4 DEF TasksInv, Table, row
    <3> QED BY <3>4, <3>5 DEF Finished
  <2>2. ASSUME NEW i \in DOMAIN tasks, DeleteTask(i)
        PROVE  TasksInv' /\ \A j \in DOMAIN tasks : ~ Finished(j)
    <3>1. Rows(tasks) /\ \A j \in DOMAIN tasks : Row(tasks[j], TaskColumns)
      BY DEF TasksInv, Table
    <3>2. tasks' = [j \in DOMAIN tasks |-> tasks'[j]]
          /\ \A j \in DOMAIN tasks : tasks'[j] = IF j = i THEN [tasks[i] EXCEPT !.live = FALSE] ELSE tasks[j]
      BY <2>2, <3>1 DEF DeleteTask
    <3>3. Rows(tasks') /\ DOMAIN tasks' = DOMAIN tasks
      BY <3>1, <3>2, RowsChanged
    <3>4. \A j \in DOMAIN tasks : Row(tasks'[j], TaskColumns) /\ tasks'[j].status = tasks[j].status
      BY <3>1, <3>2 DEF Row, TaskColumns
    <3>5. TasksInv'
      BY <3>3, <3>4 DEF TasksInv, Table
    <3> QED BY <3>4, <3>5 DEF Finished
  <2> QED BY <1>2, <2>1, <2>2, TaskUpdated DEF TaskRequest
<1>3. CASE CalendarNext
  BY <1>1, <1>2, <1>3
     DEF CalendarNext, EventRequest, CreateEvent, UpdateEvent, WriteEvent, DeleteEvent, SetEventException,
         AttendanceRequest, FindOccurrence, SetAttendance
<1>4. CASE UNCHANGED calendarVars
  BY <1>1, <1>4 DEF calendarVars
<1>5. ASSUME NEW m \in Member, DeleteMember(m) PROVE UNCHANGED tasks
  BY <1>5 DEF DeleteMember, DeleteAttendanceOf
<1>6. ASSUME NEW g \in Group, DeleteNamed(g) PROVE UNCHANGED tasks
  BY <1>6 DEF DeleteNamed, DeleteAudienceOf
<1> QED BY <1>1, <1>3, <1>4, <1>5, <1>6 DEF Next, vars

(* A recurring task that is finished leaves one open task: a week later, or *)
(* in the next month or year, whatever the months' lengths and the day     *)
(* (nextOccurrence, addMonthClamped).                                      *)
THEOREM TasksContinue == Spec => SeriesContinues
<1>1. Init => TasksInv
  BY EmptyRows DEF Init, CalendarInit, TasksInv, Table
<1>2. TasksInv /\ [Next]_vars => TasksInv'
  BY TasksStep
<1> DEFINE Goes == \A i \in DOMAIN tasks :
       tasks'[i].status = "done" /\ tasks[i].status # "done" /\ tasks'[i].recurrence # "none" =>
         /\ Len(tasks') = Len(tasks) + 1
         /\ LET done == tasks'[i]
                next == tasks'[Len(tasks')]
            IN /\ next.status = "open" /\ next.due > done.due
               /\ done.recurrence = "weekly" => next.due = done.due + 7
               /\ done.recurrence # "weekly" =>
                    MonthOf(next.due) = MonthOf(done.due) + (IF done.recurrence = "monthly" THEN 1 ELSE Len(MonthDays))
<1>3. TasksInv /\ [Next]_vars => [Goes]_calendarVars
  BY TasksStep DEF Finished, Continued, NextDate
<1>4. QED
  BY <1>1, <1>2, <1>3, PTL DEF Spec, SeriesContinues
-----------------------------------------------------------------------------
(* Sums of amounts: a sum over a set is the amount of one element and the  *)
(* sum over the others, whichever element that is.                         *)
Some(s) == CHOOSE x \in s : TRUE
Summed(a, g, s) == IF s = {} THEN 0 ELSE a[Some(s)] + g[s \ {Some(s)}]
Sums(a, U, g) == g = [s \in SUBSET U |-> Summed(a, g, s)]
SumOver(a, U) == (CHOOSE g : Sums(a, U, g))[U]

UpTo(U, n) == {s \in SUBSET U : Cardinality(s) <= n}
SumsUpTo(a, U, n, g) == g = [s \in UpTo(U, n) |-> Summed(a, g, s)]

LEMMA OneLess ==
  ASSUME NEW s, IsFiniteSet(s), NEW x \in s
  PROVE  /\ s \ {x} \in SUBSET s /\ IsFiniteSet(s \ {x})
         /\ Cardinality(s) \in Nat /\ Cardinality(s \ {x}) \in Nat /\ Cardinality(s \ {x}) = Cardinality(s) - 1
<1>1. IsFiniteSet(s \ {x}) /\ Cardinality(s \ {x}) = Cardinality(s) - 1
  BY FS_RemoveElement
<1> QED BY <1>1, FS_CardinalityType

LEMMA SomeIn == \A s : s # {} => Some(s) \in s
BY DEF Some

LEMMA SumsExist ==
  ASSUME NEW U, IsFiniteSet(U), NEW a
  PROVE  \E g : Sums(a, U, g)
<1> DEFINE Bad == {n \in Nat : ~ \E g : SumsUpTo(a, U, n, g)}
<1>1. \A s \in SUBSET U : IsFiniteSet(s) /\ Cardinality(s) \in Nat /\ Cardinality(s) <= Cardinality(U)
  BY FS_Subset, FS_CardinalityType
<1>2. \E g : SumsUpTo(a, U, 0, g)
  <2> DEFINE g == [s \in UpTo(U, 0) |-> 0]
  <2>1. ASSUME NEW s \in UpTo(U, 0) PROVE s = {}
    <3>1. s \in SUBSET U /\ Cardinality(s) <= 0
      BY <2>1 DEF UpTo
    <3>2. IsFiniteSet(s) /\ Cardinality(s) = 0
      BY <1>1, <3>1
    <3> QED BY <3>2, FS_EmptySet
  <2>2. \A s \in UpTo(U, 0) : Summed(a, g, s) = 0
    BY <2>1 DEF Summed
  <2> QED BY <2>2 DEF SumsUpTo
<1>3. ASSUME NEW n \in Nat \ {0}, NEW h, SumsUpTo(a, U, n - 1, h) PROVE \E g : SumsUpTo(a, U, n, g)
  <2> DEFINE g == [s \in UpTo(U, n) |-> Summed(a, h, s)]
  <2>1. ASSUME NEW s \in UpTo(U, n - 1) PROVE s \in UpTo(U, n) /\ g[s] = h[s]
    <3>1. s \in UpTo(U, n)
      BY <1>1, <2>1 DEF UpTo
    <3>2. h[s] = Summed(a, h, s)
      BY <1>3, <2>1 DEF SumsUpTo
    <3> QED BY <3>1, <3>2
  <2>2. ASSUME NEW s \in UpTo(U, n) PROVE Summed(a, h, s) = Summed(a, g, s)
    <3>1. CASE s = {}
      BY <3>1 DEF Summed
    <3>2. CASE s # {}
      <4>1. s \in SUBSET U /\ IsFiniteSet(s) /\ Cardinality(s) <= n /\ Some(s) \in s
        BY <1>1, <2>2, <3>2, SomeIn DEF UpTo
      <4>2. s \ {Some(s)} \in UpTo(U, n - 1)
        BY <4>1, OneLess DEF UpTo
      <4>3. g[s \ {Some(s)}] = h[s \ {Some(s)}]
        BY <2>1, <4>2
      <4> HIDE DEF g
      <4> QED BY <4>3 DEF Summed
    <3> QED BY <3>1, <3>2
  <2>3. SumsUpTo(a, U, n, g)
    <3>1. g = [s \in UpTo(U, n) |-> Summed(a, h, s)]
      OBVIOUS
    <3> HIDE DEF g
    <3>2. [s \in UpTo(U, n) |-> Summed(a, h, s)] = [s \in UpTo(U, n) |-> Summed(a, g, s)]
      BY <2>2
    <3> QED BY <3>1, <3>2 DEF SumsUpTo
  <2> QED BY <2>3
<1>4. \A n \in Nat : n \notin Bad
  <2> SUFFICES ASSUME NEW c \in Bad PROVE FALSE
    OBVIOUS
  <2>1. PICK n \in Bad : \A m \in Bad : n <= m
    BY Smallest
  <2>2. n \in Nat \ {0} /\ n - 1 \in Nat
    BY <1>2, <2>1
  <2>3. n - 1 \notin Bad
    BY <2>1, <2>2
  <2>4. \E h : SumsUpTo(a, U, n - 1, h)
    BY <2>2, <2>3
  <2> QED BY <1>3, <2>1, <2>2, <2>4
<1>5. PICK g : SumsUpTo(a, U, Cardinality(U), g)
  <2>1. Cardinality(U) \in Nat
    BY FS_CardinalityType
  <2> QED BY <1>4, <2>1
<1>6. UpTo(U, Cardinality(U)) = SUBSET U
  BY <1>1 DEF UpTo
<1> QED BY <1>5, <1>6 DEF SumsUpTo, Sums

LEMMA SumsOfNone ==
  ASSUME NEW a, NEW U, NEW g, Sums(a, U, g)
  PROVE  g[{}] = 0
<1>1. {} \in SUBSET U /\ Summed(a, g, {}) = 0
  BY DEF Summed
<1> QED BY <1>1 DEF Sums

LEMMA SumsAre ==
  ASSUME NEW a, NEW U, NEW g, Sums(a, U, g)
  PROVE  \A s \in SUBSET U :
           s # {} => Some(s) \in s /\ s \ {Some(s)} \in SUBSET U /\ g[s] = a[Some(s)] + g[s \ {Some(s)}]
<1>1. ASSUME NEW s \in SUBSET U, s # {}
      PROVE  Some(s) \in s /\ s \ {Some(s)} \in SUBSET U /\ g[s] = a[Some(s)] + g[s \ {Some(s)}]
  <2>1. g[s] = Summed(a, g, s)
    BY DEF Sums
  <2> QED BY <1>1, <2>1, SomeIn DEF Summed
<1> QED BY <1>1

LEMMA SumsAgree ==
  ASSUME NEW a, NEW U, NEW g, Sums(a, U, g), NEW b, NEW V, NEW h, Sums(b, V, h),
         NEW W \in SUBSET U, W \in SUBSET V, IsFiniteSet(W), \A x \in W : a[x] = b[x]
  PROVE  g[W] = h[W]
<1> DEFINE Bad == {n \in Nat : \E s \in SUBSET W : Cardinality(s) = n /\ g[s] # h[s]}
<1>1. \A s \in SUBSET W : IsFiniteSet(s) /\ Cardinality(s) \in Nat
  BY FS_Subset, FS_CardinalityType
<1>2. ASSUME NEW c \in Bad PROVE FALSE
  <2>1. PICK n \in Bad : \A m \in Bad : n <= m
    BY <1>2, Smallest
  <2>2. PICK s \in SUBSET W : Cardinality(s) = n /\ g[s] # h[s]
    BY <2>1
  <2>3. s \in SUBSET U /\ s \in SUBSET V
    BY <2>2
  <2>4. s # {}
    <3>1. g[{}] = 0 /\ h[{}] = 0
      BY SumsOfNone
    <3> QED BY <2>2, <3>1
  <2> DEFINE x == Some(s)
             r == s \ {Some(s)}
  <2>5. x \in s /\ g[s] = a[x] + g[r] /\ h[s] = b[x] + h[r]
    <3>1. x \in s /\ g[s] = a[x] + g[r]
      BY <2>3, <2>4, SumsAre
    <3>2. h[s] = b[x] + h[r]
      <4>1. \A q \in SUBSET V :
              q # {} => Some(q) \in q /\ q \ {Some(q)} \in SUBSET V /\ h[q] = b[Some(q)] + h[q \ {Some(q)}]
        BY SumsAre
      <4> QED BY <2>3, <2>4, <4>1
    <3> QED BY <3>1, <3>2
  <2>6. r \in SUBSET W /\ Cardinality(r) \in Nat /\ Cardinality(r) = n - 1 /\ n \in Nat
    BY <1>1, <2>2, <2>5, OneLess
  <2> HIDE DEF x, r
  <2>7. Cardinality(r) \notin Bad
    <3>1. ~ (n <= n - 1)
      BY <2>6
    <3> QED BY <2>1, <2>6, <3>1
  <2>8. g[r] = h[r]
    BY <2>6, <2>7
  <2> QED BY <2>2, <2>5, <2>8
<1> QED BY <1>1, <1>2

(* The laws of SumOver for amounts that are numbers.                           *)
LEMMA SumIs ==
  ASSUME NEW U, IsFiniteSet(U), NEW a
  PROVE  \E g : Sums(a, U, g) /\ SumOver(a, U) = g[U]
BY SumsExist DEF SumOver

LEMMA SumOfNone ==
  ASSUME NEW a
  PROVE  SumOver(a, {}) = 0
<1>1. IsFiniteSet({})
  BY FS_EmptySet
<1>2. PICK g : Sums(a, {}, g) /\ SumOver(a, {}) = g[{}]
  BY <1>1, SumIs
<1>3. g[{}] = 0
  BY <1>2, SumsOfNone
<1> QED BY <1>2, <1>3

LEMMA SameSum ==
  ASSUME NEW U, IsFiniteSet(U), NEW a, NEW b, \A x \in U : a[x] = b[x]
  PROVE  SumOver(a, U) = SumOver(b, U)
<1>1. PICK g : Sums(a, U, g) /\ SumOver(a, U) = g[U]
  BY SumIs
<1>2. PICK h : Sums(b, U, h) /\ SumOver(b, U) = h[U]
  BY SumIs
<1>3. g[U] = h[U]
  BY <1>1, <1>2, SumsAgree
<1> QED BY <1>1, <1>2, <1>3

LEMMA SumsAreNumbers ==
  ASSUME NEW U, IsFiniteSet(U), NEW a, NEW g, Sums(a, U, g), NEW N, N \in {Nat, Int}, \A x \in U : a[x] \in N
  PROVE  \A s \in SUBSET U : g[s] \in N
<1> DEFINE Bad == {n \in Nat : \E s \in SUBSET U : Cardinality(s) = n /\ g[s] \notin N}
<1>1. \A s \in SUBSET U : IsFiniteSet(s) /\ Cardinality(s) \in Nat
  BY FS_Subset, FS_CardinalityType
<1>2. ASSUME NEW c \in Bad PROVE FALSE
  <2>1. PICK n \in Bad : \A m \in Bad : n <= m
    BY <1>2, Smallest
  <2>2. PICK s \in SUBSET U : Cardinality(s) = n /\ g[s] \notin N
    BY <2>1
  <2>3. s # {}
    <3>1. g[{}] = 0
      BY SumsOfNone
    <3> QED BY <2>2, <3>1
  <2> DEFINE x == Some(s)
             r == s \ {Some(s)}
  <2>4. x \in s /\ g[s] = a[x] + g[r]
    BY <2>3, SumsAre
  <2>5. r \in SUBSET U /\ Cardinality(r) \in Nat /\ Cardinality(r) = n - 1 /\ n \in Nat
    BY <1>1, <2>2, <2>4, OneLess
  <2> HIDE DEF x, r
  <2>6. Cardinality(r) \notin Bad
    <3>1. ~ (n <= n - 1)
      BY <2>5
    <3> QED BY <2>1, <2>5, <3>1
  <2>7. g[r] \in N /\ a[x] \in N
    BY <2>2, <2>4, <2>5, <2>6
  <2> QED BY <2>2, <2>4, <2>7
<1> QED BY <1>1, <1>2

LEMMA SumIsNumber ==
  ASSUME NEW U, IsFiniteSet(U), NEW a, NEW N, N \in {Nat, Int}, \A x \in U : a[x] \in N
  PROVE  SumOver(a, U) \in N
<1>1. PICK g : Sums(a, U, g) /\ SumOver(a, U) = g[U]
  BY SumIs
<1>2. g[U] \in N
  <2>1. U \in SUBSET U
    OBVIOUS
  <2> QED BY <1>1, <2>1, SumsAreNumbers
<1> QED BY <1>1, <1>2

(* Whichever element is taken out first.                                   *)
LEMMA SumsWithout ==
  ASSUME NEW U, IsFiniteSet(U), NEW a, NEW g, Sums(a, U, g), \A x \in U : a[x] \in Int
  PROVE  \A s \in SUBSET U : \A x \in s : g[s] = a[x] + g[s \ {x}]
<1> DEFINE Bad == {n \in Nat : \E s \in SUBSET U : Cardinality(s) = n /\ \E x \in s : g[s] # a[x] + g[s \ {x}]}
<1>1. \A s \in SUBSET U : IsFiniteSet(s) /\ Cardinality(s) \in Nat /\ g[s] \in Int
  <2>1. \A s \in SUBSET U : g[s] \in Int
    BY SumsAreNumbers
  <2> QED BY <2>1, FS_Subset, FS_CardinalityType
<1>2. ASSUME NEW c \in Bad PROVE FALSE
  <2>1. PICK n \in Bad : \A m \in Bad : n <= m
    BY <1>2, Smallest
  <2>2. PICK s \in SUBSET U : Cardinality(s) = n /\ \E x \in s : g[s] # a[x] + g[s \ {x}]
    BY <2>1
  <2>3. PICK x \in s : g[s] # a[x] + g[s \ {x}]
    BY <2>2
  <2> DEFINE y == Some(s)
             r == s \ {Some(s)}
             t == s \ {x}
             u == r \ {x}
  <2>4. y \in s /\ g[s] = a[y] + g[r]
    BY <2>3, SumsAre
  <2>5. x # y
    BY <2>3, <2>4
  <2>6. r \in SUBSET U /\ Cardinality(r) \in Nat /\ Cardinality(r) = n - 1 /\ n \in Nat /\ x \in r
    BY <1>1, <2>2, <2>4, <2>5, OneLess
  <2>7. t \in SUBSET U /\ Cardinality(t) = n - 1 /\ y \in t
    BY <1>1, <2>2, <2>4, <2>5, OneLess
  <2>8. t \ {y} = u /\ u \in SUBSET U
    BY <2>6
  <2> HIDE DEF y, r, t, u
  <2>9. n - 1 \notin Bad /\ n - 1 \in Nat
    <3>1. ~ (n <= n - 1) /\ n - 1 \in Nat
      BY <2>6
    <3> QED BY <2>1, <3>1
  <2>10. g[r] = a[x] + g[u]
    BY <2>6, <2>9 DEF u
  <2>11. g[t] = a[y] + g[u]
    BY <2>7, <2>8, <2>9
  <2>12. a[x] \in Int /\ a[y] \in Int /\ g[u] \in Int /\ g[t] \in Int
    BY <1>1, <2>4, <2>7, <2>8
  <2>13. g[s] = a[x] + g[t]
    BY <2>4, <2>10, <2>11, <2>12
  <2> QED BY <2>3, <2>13 DEF t
<1> QED BY <1>1, <1>2

LEMMA SumWithOne ==
  ASSUME NEW U, IsFiniteSet(U), NEW a, \A x \in U : a[x] \in Int, NEW x \in U
  PROVE  SumOver(a, U) = a[x] + SumOver(a, U \ {x})
<1> DEFINE V == U \ {x}
<1>1. PICK g : Sums(a, U, g) /\ SumOver(a, U) = g[U]
  BY SumIs
<1>2. IsFiniteSet(V) /\ V \in SUBSET U /\ V \in SUBSET V /\ U \in SUBSET U
  BY FS_Subset
<1> HIDE DEF V
<1>3. PICK h : Sums(a, V, h) /\ SumOver(a, V) = h[V]
  BY <1>2, SumIs
<1>4. g[U] = a[x] + g[V]
  BY <1>1, <1>2, SumsWithout DEF V
<1>5. g[V] = h[V]
  BY <1>1, <1>2, <1>3, SumsAgree
<1> QED BY <1>1, <1>3, <1>4, <1>5 DEF V

(* A sum over numbered rows is the sum over what they are for.             *)
Signed(turned, x) == IF turned THEN 0 - x ELSE x

LEMMA SumOverRows ==
  ASSUME NEW U, IsFiniteSet(U), NEW p, \A i, j \in U : p[i] = p[j] => i = j,
         NEW a, NEW b, NEW turned \in BOOLEAN,
         \A i \in U : b[p[i]] \in Int /\ a[i] = Signed(turned, b[p[i]])
  PROVE  SumOver(a, U) = Signed(turned, SumOver(b, {p[i] : i \in U}))
<1> DEFINE to(s) == {p[i] : i \in s}
           ok(s) == SumOver(a, s) = Signed(turned, SumOver(b, to(s)))
           Bad == {n \in Nat : \E s \in SUBSET U : Cardinality(s) = n /\ ~ ok(s)}
<1>1. \A s \in SUBSET U : IsFiniteSet(s) /\ Cardinality(s) \in Nat /\ IsFiniteSet(to(s))
  <2>1. \A s \in SUBSET U : IsFiniteSet(s) /\ Cardinality(s) \in Nat
    BY FS_Subset, FS_CardinalityType
  <2>2. ASSUME NEW s \in SUBSET U PROVE IsFiniteSet(to(s))
    <3> DEFINE q == [i \in s |-> p[i]]
               T == to(s)
    <3>1. q \in Surjection(s, T)
      BY DEF Surjection
    <3> HIDE DEF q, T
    <3>2. IsFiniteSet(T)
      BY <2>1, <3>1, FS_Surjection
    <3> QED BY <3>2 DEF T
  <2> QED BY <2>1, <2>2
<1>2. ASSUME NEW c \in Bad PROVE FALSE
  <2>1. PICK n \in Bad : \A m \in Bad : n <= m
    BY <1>2, Smallest
  <2>2. PICK s \in SUBSET U : Cardinality(s) = n /\ ~ ok(s)
    BY <2>1
  <2>3. s # {}
    <3>1. ASSUME s = {} PROVE ok(s)
      <4>1. to(s) = {}
        BY <3>1
      <4> HIDE DEF to
      <4>2. SumOver(a, {}) = 0 /\ SumOver(b, {}) = 0
        BY SumOfNone
      <4>3. SumOver(a, s) = 0 /\ SumOver(b, to(s)) = 0
        BY <3>1, <4>1, <4>2
      <4>4. Signed(turned, 0) = 0
        BY DEF Signed
      <4>5. SumOver(a, s) = Signed(turned, SumOver(b, to(s)))
        BY <4>3, <4>4
      <4> QED BY <4>5
    <3> QED BY <2>2, <3>1
  <2>4. PICK x \in s : TRUE
    BY <2>3
  <2> DEFINE r == s \ {x}
  <2>5. r \in SUBSET U /\ Cardinality(r) \in Nat /\ Cardinality(r) = n - 1 /\ n \in Nat
    BY <1>1, <2>2, <2>4, OneLess
  <2>6. p[x] \in to(s) /\ to(r) = to(s) \ {p[x]}
    BY <2>4
  <2> HIDE DEF r, ok
  <2>7. ok(r)
    <3>1. ~ (n <= n - 1)
      BY <2>5
    <3> QED BY <2>1, <2>5, <3>1
  <2>8. SumOver(a, s) = a[x] + SumOver(a, r)
    <3>1. \A i \in s : a[i] \in Int
      BY DEF Signed
    <3> QED BY <1>1, <2>4, <3>1, SumWithOne DEF r
  <2>9. /\ \A y \in to(s) : b[y] \in Int
        /\ SumOver(b, to(r)) \in Int
    <3>1. \A y \in to(s) : b[y] \in Int
      OBVIOUS
    <3>2. \A y \in to(r) : b[y] \in Int
      BY <2>6, <3>1
    <3>3. IsFiniteSet(to(r))
      BY <1>1, <2>5
    <3> HIDE DEF to
    <3> QED BY <3>1, <3>2, <3>3, SumIsNumber
  <2> HIDE DEF to
  <2>10. SumOver(b, to(s)) = b[p[x]] + SumOver(b, to(r))
    BY <1>1, <2>6, <2>9, SumWithOne
  <2>11. SumOver(a, r) = Signed(turned, SumOver(b, to(r))) /\ a[x] = Signed(turned, b[p[x]]) /\ b[p[x]] \in Int
    BY <2>4, <2>7 DEF ok
  <2>12. SumOver(a, s) = Signed(turned, SumOver(b, to(s)))
    BY <2>8, <2>9, <2>10, <2>11 DEF Signed
  <2> QED BY <2>2, <2>12 DEF ok
<1>3. ok(U)
  BY <1>1, <1>2
<1> QED BY <1>3

(* The sums of FeeLedger are such sums.                                    *)
LEMMA SumOfIs ==
  ASSUME NEW L, NEW ls, IsFiniteSet(ls), NEW a, \A l \in ls : a[l] = L[l].amount
  PROVE  SumOf(L, ls) = SumOver(a, ls)
<1> DEFINE step(g, s) == IF s = {} THEN 0 ELSE L[CHOOSE x \in s : TRUE].amount + g[s \ {CHOOSE x \in s : TRUE}]
           h == CHOOSE g : g = [s \in SUBSET ls |-> step(g, s)]
           b == [l \in ls |-> L[l].amount]
<1>1. SumOf(L, ls) = h[ls]
  BY DEF SumOf, MapThenSumSet, MapThenFoldSet
<1>2. ASSUME NEW g PROVE \A s \in SUBSET ls : step(g, s) = Summed(b, g, s)
  <2> SUFFICES ASSUME NEW s \in SUBSET ls PROVE step(g, s) = Summed(b, g, s)
    OBVIOUS
  <2>1. CASE s = {}
    BY <2>1 DEF Summed
  <2>2. CASE s # {}
    <3>1. Some(s) \in ls /\ Some(s) = CHOOSE x \in s : TRUE
      BY <2>2, SomeIn DEF Some
    <3>2. b[Some(s)] = L[Some(s)].amount
      BY <3>1
    <3>3. step(g, s) = L[Some(s)].amount + g[s \ {Some(s)}]
      BY <2>2, <3>1
    <3> HIDE DEF step, b
    <3> QED BY <2>2, <3>2, <3>3 DEF Summed
  <2> QED BY <2>1, <2>2
<1>3. PICK g : Sums(b, ls, g)
  BY SumsExist
<1> HIDE DEF step, b
<1>4. g = [s \in SUBSET ls |-> step(g, s)]
  BY <1>2, <1>3 DEF Sums
<1>5. h = [s \in SUBSET ls |-> step(h, s)]
  BY <1>4
<1> HIDE DEF h
<1>6. Sums(b, ls, h)
  BY <1>2, <1>5 DEF Sums
<1>7. PICK k : Sums(a, ls, k) /\ SumOver(a, ls) = k[ls]
  BY SumIs
<1>8. h[ls] = k[ls]
  <2>1. \A l \in ls : b[l] = a[l]
    BY DEF b
  <2> QED BY <1>6, <1>7, <2>1, SumsAgree
<1> QED BY <1>1, <1>7, <1>8

LEMMA TotalOfIs ==
  ASSUME NEW alloc
  PROVE  TotalOf(alloc) = SumOver(alloc, DOMAIN alloc)
BY DEF TotalOf, MapThenSumSet, MapThenFoldSet, SumOver, Sums, Summed, Some
-----------------------------------------------------------------------------
(* What is spent.  Amounts are numbers, and payments refer to rows.        *)

TxRow(x) == {"state", "amount"} \subseteq DOMAIN x /\ x.amount \in Nat
PaymentRow(l) == l.fee \in DOMAIN fees /\ l.tx \in DOMAIN txs /\ l.amount \in Int

AmountsInv ==
  /\ \A f \in DOMAIN fees : fees[f].amount \in Int
  /\ \A l \in DOMAIN links : PaymentRow(links[l])
  /\ \A t \in DOMAIN txs : TxRow(txs[t])
  /\ form.amount \in Int

LEMMA Largest ==
  ASSUME NEW S, NEW n \in Nat, S \subseteq 0 .. n, S # {}
  PROVE  Max(S) \in S /\ \A x \in S : x <= Max(S)
<1> DEFINE T == {n - x : x \in S}
<1>1. PICK a \in S : TRUE
  OBVIOUS
<1>2. T \subseteq Nat /\ n - a \in T
  BY <1>1
<1> HIDE DEF T
<1>3. PICK m \in T : \A k \in T : m <= k
  BY <1>2, Smallest
<1>4. PICK x \in S : m = n - x
  BY <1>3 DEF T
<1>5. \A y \in S : y <= x
  <2> SUFFICES ASSUME NEW y \in S PROVE y <= x
    OBVIOUS
  <2>1. n - y \in T
    BY DEF T
  <2>2. x \in Int /\ y \in Int
    OBVIOUS
  <2> QED BY <1>3, <1>4, <2>1, <2>2
<1>6. \A y \in S : x >= y
  BY <1>5
<1>7. Max(S) \in S /\ \A y \in S : Max(S) >= y
  BY <1>6 DEF Max
<1> QED BY <1>7

(* The payments of a fee after its last return, among some of its rows.    *)
Returned(L, ls) == Max({0} \cup {l \in ls : L[l].amount < 0})
Since(L, ls) == {l \in ls : l > Returned(L, ls)}

LEMMA ReturnedIs ==
  ASSUME NEW L, NEW n \in Nat, NEW ls, ls \subseteq 1 .. n
  PROVE  /\ Returned(L, ls) \in 0 .. n
         /\ \A l \in ls : L[l].amount < 0 => l <= Returned(L, ls)
         /\ Returned(L, ls) # 0 => Returned(L, ls) \in ls /\ L[Returned(L, ls)].amount < 0
<1> DEFINE S == {0} \cup {l \in ls : L[l].amount < 0}
<1>1. S \subseteq 0 .. n
  <2> SUFFICES ASSUME NEW l \in S PROVE l \in 0 .. n
    OBVIOUS
  <2>1. CASE l = 0
    BY <2>1
  <2>2. CASE l \in ls
    <3>1. l \in 1 .. n
      BY <2>2
    <3> HIDE DEF S
    <3> QED BY <3>1
  <2> QED BY <2>1, <2>2
<1>0. S # {}
  OBVIOUS
<1>2. Returned(L, ls) = Max(S)
  BY DEF Returned
<1>3. Max(S) \in S /\ \A x \in S : x <= Max(S)
  <2> HIDE DEF S
  <2> QED BY <1>0, <1>1, Largest
<1> QED BY <1>1, <1>2, <1>3

LEMMA PaidIsNumber ==
  ASSUME NEW L, NEW n \in Nat, NEW ls, ls \subseteq 1 .. n, \A l \in ls : L[l].amount \in Int
  PROVE  IsFiniteSet(Since(L, ls)) /\ SumOf(L, Since(L, ls)) \in Int
<1> DEFINE a == [l \in 1 .. n |-> L[l].amount]
           S == Since(L, ls)
<1>0. S \subseteq ls
  BY DEF Since
<1>1. IsFiniteSet(1 .. n) /\ S \subseteq 1 .. n
  <2>1. IsFiniteSet(1 .. n)
    BY FS_Interval
  <2> HIDE DEF S
  <2> QED BY <2>1, <1>0
<1>2. \A l \in S : a[l] = L[l].amount /\ a[l] \in Int
  <2> HIDE DEF S
  <2> SUFFICES ASSUME NEW l \in S PROVE a[l] = L[l].amount /\ a[l] \in Int
    OBVIOUS
  <2>1. l \in 1 .. n /\ L[l].amount \in Int
    BY <1>0, <1>1
  <2> QED BY <2>1
<1>3. IsFiniteSet(S)
  BY <1>1, FS_Subset
<1> HIDE DEF S, a
<1>4. SumOf(L, S) = SumOver(a, S)
  BY <1>2, <1>3, SumOfIs
<1>5. SumOver(a, S) \in Int
  BY <1>2, <1>3, SumIsNumber
<1> QED BY <1>3, <1>4, <1>5 DEF S

(* The same rows give the same sum. *)
LEMMA SameRowsSum ==
  ASSUME NEW L, NEW M, NEW ls, IsFiniteSet(ls), \A l \in ls : L[l] = M[l]
  PROVE  SumOf(L, ls) = SumOf(M, ls)
<1> DEFINE a == [l \in ls |-> L[l].amount]
<1>1. \A l \in ls : a[l] = L[l].amount /\ a[l] = M[l].amount
  OBVIOUS
<1> HIDE DEF a
<1>2. SumOf(L, ls) = SumOver(a, ls)
  BY <1>1, SumOfIs
<1>3. SumOf(M, ls) = SumOver(a, ls)
  BY <1>1, SumOfIs
<1> QED BY <1>2, <1>3

(* One payment more.                                                       *)
OneMore(M, L, ls, n, k) ==
  /\ n \in Nat /\ ls \subseteq 1 .. n /\ k \in Nat /\ k > n
  /\ \A l \in ls : M[l] = L[l] /\ L[l].amount \in Int

LEMMA PaidOnTop ==
  ASSUME NEW L, NEW M, NEW ls, NEW n, NEW k, OneMore(M, L, ls, n, k), M[k].amount \in Nat \ {0}
  PROVE  SumOf(M, Since(M, ls \cup {k})) = M[k].amount + SumOf(L, Since(L, ls))
<1> DEFINE more == ls \cup {k}
           S == Since(L, ls)
           T == Since(M, more)
<1> USE DEF OneMore
<1>1. {l \in more : M[l].amount < 0} = {l \in ls : L[l].amount < 0}
  <2>1. ~ (M[k].amount < 0)
    OBVIOUS
  <2> QED BY <2>1
<1>2. Returned(M, more) = Returned(L, ls)
  BY <1>1 DEF Returned
<1>3. Returned(L, ls) \in 0 .. n
  BY ReturnedIs
<1>4. T = S \cup {k} /\ k \notin S
  BY <1>2, <1>3 DEF Since
<1>5. IsFiniteSet(S)
  BY PaidIsNumber
<1>6. IsFiniteSet(T) /\ T \ {k} = S /\ k \in T /\ S \subseteq ls
  <2>1. T \ {k} = S /\ k \in T /\ S \subseteq ls
    BY <1>4 DEF Since
  <2>2. IsFiniteSet(S \cup {k})
    BY <1>5, FS_AddElement
  <2> QED BY <1>4, <2>1, <2>2
<1> DEFINE a == [l \in T |-> M[l].amount]
<1>7. \A l \in T : a[l] = M[l].amount /\ a[l] \in Int
  <2> HIDE DEF S, T
  <2> SUFFICES ASSUME NEW l \in T PROVE a[l] = M[l].amount /\ a[l] \in Int
    OBVIOUS
  <2>1. M[l].amount \in Int
    <3>1. CASE l = k
      BY <3>1
    <3>2. CASE l \in S
      BY <3>2, <1>6
    <3> QED BY <3>1, <3>2, <1>4
  <2> QED BY <2>1
<1>8. \A l \in S : M[l] = L[l]
  BY <1>6
<1> HIDE DEF S, T, a, more
<1>9. SumOf(M, T) = SumOver(a, T)
  BY <1>6, <1>7, SumOfIs
<1>10. SumOf(M, S) = SumOver(a, S)
  BY <1>4, <1>5, <1>7, SumOfIs
<1>11. SumOver(a, T) = a[k] + SumOver(a, S)
  BY <1>6, <1>7, SumWithOne
<1>12. SumOf(M, S) = SumOf(L, S)
  BY <1>5, <1>8, SameRowsSum
<1> QED BY <1>6, <1>7, <1>9, <1>10, <1>11, <1>12 DEF S, T, more

(* A return takes away all before it. *)
LEMMA NothingSince ==
  ASSUME NEW n \in Nat, NEW ls, ls \subseteq 1 .. n, NEW M, NEW k \in Nat, k > n, M[k].amount < 0
  PROVE  SumOf(M, Since(M, ls \cup {k})) = 0
<1> DEFINE more == ls \cup {k}
<1>1. more \subseteq 1 .. k /\ k \in more
  OBVIOUS
<1> HIDE DEF more
<1>2. Returned(M, more) \in 0 .. k /\ k <= Returned(M, more)
  BY <1>1, ReturnedIs
<1>3. Since(M, more) = {}
  <2> SUFFICES ASSUME NEW l \in more, l > Returned(M, more) PROVE FALSE
    BY DEF Since
  <2>1. l \in 1 .. k
    BY <1>1
  <2> QED BY <1>2, <2>1
<1> DEFINE none == [l \in {} |-> 0]
<1>4. SumOf(M, {}) = SumOver(none, {})
  <2>1. IsFiniteSet({})
    BY FS_EmptySet
  <2>2. \A l \in {} : none[l] = M[l].amount
    OBVIOUS
  <2> HIDE DEF none
  <2> QED BY <2>1, <2>2, SumOfIs
<1> HIDE DEF none
<1>5. SumOver(none, {}) = 0
  BY SumOfNone
<1> QED BY <1>3, <1>4, <1>5 DEF more

(* Amounts stay numbers and payments keep their rows.                      *)
FeeAmounts == \A f \in DOMAIN fees : fees[f].amount \in Int
PaymentRows == \A l \in DOMAIN links : PaymentRow(links[l])
TxRows == \A t \in DOMAIN txs : TxRow(txs[t])

LEMMA AmountIsNumber ==
  ASSUME ModelsInv, NEW i \in LiveModels, NEW p, p.start \in Int, p.end \in Int, NEW ms
  PROVE  Amount(models[i], p, ms) \in Int
<1>1. models[i] \in Tariffs
  BY DEF ModelsInv, LiveModels
<1>2. models[i].cents \in Nat /\ models[i].interval \in Nat \ {0}
  <2>1. models[i].cents \in Nat /\ models[i].interval \in 1 .. YearLen
    BY <1>1, FeeLedgerAssumption DEF FeeLedgerAssumption
  <2> QED BY <2>1, YearLenAssumption DEF YearLenAssumption
<1> DEFINE months == {m \in p.start .. p.end : Between(ms, m, m)}
<1>3. Cardinality(months) \in Nat
  <2>1. IsFiniteSet(p.start .. p.end) /\ months \in SUBSET (p.start .. p.end)
    BY FS_Interval
  <2> HIDE DEF months
  <2> QED BY <2>1, FS_Subset, FS_CardinalityType
<1>4. ActiveMonths(ms, p) = Cardinality(months)
  BY DEF ActiveMonths
<1> HIDE DEF months
<1> DEFINE c == models[i].cents
           n == models[i].interval
           k == ActiveMonths(ms, p)
<1>5. c \in Nat /\ n \in Nat \ {0} /\ k \in Nat
  BY <1>2, <1>3, <1>4
<1>6. Amount(models[i], p, ms) = IF models[i].proRata /\ k < n THEN (c * k + n \div 2) \div n ELSE c
  BY DEF Amount
<1> HIDE DEF c, n, k
<1>7. (c * k + n \div 2) \div n \in Int
  <2>1. c * k \in Int /\ n \div 2 \in Int
    BY <1>5
  <2> QED BY <1>5, <2>1
<1> QED BY <1>5, <1>6, <1>7

LEMMA RunAmounts ==
  ASSUME FeesInv, ModelsInv, FeeAmounts, NEW range \in Ranges, CreateFeeRun(range.from, range.to)
  PROVE  FeeAmounts' /\ DOMAIN fees \subseteq DOMAIN fees'
<1> DEFINE from == range.from
           to == range.to
<1>1. from \in Nat \ {0} /\ to \in Nat
  BY FeeLedgerAssumption DEF FeeLedgerAssumption
<1> HIDE DEF from, to
<1>2. PICK plan \in {Plan(from, to)} :
        fees' = fees \o [k \in 1 .. Cardinality(plan) |->
                           LET o == PlanOrder(plan)[k]
                           IN NewFee(o.member, Amount(models[o.model], o.period, Facts(o.member)),
                                     Max({from, o.period.start}), Len(runs) + 1, o.period)]
  BY DEF CreateFeeRun, from, to
<1> DEFINE n == Cardinality(plan)
           at(k) == PlanOrder(plan)[k]
           new == [k \in 1 .. n |-> LET o == at(k)
                                    IN NewFee(o.member, Amount(models[o.model], o.period, Facts(o.member)),
                                              Max({from, o.period.start}), Len(runs) + 1, o.period)]
<1>3. n \in Nat /\ \A k \in 1 .. n : at(k) \in plan
  BY <1>1, PlanHolds
<1>4. ASSUME NEW o \in plan
      PROVE  Amount(models[o.model], o.period, Facts(o.member)) \in Int
  <2>1. PICK m \in LiveMembers : o \in Owed(m, from, to)
    BY <1>2 DEF Plan
  <2>2. /\ o.model \in LiveModels /\ o.period.start \in from .. to /\ models[o.model].interval \in Nat \ {0}
        /\ o.period.end = o.period.start + models[o.model].interval - 1
    BY <1>1, <2>1, OwedIs
  <2>3. o.period.start \in Int /\ o.period.end \in Int
    BY <1>1, <2>2
  <2> QED BY <2>2, <2>3, AmountIsNumber
<1>5. ASSUME NEW k \in 1 .. n PROVE new[k].amount \in Int
  <2>1. new[k].amount = Amount(models[at(k).model], at(k).period, Facts(at(k).member))
    BY DEF NewFee
  <2> HIDE DEF new, at, n
  <2> QED BY <1>3, <1>4, <2>1
<1>6. Numbered(new, n) /\ Joined(fees', fees, new)
  BY <1>2 DEF Numbered, Joined
<1> HIDE DEF new, at, n
<1>7. /\ DOMAIN fees \subseteq DOMAIN fees'
      /\ \A f \in DOMAIN fees : fees'[f] = fees[f]
      /\ \A f \in DOMAIN fees' \ DOMAIN fees : \E k \in 1 .. n : f = Len(fees) + k /\ fees'[f] = new[k]
  <2>1. Rows(fees) /\ n \in Nat
    BY <1>3 DEF FeesInv
  <2> QED BY <1>6, <2>1, RowsAdded
<1> QED BY <1>5, <1>7 DEF FeeAmounts

(* Other steps keep the amounts, or write one that was entered.            *)
LEMMA SameAmounts ==
  ASSUME FeeAmounts, fees' = [f \in DOMAIN fees |-> fees'[f]],
         \A f \in DOMAIN fees : fees'[f].amount = fees[f].amount
  PROVE  FeeAmounts' /\ DOMAIN fees \subseteq DOMAIN fees'
<1>1. DOMAIN fees' = DOMAIN fees
  OBVIOUS
<1> QED BY <1>1 DEF FeeAmounts

LEMMA FeeAmountsStep ==
  ASSUME FeesInv, ModelsInv, FeeAmounts, form.amount \in Int, FeesNext
  PROVE  FeeAmounts' /\ DOMAIN fees \subseteq DOMAIN fees'
<1>0. Rows(fees) /\ \A f \in DOMAIN fees : FeeRow(fees[f])
  BY DEF FeesInv
<1>1. ASSUME NEW m, NEW paid, NEW amount \in Amounts, CreateFee(m, amount, paid)
      PROVE  FeeAmounts' /\ DOMAIN fees \subseteq DOMAIN fees'
  <2> DEFINE row == [NewFee(m, amount, 1, 0, NoPeriod) EXCEPT !.paid = paid]
  <2>1. row.amount \in Int
    <3>1. row.amount = amount
      BY DEF NewFee
    <3> HIDE DEF row
    <3> QED BY <3>1, FeeLedgerAssumption DEF FeeLedgerAssumption
  <2>2. Added(fees', fees, row)
    BY <1>1 DEF CreateFee, Added
  <2> HIDE DEF row
  <2>3. /\ DOMAIN fees \subseteq DOMAIN fees'
        /\ \A f \in DOMAIN fees : fees'[f] = fees[f]
        /\ \A f \in DOMAIN fees' \ DOMAIN fees : fees'[f] = row
    BY <1>0, <2>2, RowAdded
  <2> QED BY <2>1, <2>3 DEF FeeAmounts
<1>2. ASSUME UpdateFee PROVE FeeAmounts' /\ DOMAIN fees \subseteq DOMAIN fees'
  <2>1. CASE form.fee \in LiveFees /\ form.member \in LiveMembers
    <3> DEFINE k == form.fee
               row == [fees[k] EXCEPT !.member = form.member, !.amount = form.amount, !.paid = form.paid]
    <3>1. fees' = [fees EXCEPT ![k] = row] /\ k \in DOMAIN fees
      BY <1>2, <2>1 DEF UpdateFee, LiveFees
    <3>2. row.amount = form.amount
      BY <1>0, <3>1 DEF FeeRow
    <3> HIDE DEF row, k
    <3> QED BY <3>1, <3>2 DEF FeeAmounts
  <2>2. CASE ~ (form.fee \in LiveFees /\ form.member \in LiveMembers)
    BY <1>2, <2>2 DEF UpdateFee, FeeAmounts
  <2> QED BY <2>1, <2>2
<1>3. ASSUME fees' = [f \in DOMAIN fees |-> fees'[f]],
             \A f \in DOMAIN fees : fees'[f] = fees[f] \/ \E stays : fees'[f] = [fees[f] EXCEPT !.live = stays] /\ (stays => fees[f].live)
      PROVE  FeeAmounts' /\ DOMAIN fees \subseteq DOMAIN fees'
  <2>1. ASSUME NEW f \in DOMAIN fees PROVE fees'[f].amount = fees[f].amount
    BY <1>0, <1>3 DEF FeeRow
  <2> QED BY <1>3, <2>1, SameAmounts
<1>4. ASSUME fees' = [f \in DOMAIN fees |-> fees'[f]],
             \A f \in DOMAIN fees : fees'[f] = fees[f] \/ \E date : fees'[f] = [fees[f] EXCEPT !.paid = date]
      PROVE  FeeAmounts' /\ DOMAIN fees \subseteq DOMAIN fees'
  <2>1. ASSUME NEW f \in DOMAIN fees PROVE fees'[f].amount = fees[f].amount
    BY <1>0, <1>4 DEF FeeRow
  <2> QED BY <1>4, <2>1, SameAmounts
<1>5. CASE UNCHANGED fees
  BY <1>5 DEF FeeAmounts
<1>6. CASE \E range \in Ranges : CreateFeeRun(range.from, range.to)
  BY <1>6, RunAmounts
<1> QED BY <1>0, <1>1, <1>2, <1>3, <1>4, <1>5, <1>6, FeeSteps

LEMMA DeletedAmounts ==
  ASSUME FeesInv, FeeAmounts, NEW m, DeleteFinancesOf(m)
  PROVE  FeeAmounts' /\ DOMAIN fees \subseteq DOMAIN fees'
<1>1. fees' = [f \in DOMAIN fees |-> [fees[f] EXCEPT !.live = @ /\ fees[f].member # m,
                                                    !.run = IF fees[f].chargedTo = m THEN 0 ELSE @]]
  BY DEF DeleteFinancesOf
<1>2. fees' = [f \in DOMAIN fees |-> fees'[f]]
  BY <1>1
<1>3. ASSUME NEW f \in DOMAIN fees PROVE fees'[f].amount = fees[f].amount
  <2>1. FeeRow(fees[f])
    BY DEF FeesInv
  <2> QED BY <1>1, <2>1 DEF FeeRow
<1> QED BY <1>2, <1>3, SameAmounts

(* What an edit has loaded is a number that was entered.                   *)
LEMMA FormStep ==
  ASSUME form.amount \in Int, FeesNext
  PROVE  form'.amount \in Int
<1>1. UNCHANGED form => form'.amount \in Int
  OBVIOUS
<1>2. CASE ModelRequest
  BY <1>1, <1>2 DEF ModelRequest, CreateFeeModel, UpdateFeeModel, WriteModel, DeleteFeeModel, requests
<1>3. CASE AssignmentRequest
  BY <1>1, <1>3 DEF AssignmentRequest, SetFeeAssignment, requests
<1>4. CASE RunRequest
  BY <1>1, <1>4 DEF RunRequest, CreateFeeRun, DeleteFeeRun, requests
<1>5. CASE FeeRequest
  <2>1. \A m, amount, paid : CreateFee(m, amount, paid) => UNCHANGED form
    BY DEF CreateFee, requests
  <2>2. \A f, m, paid : \A amount \in Amounts : LoadFee(f, m, amount, paid) => form'.amount \in Int
    BY FeeLedgerAssumption DEF LoadFee, FeeLedgerAssumption
  <2>3. \A f : DeleteFee(f) => UNCHANGED form
    BY DEF DeleteFee, requests
  <2>4. ResetFinance => UNCHANGED form
    BY DEF ResetFinance, requests
  <2> QED BY <1>1, <1>5, <2>1, <2>2, <2>3, <2>4 DEF FeeRequest
<1>6. CASE UpdateFee
  BY <1>6 DEF UpdateFee, NoForm
<1>7. CASE MandateRequest
  BY <1>1, <1>7 DEF MandateRequest, SetSEPACreditor, SetMandateReference, requests
<1>8. CASE CollectionRequest
  <2>1. \A fs : CreateSEPARun(fs) => UNCHANGED form
    BY DEF CreateSEPARun, requests
  <2>2. \A d : CancelSEPARun(d) => UNCHANGED form
    BY DEF CancelSEPARun, requests
  <2>3. \A d, date : ConfirmSEPARun(d, date) => UNCHANGED form
    BY DEF ConfirmSEPARun, requests
  <2> QED BY <1>1, <1>8, <2>1, <2>2, <2>3 DEF CollectionRequest
<1>9. CASE ImportRequest
  BY <1>1, <1>9 DEF ImportRequest, ImportTransaction, requests
<1>10. CASE TransactionRequest
  BY <1>1, <1>10 DEF TransactionRequest, UpdateTransaction, DeleteTransaction, requests
<1>11. CASE ReconciliationRequest
  BY <1>1, <1>11 DEF ReconciliationRequest, ConfirmReconciliation, DismissReconciliation, ReopenReconciliation, StartCertain, requests
<1>12. CASE MatchCertain
  BY <1>1, <1>12 DEF MatchCertain
<1>13. CASE ConfirmCertain
  BY <1>1, <1>13 DEF ConfirmCertain
<1> QED
  BY <1>2, <1>3, <1>4, <1>5, <1>6, <1>7, <1>8, <1>9, <1>10, <1>11, <1>12, <1>13 DEF FeesNext

(* Entries keep their columns, and their amounts are not negative.         *)
LEMMA EntryImported ==
  ASSUME TxRows, DOMAIN txs = DOMAIN Entries, NEW t \in DOMAIN Entries, ImportTransaction(t)
  PROVE  TxRows'
<1> DEFINE row == [Absent EXCEPT !.state = "live", !.amount = Entries[t].amount,
                                 !.income = Entries[t].income, !.bank = "members_bank" \in scopes]
<1>1. txs' = [txs EXCEPT ![t] = row]
  BY DEF ImportTransaction
<1>2. TxRow(row)
  <2>1. Entries[t].amount \in Nat
    BY FeeLedgerAssumption DEF FeeLedgerAssumption, Parsed
  <2> QED BY <2>1 DEF TxRow, Absent
<1> HIDE DEF row
<1> QED BY <1>1, <1>2 DEF TxRows

LEMMA EntryEdited ==
  ASSUME TxRows, NEW t, NEW amount \in Amounts, NEW income, UpdateTransaction(t, amount, income)
  PROVE  TxRows'
<1>1. t \in DOMAIN txs
  BY DEF UpdateTransaction, LiveTxs
<1> DEFINE row == [txs[t] EXCEPT !.amount = amount, !.income = income]
<1>2. txs' = [txs EXCEPT ![t] = row]
  BY <1>1 DEF UpdateTransaction
<1>3. TxRow(row)
  <2>1. amount \in Nat
    BY FeeLedgerAssumption DEF FeeLedgerAssumption
  <2> QED BY <1>1, <2>1 DEF TxRow, TxRows
<1> HIDE DEF row
<1> QED BY <1>2, <1>3 DEF TxRows

LEMMA EntriesMarked ==
  ASSUME TxRows, DOMAIN txs' = DOMAIN txs,
         \A t \in DOMAIN txs : \/ txs'[t] = txs[t]
                               \/ \E x : txs'[t] = [txs[t] EXCEPT !.state = x]
                               \/ \E x : txs'[t] = [txs[t] EXCEPT !.dismissed = x]
  PROVE  TxRows' /\ \A t \in DOMAIN txs : txs'[t].amount = txs[t].amount
<1>1. ASSUME NEW t \in DOMAIN txs PROVE TxRow(txs'[t]) /\ txs'[t].amount = txs[t].amount
  <2>1. TxRow(txs[t])
    BY DEF TxRows
  <2>2. ASSUME NEW x, txs'[t] = [txs[t] EXCEPT !.state = x] PROVE TxRow(txs'[t]) /\ txs'[t].amount = txs[t].amount
    BY <2>1, <2>2 DEF TxRow
  <2>3. ASSUME NEW x, txs'[t] = [txs[t] EXCEPT !.dismissed = x] PROVE TxRow(txs'[t]) /\ txs'[t].amount = txs[t].amount
    BY <2>1, <2>3 DEF TxRow
  <2> QED BY <2>1, <2>2, <2>3
<1> QED BY <1>1 DEF TxRows

LEMMA EntryMarked ==
  ASSUME TxRows, NEW t \in DOMAIN txs, NEW x,
         \/ txs' = [txs EXCEPT ![t].state = x]
         \/ txs' = [txs EXCEPT ![t].dismissed = x]
  PROVE  TxRows' /\ DOMAIN txs' = DOMAIN txs /\ \A u \in DOMAIN txs : txs'[u].amount = txs[u].amount
<1>1. DOMAIN txs' = DOMAIN txs
  OBVIOUS
<1>2. ASSUME NEW u \in DOMAIN txs
      PROVE  \/ txs'[u] = txs[u]
             \/ \E y : txs'[u] = [txs[u] EXCEPT !.state = y]
             \/ \E y : txs'[u] = [txs[u] EXCEPT !.dismissed = y]
  <2>1. CASE u = t
    BY <2>1
  <2>2. CASE u # t
    BY <2>2
  <2> QED BY <2>1, <2>2
<1> QED BY <1>1, <1>2, EntriesMarked

LEMMA TxRowsStep ==
  ASSUME TxRows, DOMAIN txs = DOMAIN Entries, FeesNext
  PROVE  TxRows'
<1>1. UNCHANGED txs => TxRows'
  BY DEF TxRows
<1>2. CASE ModelRequest
  BY <1>1, <1>2 DEF ModelRequest, CreateFeeModel, UpdateFeeModel, WriteModel, DeleteFeeModel, statement
<1>3. CASE AssignmentRequest
  BY <1>1, <1>3 DEF AssignmentRequest, SetFeeAssignment, statement
<1>4. CASE RunRequest
  BY <1>1, <1>4 DEF RunRequest, CreateFeeRun, DeleteFeeRun, statement
<1>5. CASE FeeRequest
  <2>1. \A m, amount, paid : CreateFee(m, amount, paid) => UNCHANGED txs
    BY DEF CreateFee, statement
  <2>2. \A f, m, amount, paid : LoadFee(f, m, amount, paid) => UNCHANGED txs
    BY DEF LoadFee, statement
  <2>3. \A f : DeleteFee(f) => UNCHANGED txs
    BY DEF DeleteFee
  <2>4. ResetFinance => TxRows'
    <3>1. ASSUME txs' = [t \in DOMAIN txs |-> IF txs[t].state = "live" THEN [txs[t] EXCEPT !.state = "deleted"] ELSE txs[t]]
          PROVE  TxRows'
      BY <3>1, EntriesMarked
    <3> QED BY <3>1 DEF ResetFinance
  <2> HIDE DEF TxRows
  <2> QED BY <1>1, <1>5, <2>1, <2>2, <2>3, <2>4 DEF FeeRequest
<1>6. CASE UpdateFee
  BY <1>1, <1>6 DEF UpdateFee, statement
<1>7. CASE MandateRequest
  BY <1>1, <1>7 DEF MandateRequest, SetSEPACreditor, SetMandateReference, statement
<1>8. CASE CollectionRequest
  <2>1. \A fs : CreateSEPARun(fs) => UNCHANGED txs
    BY DEF CreateSEPARun, statement
  <2>2. \A d : CancelSEPARun(d) => UNCHANGED txs
    BY DEF CancelSEPARun, statement
  <2>3. \A d, date : ConfirmSEPARun(d, date) => UNCHANGED txs
    BY DEF ConfirmSEPARun, statement
  <2> QED BY <1>1, <1>8, <2>1, <2>2, <2>3 DEF CollectionRequest
<1>9. CASE ImportRequest
  BY <1>9, EntryImported DEF ImportRequest
<1>10. CASE TransactionRequest
  <2>1. ASSUME NEW t, DeleteTransaction(t) PROVE TxRows'
    <3>1. t \in DOMAIN txs /\ txs' = [txs EXCEPT ![t].state = "deleted"]
      BY <2>1 DEF DeleteTransaction, LiveTxs
    <3> QED BY <3>1, EntryMarked
  <2> QED BY <1>10, <2>1, EntryEdited DEF TransactionRequest
<1>11. ASSUME NEW t \in DOMAIN txs, NEW x, txs' = [txs EXCEPT ![t].dismissed = x] PROVE TxRows'
  BY <1>11, EntryMarked
<1>12. ASSUME NEW t, NEW alloc, Confirm(t, alloc) PROVE TxRows'
  <2>1. t \in DOMAIN txs /\ txs' = [txs EXCEPT ![t].dismissed = FALSE]
    BY <1>12 DEF Confirm, Confirmable, Listed, LiveTxs
  <2> QED BY <1>11, <2>1
<1>13. CASE ReconciliationRequest
  <2>1. ASSUME NEW t, DismissReconciliation(t) \/ ReopenReconciliation(t) PROVE TxRows'
    <3>1. t \in DOMAIN txs /\ \E x : txs' = [txs EXCEPT ![t].dismissed = x]
      BY <2>1 DEF DismissReconciliation, ReopenReconciliation, Listed, LiveTxs
    <3> QED BY <1>11, <3>1
  <2>2. StartCertain => UNCHANGED txs
    BY DEF StartCertain, statement
  <2> QED BY <1>1, <1>12, <1>13, <2>1, <2>2 DEF ReconciliationRequest, ConfirmReconciliation
<1>14. CASE MatchCertain
  BY <1>1, <1>14 DEF MatchCertain, statement
<1>15. CASE ConfirmCertain
  BY <1>1, <1>12, <1>15 DEF ConfirmCertain, statement
<1> QED
  BY <1>2, <1>3, <1>4, <1>5, <1>6, <1>7, <1>8, <1>9, <1>10, <1>13, <1>14, <1>15 DEF FeesNext

(* Payments refer to a fee and an entry that have a row.                   *)
LEMMA PaymentRowsStep ==
  ASSUME PaymentRows, LinksInv, FeesInv, FeesNext, DOMAIN fees \subseteq DOMAIN fees'
  PROVE  PaymentRows'
<1>1. ASSUME NEW l, PaymentRow(l), DOMAIN txs' = DOMAIN txs PROVE PaymentRow(l)'
  BY <1>1 DEF PaymentRow
<1>2. CASE StatementKept
  <2>1. UNCHANGED links /\ DOMAIN txs' = DOMAIN txs
    BY <1>2 DEF StatementKept
  <2>2. ASSUME NEW l \in DOMAIN links PROVE PaymentRow(links[l])'
    BY <2>1 DEF PaymentRows, PaymentRow
  <2> QED BY <2>1, <2>2 DEF PaymentRows
<1>3. CASE PaymentsGone
  <2>1. /\ DOMAIN txs' = DOMAIN txs /\ DOMAIN links' = DOMAIN links
        /\ \A l \in DOMAIN links : \E stays : links'[l] = [links[l] EXCEPT !.live = stays]
    BY <1>3 DEF PaymentsGone
  <2>2. ASSUME NEW l \in DOMAIN links PROVE PaymentRow(links[l])'
    <3>1. PaymentRow(links[l]) /\ Row(links[l], LinkColumns)
      BY DEF PaymentRows, LinksInv, Table
    <3>2. links'[l].fee = links[l].fee /\ links'[l].tx = links[l].tx /\ links'[l].amount = links[l].amount
      BY <2>1, <3>1 DEF Row, LinkColumns
    <3> QED BY <2>1, <3>1, <3>2 DEF PaymentRow
  <2> QED BY <2>1, <2>2 DEF PaymentRows
<1>4. ASSUME NEW t, NEW alloc, Confirm(t, alloc) PROVE PaymentRows'
  <2>1. DOMAIN alloc \subseteq LiveFees /\ t \in DOMAIN txs /\ \A f \in DOMAIN alloc : alloc[f] \in Nat \ {0}
    BY <1>4 DEF Confirm, Confirmable, Takes, Listed, LiveTxs
  <2>2. links' = LinksWith(t, alloc) /\ DOMAIN txs' = DOMAIN txs
    BY <1>4 DEF Confirm
  <2>3. /\ \A l \in DOMAIN links : links'[l] = links[l]
        /\ \A l \in DOMAIN links' \ DOMAIN links :
             links'[l].tx = t /\ links'[l].fee \in DOMAIN alloc /\ links'[l].amount = LinkAmount(t, alloc, links'[l].fee)
    BY <2>1, <2>2, LinksAdded
  <2>4. ASSUME NEW l \in DOMAIN links' PROVE PaymentRow(links[l])'
    <3>1. CASE l \in DOMAIN links
      BY <2>2, <2>3, <3>1 DEF PaymentRows, PaymentRow
    <3>2. CASE l \notin DOMAIN links
      <4>1. links'[l].tx = t /\ links'[l].fee \in DOMAIN alloc /\ links'[l].amount = LinkAmount(t, alloc, links'[l].fee)
        BY <2>3, <3>2
      <4>2. links'[l].amount \in Int
        BY <2>1, <4>1 DEF LinkAmount
      <4> QED BY <2>1, <2>2, <4>1, <4>2 DEF PaymentRow, LiveFees
    <3> QED BY <3>1, <3>2
  <2> QED BY <2>4 DEF PaymentRows
<1> QED BY <1>2, <1>3, <1>4, LinkSteps

LEMMA AmountsStep ==
  ASSUME AmountsInv, MoneyInv, LinksInv, [Next]_vars
  PROVE  AmountsInv'
<1>1. FeeAmounts /\ PaymentRows /\ TxRows /\ form.amount \in Int /\ FeesInv /\ ModelsInv /\ DOMAIN txs = DOMAIN Entries
  BY DEF AmountsInv, FeeAmounts, PaymentRows, TxRows, MoneyInv, LedgerInv, LinksInv
<1>2. FeeAmounts' /\ PaymentRows' /\ TxRows' /\ form'.amount \in Int => AmountsInv'
  BY DEF AmountsInv, FeeAmounts, PaymentRows, TxRows
<1>3. CASE FeesNext
  BY <1>1, <1>2, <1>3, FeeAmountsStep, PaymentRowsStep, TxRowsStep, FormStep
<1>4. ASSUME NEW m \in Member, DeleteMember(m) PROVE AmountsInv'
  <2>1. DeleteFinancesOf(m) /\ UNCHANGED <<links, txs, form>>
    BY <1>4 DEF DeleteMember, DeleteFinancesOf, statement, requests
  <2>2. FeeAmounts' /\ DOMAIN fees \subseteq DOMAIN fees'
    BY <1>1, <2>1, DeletedAmounts
  <2>3. PaymentRows' /\ TxRows'
    BY <1>1, <2>1, <2>2 DEF PaymentRows, PaymentRow, TxRows
  <2> QED BY <1>1, <1>2, <2>1, <2>2, <2>3
<1>5. CASE UNCHANGED feeVars
  BY <1>1, <1>5 DEF feeVars, statement, requests, AmountsInv, PaymentRow
<1>6. ASSUME NEW g \in Group, DeleteNamed(g) PROVE UNCHANGED feeVars
  BY <1>6 DEF DeleteNamed
<1> QED BY <1>3, <1>4, <1>5, <1>6 DEF Next, vars

LEMMA AmountsAtFirst ==
  ASSUME Init
  PROVE  AmountsInv
<1>1. fees = << >> /\ links = << >> /\ txs = [t \in DOMAIN Entries |-> Absent] /\ form = NoForm
  BY DEF Init, FeesInit
<1>2. TxRow(Absent)
  BY DEF TxRow, Absent
<1> QED BY <1>1, <1>2, EmptyRows DEF AmountsInv, NoForm

(* What a confirmation leaves of fees and entries: only paid dates and one *)
(* flag change.                                                            *)
LEMMA ConfirmKeeps ==
  ASSUME FeesInv, AmountsInv, NEW t, NEW alloc, Confirm(t, alloc)
  PROVE  /\ DOMAIN fees' = DOMAIN fees
         /\ \A f \in DOMAIN fees : fees'[f].live = fees[f].live /\ fees'[f].amount = fees[f].amount
         /\ \A u \in DOMAIN txs : txs'[u].state = txs[u].state /\ txs'[u].amount = txs[u].amount
<1>1. fees' = SettleAll(fees, LinksWith(t, alloc), DOMAIN alloc)
  BY DEF Confirm
<1>2. DOMAIN fees' = DOMAIN fees
  BY <1>1 DEF SettleAll
<1>3. ASSUME NEW f \in DOMAIN fees PROVE fees'[f].live = fees[f].live /\ fees'[f].amount = fees[f].amount
  <2>1. FeeRow(fees[f])
    BY DEF FeesInv
  <2>2. \/ fees'[f] = fees[f]
        \/ \E date : fees'[f] = [fees[f] EXCEPT !.paid = date]
    BY <1>1 DEF SettleAll
  <2> QED BY <2>1, <2>2 DEF FeeRow
<1>4. ASSUME NEW u \in DOMAIN txs PROVE txs'[u].state = txs[u].state /\ txs'[u].amount = txs[u].amount
  <2>1. txs' = [txs EXCEPT ![t].dismissed = FALSE] /\ TxRow(txs[u])
    BY DEF Confirm, AmountsInv
  <2>2. txs'[u] = txs[u] \/ txs'[u] = [txs[u] EXCEPT !.dismissed = FALSE]
    BY <2>1
  <2> QED BY <2>1, <2>2 DEF TxRow
<1> QED BY <1>2, <1>3, <1>4

LEMMA LinkAmountsAre ==
  ASSUME NEW t, NEW alloc, \A f \in DOMAIN alloc : alloc[f] \in Nat \ {0}
  PROVE  \E turned \in BOOLEAN : \A f \in DOMAIN alloc : LinkAmount(t, alloc, f) = Signed(turned, alloc[f])
<1>1. ASSUME NEW f \in DOMAIN alloc PROVE Signed(TRUE, alloc[f]) = -alloc[f] /\ Signed(FALSE, alloc[f]) = alloc[f]
  BY DEF Signed
<1>2. CASE Entries[t].isReturn
  <2>1. \A f \in DOMAIN alloc : LinkAmount(t, alloc, f) = -alloc[f]
    BY <1>2, Zenon DEF LinkAmount
  <2>2. \A f \in DOMAIN alloc : LinkAmount(t, alloc, f) = Signed(TRUE, alloc[f])
    BY <1>1, <2>1, Zenon
  <2> QED BY <2>2
<1>3. CASE ~ Entries[t].isReturn
  <2>1. \A f \in DOMAIN alloc : LinkAmount(t, alloc, f) = alloc[f]
    BY <1>3, Zenon DEF LinkAmount
  <2>2. \A f \in DOMAIN alloc : LinkAmount(t, alloc, f) = Signed(FALSE, alloc[f])
    BY <1>1, <2>1, Zenon
  <2> QED BY <2>2
<1> QED BY <1>2, <1>3

(* What is spent of the entry is the total of the confirmation.            *)
LEMMA SpentByConfirm ==
  ASSUME FeesInv, LinksInv, AmountsInv, NEW t, NEW alloc, Confirm(t, alloc)
  PROVE  TotalOf(alloc) \in Nat /\ SpentOn(t)' \in {TotalOf(alloc), 0 - TotalOf(alloc)}
<1> DEFINE M == links'
           New == DOMAIN M \ DOMAIN links
           A == DOMAIN alloc
<1>1. A \subseteq LiveFees /\ Assigned(t) = {} /\ \A f \in A : alloc[f] \in Nat \ {0}
  BY DEF Confirm, Confirmable, Takes
<1>2. /\ Table(M, LinkColumns) /\ DOMAIN links \subseteq DOMAIN M
      /\ \A l \in DOMAIN links : M[l] = links[l]
      /\ \A l \in New : M[l].tx = t /\ M[l].fee \in A /\ l > Len(links) /\ M[l].amount = LinkAmount(t, alloc, M[l].fee)
      /\ \A f \in A : \E l \in DOMAIN M :
           /\ l > Len(links) /\ M[l].tx = t /\ M[l].fee = f /\ M[l].live /\ M[l].prior = fees[f].paid
           /\ \A k \in New : M[k].fee = f => k = l
  <2>1. M = LinksWith(t, alloc)
    BY DEF Confirm
  <2> QED BY <1>1, <2>1, LinksAdded
<1>3. DOMAIN links = 1 .. Len(links) /\ Len(links) \in Nat /\ DOMAIN M = 1 .. Len(M) /\ Len(M) \in Nat
  BY <1>2, RowIds DEF LinksInv, Table
<1>4. /\ DOMAIN fees' = DOMAIN fees
      /\ \A f \in DOMAIN fees : fees'[f].live = fees[f].live
  BY ConfirmKeeps
<1>5. /\ \A l \in New : M[l].live
      /\ \A k, l \in New : M[k].fee = M[l].fee => k = l
      /\ \A f \in A : \E l \in New : M[l].fee = f
  <2>1. ASSUME NEW f \in A
        PROVE  \E l \in New : M[l].fee = f /\ M[l].live /\ \A k \in New : M[k].fee = f => k = l
    <3>1. PICK l \in DOMAIN M : /\ l > Len(links) /\ M[l].fee = f /\ M[l].live
                                /\ \A k \in New : M[k].fee = f => k = l
      BY <1>2
    <3>2. l \notin DOMAIN links
      BY <1>3, <3>1
    <3> QED BY <3>1, <3>2
  <2>2. \A l \in New : M[l].fee \in A
    BY <1>2
  <2> HIDE DEF New, M, A
  <2> QED BY <2>1, <2>2
<1>6. Assigned(t)' = New
  <2>1. Assigned(t)' = {l \in DOMAIN M : M[l].live /\ M[l].tx = t /\ fees'[M[l].fee].live}
    BY DEF Assigned, LinksOfTx
  <2>2. ASSUME NEW l \in New PROVE M[l].live /\ M[l].tx = t /\ fees'[M[l].fee].live
    BY <1>1, <1>2, <1>4, <1>5 DEF LiveFees
  <2>3. ASSUME NEW l \in DOMAIN links, M[l].live, M[l].tx = t, fees'[M[l].fee].live PROVE FALSE
    <3>1. M[l] = links[l] /\ links[l].fee \in DOMAIN fees
      BY <1>2 DEF AmountsInv, PaymentRow
    <3>2. l \in Assigned(t)
      BY <1>4, <2>3, <3>1 DEF Assigned, LinksOfTx
    <3> QED BY <1>1, <3>2
  <2> HIDE DEF M
  <2> QED BY <1>2, <2>1, <2>2, <2>3
<1>7. IsFiniteSet(New) /\ IsFiniteSet(A)
  <2>1. IsFiniteSet(1 .. Len(M)) /\ New \in SUBSET (1 .. Len(M))
    BY <1>3, FS_Interval
  <2>2. DOMAIN fees = 1 .. Len(fees) /\ Len(fees) \in Nat
    BY RowIds DEF FeesInv
  <2>3. IsFiniteSet(1 .. Len(fees)) /\ A \in SUBSET (1 .. Len(fees))
    BY <1>1, <2>2, FS_Interval DEF LiveFees
  <2> HIDE DEF New, A
  <2> QED BY <2>1, <2>3, FS_Subset
<1> DEFINE a == [l \in New |-> M[l].amount]
           p == [l \in New |-> M[l].fee]
<1>8. SpentOn(t)' = SumOf(M, New)
  BY <1>6 DEF SpentOn
<1>9. SumOf(M, New) = SumOver(a, New)
  <2>1. \A l \in New : a[l] = M[l].amount
    OBVIOUS
  <2> HIDE DEF a, New
  <2> QED BY <1>7, <2>1, SumOfIs
<1>10. {p[l] : l \in New} = A
  <2>1. \A l \in New : p[l] = M[l].fee /\ M[l].fee \in A
    BY <1>2
  <2> HIDE DEF New, p, M, A
  <2> QED BY <1>5, <2>1
<1>11. TotalOf(alloc) = SumOver(alloc, A) /\ TotalOf(alloc) \in Nat
  <2>1. SumOver(alloc, A) \in Nat
    BY <1>1, <1>7, SumIsNumber
  <2> QED BY <2>1, TotalOfIs
<1>12. \A i, j \in New : p[i] = p[j] => i = j
  BY <1>5
<1>13. \A l \in New : alloc[p[l]] \in Int /\ p[l] = M[l].fee /\ a[l] = LinkAmount(t, alloc, M[l].fee)
  BY <1>1, <1>2
<1> HIDE DEF New, A, a, p, M
<1>14. PICK turned \in BOOLEAN : \A f \in A : LinkAmount(t, alloc, f) = Signed(turned, alloc[f])
  BY <1>1, LinkAmountsAre DEF A
<1>15. \A l \in New : alloc[p[l]] \in Int /\ a[l] = Signed(turned, alloc[p[l]])
  <2> SUFFICES ASSUME NEW l \in New PROVE alloc[p[l]] \in Int /\ a[l] = Signed(turned, alloc[p[l]])
    OBVIOUS
  <2>1. M[l].fee \in A
    BY <1>2
  <2>2. alloc[p[l]] \in Int /\ p[l] = M[l].fee /\ a[l] = LinkAmount(t, alloc, M[l].fee)
    BY <1>13
  <2>3. LinkAmount(t, alloc, M[l].fee) = Signed(turned, alloc[M[l].fee])
    BY <1>14, <2>1
  <2> QED BY <2>2, <2>3
<1>16. SumOver(a, New) = Signed(turned, SumOver(alloc, A))
  <2>1. SumOver(a, New) = Signed(turned, SumOver(alloc, {p[l] : l \in New}))
    BY <1>7, <1>12, <1>15, SumOverRows
  <2> QED BY <1>10, <2>1
<1>17. SumOver(a, New) \in {TotalOf(alloc), 0 - TotalOf(alloc)}
  BY <1>11, <1>16 DEF Signed
<1> QED BY <1>8, <1>9, <1>11, <1>17

(* Other entries keep what is spent of them.                               *)
LEMMA OthersKeepSpent ==
  ASSUME FeesInv, LinksInv, AmountsInv, NEW t, NEW alloc, Confirm(t, alloc), NEW u, u # t
  PROVE  SpentOn(u)' = SpentOn(u)
<1> DEFINE M == links'
<1>1. DOMAIN alloc \subseteq LiveFees
  BY DEF Confirm, Confirmable, Takes
<1>2. /\ DOMAIN links \subseteq DOMAIN M
      /\ \A l \in DOMAIN links : M[l] = links[l]
      /\ \A l \in DOMAIN M \ DOMAIN links : M[l].tx = t
  <2>1. M = LinksWith(t, alloc)
    BY DEF Confirm
  <2> QED BY <1>1, <2>1, LinksAdded
<1>3. /\ DOMAIN fees' = DOMAIN fees
      /\ \A f \in DOMAIN fees : fees'[f].live = fees[f].live
  BY ConfirmKeeps
<1>4. \A l \in DOMAIN links : links[l].fee \in DOMAIN fees
  BY DEF AmountsInv, PaymentRow
<1>5. Assigned(u)' = Assigned(u)
  <2>1. Assigned(u)' = {l \in DOMAIN M : M[l].live /\ M[l].tx = u /\ fees'[M[l].fee].live}
    BY DEF Assigned, LinksOfTx
  <2>2. Assigned(u) = {l \in DOMAIN links : links[l].live /\ links[l].tx = u /\ fees[links[l].fee].live}
    BY DEF Assigned, LinksOfTx
  <2>3. ASSUME NEW l \in DOMAIN M, M[l].tx = u PROVE l \in DOMAIN links
    BY <1>2, <2>3
  <2> HIDE DEF M
  <2> QED BY <1>2, <1>3, <1>4, <2>1, <2>2, <2>3
<1> DEFINE ls == Assigned(u)
<1>6. IsFiniteSet(ls) /\ \A l \in ls : links[l] = M[l]
  <2>1. DOMAIN links = 1 .. Len(links) /\ Len(links) \in Nat
    BY RowIds DEF LinksInv, Table
  <2>2. ls \subseteq DOMAIN links
    BY DEF Assigned, LinksOfTx
  <2>3. IsFiniteSet(1 .. Len(links)) /\ ls \in SUBSET (1 .. Len(links))
    BY <2>1, <2>2, FS_Interval
  <2> HIDE DEF ls, M
  <2> QED BY <1>2, <2>2, <2>3, FS_Subset
<1>7. SpentOn(u)' = SumOf(M, ls)
  BY <1>5 DEF SpentOn
<1>8. SpentOn(u) = SumOf(links, ls)
  BY DEF SpentOn
<1> HIDE DEF ls, M
<1> QED BY <1>6, <1>7, <1>8, SameRowsSum

(* A fee is never paid more than it is.                                    *)
LEMMA PaidByConfirm ==
  ASSUME FeesInv, LinksInv, AmountsInv, NEW t, NEW alloc, Confirm(t, alloc), NEW f \in LiveFees,
         PaidSinceReturn(links, f)' > PaidSinceReturn(links, f)
  PROVE  PaidSinceReturn(links, f)' <= fees'[f].amount
<1> DEFINE M == links'
           n == Len(links)
           ls == LinksOf(links, f)
           A == DOMAIN alloc
<1>1. A \subseteq LiveFees /\ t \in DOMAIN txs /\ txs[t].state = "live"
  BY DEF Confirm, Confirmable, Takes, Listed, LiveTxs
<1>2. /\ DOMAIN links \subseteq DOMAIN M
      /\ \A l \in DOMAIN links : M[l] = links[l]
      /\ \A l \in DOMAIN M \ DOMAIN links :
           M[l].tx = t /\ M[l].fee \in A /\ l > Len(links) /\ M[l].amount = LinkAmount(t, alloc, M[l].fee)
      /\ \A g \in A : \E l \in DOMAIN M :
           /\ l > Len(links) /\ M[l].tx = t /\ M[l].fee = g /\ M[l].live /\ M[l].prior = fees[g].paid
           /\ \A k \in DOMAIN M \ DOMAIN links : M[k].fee = g => k = l
  <2>1. M = LinksWith(t, alloc)
    BY DEF Confirm
  <2> QED BY <1>1, <2>1, LinksAdded
<1>3. DOMAIN links = 1 .. n /\ n \in Nat /\ ls \subseteq 1 .. n
  <2>1. DOMAIN links = 1 .. n /\ n \in Nat
    BY RowIds DEF LinksInv, Table
  <2> QED BY <2>1 DEF LinksOf
<1>4. /\ f \in DOMAIN fees /\ fees'[f].amount = fees[f].amount /\ fees[f].amount \in Int
      /\ \A u \in DOMAIN txs : txs'[u].state = txs[u].state
  BY ConfirmKeeps DEF LiveFees, AmountsInv
<1>5. \A l \in DOMAIN links : links[l].tx \in DOMAIN txs /\ links[l].amount \in Int
  BY DEF AmountsInv, PaymentRow
<1>6. \A l \in ls : M[l] = links[l] /\ links[l].amount \in Int
  BY <1>2, <1>3, <1>5
<1>7. PaidSinceReturn(links, f) = SumOf(links, Since(links, ls))
  BY DEF PaidSinceReturn, Since, Returned
<1> DEFINE ms == LinksOf(links, f)'
<1>8. PaidSinceReturn(links, f)' = SumOf(M, Since(M, ms))
  BY DEF PaidSinceReturn, Since, Returned
<1>9. /\ ms = {l \in DOMAIN M : M[l].live /\ M[l].fee = f /\ txs'[M[l].tx].state = "live"}
      /\ ls = {l \in DOMAIN links : links[l].live /\ links[l].fee = f /\ txs[links[l].tx].state = "live"}
  BY DEF LinksOf
<1>10. IsFiniteSet(Since(links, ls)) /\ SumOf(links, Since(links, ls)) \in Int
  BY <1>3, <1>6, PaidIsNumber
<1> HIDE DEF M, ms, ls, A, n
<1>11. \A l \in DOMAIN links : l \in ms <=> l \in ls
  BY <1>2, <1>4, <1>5, <1>9
<1>12. CASE f \notin A
  <2>1. ms = ls
    <3>1. \A l \in ms : l \in DOMAIN links
      BY <1>2, <1>9, <1>12
    <3>2. \A l \in ls : l \in DOMAIN links
      BY <1>9
    <3> QED BY <1>11, <3>1, <3>2
  <2>2. Since(M, ls) = Since(links, ls)
    <3>1. {l \in ls : M[l].amount < 0} = {l \in ls : links[l].amount < 0}
      BY <1>6
    <3> QED BY <3>1 DEF Since, Returned
  <2>3. SumOf(links, Since(links, ls)) = SumOf(M, Since(links, ls))
    <3>1. \A l \in Since(links, ls) : links[l] = M[l]
      BY <1>6 DEF Since
    <3> QED BY <1>10, <3>1, SameRowsSum
  <2>4. PaidSinceReturn(links, f)' = PaidSinceReturn(links, f)
    BY <1>7, <1>8, <2>1, <2>2, <2>3
  <2> QED BY <1>7, <1>10, <2>4
<1>13. CASE f \in A
  <2>1. PICK k \in DOMAIN M : /\ k > Len(links) /\ M[k].tx = t /\ M[k].fee = f /\ M[k].live
                              /\ \A j \in DOMAIN M \ DOMAIN links : M[j].fee = f => j = k
    BY <1>2, <1>13
  <2>2. k \in Nat /\ k > n /\ k \notin DOMAIN links
    <3>1. DOMAIN M \subseteq Nat
      <4>1. LinksInv'
        <5>1. M = LinksWith(t, alloc) /\ DOMAIN txs' = DOMAIN txs
          BY DEF Confirm, M
        <5>2. Table(M, LinkColumns)
          BY <1>1, <5>1, LinksAdded DEF A
        <5> QED BY <5>1, <5>2 DEF LinksInv, M
      <4> QED BY <4>1, RowIds DEF LinksInv, Table, M
    <3>2. k > n /\ k \in Nat
      BY <2>1, <3>1 DEF n
    <3> QED BY <1>3, <3>2
  <2>3. ms = ls \cup {k}
    <3>1. k \in ms
      BY <1>1, <1>4, <1>9, <2>1
    <3>2. \A l \in ms : l \in DOMAIN links \/ l = k
      BY <1>9, <2>1
    <3>3. \A l \in ls : l \in DOMAIN links
      BY <1>9
    <3> QED BY <1>11, <3>1, <3>2, <3>3
  <2>4. M[k].amount = LinkAmount(t, alloc, f) /\ alloc[f] \in Nat \ {0} /\ Takes(t, f, alloc[f])
    BY <1>2, <1>13, <2>1, <2>2 DEF Confirm, Confirmable, A
  <2> DEFINE before == PaidSinceReturn(links, f)
             after == PaidSinceReturn(links, f)'
  <2>5. before \in Int
    BY <1>7, <1>10
  <2>6. CASE Entries[t].isReturn
    <3>1. M[k].amount < 0
      BY <2>4, <2>6 DEF LinkAmount
    <3>2. after = 0
      BY <1>3, <1>8, <2>2, <2>3, <3>1, NothingSince
    <3>3. PaidCents(f) > 0
      BY <2>4, <2>6 DEF Takes
    <3>4. fees[f].amount > 0 \/ before > 0
      BY <3>3 DEF PaidCents
    <3> HIDE DEF before, after
    <3>5. before < 0
      BY <2>5, <3>2 DEF before, after
    <3> QED BY <1>4, <2>5, <3>2, <3>4, <3>5 DEF after
  <2>7. CASE ~ Entries[t].isReturn
    <3>1. M[k].amount = alloc[f] /\ M[k].amount \in Nat \ {0}
      <4>1. LinkAmount(t, alloc, f) = alloc[f]
        BY <2>7, Zenon DEF LinkAmount
      <4> QED BY <2>4, <4>1
    <3>2. after = M[k].amount + before
      <4>1. SumOf(M, Since(M, ls \cup {k})) = M[k].amount + SumOf(links, Since(links, ls))
        <5>1. OneMore(M, links, ls, n, k)
          BY <1>3, <1>6, <2>2 DEF OneMore
        <5> QED BY <3>1, <5>1, PaidOnTop
      <4> QED BY <1>7, <1>8, <2>3, <4>1
    <3>3. fees[f].paid = 0 /\ alloc[f] <= StillDue(f)
      BY <2>4, <2>7 DEF Takes, Open
    <3>4. alloc[f] <= fees[f].amount - before
      BY <3>3 DEF StillDue, PaidCents
    <3> HIDE DEF before, after
    <3>5. after <= fees[f].amount
      BY <1>4, <2>5, <3>1, <3>2, <3>4
    <3> QED BY <1>4, <3>5 DEF after
  <2> QED BY <2>6, <2>7
<1> QED BY <1>12, <1>13

(* Only a confirmation adds payments.                                      *)
LEMMA SpentOnceStep ==
  ASSUME MoneyInv, LinksInv, AmountsInv, [Next]_vars, Len(links') > Len(links)
  PROVE  /\ \A t \in DOMAIN Entries :
              SpentOn(t)' # SpentOn(t) => SpentOn(t)' <= txs'[t].amount /\ SpentOn(t)' >= -txs'[t].amount
         /\ \A f \in LiveFees :
              PaidSinceReturn(links, f)' > PaidSinceReturn(links, f)
                => PaidSinceReturn(links, f)' <= fees'[f].amount
<1>1. Rows(links) /\ Len(links) \in Nat /\ FeesInv
  BY DEF LinksInv, Table, Rows, MoneyInv
<1>2. ASSUME UNCHANGED links PROVE FALSE
  BY <1>1, <1>2
<1>3. FeesNext
  <2>1. ASSUME NEW m \in Member, DeleteMember(m) PROVE FALSE
    BY <1>2, <2>1 DEF DeleteMember, DeleteFinancesOf, statement
  <2>2. ASSUME NEW g \in Group, DeleteNamed(g) PROVE FALSE
    BY <1>2, <2>2 DEF DeleteNamed, feeVars, statement
  <2>3. ASSUME UNCHANGED feeVars PROVE FALSE
    BY <1>2, <2>3 DEF feeVars, statement
  <2> QED BY <2>1, <2>2, <2>3 DEF Next, vars
<1>4. PICK t, alloc : Confirm(t, alloc)
  <2>1. ~ StatementKept
    BY <1>2 DEF StatementKept
  <2>2. ASSUME PaymentsGone PROVE FALSE
    <3>1. Len(links') = Len(links)
      BY <1>1, <2>2, RowsChanged DEF PaymentsGone
    <3> QED BY <1>1, <3>1
  <2> QED BY <1>3, <2>1, <2>2, LinkSteps
<1>5. ASSUME NEW u \in DOMAIN Entries, SpentOn(u)' # SpentOn(u)
      PROVE  SpentOn(u)' <= txs'[u].amount /\ SpentOn(u)' >= -txs'[u].amount
  <2>1. u = t
    BY <1>1, <1>4, <1>5, OthersKeepSpent
  <2>2. TotalOf(alloc) \in Nat /\ SpentOn(t)' \in {TotalOf(alloc), 0 - TotalOf(alloc)}
    BY <1>1, <1>4, SpentByConfirm
  <2>3. t \in DOMAIN txs /\ TotalOf(alloc) <= txs[t].amount
    BY <1>4 DEF Confirm, Confirmable, Listed, LiveTxs
  <2>4. txs'[t].amount = txs[t].amount
    BY <1>1, <1>4, <2>3, ConfirmKeeps
  <2>5. txs[t].amount \in Nat
    BY <2>3 DEF AmountsInv, TxRow
  <2> DEFINE total == TotalOf(alloc)
             spent == SpentOn(t)'
             amount == txs[t].amount
  <2>6. total \in Nat /\ amount \in Nat /\ total <= amount /\ spent \in {total, 0 - total}
    BY <2>2, <2>3, <2>5
  <2>7. txs'[u].amount = amount /\ SpentOn(u)' = spent
    BY <2>1, <2>4
  <2> HIDE DEF total, spent, amount
  <2>8. spent <= amount /\ spent >= -amount
    BY <2>6
  <2> QED BY <2>7, <2>8
<1>6. ASSUME NEW f \in LiveFees, PaidSinceReturn(links, f)' > PaidSinceReturn(links, f)
      PROVE  PaidSinceReturn(links, f)' <= fees'[f].amount
  BY <1>1, <1>4, <1>6, PaidByConfirm
<1> QED BY <1>5, <1>6

(* However entries are edited, reopened, deleted and matched in between,   *)
(* no confirmation spends more of a bank entry than it is, or returns more,*)
(* and none pays more on a fee than it is.  Confirm checks the capacity of *)
(* each fee and the total against the entry again in its transaction, and  *)
(* the entry has no other payments then (ConfirmReconciliation).           *)
THEOREM MoneyNotSpentTwice == Spec => MoneyIsSpentOnce
<1>1. Init => MoneyInv /\ LinksInv /\ AmountsInv
  BY MoneyAtFirst, LinksAtFirst, AmountsAtFirst
<1>2. MoneyInv /\ LinksInv /\ AmountsInv /\ [Next]_vars => (MoneyInv /\ LinksInv /\ AmountsInv)'
  BY MoneyStep, LinksStep, AmountsStep DEF MoneyInv
<1> DEFINE Once ==
       Len(links') > Len(links) =>
         /\ \A t \in DOMAIN Entries :
              SpentOn(t)' # SpentOn(t) => SpentOn(t)' <= txs'[t].amount /\ SpentOn(t)' >= -txs'[t].amount
         /\ \A f \in LiveFees :
              PaidSinceReturn(links, f)' > PaidSinceReturn(links, f)
                => PaidSinceReturn(links, f)' <= fees'[f].amount
<1>3. MoneyInv /\ LinksInv /\ AmountsInv /\ [Next]_vars => [Once]_feeVars
  BY SpentOnceStep
<1>4. QED
  BY <1>1, <1>2, <1>3, PTL DEF Spec, MoneyIsSpentOnce
-----------------------------------------------------------------------------
(* The occurrences of a series.                                            *)

(* A time is a day and its half; the later of no time and another.         *)
LEMMA DayAndHalf ==
  /\ \A x \in Nat : DayOf(x) \in Nat /\ Half(x) \in {0, 1} /\ x = 2 * DayOf(x) + Half(x)
  /\ \A day \in Nat, h \in {0, 1} : DayOf(2 * day + h) = day /\ Half(2 * day + h) = h
BY DEF DayOf, Half

LEMMA LaterOf ==
  ASSUME NEW x \in Int, NEW y \in Int
  PROVE  /\ Max({x, y}) \in Int /\ x <= Max({x, y}) /\ y <= Max({x, y})
         /\ Max({x, y}) = x \/ Max({x, y}) = y
<1>1. CASE x <= y
  <2>1. y \in {x, y} /\ \A z \in {x, y} : y >= z
    BY <1>1
  <2>2. \A z \in {x, y} : (\A w \in {x, y} : z >= w) => z = y
    BY <1>1
  <2>3. Max({x, y}) = y
    BY <2>1, <2>2 DEF Max
  <2> QED BY <1>1, <2>3
<1>2. CASE ~ (x <= y)
  <2>1. x \in {x, y} /\ \A z \in {x, y} : x >= z
    BY <1>2
  <2>2. \A z \in {x, y} : (\A w \in {x, y} : z >= w) => z = x
    BY <1>2
  <2>3. Max({x, y}) = x
    BY <2>1, <2>2 DEF Max
  <2> QED BY <1>2, <2>3
<1> QED BY <1>1, <1>2

(* The contents an event can have (ValidEvent).                            *)
EventOk(c) ==
  /\ c.start \in Nat /\ 2 <= c.start /\ c.end \in Nat /\ c.until \in Nat /\ c.allDay \in BOOLEAN
  /\ c.recurrence \in {"none", "weekly", "biweekly", "monthly"}
  /\ c.start <= c.end /\ c.end - c.start <= 2 * 366

FirstDate(c) == DayOf(StartOf(c))
DateOf(c, k) == DayOf(StartAt(c, k))

LEMMA EventLasts ==
  ASSUME NEW c, EventOk(c)
  PROVE  /\ StartOf(c) \in Nat /\ FirstDate(c) \in Nat \ {0} /\ Half(StartOf(c)) \in {0, 1}
         /\ StartOf(c) = 2 * FirstDate(c) + Half(StartOf(c))
         /\ EndOf(c) \in Nat /\ Half(EndOf(c)) \in {0, 1} /\ SpanDays(c) \in 0 .. 367
         /\ EndOf(c) = 2 * (FirstDate(c) + SpanDays(c)) + Half(EndOf(c))
<1> DEFINE ds == DayOf(c.start)
           de == DayOf(c.end)
<1>1. /\ ds \in Nat \ {0} /\ de \in Nat /\ ds <= de /\ de - ds <= 367
      /\ Half(c.start) \in {0, 1} /\ c.start = 2 * ds + Half(c.start)
      /\ Half(c.end) \in {0, 1} /\ c.end = 2 * de + Half(c.end)
  <2>1. c.start \in Nat /\ 2 <= c.start /\ c.end \in Nat /\ c.start <= c.end /\ c.end - c.start <= 2 * 366
    BY DEF EventOk
  <2>2. /\ ds \in Nat /\ Half(c.start) \in {0, 1} /\ c.start = 2 * ds + Half(c.start)
        /\ de \in Nat /\ Half(c.end) \in {0, 1} /\ c.end = 2 * de + Half(c.end)
    BY <2>1, DayAndHalf
  <2> HIDE DEF ds, de
  <2> QED BY <2>1, <2>2
<1> DEFINE s == StartOf(c)
           t == EndOf(c)
<1>2. CASE c.allDay
  <2>1. s = 2 * ds + 0
    BY <1>1, <1>2 DEF StartOf, Midnight
  <2>2. s \in Nat /\ DayOf(s) = ds /\ Half(s) = 0
    <3> HIDE DEF ds
    <3> QED BY <1>1, <2>1, DayAndHalf
  <2>3. t = Max({2 * de, s + 2})
    BY <1>2 DEF EndOf, Midnight
  <2>4. t = 2 * de + 0 \/ t = 2 * (ds + 1) + 0
    <3> HIDE DEF ds, de, s
    <3>1. 2 * de \in Int /\ s + 2 \in Int /\ s + 2 = 2 * (ds + 1) + 0 /\ 2 * de = 2 * de + 0
      BY <1>1, <2>1
    <3>2. t = 2 * de \/ t = s + 2
      BY <2>3, <3>1, LaterOf
    <3> QED BY <3>1, <3>2
  <2>5. t >= s + 2
    <3> HIDE DEF ds, de, s
    <3> QED BY <1>1, <2>1, <2>3, LaterOf
  <2>6. PICK d \in {de, ds + 1} : t = 2 * d + 0
    BY <2>4
  <2>7. d \in Nat /\ ds <= d /\ d - ds <= 367
    <3> HIDE DEF ds, de, s
    <3> QED BY <1>1, <2>6
  <2> HIDE DEF s, t, ds, de
  <2>8. t \in Nat /\ DayOf(t) = d /\ Half(t) = 0
    BY <2>6, <2>7, DayAndHalf
  <2>9. SpanDays(c) = d - ds /\ FirstDate(c) = ds
    BY <2>2, <2>8 DEF SpanDays, FirstDate, s, t
  <2>10. s = 2 * FirstDate(c) + Half(s) /\ t = 2 * (FirstDate(c) + SpanDays(c)) + Half(t)
    BY <1>1, <2>1, <2>2, <2>6, <2>7, <2>8, <2>9
  <2>11. SpanDays(c) \in 0 .. 367
    BY <1>1, <2>7, <2>9
  <2> QED BY <1>1, <2>2, <2>8, <2>9, <2>10, <2>11 DEF s, t
<1>3. CASE ~ c.allDay
  <2>1. s = c.start /\ t = c.end
    BY <1>3 DEF StartOf, EndOf
  <2>2. SpanDays(c) = de - ds /\ FirstDate(c) = ds
    BY <2>1 DEF SpanDays, FirstDate
  <2>3. c.start \in Nat /\ c.end \in Nat
    BY DEF EventOk
  <2> HIDE DEF s, t, ds, de
  <2>4. s = 2 * FirstDate(c) + Half(s) /\ t = 2 * (FirstDate(c) + SpanDays(c)) + Half(t) /\ SpanDays(c) \in 0 .. 367
    BY <1>1, <2>1, <2>2
  <2> QED BY <1>1, <2>1, <2>2, <2>3, <2>4 DEF s, t
<1> QED BY <1>2, <1>3

(* Months are 28 to 31 days apart.                                         *)
LEMMA MonthsApart ==
  ASSUME NEW m \in Nat \ {0}, NEW q0 \in Nat
  PROVE  FirstDay[m] + 28 * q0 <= FirstDay[m + q0] /\ FirstDay[m + q0] <= FirstDay[m] + 31 * q0
<1> DEFINE Bad == {q \in Nat : ~ (FirstDay[m] + 28 * q <= FirstDay[m + q] /\ FirstDay[m + q] <= FirstDay[m] + 31 * q)}
<1> SUFFICES ASSUME q0 \in Bad PROVE FALSE
  OBVIOUS
<1>1. PICK q \in Bad : \A i \in Bad : q <= i
  <2>1. Bad \subseteq Nat
    OBVIOUS
  <2> HIDE DEF Bad
  <2> QED BY <2>1, Smallest
<1>2. FirstDay[m] \in Nat
  BY FirstDayGrows
<1>3. q # 0
  <2>1. m + 0 = m /\ 28 * 0 = 0 /\ 31 * 0 = 0
    OBVIOUS
  <2> QED BY <1>1, <1>2, <2>1
<1> DEFINE p == q - 1
<1>4. p \in Nat /\ p < q /\ m + p \in Nat \ {0} /\ (m + p) + 1 = m + q /\ q = p + 1
  BY <1>1, <1>3
<1> HIDE DEF p
<1>5. FirstDay[m] + 28 * p <= FirstDay[m + p] /\ FirstDay[m + p] <= FirstDay[m] + 31 * p
  BY <1>1, <1>4
<1>6. FirstDay[m + q] = FirstDay[m + p] + MonthLength(m + p) /\ MonthLength(m + p) \in 28 .. 31 /\ FirstDay[m + p] \in Nat
  BY <1>4, FirstDayNext, MonthLengths, FirstDayGrows
<1>7. FirstDay[m] + 28 * q <= FirstDay[m + q] /\ FirstDay[m + q] <= FirstDay[m] + 31 * q
  BY <1>2, <1>4, <1>5, <1>6
<1> QED BY <1>1, <1>7

(* The dates of a series, and how far they are apart.                      *)
LEMMA DatesAre ==
  ASSUME NEW c, EventOk(c), NEW k \in Nat
  PROVE  /\ DateOf(c, k) \in Nat \ {0}
         /\ StartAt(c, k) = 2 * DateOf(c, k) + Half(StartOf(c))
         /\ c.recurrence = "weekly" => DateOf(c, k) = FirstDate(c) + 7 * k
         /\ c.recurrence = "biweekly" => DateOf(c, k) = FirstDate(c) + 14 * k
         /\ c.recurrence = "monthly" => DateOf(c, k) = FirstDay[MonthOf(FirstDate(c)) + k] + DayInMonth(FirstDate(c))
         /\ c.recurrence = "none" => DateOf(c, k) = FirstDate(c)
<1> DEFINE D == FirstDate(c)
           h == Half(StartOf(c))
<1>1. D \in Nat \ {0} /\ h \in {0, 1} /\ StartOf(c) = 2 * D + h
  BY EventLasts
<1>2. ASSUME NEW d \in Nat \ {0}, StartAt(c, k) = 2 * d + h
      PROVE  DateOf(c, k) = d /\ DateOf(c, k) \in Nat \ {0} /\ StartAt(c, k) = 2 * DateOf(c, k) + h
  <2> HIDE DEF D, h
  <2>1. DayOf(2 * d + h) = d
    BY <1>1, DayAndHalf
  <2> QED BY <1>2, <2>1 DEF DateOf
<1>3. CASE c.recurrence = "weekly"
  <2>1. StartAt(c, k) = StartOf(c) + 2 * 7 * k
    BY <1>3 DEF StartAt, StepDays
  <2> HIDE DEF D, h
  <2>2. StartAt(c, k) = 2 * (D + 7 * k) + h /\ D + 7 * k \in Nat \ {0}
    BY <1>1, <2>1
  <2> QED BY <1>2, <1>3, <2>2 DEF D, h
<1>4. CASE c.recurrence = "biweekly"
  <2>1. StartAt(c, k) = StartOf(c) + 2 * 14 * k
    BY <1>4 DEF StartAt, StepDays
  <2> HIDE DEF D, h
  <2>2. StartAt(c, k) = 2 * (D + 14 * k) + h /\ D + 14 * k \in Nat \ {0}
    BY <1>1, <2>1
  <2> QED BY <1>2, <1>4, <2>2 DEF D, h
<1>5. CASE c.recurrence = "monthly"
  <2> DEFINE d == FirstDay[MonthOf(D) + k] + DayInMonth(D)
  <2>1. StartAt(c, k) = 2 * d + h
    BY <1>5 DEF StartAt, Midnight, FirstDate
  <2> HIDE DEF D, h
  <2>2. MonthOf(D) \in Nat \ {0} /\ MonthLength(MonthOf(D)) \in 28 .. 31 /\ DayInMonth(D) \in 0 .. MonthLength(MonthOf(D)) - 1
    BY <1>1, MonthExists, MonthLengths
  <2>3. MonthOf(D) + k \in Nat \ {0} /\ DayInMonth(D) \in Nat
    BY <2>2
  <2>4. FirstDay[MonthOf(D) + k] \in Nat /\ MonthOf(D) + k <= FirstDay[MonthOf(D) + k]
    BY <2>3, FirstDayGrows
  <2>5. d \in Nat \ {0}
    BY <2>3, <2>4
  <2>6. DateOf(c, k) = d /\ DateOf(c, k) \in Nat \ {0} /\ StartAt(c, k) = 2 * DateOf(c, k) + h
    <3> HIDE DEF d
    <3> QED BY <1>2, <2>1, <2>5
  <2> QED BY <1>5, <2>6 DEF D, h
<1>6. CASE c.recurrence = "none"
  <2>1. StartAt(c, k) = StartOf(c)
    BY <1>6 DEF StartAt
  <2> HIDE DEF D, h
  <2>2. StartAt(c, k) = 2 * D + h
    BY <1>1, <2>1
  <2> QED BY <1>1, <1>2, <1>6, <2>2 DEF D, h
<1>7. c.recurrence \in {"none", "weekly", "biweekly", "monthly"}
  BY DEF EventOk
<1> QED BY <1>3, <1>4, <1>5, <1>6, <1>7

LEMMA DatesApart ==
  ASSUME NEW c, EventOk(c), Repeats(c), NEW i \in Nat, NEW j \in Nat, i <= j
  PROVE  /\ DateOf(c, i) + 7 * (j - i) <= DateOf(c, j)
         /\ c.recurrence = "monthly" => DateOf(c, i) + 28 * (j - i) <= DateOf(c, j)
<1> DEFINE D == FirstDate(c)
<1>1. D \in Nat \ {0}
  BY EventLasts
<1>2. CASE c.recurrence = "weekly"
  <2>1. DateOf(c, i) = D + 7 * i /\ DateOf(c, j) = D + 7 * j
    BY <1>2, DatesAre
  <2> HIDE DEF D
  <2>2. DateOf(c, i) + 7 * (j - i) <= DateOf(c, j)
    BY <1>1, <2>1
  <2> QED BY <1>2, <2>2
<1>3. CASE c.recurrence = "biweekly"
  <2>1. DateOf(c, i) = D + 14 * i /\ DateOf(c, j) = D + 14 * j
    BY <1>3, DatesAre
  <2> HIDE DEF D
  <2>2. DateOf(c, i) + 7 * (j - i) <= DateOf(c, j)
    BY <1>1, <2>1
  <2> QED BY <1>3, <2>2
<1>4. CASE c.recurrence = "monthly"
  <2> DEFINE m == MonthOf(D)
             d == DayInMonth(D)
             q == j - i
  <2>1. DateOf(c, i) = FirstDay[m + i] + d /\ DateOf(c, j) = FirstDay[m + j] + d
    BY <1>4, DatesAre
  <2> HIDE DEF D
  <2>2. m \in Nat \ {0} /\ MonthLength(m) \in 28 .. 31 /\ d \in 0 .. MonthLength(m) - 1
    BY <1>1, MonthExists, MonthLengths
  <2> HIDE DEF m, d
  <2>3. m + i \in Nat \ {0} /\ m + j \in Nat \ {0} /\ q \in Nat /\ (m + i) + q = m + j /\ d \in Nat
    BY <2>2
  <2> HIDE DEF q
  <2>4. FirstDay[m + i] \in Nat /\ FirstDay[m + j] \in Nat /\ FirstDay[m + i] + 28 * q <= FirstDay[m + j]
    <3>1. FirstDay[m + i] + 28 * q <= FirstDay[(m + i) + q]
      BY <2>3, MonthsApart
    <3> QED BY <2>3, <3>1, FirstDayGrows
  <2>5. DateOf(c, i) + 28 * q <= DateOf(c, j) /\ DateOf(c, i) + 7 * q <= DateOf(c, j)
    BY <2>1, <2>3, <2>4
  <2> QED BY <2>5 DEF q
<1>5. c.recurrence \in {"weekly", "biweekly", "monthly"}
  BY DEF EventOk, Repeats
<1> QED BY <1>2, <1>3, <1>4, <1>5

(* Where the listing begins: at the first occurrence, or some before the   *)
(* window.                                                                 *)
StepsBefore(c, from) ==
  IF c.recurrence = "monthly" THEN MonthOf(from) - MonthOf(FirstDate(c)) - SpanDays(c) \div 28 - 1
  ELSE (from - FirstDate(c)) \div StepDays(c) - SpanDays(c) \div StepDays(c) - 1

LEMMA JumpIs ==
  ASSUME NEW c, EventOk(c), NEW from \in Nat \ {0}
  PROVE  /\ Jump(c, from) \in Nat
         /\ ~ Repeats(c) => Jump(c, from) = 0
         /\ Repeats(c) => \/ Jump(c, from) = 0 /\ from <= FirstDate(c)
                          \/ /\ FirstDate(c) <= from /\ StepsBefore(c, from) <= Jump(c, from)
                             /\ Jump(c, from) = 0 \/ Jump(c, from) = StepsBefore(c, from)
<1> DEFINE D == FirstDate(c)
           x == StepsBefore(c, from)
<1>1. /\ D \in Nat \ {0} /\ Half(StartOf(c)) \in {0, 1} /\ StartOf(c) = 2 * D + Half(StartOf(c))
      /\ SpanDays(c) \in 0 .. 367
  BY EventLasts
<1>2. x \in Int
  <2>1. MonthOf(from) \in Nat /\ MonthOf(D) \in Nat
    <3> HIDE DEF D
    <3> QED BY <1>1, MonthExists
  <2>2. SpanDays(c) \div 28 \in Int /\ SpanDays(c) \div StepDays(c) \in Int /\ (from - D) \div StepDays(c) \in Int
    <3>1. from - D \in Int /\ SpanDays(c) \in Int
      BY <1>1
    <3>2. StepDays(c) = 7 \/ StepDays(c) = 14
      BY DEF StepDays
    <3> HIDE DEF D
    <3> QED BY <3>1, <3>2
  <2> QED BY <2>1, <2>2 DEF StepsBefore
<1>3. CASE ~ Repeats(c) \/ Midnight(from) <= StartOf(c)
  <2>1. Jump(c, from) = 0
    BY <1>3 DEF Jump
  <2>2. Repeats(c) => from <= D
    <3> HIDE DEF D
    <3> QED BY <1>1, <1>3 DEF Midnight
  <2> QED BY <2>1, <2>2
<1>4. CASE Repeats(c) /\ ~ (Midnight(from) <= StartOf(c))
  <2>1. Jump(c, from) = Max({0, x})
    BY <1>4 DEF Jump, StepsBefore, FirstDate
  <2>2. D <= from
    <3> HIDE DEF D
    <3> QED BY <1>1, <1>4 DEF Midnight
  <2> HIDE DEF x
  <2>3. Max({0, x}) \in Int /\ 0 <= Max({0, x}) /\ x <= Max({0, x}) /\ (Max({0, x}) = 0 \/ Max({0, x}) = x)
    BY <1>2, LaterOf
  <2> QED BY <1>4, <2>1, <2>2, <2>3 DEF x
<1> QED BY <1>3, <1>4

(* What comes before that has ended when the window begins.                *)
LEMMA JumpLosesNone ==
  ASSUME NEW c, EventOk(c), Repeats(c), NEW from \in Nat \ {0}, NEW j \in Nat,
         HasDay(c, j), EndAt(c, j) > Midnight(from)
  PROVE  Jump(c, from) <= j
<1> DEFINE D == FirstDate(c)
           n == SpanDays(c)
           d == DateOf(c, j)
           h == Half(EndOf(c))
<1>1. D \in Nat \ {0} /\ n \in Nat /\ h \in {0, 1} /\ d \in Nat \ {0}
  <2>1. D \in Nat \ {0} /\ n \in Nat /\ h \in {0, 1}
    BY EventLasts
  <2>2. d \in Nat \ {0}
    BY DatesAre
  <2> HIDE DEF D, n, d, h
  <2> QED BY <2>1, <2>2
<1>2. from <= d + n
  <2>1. EndAt(c, j) = 2 * (d + n) + h
    BY DEF EndAt, Midnight, DateOf
  <2> HIDE DEF n, d, h
  <2> QED BY <1>1, <2>1 DEF Midnight
<1>3. CASE Jump(c, from) = 0
  BY <1>3
<1>4. CASE Jump(c, from) # 0
  <2>1. Jump(c, from) = StepsBefore(c, from) /\ D <= from
    BY <1>4, JumpIs
  <2>2. CASE c.recurrence = "weekly"
    <3>1. d = D + 7 * j /\ StepsBefore(c, from) = (from - D) \div 7 - n \div 7 - 1
      BY <2>2, DatesAre DEF StepsBefore, StepDays
    <3> HIDE DEF D, n, d
    <3>2. (from - D) \div 7 - n \div 7 - 1 <= j
      BY <1>1, <1>2, <2>1, <3>1
    <3> QED BY <2>1, <3>1, <3>2
  <2>3. CASE c.recurrence = "biweekly"
    <3>1. d = D + 14 * j /\ StepsBefore(c, from) = (from - D) \div 14 - n \div 14 - 1
      BY <2>3, DatesAre DEF StepsBefore, StepDays
    <3> HIDE DEF D, n, d
    <3>2. (from - D) \div 14 - n \div 14 - 1 <= j
      BY <1>1, <1>2, <2>1, <3>1
    <3> QED BY <2>1, <3>1, <3>2
  <2>4. CASE c.recurrence = "monthly"
    <3> DEFINE m == MonthOf(D)
               M == MonthOf(from)
               b == n \div 28
               k == m + j
    <3>1. d = FirstDay[k] + DayInMonth(D) /\ StepsBefore(c, from) = M - m - b - 1
      BY <2>4, DatesAre DEF StepsBefore
    <3>2. DayInMonth(D) < MonthLength(k)
      BY <2>4 DEF HasDay, FirstDate
    <3>3. m \in Nat \ {0} /\ M \in Nat \ {0} /\ FirstDay[M] <= from /\ DayInMonth(D) \in Int
      <4>1. D \in Nat \ {0}
        BY <1>1
      <4> HIDE DEF D
      <4>2. MonthLength(m) \in 28 .. 31 /\ DayInMonth(D) \in 0 .. MonthLength(m) - 1
        BY <4>1, MonthExists, MonthLengths
      <4> QED BY <4>1, <4>2, MonthExists
    <3>4. b \in Nat /\ n < 28 * (b + 1)
      <4> HIDE DEF n
      <4> QED BY <1>1
    <3> HIDE DEF m, M, b, D, n, d
    <3>5. k \in Nat \ {0} /\ k + 1 \in Nat \ {0}
      BY <3>3
    <3> HIDE DEF k
    <3>6. /\ FirstDay[k + 1] = FirstDay[k] + MonthLength(k) /\ MonthLength(k) \in 28 .. 31
          /\ FirstDay[k] \in Nat /\ FirstDay[k + 1] \in Nat /\ FirstDay[M] \in Nat
      BY <3>3, <3>5, FirstDayNext, MonthLengths, FirstDayGrows
    <3>7. d < FirstDay[k + 1]
      BY <3>1, <3>2, <3>3, <3>6
    <3>8. M - m - b - 1 <= j
      <4> SUFFICES ASSUME ~ (M - m - b - 1 <= j) PROVE FALSE
        OBVIOUS
      <4> DEFINE q == M - (k + 1)
      <4>1. q \in Nat /\ (k + 1) + q = M /\ b + 1 <= q
        BY <3>3, <3>4, <3>5 DEF k
      <4> HIDE DEF q
      <4>2. FirstDay[k + 1] + 28 * q <= FirstDay[M]
        <5>1. FirstDay[k + 1] + 28 * q <= FirstDay[(k + 1) + q]
          BY <3>5, <4>1, MonthsApart
        <5> QED BY <4>1, <5>1
      <4> QED BY <1>1, <1>2, <3>3, <3>4, <3>6, <3>7, <4>1, <4>2
    <3> QED BY <2>1, <3>1, <3>8
  <2>5. c.recurrence \in {"weekly", "biweekly", "monthly"}
    BY DEF EventOk, Repeats
  <2> QED BY <2>2, <2>3, <2>4, <2>5
<1> QED BY <1>3, <1>4

(* The occurrences that are tried reach beyond the window.                 *)
LEMMA WindowEnds ==
  ASSUME NEW c, EventOk(c), Repeats(c), NEW from \in Nat \ {0}, NEW to \in Nat,
         (to - from) + 366 + 31 <= 7 * MaxOccurrences
  PROVE  to < DateOf(c, Jump(c, from) + MaxOccurrences)
<1> DEFINE D == FirstDate(c)
           n == SpanDays(c)
           J == Jump(c, from)
           d == DateOf(c, J)
           x == StepsBefore(c, from)
           last == DateOf(c, J + MaxOccurrences)
<1>1. MaxOccurrences \in Nat \ {0} /\ 366 + 31 <= 7 * MaxOccurrences
  BY CalendarAssumption DEF CalendarAssumption
<1>2. J \in Nat /\ D \in Nat \ {0} /\ n \in 0 .. 367
  BY EventLasts, JumpIs
<1>3. (J = 0 /\ from <= D) \/ (D <= from /\ x <= J)
  BY JumpIs
<1>4. d \in Nat \ {0} /\ last \in Nat /\ J + MaxOccurrences \in Nat
  <2> HIDE DEF J
  <2>1. J + MaxOccurrences \in Nat
    BY <1>1, <1>2
  <2> QED BY <1>2, <2>1, DatesAre
<1>5. /\ d + 7 * MaxOccurrences <= last
      /\ c.recurrence = "monthly" => d + 28 * MaxOccurrences <= last
  <2> HIDE DEF J
  <2> DEFINE K == J + MaxOccurrences
  <2>1. K \in Nat /\ J <= K /\ K - J = MaxOccurrences
    BY <1>1, <1>2
  <2> HIDE DEF K
  <2>2. /\ DateOf(c, J) + 7 * (K - J) <= DateOf(c, K)
        /\ c.recurrence = "monthly" => DateOf(c, J) + 28 * (K - J) <= DateOf(c, K)
    BY <1>2, <2>1, DatesApart
  <2> QED BY <2>1, <2>2 DEF K
<1>6. CASE c.recurrence = "weekly"
  <2>1. d = D + 7 * J /\ x = (from - D) \div 7 - n \div 7 - 1
    BY <1>2, <1>6, DatesAre DEF StepsBefore, StepDays
  <2> HIDE DEF D, n, J, d, x, last
  <2>2. from - n - 28 <= d
    BY <1>2, <1>3, <2>1
  <2>3. to < last
    BY <1>1, <1>2, <1>4, <1>5, <2>2
  <2> QED BY <2>3 DEF last, J
<1>7. CASE c.recurrence = "biweekly"
  <2>1. d = D + 14 * J /\ x = (from - D) \div 14 - n \div 14 - 1
    BY <1>2, <1>7, DatesAre DEF StepsBefore, StepDays
  <2> HIDE DEF D, n, J, d, x, last
  <2>2. from - n - 28 <= d
    BY <1>2, <1>3, <2>1
  <2>3. to < last
    BY <1>1, <1>2, <1>4, <1>5, <2>2
  <2> QED BY <2>3 DEF last, J
<1>8. CASE c.recurrence = "monthly"
  <2> DEFINE m == MonthOf(D)
             M == MonthOf(from)
             b == n \div 28
             k == m + J
  <2>1. d = FirstDay[k] + DayInMonth(D) /\ x = M - m - b - 1
    BY <1>2, <1>8, DatesAre DEF StepsBefore
  <2>2. m \in Nat \ {0} /\ M \in Nat \ {0} /\ from < FirstDay[M + 1] /\ DayInMonth(D) \in Nat
    <3>1. D \in Nat \ {0}
      BY <1>2
    <3> HIDE DEF D
    <3>2. MonthLength(m) \in 28 .. 31 /\ DayInMonth(D) \in 0 .. MonthLength(m) - 1
      BY <3>1, MonthExists, MonthLengths
    <3> QED BY <3>1, <3>2, MonthExists
  <2>3. b \in Nat /\ 28 * b <= n
    <3> HIDE DEF n
    <3> QED BY <1>2
  <2>4. D < FirstDay[m + 1] /\ FirstDay[m] <= D /\ DayInMonth(D) = D - FirstDay[m]
    <3>1. D \in Nat \ {0}
      BY <1>2
    <3> HIDE DEF D
    <3> QED BY <3>1, MonthExists DEF DayInMonth
  <2>5. k \in Nat \ {0} /\ M + 1 \in Nat \ {0}
    <3> HIDE DEF m, M, J
    <3> QED BY <1>2, <2>2
  <2>6. FirstDay[k] \in Nat /\ FirstDay[M + 1] \in Nat
    <3> HIDE DEF k
    <3> QED BY <2>5, FirstDayGrows
  <2> HIDE DEF D, n, J, d, x, last, m, M, b
  <2>7. from <= d + 31 * (b + 2)
    <3>1. CASE J = 0 /\ from <= D
      <4>1. k = m
        BY <2>2, <3>1
      <4>2. d = D
        BY <1>2, <2>1, <2>4, <2>6, <4>1
      <4> QED BY <1>2, <2>3, <3>1, <4>2
    <3>2. CASE x <= J
      <4>1. M + 1 <= k + b + 2
        BY <1>2, <2>1, <2>2, <2>3, <3>2
      <4> HIDE DEF k
      <4>2. CASE M + 1 <= k
        <5>1. FirstDay[M + 1] <= FirstDay[k]
          <6> DEFINE q == k - (M + 1)
          <6>1. q \in Nat /\ (M + 1) + q = k
            BY <2>5, <4>2
          <6> HIDE DEF q
          <6>2. FirstDay[M + 1] + 28 * q <= FirstDay[(M + 1) + q]
            BY <2>5, <6>1, MonthsApart
          <6> QED BY <2>6, <6>1, <6>2
        <5> QED BY <1>4, <2>1, <2>2, <2>3, <2>6, <5>1
      <4>3. CASE ~ (M + 1 <= k)
        <5> DEFINE q == (M + 1) - k
        <5>1. q \in Nat /\ k + q = M + 1 /\ q <= b + 2
          BY <2>2, <2>3, <2>5, <4>1, <4>3
        <5> HIDE DEF q
        <5>2. FirstDay[k + q] <= FirstDay[k] + 31 * q
          BY <2>5, <5>1, MonthsApart
        <5>3. FirstDay[M + 1] <= FirstDay[k] + 31 * q
          BY <5>1, <5>2
        <5> QED BY <1>4, <2>1, <2>2, <2>3, <2>6, <5>1, <5>3
      <4> QED BY <4>2, <4>3
    <3> QED BY <1>3, <3>1, <3>2
  <2>8. d + 28 * MaxOccurrences <= last
    BY <1>5, <1>8
  <2>9. to < last
    BY <1>1, <1>2, <1>4, <2>3, <2>7, <2>8
  <2> QED BY <2>9 DEF last, J
<1>9. c.recurrence \in {"weekly", "biweekly", "monthly"}
  BY DEF EventOk, Repeats
<1> QED BY <1>6, <1>7, <1>8, <1>9

(* What is listed is what overlaps the window.                             *)
Indexes(c) == IF Repeats(c) THEN Nat ELSE {0}
Overlapping(c, off, from, to) ==
  {j \in Indexes(c) : /\ HasDay(c, j) /\ DateOf(c, j) <= to /\ (c.until # 0 => DateOf(c, j) <= c.until)
                      /\ EndAt(c, j) > Midnight(from) /\ DateOf(c, j) \notin off}

LEMMA PastIs ==
  ASSUME NEW c, EventOk(c), NEW k \in Nat, NEW to \in Nat
  PROVE  Past(c, k, to) <=> DateOf(c, k) > to \/ (c.until # 0 /\ DateOf(c, k) > c.until)
<1> DEFINE d == DateOf(c, k)
           h == Half(StartOf(c))
<1>1. d \in Nat /\ h \in {0, 1} /\ c.until \in Nat /\ StartAt(c, k) = 2 * d + h
  BY EventLasts, DatesAre DEF EventOk
<1> HIDE DEF d, h
<1>2. Past(c, k, to) <=> 2 * d + h >= 2 * (to + 1) \/ (c.until # 0 /\ 2 * d + h >= 2 * (c.until + 1))
  BY <1>1 DEF Past, Midnight
<1>3. 2 * d + h >= 2 * (to + 1) <=> d > to
  BY <1>1
<1>4. 2 * d + h >= 2 * (c.until + 1) <=> d > c.until
  BY <1>1
<1> QED BY <1>2, <1>3, <1>4 DEF d

LEMMA ExpandLists ==
  ASSUME NEW c, EventOk(c), NEW off, NEW from \in Nat \ {0}, NEW to \in Nat,
         (to - from) + 366 + 31 <= 7 * MaxOccurrences
  PROVE  Expand(c, off, from, to) = {DateOf(c, k) : k \in Overlapping(c, off, from, to)}
<1> DEFINE first == Jump(c, from)
           tries == IF Repeats(c) THEN first .. first + MaxOccurrences - 1 ELSE {0}
           S == {k \in tries : Past(c, k, to)} \cup {first + MaxOccurrences}
           stop == Min(S)
           tried == {j \in tries : /\ j < stop /\ HasDay(c, j) /\ EndAt(c, j) > Midnight(from)
                                   /\ DateOf(c, j) \notin off}
<1>1. Expand(c, off, from, to) = {DateOf(c, k) : k \in tried}
  BY DEF Expand, DateOf
<1>2. MaxOccurrences \in Nat \ {0} /\ first \in Nat /\ (~ Repeats(c) => first = 0)
  BY JumpIs, CalendarAssumption DEF CalendarAssumption
<1>3. /\ Repeats(c) => \A j \in Nat : j \in tries <=> first <= j /\ j < first + MaxOccurrences
      /\ ~ Repeats(c) => tries = {0}
  <2> HIDE DEF first
  <2> QED BY <1>2
<1> HIDE DEF first, tries
<1>4. \A j \in tries : j \in Nat /\ j \in Indexes(c) /\ j < first + MaxOccurrences
  <2>1. CASE Repeats(c)
    <3>1. tries = first .. first + MaxOccurrences - 1
      BY <2>1 DEF tries
    <3> QED BY <1>2, <2>1, <3>1 DEF Indexes
  <2>2. CASE ~ Repeats(c)
    BY <1>2, <1>3, <2>2 DEF Indexes
  <2> QED BY <2>1, <2>2
<1>5. stop \in S /\ \A k \in S : stop <= k
  <2>1. first + MaxOccurrences \in S /\ S \subseteq Nat
    BY <1>2, <1>4
  <2> HIDE DEF S
  <2>2. \E m \in S : \A k \in S : m <= k
    BY <2>1, Smallest
  <2> QED BY <2>2 DEF Min
<1> HIDE DEF stop
<1>6. ASSUME NEW j \in tries PROVE j < stop <=> ~ Past(c, j, to)
  <2>1. j \in Nat /\ j < first + MaxOccurrences
    BY <1>4
  <2>2. ASSUME Past(c, j, to) PROVE ~ (j < stop)
    <3>1. stop <= j
      BY <1>5, <2>2
    <3>2. stop \in Nat
      BY <1>2, <1>4, <1>5
    <3> QED BY <2>1, <3>1, <3>2
  <2>3. ASSUME ~ (j < stop) PROVE Past(c, j, to)
    <3>1. stop \in tries /\ Past(c, stop, to) /\ stop \in Nat /\ stop <= j
      <4>1. stop \in Nat
        BY <1>2, <1>4, <1>5
      <4>2. stop # first + MaxOccurrences
        BY <1>2, <2>1, <2>3, <4>1
      <4> QED BY <1>5, <2>1, <2>3, <4>1, <4>2
    <3>2. CASE stop = j
      BY <3>1, <3>2
    <3>3. CASE stop # j
      <4>1. Repeats(c)
        <5>1. tries # {0}
          BY <3>1, <3>3
        <5> QED BY <1>3, <5>1
      <4>2. DateOf(c, stop) + 7 * (j - stop) <= DateOf(c, j)
        BY <2>1, <3>1, <4>1, DatesApart
      <4>3. DateOf(c, stop) \in Nat /\ DateOf(c, j) \in Nat /\ c.until \in Nat
        BY <2>1, <3>1, DatesAre DEF EventOk
      <4>4. DateOf(c, stop) <= DateOf(c, j)
        BY <2>1, <3>1, <4>2, <4>3
      <4>5. Past(c, stop, to) <=> DateOf(c, stop) > to \/ (c.until # 0 /\ DateOf(c, stop) > c.until)
        BY <3>1, PastIs
      <4>6. Past(c, j, to) <=> DateOf(c, j) > to \/ (c.until # 0 /\ DateOf(c, j) > c.until)
        BY <2>1, PastIs
      <4> QED BY <3>1, <4>3, <4>4, <4>5, <4>6
    <3> QED BY <3>2, <3>3
  <2> QED BY <2>2, <2>3
<1>7. ASSUME NEW j \in Indexes(c), HasDay(c, j), EndAt(c, j) > Midnight(from), DateOf(c, j) <= to
      PROVE  j \in tries
  <2>1. CASE Repeats(c)
    <3>1. j \in Nat
      BY <2>1 DEF Indexes
    <3>2. first <= j
      BY <1>7, <2>1, <3>1, JumpLosesNone DEF first
    <3>3. j < first + MaxOccurrences
      <4> SUFFICES ASSUME ~ (j < first + MaxOccurrences) PROVE FALSE
        OBVIOUS
      <4> DEFINE last == first + MaxOccurrences
      <4>1. last \in Nat /\ last <= j
        BY <1>2, <3>1
      <4>2. to < DateOf(c, last)
        BY <2>1, WindowEnds DEF first
      <4> HIDE DEF last
      <4>3. DateOf(c, last) + 7 * (j - last) <= DateOf(c, j)
        BY <2>1, <3>1, <4>1, DatesApart
      <4>4. DateOf(c, last) \in Nat /\ DateOf(c, j) \in Nat
        BY <3>1, <4>1, DatesAre
      <4> QED BY <1>7, <3>1, <4>1, <4>2, <4>3, <4>4
    <3> QED BY <1>3, <2>1, <3>1, <3>2, <3>3
  <2>2. CASE ~ Repeats(c)
    BY <1>3, <2>2 DEF Indexes
  <2> QED BY <2>1, <2>2
<1>8. \A j \in Indexes(c) : j \in Nat
  BY DEF Indexes
<1>9. ASSUME NEW j \in Nat
      PROVE  ~ Past(c, j, to) <=> DateOf(c, j) <= to /\ (c.until # 0 => DateOf(c, j) <= c.until)
  <2>1. DateOf(c, j) \in Nat /\ c.until \in Nat
    BY DatesAre DEF EventOk
  <2>2. Past(c, j, to) <=> DateOf(c, j) > to \/ (c.until # 0 /\ DateOf(c, j) > c.until)
    BY PastIs
  <2> QED BY <2>1, <2>2
<1>10. tried = Overlapping(c, off, from, to)
  <2>1. ASSUME NEW j \in tried PROVE j \in Overlapping(c, off, from, to)
    <3>1. j \in tries /\ j < stop /\ HasDay(c, j) /\ EndAt(c, j) > Midnight(from) /\ DateOf(c, j) \notin off
      BY <2>1
    <3>2. j \in Indexes(c) /\ j \in Nat /\ ~ Past(c, j, to)
      BY <1>4, <1>6, <3>1
    <3> QED BY <1>9, <3>1, <3>2 DEF Overlapping
  <2>2. ASSUME NEW j \in Overlapping(c, off, from, to) PROVE j \in tried
    <3>1. /\ j \in Indexes(c) /\ HasDay(c, j) /\ EndAt(c, j) > Midnight(from) /\ DateOf(c, j) \notin off
          /\ DateOf(c, j) <= to /\ (c.until # 0 => DateOf(c, j) <= c.until)
      BY <2>2 DEF Overlapping
    <3>2. j \in tries /\ j \in Nat
      BY <1>7, <1>8, <3>1
    <3>3. j < stop
      BY <1>6, <1>9, <3>1, <3>2
    <3> QED BY <3>1, <3>2, <3>3
  <2> HIDE DEF tried
  <2> QED BY <2>1, <2>2
<1> HIDE DEF tried
<1> QED BY <1>1, <1>10

(* Every event has contents it can have, and exceptions are of days.       *)
EventsInv ==
  /\ FunctionOn(events, EventId) /\ \A e \in EventId : "state" \in DOMAIN events[e]
  /\ \A e \in EventId : events[e].state = "live" => EventOk(events[e])
  /\ exceptions \subseteq EventId \X EventDays

LEMMA EventIsOk ==
  ASSUME EventsInv, NEW e \in EventId, NEW c \in Series, NEW gs, WriteEvent(e, c, gs)
  PROVE  EventsInv'
<1> DEFINE row == [state |-> "live", start |-> c.start, end |-> c.end, allDay |-> c.allDay,
                   recurrence |-> c.recurrence, until |-> c.until]
<1>1. events' = [events EXCEPT ![e] = row] /\ exceptions' = exceptions /\ ValidEvent(c)
  BY DEF WriteEvent
<1>2. EventOk(row)
  <2>1. /\ c.start \in Nat \ {0, 1} /\ c.end \in Nat /\ c.until \in Nat /\ c.allDay \in BOOLEAN
        /\ c.recurrence \in {"none", "weekly", "biweekly", "monthly"}
    BY CalendarAssumption DEF CalendarAssumption
  <2>2. c.start <= c.end /\ c.end - c.start <= 2 * 366
    BY <1>1 DEF ValidEvent
  <2>3. /\ row.start = c.start /\ row.end = c.end /\ row.until = c.until /\ row.allDay = c.allDay
        /\ row.recurrence = c.recurrence
    OBVIOUS
  <2> HIDE DEF row
  <2>4. c.start \in Nat /\ 2 <= c.start
    BY <2>1
  <2> QED BY <2>1, <2>2, <2>3, <2>4 DEF EventOk
<1>3. FunctionOn(events', EventId) /\ \A d \in EventId : events'[d] = IF d = e THEN row ELSE events[d]
  BY <1>1 DEF EventsInv, FunctionOn
<1>4. \A d \in EventId : "state" \in DOMAIN events'[d]
  BY <1>3 DEF EventsInv
<1> HIDE DEF row
<1>5. ASSUME NEW d \in EventId, events'[d].state = "live" PROVE EventOk(events'[d])
  <2>1. CASE d = e
    BY <1>2, <1>3, <2>1
  <2>2. CASE d # e
    <3>1. events'[d] = events[d]
      BY <1>3, <2>2
    <3>2. events[d].state = "live"
      BY <1>5, <3>1
    <3>3. EventOk(events[d])
      BY <3>2 DEF EventsInv
    <3> QED BY <3>1, <3>3
  <2> QED BY <2>1, <2>2
<1> QED BY <1>1, <1>3, <1>4, <1>5 DEF EventsInv

LEMMA EventsSame ==
  ASSUME EventsInv, UNCHANGED <<events, exceptions>>
  PROVE  EventsInv'
BY DEF EventsInv

LEMMA EventsStep ==
  ASSUME EventsInv, [Next]_vars
  PROVE  EventsInv'
<1>1. CASE UNCHANGED <<events, exceptions>>
  BY <1>1, EventsSame
<1>2. CASE EventRequest
  <2>1. ASSUME NEW e \in EventId, NEW c \in Series, NEW gs \in SUBSET Group,
               CreateEvent(e, c, gs) \/ UpdateEvent(e, c, gs)
        PROVE  EventsInv'
    BY <2>1, EventIsOk DEF CreateEvent, UpdateEvent
  <2>2. ASSUME NEW e \in EventId, DeleteEvent(e)
        PROVE  EventsInv'
    <3> DEFINE row == [events[e] EXCEPT !.state = "deleted"]
    <3>1. events' = [events EXCEPT ![e] = row] /\ exceptions' \subseteq exceptions
      BY <2>2 DEF DeleteEvent
    <3>2. FunctionOn(events', EventId)
      BY <3>1 DEF EventsInv, FunctionOn
    <3>3. \A d \in EventId : events'[d] = IF d = e THEN row ELSE events[d]
      BY <3>1 DEF EventsInv, FunctionOn
    <3>4. row.state = "deleted" /\ "state" \in DOMAIN row
      BY DEF EventsInv
    <3> HIDE DEF row
    <3>5. \A d \in EventId : "state" \in DOMAIN events'[d]
      BY <3>3, <3>4 DEF EventsInv
    <3>6. ASSUME NEW d \in EventId, events'[d].state = "live" PROVE EventOk(events'[d])
      <4>1. d # e
        BY <3>3, <3>4, <3>6
      <4>2. events'[d] = events[d]
        BY <3>3, <4>1
      <4>3. events[d].state = "live"
        BY <3>6, <4>2
      <4>4. EventOk(events[d])
        BY <4>3 DEF EventsInv
      <4> QED BY <4>2, <4>4
    <3>7. exceptions' \subseteq EventId \X EventDays
      BY <3>1 DEF EventsInv
    <3> QED BY <3>2, <3>5, <3>6, <3>7 DEF EventsInv
  <2>3. ASSUME NEW e \in EventId, NEW day \in EventDays, NEW excluded \in BOOLEAN,
               SetEventException(e, day, excluded)
        PROVE  EventsInv'
    <3>1. UNCHANGED events /\ exceptions' \subseteq exceptions \cup {<<e, day>>}
      BY <2>3 DEF SetEventException
    <3>2. exceptions' \subseteq EventId \X EventDays
      BY <3>1 DEF EventsInv
    <3> QED BY <3>1, <3>2 DEF EventsInv
  <2> QED BY <1>2, <2>1, <2>2, <2>3 DEF EventRequest
<1>3. CASE CalendarNext
  BY <1>1, <1>2, <1>3 DEF CalendarNext, AttendanceRequest, FindOccurrence, SetAttendance, TaskRequest
<1>4. CASE UNCHANGED calendarVars
  BY <1>1, <1>4 DEF calendarVars
<1>5. ASSUME NEW m \in Member, DeleteMember(m) PROVE UNCHANGED <<events, exceptions>>
  BY <1>5 DEF DeleteMember, DeleteAttendanceOf
<1>6. ASSUME NEW g \in Group, DeleteNamed(g) PROVE UNCHANGED <<events, exceptions>>
  BY <1>6 DEF DeleteNamed, DeleteAudienceOf
<1> QED BY <1>1, <1>3, <1>4, <1>5, <1>6 DEF Next, vars

(* Occurrences up to the last day of the calendar are counted by Numbers.  *)
LEMMA NumbersReach ==
  ASSUME EventsInv, NEW e \in LiveEvents, NEW to \in 1 .. LastDay
  PROVE  /\ EventOk(events[e]) /\ Numbers(e) \subseteq Indexes(events[e])
         /\ \A j \in Indexes(events[e]) : j \in Nat /\ (DateOf(events[e], j) <= to => j \in Numbers(e))
<1> DEFINE c == events[e]
<1>1. EventOk(c)
  BY DEF EventsInv, LiveEvents
<1>2. LastDay \in Nat
  BY CalendarAssumption DEF CalendarAssumption
<1> HIDE DEF c
<1>3. CASE Repeats(c)
  <2>1. Numbers(e) = 0 .. LastDay \div 7 /\ Indexes(c) = Nat
    BY <1>3 DEF Numbers, Indexes, c
  <2>2. ASSUME NEW j \in Nat, DateOf(c, j) <= to PROVE j \in 0 .. LastDay \div 7
    <3>1. DateOf(c, 0) + 7 * (j - 0) <= DateOf(c, j)
      BY <1>1, <1>3, DatesApart
    <3>2. DateOf(c, 0) \in Nat /\ DateOf(c, j) \in Nat
      BY <1>1, DatesAre
    <3>3. 7 * j <= LastDay
      BY <1>2, <2>2, <3>1, <3>2
    <3> QED BY <1>2, <3>3
  <2>3. 0 .. LastDay \div 7 \subseteq Nat
    OBVIOUS
  <2> QED BY <1>1, <2>1, <2>2, <2>3 DEF c
<1>4. CASE ~ Repeats(c)
  BY <1>1, <1>4 DEF Numbers, Indexes, c
<1> QED BY <1>3, <1>4

(* What is listed for a live event is what happens in the window.          *)
HappensIn(e, from, to) ==
  {j \in Numbers(e) : /\ Happens(e, j) /\ DateOf(events[e], j) <= to
                      /\ EndAt(events[e], j) > Midnight(from)}

LEMMA OccurrencesAre ==
  ASSUME EventsInv, NEW e \in LiveEvents, NEW from \in Nat \ {0}, NEW to \in 1 .. LastDay,
         (to - from) + 366 + 31 <= 7 * MaxOccurrences
  PROVE  Occurrences(e, from, to) = {DateOf(events[e], k) : k \in HappensIn(e, from, to)}
<1> DEFINE c == events[e]
           off == Excluded(e)
<1>1. /\ EventOk(c) /\ Numbers(e) \subseteq Indexes(c)
      /\ \A j \in Indexes(c) : j \in Nat /\ (DateOf(c, j) <= to => j \in Numbers(e))
  BY NumbersReach
<1>2. to \in Nat
  BY CalendarAssumption DEF CalendarAssumption
<1>3. Expand(c, off, from, to) = {DateOf(c, k) : k \in Overlapping(c, off, from, to)}
  <2> HIDE DEF c, off
  <2> QED BY <1>1, <1>2, ExpandLists
<1>4. \A d : d \in off <=> <<e, d>> \in exceptions
  <2>1. \A x \in exceptions : x = <<x[1], x[2]>>
    BY DEF EventsInv
  <2> QED BY <2>1 DEF Excluded
<1>5. Overlapping(c, off, from, to) = HappensIn(e, from, to)
  <2>1. ASSUME NEW j \in Indexes(c), DateOf(c, j) <= to
        PROVE  Happens(e, j) <=> HasDay(c, j) /\ (c.until # 0 => DateOf(c, j) <= c.until) /\ DateOf(c, j) \notin off
    <3>1. <<e, DateOf(c, j)>> \in exceptions <=> DateOf(c, j) \in off
      BY <1>4
    <3> QED BY <3>1 DEF Happens, DateOf
  <2>2. ASSUME NEW j \in Overlapping(c, off, from, to) PROVE j \in HappensIn(e, from, to)
    <3>1. /\ j \in Indexes(c) /\ HasDay(c, j) /\ DateOf(c, j) <= to /\ (c.until # 0 => DateOf(c, j) <= c.until)
          /\ EndAt(c, j) > Midnight(from) /\ DateOf(c, j) \notin off
      BY <2>2 DEF Overlapping
    <3> QED BY <1>1, <2>1, <3>1 DEF HappensIn
  <2>3. ASSUME NEW j \in HappensIn(e, from, to) PROVE j \in Overlapping(c, off, from, to)
    <3>1. j \in Indexes(c) /\ Happens(e, j) /\ DateOf(c, j) <= to /\ EndAt(c, j) > Midnight(from)
      BY <1>1, <2>3 DEF HappensIn
    <3> QED BY <2>1, <3>1 DEF Overlapping
  <2> QED BY <2>2, <2>3
<1> QED BY <1>3, <1>5 DEF Occurrences

(* An occurrence lasts beyond the midnight it starts after, unless it takes*)
(* no time.                                                                *)
LEMMA LastsBeyondMidnight ==
  ASSUME NEW c, EventOk(c), StartOf(c) < EndOf(c), NEW k \in Nat
  PROVE  EndAt(c, k) > Midnight(DateOf(c, k))
<1> DEFINE n == SpanDays(c)
           D == FirstDate(c)
           d == DateOf(c, k)
           s == Half(StartOf(c))
           t == Half(EndOf(c))
<1>1. /\ D \in Nat /\ n \in Nat /\ s \in {0, 1} /\ t \in {0, 1} /\ d \in Nat
      /\ StartOf(c) = 2 * D + s /\ EndOf(c) = 2 * (D + n) + t
  <2>1. /\ D \in Nat /\ n \in Nat /\ s \in {0, 1} /\ t \in {0, 1}
        /\ StartOf(c) = 2 * D + s /\ EndOf(c) = 2 * (D + n) + t
    BY EventLasts
  <2>2. d \in Nat
    BY DatesAre
  <2> HIDE DEF D, n, d, s, t
  <2> QED BY <2>1, <2>2
<1>2. EndAt(c, k) = 2 * (d + n) + t
  BY DEF EndAt, Midnight, DateOf
<1>3. Midnight(d) = 2 * d
  BY DEF Midnight
<1> HIDE DEF n, D, d, s, t
<1>4. 2 * (d + n) + t > 2 * d
  BY <1>1
<1> QED BY <1>2, <1>3, <1>4 DEF d

(* Whatever days a request asks for and whatever series and exceptions     *)
(* were written before, expand lists the occurrences that overlap the days *)
(* and no others, although it begins at a computed one and stops after     *)
(* maxOccurrencesPerEvent (expand, OccurrenceOn).                          *)
THEOREM AllOccurrencesListed == Spec => []OccurrencesComplete
<1>1. Init => EventsInv
  BY DEF Init, CalendarInit, EventsInv, FunctionOn
<1>2. EventsInv /\ [Next]_vars => EventsInv'
  BY EventsStep
<1>3. EventsInv => OccurrencesComplete
  <2> SUFFICES ASSUME EventsInv, NEW e \in LiveEvents
               PROVE  LET c == events[e]
                          happening == {k \in Numbers(e) : Happens(e, k)}
                      IN /\ \A w \in Windows :
                              Occurrences(e, w.from, w.to) =
                                {DayOf(StartAt(c, k)) : k \in {j \in happening : /\ DayOf(StartAt(c, j)) <= w.to
                                                                                 /\ EndAt(c, j) > Midnight(w.from)}}
                         /\ \A day \in EventDays :
                              StartOf(c) < EndOf(c) =>
                                (OccurrenceOn(e, day) <=> \E k \in happening : DayOf(StartAt(c, k)) = day)
    BY DEF OccurrencesComplete
  <2> DEFINE c == events[e]
             happening == {k \in Numbers(e) : Happens(e, k)}
  <2>1. ASSUME NEW w \in Windows
        PROVE  Occurrences(e, w.from, w.to) =
                 {DayOf(StartAt(c, k)) : k \in {j \in happening : /\ DayOf(StartAt(c, j)) <= w.to
                                                                  /\ EndAt(c, j) > Midnight(w.from)}}
    <3>1. w.to \in 1 .. LastDay /\ w.from \in Nat \ {0} /\ (w.to - w.from) + 366 + 31 <= 7 * MaxOccurrences
      BY CalendarAssumption DEF CalendarAssumption
    <3>2. Occurrences(e, w.from, w.to) = {DateOf(c, k) : k \in HappensIn(e, w.from, w.to)}
      BY <3>1, OccurrencesAre
    <3>3. HappensIn(e, w.from, w.to) =
            {j \in happening : DayOf(StartAt(c, j)) <= w.to /\ EndAt(c, j) > Midnight(w.from)}
      BY DEF HappensIn, DateOf
    <3> QED BY <3>2, <3>3 DEF DateOf
  <2>2. ASSUME NEW day \in EventDays, StartOf(c) < EndOf(c)
        PROVE  OccurrenceOn(e, day) <=> \E k \in happening : DayOf(StartAt(c, k)) = day
    <3>1. day \in 1 .. LastDay /\ day \in Nat \ {0} /\ (day - day) + 366 + 31 <= 7 * MaxOccurrences
      <4>1. day \in 1 .. LastDay /\ 366 + 31 <= 7 * MaxOccurrences
        BY CalendarAssumption DEF CalendarAssumption
      <4> QED BY <4>1
    <3>2. Occurrences(e, day, day) = {DateOf(c, k) : k \in HappensIn(e, day, day)}
      BY <3>1, OccurrencesAre
    <3>3. EventOk(c) /\ \A j \in Numbers(e) : j \in Nat
      BY <3>1, NumbersReach
    <3> HIDE DEF c
    <3>4. ASSUME NEW k \in happening, DateOf(c, k) = day PROVE k \in HappensIn(e, day, day)
      <4>1. k \in Numbers(e) /\ Happens(e, k) /\ k \in Nat
        BY <3>3, <3>4
      <4>2. EndAt(c, k) > Midnight(day)
        BY <2>2, <3>3, <3>4, <4>1, LastsBeyondMidnight
      <4> QED BY <3>1, <3>4, <4>1, <4>2 DEF HappensIn, c
    <3>5. HappensIn(e, day, day) \subseteq happening
      BY DEF HappensIn
    <3> HIDE DEF happening
    <3>6. day \in Occurrences(e, day, day) <=> \E k \in happening : DateOf(c, k) = day
      BY <3>2, <3>4, <3>5
    <3> QED BY <3>6 DEF OccurrenceOn, DateOf
  <2> QED BY <2>1, <2>2
<1> QED BY <1>1, <1>2, <1>3, PTL DEF Spec
=============================================================================
