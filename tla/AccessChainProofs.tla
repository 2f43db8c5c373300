------------------------- MODULE AccessChainProofs -------------------------
(***************************************************************************)
(* Theorems about AccessChain, for any devices, roles, scopes and number   *)
(* of versions: what the protocol keeps as long as admins take turns.      *)
(***************************************************************************)
EXTENDS AccessChain, FiniteSetTheorems, WellFoundedInduction, TLAPS

Key == Nat \ {0}
Version == [num : Nat, hash : Nat, prev : Nat, author : Device \cup {Root}, gone : SUBSET Device,
            role : [Device -> Role \cup {Unlisted}], checks : [Scope -> Seq(Key)]]

(* The versions published so far, each the successor of the one before.    *)
Prefix(L, n) == SubSeq(L, 1, n)
Top(L) == L[Len(L)]
IsLine(L) ==
  /\ L \in Seq(Version) /\ Len(L) >= 1 /\ L[1] = First
  /\ \A i \in 1 .. Len(L) : /\ L[i].num = i /\ L[i].hash \in Hash
                            /\ \A s \in Scope : Epochs(L[i], s) <= i /\ Epochs(L[i], s) <= Epochs(Top(L), s)
                            /\ Verify(Prefix(L, i - 1), L[i])
  /\ \A i, j \in 1 .. Len(L) : L[i].hash = L[j].hash => i = j

(* Every device follows the line as far as it has come. *)
ChainsInv(L) ==
  /\ folder = {L[i] : i \in 1 .. Len(L)}
  /\ chain = [d \in Device |-> chain[d]]
  /\ \A d \in Device : \E n \in 0 .. Len(L) : chain[d] = Prefix(L, n)

(* Key files hold the keys that are committed to, or one that is drafted.  *)
KeysTyped ==
  /\ keyfile \in [Path -> Nat]
  /\ draft \in [Device -> [KeyRef -> Nat]] /\ held \in [Device -> [KeyRef -> Nat]]
  /\ minted \in Nat /\ job = [d \in Device |-> job[d]]
KeyFileInv(L) == \A s \in Scope : \A e \in Epoch : \A r \in Device \cup {Root} :
  \A k : k = keyfile[<<s, e, r>>] =>
    \/ k = 0
    \/ e <= Epochs(Top(L), s) /\ k = Top(L).checks[s][e]
    \/ e > Epochs(Top(L), s) /\ \E d \in Device : draft[d][<<s, e>>] = k

(* Who may read a scope finds its keys. *)
ReaderInv(L) == \A i \in 1 .. Len(L) : \A s \in Scope : \A d \in Readers(L[i], s) :
  \A e \in 1 .. Epochs(L[i], s) : keyfile[<<s, e, d>>] = L[i].checks[s][e]

(* Of the changes that were begun: none is more than one version and one   *)
(* epoch ahead, and one that goes beyond the epochs of the version it       *)
(* followed, or of a later one, was for readers of that version.           *)
BegunInv(B, L) == \A u \in B :
  /\ u.num \in Nat /\ u.num <= Len(L) + 1
  /\ \A s \in Scope :
       /\ Len(u.checks[s]) \in Nat /\ Len(u.checks[s]) <= Epochs(Top(L), s) + 1
       /\ \A i \in 1 .. Len(L) : u.num <= i + 1 /\ Len(u.checks[s]) > Epochs(L[i], s)
                                  => u.readers[s] \subseteq Readers(L[i], s)

(* A key file is for a reader of a change that was begun with its key. *)
OriginInv(B) == \A s \in Scope : \A e \in Epoch : \A d \in Device : keyfile[<<s, e, d>>] # 0 =>
  \E u \in B : d \in u.readers[s] /\ e <= Len(u.checks[s]) /\ u.checks[s][e] = keyfile[<<s, e, d>>]
HistInv(L) == BegunInv(begun, L) /\ OriginInv(begun)

(* The one change that is being published: the version goes on from the    *)
(* newest one, and the key files it needs are there or still to be written. *)
Alone(d) == \A e \in Device \ {d} : job[e] = NoJob /\ \A k \in KeyRef : draft[e][k] = 0
Wanted(d, s, e, r) ==
  \/ keyfile[<<s, e, r>>] = job[d].ver.checks[s][e]
  \/ keyfile[<<s, e, r>>] = 0 /\ \E f \in job[d].files : f.path = <<s, e, r>>
FileOfJob(d, f) ==
  \E s \in Scope : \E e \in Epoch : \E r \in Device \cup {Root} :
    /\ f.path = <<s, e, r>> /\ e <= Epochs(job[d].ver, s) /\ f.key = job[d].ver.checks[s][e]
    /\ r # Root => r \in Readers(job[d].ver, s)
JobInv(L, d) ==
  /\ job[d] = [x \in DOMAIN job[d] |-> job[d][x]] /\ DOMAIN job[d] = {"files", "ver"}
  /\ chain[d] = L /\ IsLine(Append(L, job[d].ver)) /\ Alone(d)
  /\ \A s \in Scope : \A e \in 1 .. Epochs(job[d].ver, s) :
       e > Epochs(Top(L), s) => draft[d][<<s, e>>] = job[d].ver.checks[s][e]
  /\ Attempt(job[d].ver) \in begun
  /\ \A s \in Scope : Epochs(job[d].ver, s) = Epochs(Top(L), s)
                        => Readers(Top(L), s) \subseteq Readers(job[d].ver, s)
  /\ \A f \in job[d].files : FileOfJob(d, f)
  /\ \A s \in Scope : \A r \in Readers(job[d].ver, s) : \A e \in 1 .. Epochs(job[d].ver, s) : Wanted(d, s, e, r)

LineInv(L) ==
  /\ IsLine(L) /\ ChainsInv(L) /\ KeysTyped /\ KeyFileInv(L) /\ ReaderInv(L) /\ HistInv(L)
  /\ \A d \in Device : job[d] # NoJob => JobInv(L, d)
IInv == \E L : LineInv(L)
-----------------------------------------------------------------------------
(* Every set of natural numbers has a smallest element. *)
LEMMA Smallest ==
  ASSUME NEW S, S \subseteq Nat, NEW a \in S
  PROVE  \E m \in S : \A n \in S : m <= n
<1> DEFINE U == 0 .. a
           T == {0 .. n : n \in {n \in S : n <= a}}
           Below == StrictSubsetOrdering(U)
<1>1. IsWellFoundedOn(Below, SUBSET U)
  <2>1. IsFiniteSet(U)
    BY FS_Interval
  <2>2. FiniteSubsetsOf(U) = SUBSET U
    BY <2>1, FS_FiniteSubsetsOfFinite
  <2> QED
    BY <2>1, <2>2, FS_StrictSubsetOrderingWellFounded
<1>2. T \subseteq SUBSET U /\ T # {}
  OBVIOUS
<1>3. \A x, y \in SUBSET U : x \subseteq y /\ x # y => <<x, y>> \in Below
  BY DEF StrictSubsetOrdering
<1> HIDE DEF Below
<1>4. PICK t \in T : \A y \in T : ~ (<<y, t>> \in Below)
  <2> HIDE DEF T, U
  <2> QED
    BY <1>1, <1>2, WFMin
<1>5. PICK m \in S : m <= a /\ t = 0 .. m
  OBVIOUS
<1>6. \A n \in S : n <= a => m <= n
  <2> SUFFICES ASSUME NEW n \in S, n <= a, n < m PROVE FALSE
    BY <1>5
  <2>1. 0 .. n \in T /\ 0 .. n \subseteq 0 .. m /\ m \in 0 .. m /\ m \notin 0 .. n
    OBVIOUS
  <2> QED
    BY <1>2, <1>3, <1>4, <1>5, <2>1
<1> QED
  BY <1>5, <1>6

LEMMA PrefixIs ==
  ASSUME NEW S, NEW L \in Seq(S), NEW n \in 0 .. Len(L)
  PROVE  /\ Prefix(L, n) \in Seq(S) /\ Len(Prefix(L, n)) = n
         /\ \A i \in 1 .. n : Prefix(L, n)[i] = L[i]
         /\ n # 0 => Last(Prefix(L, n)) = L[n]
         /\ n = 0 <=> Prefix(L, n) = <<>>
<1>1. Prefix(L, n) \in Seq(S) /\ Len(Prefix(L, n)) = n /\ \A i \in 1 .. n : Prefix(L, n)[i] = L[i]
  BY DEF Prefix
<1> QED
  BY <1>1 DEF Last

LEMMA PrefixNext ==
  ASSUME NEW S, NEW L \in Seq(S), NEW n \in 0 .. Len(L), n < Len(L)
  PROVE  Append(Prefix(L, n), L[n + 1]) = Prefix(L, n + 1)
BY DEF Prefix

LEMMA PrefixOfLonger ==
  ASSUME NEW S, NEW L \in Seq(S), NEW v \in S, NEW n \in 0 .. Len(L)
  PROVE  Prefix(Append(L, v), n) = Prefix(L, n) /\ Prefix(L, Len(L)) = L
BY DEF Prefix

LEMMA PrefixesKept ==
  ASSUME NEW S, NEW L \in Seq(S), NEW n \in 0 .. Len(L), NEW m \in n .. Len(L)
  PROVE  IsPrefix(Prefix(L, n), Prefix(L, m))
BY DEF Prefix, IsPrefix
-----------------------------------------------------------------------------
(* There are as many versions as hashes at most. *)
LEMMA LineBound == ASSUME NEW L, IsLine(L) PROVE Len(L) \in 1 .. MaxVersions
<1>1. Len(L) \in Nat /\ Len(L) >= 1 /\ MaxVersions \in Nat
  BY AccessAssumption DEF IsLine
<1> DEFINE f == [i \in 1 .. Len(L) |-> L[i].hash]
<1>2. f \in Injection(1 .. Len(L), 1 .. MaxVersions)
  <2>1. f \in [1 .. Len(L) -> 1 .. MaxVersions]
    BY DEF IsLine, Hash
  <2>2. \A i, j \in 1 .. Len(L) : f[i] = f[j] => i = j
    BY DEF IsLine
  <2> QED
    BY <2>1, <2>2 DEF Injection, IsInjective
<1> HIDE DEF f
<1>3. Cardinality(1 .. Len(L)) <= Cardinality(1 .. MaxVersions)
  BY <1>1, <1>2, FS_Interval, FS_Injection
<1>4. ASSUME NEW n \in Nat PROVE Cardinality(1 .. n) = n
  <2>1. Cardinality(1 .. n) = IF 1 > n THEN 0 ELSE n - 1 + 1
    BY FS_Interval
  <2> QED
    BY <2>1
<1> QED
  BY <1>1, <1>3, <1>4

(* Of a line only the next version is a valid successor. *)
LEMMA ExtendedIs ==
  ASSUME NEW L, IsLine(L), NEW cands, cands \subseteq {L[i] : i \in 1 .. Len(L)}, NEW n \in 0 .. Len(L)
  PROVE  Extended(Prefix(L, n), cands)
           = IF n < Len(L) /\ L[n + 1] \in cands THEN Prefix(L, n + 1) ELSE Prefix(L, n)
<1> DEFINE c == Prefix(L, n)
           valid == {v \in cands : Verify(c, v)}
<1>1. Len(L) \in Nat /\ n \in Nat /\ L \in Seq(Version)
  BY DEF IsLine
<1>2. Len(c) = n
  BY <1>1, PrefixIs
<1>3. \A v \in valid : n < Len(L) /\ v = L[n + 1]
  <2> SUFFICES ASSUME NEW i \in 1 .. Len(L), L[i] \in valid PROVE i = n + 1
    BY <1>1
  <2>1. L[i].num = i /\ L[i].num = Len(c) + 1
    BY DEF IsLine, Verify
  <2> QED
    BY <1>2, <2>1
<1>4. CASE n < Len(L) /\ L[n + 1] \in cands
  <2>1. n + 1 \in 1 .. Len(L) /\ (n + 1) - 1 = n
    BY <1>1, <1>4
  <2>2. Verify(Prefix(L, (n + 1) - 1), L[n + 1]) /\ L[n + 1].hash \in Nat
    BY <2>1 DEF IsLine, Hash
  <2>3. L[n + 1] \in valid
    BY <1>4, <2>1, <2>2
  <2>4. valid = {L[n + 1]}
    BY <1>3, <2>3
  <2> HIDE DEF valid, c
  <2>5. (CHOOSE v \in valid : \A w \in valid : v.hash <= w.hash) = L[n + 1]
    BY <2>2, <2>4
  <2>6. Extended(c, cands) = Append(c, L[n + 1])
    BY <2>4, <2>5 DEF Extended, valid
  <2> QED
    BY <1>1, <1>4, <2>6, PrefixNext DEF c
<1>5. CASE ~ (n < Len(L) /\ L[n + 1] \in cands)
  <2>1. valid = {}
    BY <1>3, <1>5
  <2> QED
    BY <1>5, <2>1 DEF Extended
<1> QED
  BY <1>4, <1>5

(* How far the candidates reach without a gap. *)
Reach(L, cands, k) ==
  k \in 0 .. Len(L) /\ (\A i \in 1 .. k : L[i] \in cands) /\ (k = Len(L) \/ L[k + 1] \notin cands)

LEMMA ReachExists == ASSUME NEW L, IsLine(L), NEW cands PROVE \E k : Reach(L, cands, k)
<1> DEFINE Missing == {i \in 1 .. Len(L) : L[i] \notin cands}
<1>1. Len(L) \in Nat
  BY DEF IsLine
<1>2. CASE Missing = {}
  BY <1>1, <1>2 DEF Reach
<1>3. CASE Missing # {}
  <2>1. PICK a \in Missing : TRUE
    BY <1>3
  <2>2. PICK m \in Missing : \A n \in Missing : m <= n
    <3> Missing \subseteq Nat
      BY <1>1
    <3> HIDE DEF Missing
    <3> QED
      BY <2>1, Smallest
  <2>3. Reach(L, cands, m - 1)
    BY <1>1, <2>2 DEF Reach
  <2> QED
    BY <2>3
<1> QED
  BY <1>2, <1>3

Then(c0, cands) == CHOOSE x \in {Extended(c, cands) : c \in {c0}} : TRUE
Resolves(u, cands) ==
  u = [n \in 0 .. MaxVersions |-> IF n = 0 THEN <<>> ELSE Then(u[n - 1], cands)]

LEMMA ThenIs == ASSUME NEW c0, NEW cands PROVE Then(c0, cands) = Extended(c0, cands)
BY DEF Then

LEMMA ResolveIs ==
  ASSUME NEW L, IsLine(L), NEW cands, cands \subseteq {L[i] : i \in 1 .. Len(L)},
         NEW k, Reach(L, cands, k)
  PROVE  Resolve(cands) = Prefix(L, k)
<1> DEFINE w == [n \in 0 .. MaxVersions |-> Prefix(L, IF n <= k THEN n ELSE k)]
<1>1. /\ k \in 0 .. Len(L) /\ Len(L) \in 1 .. MaxVersions /\ MaxVersions \in Nat /\ k \in Nat /\ Len(L) \in Nat
      /\ L \in Seq(Version)
  <2>1. Len(L) \in 1 .. MaxVersions
    BY LineBound
  <2>2. MaxVersions \in Nat
    BY AccessAssumption
  <2>3. L \in Seq(Version) /\ Len(L) \in Nat
    BY DEF IsLine
  <2>4. k \in 0 .. Len(L)
    BY DEF Reach
  <2> QED
    BY <2>1, <2>2, <2>3, <2>4
<1>2. ASSUME NEW n \in 1 .. MaxVersions, NEW c, c = w[n - 1] PROVE Extended(c, cands) = w[n]
  <2>1. CASE n <= k
    <3>1. c = Prefix(L, n - 1) /\ w[n] = Prefix(L, n) /\ n - 1 < Len(L) /\ n - 1 \in 0 .. Len(L) /\ (n - 1) + 1 = n
      BY <1>1, <1>2, <2>1
    <3>2. L[n] \in cands
      BY <1>1, <2>1 DEF Reach
    <3> QED
      BY <3>1, <3>2, ExtendedIs
  <2>2. CASE ~ n <= k
    <3>1. c = Prefix(L, k) /\ w[n] = Prefix(L, k)
      BY <1>1, <1>2, <2>2
    <3> QED
      BY <1>1, <3>1, ExtendedIs DEF Reach
  <2> QED
    BY <2>1, <2>2
<1>3. w[0] = <<>>
  BY <1>1, PrefixIs
<1>4. Resolves(w, cands)
  <2>1. \A n \in 0 .. MaxVersions : w[n] = IF n = 0 THEN <<>> ELSE Then(w[n - 1], cands)
    <3> HIDE DEF w
    <3>1. ASSUME NEW n \in 0 .. MaxVersions, n # 0 PROVE w[n] = Then(w[n - 1], cands)
      BY <1>1, <1>2, <3>1, ThenIs
    <3> QED
      BY <1>3, <3>1
  <2> QED
    BY <2>1 DEF Resolves
<1>8. \A n \in 1 .. MaxVersions : w[n] = Then(w[n - 1], cands)
  <2> HIDE DEF w
  <2> QED
    BY <1>2, ThenIs
<1> DEFINE u == CHOOSE f : Resolves(f, cands)
<1>5. Resolves(u, cands) /\ Resolve(cands) = u[MaxVersions]
  BY <1>4 DEF Resolve, Resolves, Then
<1> HIDE DEF u
<1>6. ASSUME NEW n \in 0 .. MaxVersions, u[n] # w[n] PROVE FALSE
  <2> DEFINE Bad == {i \in 0 .. MaxVersions : u[i] # w[i]}
  <2>1. PICK m \in Bad : \A i \in Bad : m <= i
    <3>1. Bad \subseteq Nat /\ n \in Bad
      BY <1>1, <1>6
    <3> HIDE DEF Bad
    <3> QED
      BY <3>1, Smallest
  <2>2. CASE m = 0
    BY <1>1, <1>3, <1>5, <2>1, <2>2 DEF Resolves
  <2>3. CASE m # 0
    <3>1. m \in 1 .. MaxVersions /\ m - 1 \in 0 .. MaxVersions /\ ~ m <= m - 1
      BY <1>1, <2>1, <2>3
    <3>2. u[m - 1] = w[m - 1]
      BY <2>1, <3>1
    <3>3. u[m] = Then(u[m - 1], cands)
      BY <1>5, <3>1 DEF Resolves
    <3>4. w[m] = Then(w[m - 1], cands)
      <4> HIDE DEF w
      <4> QED
        BY <1>8, <3>1
    <3> QED
      BY <2>1, <3>2, <3>3, <3>4
  <2> QED
    BY <2>2, <2>3
<1>7. w[MaxVersions] = Prefix(L, k)
  BY <1>1
<1> QED
  BY <1>1, <1>5, <1>6, <1>7
-----------------------------------------------------------------------------
LEMMA LineFacts ==
  ASSUME NEW L, IsLine(L)
  PROVE  /\ L \in Seq(Version) /\ Len(L) \in 1 .. MaxVersions /\ MaxVersions \in Nat /\ Len(L) \in Nat
         /\ Top(L) = Last(L) /\ L # <<>> /\ Prefix(L, Len(L)) = L /\ Top(L) = L[Len(L)] /\ Len(L) \in 1 .. Len(L)
         /\ \A i \in 1 .. Len(L) :
              /\ L[i] \in Version
              /\ \A s \in Scope : /\ Epochs(L[i], s) \in Nat /\ Epochs(L[i], s) <= Len(L)
                                  /\ \A e \in 1 .. Epochs(L[i], s) : L[i].checks[s][e] \in Key
<1>1. L \in Seq(Version) /\ Len(L) \in 1 .. MaxVersions /\ MaxVersions \in Nat /\ Len(L) \in Nat
  BY LineBound, AccessAssumption DEF IsLine
<1>2. Top(L) = Last(L) /\ L # <<>> /\ Prefix(L, Len(L)) = L /\ Top(L) = L[Len(L)] /\ Len(L) \in 1 .. Len(L)
  BY <1>1 DEF Top, Last, Prefix
<1>3. ASSUME NEW i \in 1 .. Len(L), NEW s \in Scope
      PROVE  /\ L[i] \in Version
             /\ Epochs(L[i], s) \in Nat /\ Epochs(L[i], s) <= Len(L)
             /\ \A e \in 1 .. Epochs(L[i], s) : L[i].checks[s][e] \in Key
  <2>1. L[i] \in Version
    BY <1>1
  <2>2. L[i].checks[s] \in Seq(Key)
    BY <2>1 DEF Version
  <2>3. Epochs(L[i], s) <= i
    BY DEF IsLine
  <2> QED
    BY <1>1, <2>1, <2>2, <2>3 DEF Epochs
<1> QED
  BY <1>1, <1>2, <1>3

LEMMA EpochsBelow ==
  ASSUME NEW L, IsLine(L), NEW i \in 1 .. Len(L), NEW s \in Scope
  PROVE  /\ Epochs(L[i], s) \in Nat /\ Epochs(Top(L), s) \in Nat /\ Epochs(L[i], s) <= Epochs(Top(L), s)
         /\ Epochs(L[i], s) <= MaxVersions
         /\ \A e \in 1 .. Epochs(L[i], s) : e \in Epoch
<1>1. Len(L) \in 1 .. Len(L) /\ Top(L) = L[Len(L)] /\ Len(L) \in 1 .. MaxVersions /\ MaxVersions \in Nat
  BY LineFacts
<1>2. Epochs(L[i], s) \in Nat /\ Epochs(Top(L), s) \in Nat /\ Epochs(L[i], s) <= Len(L)
  BY <1>1, LineFacts
<1>3. Epochs(L[i], s) <= Epochs(Top(L), s)
  BY DEF IsLine
<1> QED
  BY <1>1, <1>2, <1>3 DEF Epoch

(* What a device accepts is the line as far as its files reach. *)
LEMMA RefreshesTo ==
  ASSUME NEW L, IsLine(L), ChainsInv(L), NEW d \in Device
  PROVE  \E k : Reach(L, Candidates(d), k) /\ Resolve(Candidates(d)) = Prefix(L, k)
<1>1. Candidates(d) \subseteq {L[i] : i \in 1 .. Len(L)}
  <2>1. PICK n \in 0 .. Len(L) : chain[d] = Prefix(L, n)
    BY DEF ChainsInv
  <2>2. Files(d) \subseteq {L[i] : i \in 1 .. Len(L)}
    BY DEF Files, ChainsInv
  <2>3. L \in Seq(Version) /\ Len(L) \in Nat
    BY LineFacts
  <2>4. Range(chain[d]) \subseteq {L[i] : i \in 1 .. Len(L)}
    <3>1. Len(chain[d]) = n /\ \A i \in 1 .. n : chain[d][i] = L[i]
      BY <2>1, <2>3, PrefixIs
    <3>2. chain[d] \in Seq(Version)
      BY <2>1, <2>3, PrefixIs
    <3>3. DOMAIN chain[d] = 1 .. n
      BY <3>1, <3>2
    <3> QED
      BY <2>3, <3>1, <3>3 DEF Range
  <2> QED
    BY <2>2, <2>4 DEF Candidates
<1>2. PICK k : Reach(L, Candidates(d), k)
  BY ReachExists
<1> QED
  BY <1>1, <1>2, ResolveIs

LEMMA AttemptIs ==
  ASSUME NEW v
  PROVE  /\ Attempt(v).num = v.num /\ Attempt(v).checks = v.checks
         /\ \A s \in Scope : Attempt(v).readers[s] = Readers(v, s) /\ Epochs(v, s) = Len(v.checks[s])
BY DEF Attempt, Epochs

LEMMA SameHistory ==
  ASSUME NEW L, HistInv(L), begun' = begun, keyfile' = keyfile
  PROVE  HistInv(L)'
<1>1. BegunInv(begun, L)'
  BY DEF HistInv, BegunInv
<1>2. OriginInv(begun)'
  BY DEF HistInv, OriginInv
<1> QED
  BY <1>1, <1>2 DEF HistInv

LEMMA InitLine == ASSUME Init PROVE LineInv(<<First>>)
<1> DEFINE L == <<First>>
<1>1. First \in Version /\ L \in Seq(Version) /\ Len(L) = 1 /\ L[1] = First /\ 1 \in Hash
  BY AccessAssumption DEF First, Version, Key, Hash
<1>2. \A s \in Scope : Epochs(First, s) = 1 /\ First.checks[s][1] = 1
  BY DEF First, Epochs
<1>3. IsLine(L)
  <2>1. Prefix(L, 0) = <<>>
    BY <1>1 DEF Prefix
  <2>2. Verify(<<>>, First)
    BY <1>2 DEF Verify, First, WellFormed
  <2>3. First.num = 1 /\ First.hash = 1
    BY DEF First
  <2> HIDE DEF L
  <2> QED
    BY <1>1, <1>2, <2>1, <2>2, <2>3 DEF IsLine, Top
<1>4. ChainsInv(L)
  <2>1. Prefix(L, 0) = <<>> /\ Prefix(L, 1) = L /\ Len(L) = 1
    BY <1>1, <1>3, LineFacts, PrefixIs
  <2>2. \A d \in Device : chain[d] = L \/ chain[d] = <<>>
    BY DEF Init
  <2>3. folder = {L[i] : i \in 1 .. Len(L)}
    BY <1>1 DEF Init
  <2>4. chain = [d \in Device |-> chain[d]]
    BY DEF Init
  <2> HIDE DEF L
  <2> QED
    BY <2>1, <2>2, <2>3, <2>4 DEF ChainsInv
<1>5. KeysTyped
  <2>1. /\ keyfile = [p \in Path |-> keyfile[p]] /\ \A p \in Path : keyfile[p] \in {0, 1}
        /\ draft \in [Device -> [KeyRef -> {0, 1}]] /\ held \in [Device -> [KeyRef -> {0, 1}]]
    BY DEF Init
  <2>2. minted \in Nat /\ job = [d \in Device |-> job[d]]
    BY DEF Init
  <2> QED
    BY <2>1, <2>2 DEF KeysTyped
<1>6. ASSUME NEW s \in Scope, NEW e \in Epoch, NEW r \in Device \cup {Root}
      PROVE  /\ keyfile[<<s, e, r>>] \in {0, 1}
             /\ keyfile[<<s, e, r>>] = 1 => e = 1
             /\ e = 1 /\ r \in Readers(First, s) => keyfile[<<s, e, r>>] = 1
             /\ keyfile[<<s, e, r>>] # 0 /\ r \in Device => r \in Readers(First, s)
  <2>1. <<s, e, r>> \in Path
    BY DEF Path
  <2> QED
    BY <2>1, AccessAssumption DEF Init
<1>7. Top(L) = First /\ \A s \in Scope : Epochs(Top(L), s) = 1 /\ Top(L).checks[s][1] = 1
  BY <1>1, <1>2 DEF Top
<1>8. KeyFileInv(L)
  <2> HIDE DEF L
  <2> QED
    BY <1>6, <1>7 DEF KeyFileInv
<1>9. ReaderInv(L)
  <2>1. 1 \in Epoch
    BY AccessAssumption DEF Epoch
  <2>2. \A s \in Scope : Readers(First, s) \subseteq Device
    BY DEF Readers
  <2> HIDE DEF L
  <2>3. ASSUME NEW i \in 1 .. Len(L), NEW s \in Scope, NEW d \in Readers(L[i], s), NEW e \in 1 .. Epochs(L[i], s)
        PROVE  keyfile[<<s, e, d>>] = L[i].checks[s][e]
    <3>1. i = 1 /\ L[i] = First /\ e = 1
      BY <1>1, <1>2, <2>3
    <3> QED
      BY <1>2, <1>6, <2>1, <2>2, <3>1
  <2> QED
    BY <2>3 DEF ReaderInv
<1>10. HistInv(L)
  <2>1. PICK u : u = Attempt(First)
    OBVIOUS
  <2>2. begun = {u}
    BY <2>1 DEF Init
  <2>3. /\ u.num = 1
        /\ \A s \in Scope : /\ u.readers[s] = Readers(First, s) /\ Len(u.checks[s]) = 1 /\ u.checks[s][1] = 1
    BY <1>2, <2>1, AttemptIs DEF First
  <2>4. BegunInv({u}, L)
    <3>1. Len(L) = 1 /\ L[1] = First /\ Top(L) = First
      BY <1>1, <1>7
    <3> HIDE DEF L
    <3>2. ASSUME NEW s \in Scope
          PROVE  /\ Len(u.checks[s]) \in Nat /\ Len(u.checks[s]) <= Epochs(Top(L), s) + 1
                 /\ \A i \in 1 .. Len(L) : ~ Len(u.checks[s]) > Epochs(L[i], s)
      <4>1. Len(u.checks[s]) = 1 /\ Epochs(First, s) = 1
        BY <1>2, <2>3
      <4>2. \A i \in 1 .. Len(L) : L[i] = First
        BY <3>1
      <4> QED
        BY <3>1, <4>1, <4>2
    <3> QED
      BY <2>3, <3>1, <3>2 DEF BegunInv
  <2>5. OriginInv({u})
    <3>1. ASSUME NEW s \in Scope, NEW e \in Epoch, NEW d \in Device, keyfile[<<s, e, d>>] # 0
          PROVE  d \in u.readers[s] /\ e <= Len(u.checks[s]) /\ u.checks[s][e] = keyfile[<<s, e, d>>]
      <4>1. keyfile[<<s, e, d>>] = 1 /\ e = 1 /\ d \in Readers(First, s)
        BY <1>6, <3>1
      <4> QED
        BY <2>3, <4>1
    <3> QED
      BY <3>1 DEF OriginInv
  <2> QED
    BY <2>2, <2>4, <2>5 DEF HistInv
<1>11. \A d \in Device : job[d] = NoJob
  BY DEF Init
<1> QED
  BY <1>3, <1>4, <1>5, <1>8, <1>9, <1>10, <1>11 DEF LineInv
-----------------------------------------------------------------------------
LEMMA SameKeyFiles == ASSUME NEW L, KeyFileInv(L), UNCHANGED <<keyfile, draft>> PROVE KeyFileInv(L)'
<1>1. keyfile' = keyfile /\ draft' = draft
  OBVIOUS
<1>2. ASSUME NEW s \in Scope, NEW e \in Epoch, NEW r \in Device \cup {Root},
             NEW k, k = keyfile'[<<s, e, r>>]
      PROVE  \/ k = 0
             \/ e <= Epochs(Top(L), s) /\ k = Top(L).checks[s][e]
             \/ e > Epochs(Top(L), s) /\ \E d \in Device : draft'[d][<<s, e>>] = k
  BY <1>1, <1>2 DEF KeyFileInv
<1> QED
  BY <1>2 DEF KeyFileInv

LEMMA SameLine ==
  ASSUME NEW L, LineInv(L), UNCHANGED <<folder, chain, keyfile, held, draft, job, minted, begun>>
  PROVE  LineInv(L)'
<1> USE DEF LineInv
<1>1. ChainsInv(L)' /\ KeysTyped'
  BY DEF ChainsInv, KeysTyped
<1>2. KeyFileInv(L)'
  BY SameKeyFiles
<1>3. ReaderInv(L)'
  BY DEF ReaderInv
<1>4. ASSUME NEW d \in Device, job'[d] # NoJob PROVE JobInv(L, d)'
  <2>1. JobInv(L, d)
    BY <1>4
  <2>2. Alone(d) <=> Alone(d)'
    BY DEF Alone
  <2>3. \A s, e, r : Wanted(d, s, e, r) <=> Wanted(d, s, e, r)'
    BY DEF Wanted
  <2>4. \A f : FileOfJob(d, f) <=> FileOfJob(d, f)'
    BY DEF FileOfJob
  <2> QED
    BY <2>1, <2>2, <2>3, <2>4 DEF JobInv
<1>5. HistInv(L)'
  BY SameHistory
<1> QED
  BY <1>1, <1>2, <1>3, <1>4, <1>5

(* A refresh extends the chain along the line; the keys that come with it  *)
(* were written for this device.                                           *)
LEMMA RefreshStep ==
  ASSUME NEW L, LineInv(L), NEW d \in Device, Refresh(d)
  PROVE  LineInv(L)' /\ \A e \in Device : IsPrefix(chain[e], chain'[e])
<1> USE DEF LineInv
<1>1. PICK k : Reach(L, Candidates(d), k) /\ Resolve(Candidates(d)) = Prefix(L, k)
  BY RefreshesTo
<1>2. PICK n \in 0 .. Len(L) : chain[d] = Prefix(L, n)
  BY DEF ChainsInv
<1>3. /\ job[d] = NoJob /\ Len(Prefix(L, k)) >= Len(chain[d]) /\ RefreshTo(d, Prefix(L, k))
  BY <1>1 DEF Refresh
<1>4. /\ L \in Seq(Version) /\ Len(L) \in Nat /\ k \in 0 .. Len(L) /\ k \in Nat /\ n \in Nat /\ n <= k
      /\ Len(Prefix(L, k)) = k /\ k \in n .. Len(L)
  BY <1>1, <1>2, <1>3, LineFacts, PrefixIs DEF Reach
<1>5. /\ folder' = folder /\ keyfile' = keyfile /\ job' = job /\ minted' = minted /\ begun' = begun
      /\ chain' = [chain EXCEPT ![d] = Prefix(L, k)]
  BY <1>3 DEF RefreshTo
<1>6. chain'[d] = Prefix(L, k) /\ \A e \in Device \ {d} : chain'[e] = chain[e]
  BY <1>5 DEF ChainsInv
<1>7. ChainsInv(L)'
  BY <1>4, <1>5, <1>6 DEF ChainsInv
<1>8. \A e \in Device : IsPrefix(chain[e], chain'[e])
  <2>1. \A e \in Device : \E m \in 0 .. Len(L) : chain[e] = Prefix(L, m)
    BY DEF ChainsInv
  <2>2. IsPrefix(chain[d], chain'[d])
    BY <1>2, <1>4, <1>6, PrefixesKept
  <2>3. ASSUME NEW e \in Device \ {d} PROVE IsPrefix(chain[e], chain'[e])
    <3>1. PICK m \in 0 .. Len(L) : chain[e] = Prefix(L, m)
      BY <2>1
    <3>2. m \in m .. Len(L)
      BY <1>4
    <3> QED
      BY <1>4, <1>6, <3>1, <3>2, PrefixesKept
  <2> QED
    BY <2>2, <2>3
<1>9. CASE k = 0
  <2>1. Prefix(L, k) = <<>> /\ n = 0 /\ chain[d] = <<>>
    BY <1>2, <1>4, <1>9, PrefixIs
  <2>2. held' = held /\ draft' = draft /\ chain' = chain
    BY <1>3, <1>5, <1>6, <2>1 DEF RefreshTo, ChainsInv
  <2> QED
    BY <1>5, <1>8, <2>2, SameLine
<1>10. CASE k # 0
  <2> DEFINE v == L[k]
  <2>1. k \in 1 .. Len(L) /\ Last(Prefix(L, k)) = v /\ Prefix(L, k) # <<>>
    BY <1>4, <1>10, PrefixIs
  <2> HIDE DEF v
  <2>2. /\ held' = [held EXCEPT ![d] = [x \in KeyRef |-> SyncedKey(d, v, x)]]
        /\ draft' = [draft EXCEPT ![d] = [x \in KeyRef |-> IF x[2] <= Epochs(v, x[1]) THEN 0 ELSE draft[d][x]]]
    BY <1>3, <2>1 DEF RefreshTo, KeysTyped
  <2>3. \A e \in Device \ {d} : held'[e] = held[e] /\ draft'[e] = draft[e]
    BY <2>2 DEF KeysTyped
  <2>4. ASSUME NEW s \in Scope, NEW e \in Epoch
        PROVE  /\ held'[d][<<s, e>>] = SyncedKey(d, v, <<s, e>>)
               /\ draft'[d][<<s, e>>] = IF e <= Epochs(v, s) THEN 0 ELSE draft[d][<<s, e>>]
               /\ held[d][<<s, e>>] \in Nat /\ draft[d][<<s, e>>] \in Nat /\ keyfile[<<s, e, d>>] \in Nat
               /\ SyncedKey(d, v, <<s, e>>) \in {held[d][<<s, e>>], keyfile[<<s, e, d>>], 0}
               /\ SyncedKey(d, v, <<s, e>>) # held[d][<<s, e>>] /\ SyncedKey(d, v, <<s, e>>) # 0
                    => e <= Epochs(v, s) /\ d \in Readers(v, s)
    <3>1. <<s, e>> \in KeyRef /\ <<s, e, d>> \in Path /\ e \in Nat
      BY AccessAssumption DEF KeyRef, Path, Epoch
    <3>2. Epochs(v, s) \in Nat
      BY <2>1, LineFacts DEF v
    <3> QED
      BY <2>2, <3>1, <3>2 DEF KeysTyped, SyncedKey
  <2>5. KeysTyped'
    <3>1. \A x \in KeyRef : \E s \in Scope : \E e \in Epoch : x = <<s, e>>
      BY DEF KeyRef
    <3>2. ASSUME NEW x \in KeyRef PROVE held'[d][x] \in Nat /\ draft'[d][x] \in Nat
      <4>1. PICK s \in Scope : \E e \in Epoch : x = <<s, e>>
        BY <3>1
      <4>2. PICK e \in Epoch : x = <<s, e>>
        BY <4>1
      <4>3. held'[d][<<s, e>>] \in {held[d][<<s, e>>], keyfile[<<s, e, d>>], 0}
        BY <2>4
      <4> QED
        BY <2>4, <4>2, <4>3
    <3>3. /\ held'[d] = [x \in KeyRef |-> held'[d][x]] /\ draft'[d] = [x \in KeyRef |-> draft'[d][x]]
          /\ held' = [e \in Device |-> held'[e]] /\ draft' = [e \in Device |-> draft'[e]]
      BY <2>2 DEF KeysTyped
    <3>4. \A e \in Device : held'[e] \in [KeyRef -> Nat] /\ draft'[e] \in [KeyRef -> Nat]
      BY <2>3, <3>2, <3>3 DEF KeysTyped
    <3> QED
      BY <1>5, <3>3, <3>4 DEF KeysTyped
  <2>6. KeyFileInv(L)'
    <3>1. ASSUME NEW s \in Scope, NEW e \in Epoch, e > Epochs(Top(L), s) PROVE draft'[d][<<s, e>>] = draft[d][<<s, e>>]
      <4>1. Epochs(v, s) <= Epochs(Top(L), s) /\ Epochs(v, s) \in Nat /\ Epochs(Top(L), s) \in Nat /\ e \in Nat
        BY <2>1, EpochsBelow, AccessAssumption DEF v, Epoch
      <4>2. ~ (e <= Epochs(v, s))
        BY <3>1, <4>1
      <4> QED
        BY <2>4, <4>2
    <3>2. \A s \in Scope, e \in Epoch : e > Epochs(Top(L), s) => \A x \in Device : draft'[x][<<s, e>>] = draft[x][<<s, e>>]
      BY <2>3, <3>1
    <3>3. ASSUME NEW s \in Scope, NEW e \in Epoch, NEW r \in Device \cup {Root}, NEW key, key = keyfile'[<<s, e, r>>]
          PROVE  \/ key = 0
                 \/ e <= Epochs(Top(L), s) /\ key = Top(L).checks[s][e]
                 \/ e > Epochs(Top(L), s) /\ \E x \in Device : draft'[x][<<s, e>>] = key
      <4>1. \/ key = 0
            \/ e <= Epochs(Top(L), s) /\ key = Top(L).checks[s][e]
            \/ e > Epochs(Top(L), s) /\ \E x \in Device : draft[x][<<s, e>>] = key
        BY <1>5, <3>3 DEF KeyFileInv
      <4> QED
        BY <3>2, <4>1
    <3> HIDE DEF LineInv
    <3> QED
      BY <3>3 DEF KeyFileInv
  <2>7. HistInv(L)'
    BY <1>5, SameHistory
  <2>8. ASSUME NEW x \in Device, job'[x] # NoJob PROVE JobInv(L, x)'
    <3>1. x # d /\ JobInv(L, x) /\ job[x] # NoJob
      BY <1>3, <1>5, <2>8
    <3>2. draft'[x] = draft[x] /\ chain'[x] = chain[x]
      BY <1>6, <2>3, <3>1
    <3>3. \A s \in Scope, e \in Epoch : draft[d][<<s, e>>] = 0
      <4>1. \A y \in KeyRef : draft[d][y] = 0
        BY <3>1 DEF JobInv, Alone
      <4> QED
        BY <4>1 DEF KeyRef
    <3>4. ASSUME NEW y \in KeyRef PROVE draft'[d][y] = 0
      <4>1. PICK s \in Scope, e \in Epoch : y = <<s, e>>
        BY DEF KeyRef
      <4> QED
        BY <2>4, <3>3, <4>1
    <3>5. Alone(x)'
      BY <1>5, <2>3, <3>1, <3>4 DEF JobInv, Alone
    <3> QED
      BY <1>5, <3>1, <3>2, <3>5 DEF JobInv, Wanted, FileOfJob
  <2> QED
    BY <1>5, <1>7, <1>8, <2>5, <2>6, <2>7, <2>8 DEF ReaderInv
<1> QED
  BY <1>4, <1>9, <1>10
-----------------------------------------------------------------------------
(* What the version in work has, if it may follow the line. *)
LEMMA NextFacts ==
  ASSUME NEW L, IsLine(L), NEW v, IsLine(Append(L, v))
  PROVE  /\ v \in Version
         /\ \A s \in Scope : \A e : e \in 1 .. Epochs(v, s) => e \in Epoch /\ e \in Nat /\ v.checks[s][e] \in Key
         /\ \A s \in Scope : \A e : e \in 1 .. Epochs(Top(L), s) =>
              e \in 1 .. Epochs(v, s) /\ v.checks[s][e] = Top(L).checks[s][e]
         /\ \A s \in Scope : Epochs(v, s) \in Nat /\ Epochs(Top(L), s) \in Nat /\ Epochs(Top(L), s) <= Epochs(v, s)
<1> DEFINE M == Append(L, v)
<1>1. /\ L \in Seq(Version) /\ M \in Seq(Version) /\ Len(L) \in Nat /\ L # <<>> /\ Top(L) = Last(L)
      /\ Top(L) = L[Len(L)] /\ Len(L) \in 1 .. Len(L) /\ Top(L) \in Version
  BY LineFacts
<1>2. Len(M) = Len(L) + 1 /\ M[Len(L) + 1] = v /\ Len(L) + 1 \in 1 .. Len(M) /\ Prefix(M, Len(L)) = L
  <2>1. DOMAIN M = 1 .. Len(L) + 1 /\ Len(M) = Len(L) + 1 /\ M[Len(L) + 1] = v
    BY <1>1
  <2>2. v \in Version
    <3> HIDE DEF M
    <3> QED
      BY <1>1, <2>1
  <2> QED
    BY <1>1, <2>1, <2>2, PrefixOfLonger, LineFacts
<1>3. v \in Version
  <2> HIDE DEF M
  <2> QED
    BY <1>1, <1>2
<1>4. Verify(L, v)
  <2>1. Verify(Prefix(M, (Len(L) + 1) - 1), M[Len(L) + 1])
    <3> HIDE DEF M
    <3> QED
      BY <1>2 DEF IsLine, M
  <2>2. (Len(L) + 1) - 1 = Len(L)
    BY <1>1
  <2> QED
    BY <1>2, <2>1, <2>2
<1>5. ASSUME NEW s \in Scope
      PROVE  /\ Epochs(v, s) \in Nat /\ Epochs(Top(L), s) \in Nat /\ Epochs(Top(L), s) <= Epochs(v, s)
             /\ \A e : e \in 1 .. Epochs(v, s) => e \in Epoch /\ e \in Nat /\ v.checks[s][e] \in Key
             /\ \A e : e \in 1 .. Epochs(Top(L), s) =>
                  e \in 1 .. Epochs(v, s) /\ v.checks[s][e] = Top(L).checks[s][e]
  <2>1. IsPrefix(Top(L).checks[s], v.checks[s])
    BY <1>1, <1>4 DEF Verify, EpochsKept
  <2>2. Top(L).checks[s] \in Seq(Key) /\ v.checks[s] \in Seq(Key)
    BY <1>1, <1>3 DEF Version
  <2>3. \A e : e \in 1 .. Epochs(v, s) => e \in Epoch /\ e \in Nat
    <3> HIDE DEF M
    <3>1. \A e \in 1 .. Epochs(M[Len(L) + 1], s) : e \in Epoch
      BY <1>2, EpochsBelow DEF M
    <3> QED
      BY <1>2, <3>1
  <2> QED
    BY <2>1, <2>2, <2>3 DEF IsPrefix, Epochs
<1> QED
  BY <1>3, <1>5

(* Giving a change up leaves what was written. *)
LEMMA JobGone ==
  ASSUME NEW L, LineInv(L), NEW d \in Device, job[d] # NoJob, job' = [job EXCEPT ![d] = NoJob],
         UNCHANGED <<folder, chain, keyfile, held, draft, minted, begun>>
  PROVE  LineInv(L)'
<1> USE DEF LineInv
<1>1. ChainsInv(L)' /\ KeysTyped'
  BY DEF ChainsInv, KeysTyped
<1>2. KeyFileInv(L)'
  BY SameKeyFiles
<1>3. ReaderInv(L)' /\ HistInv(L)'
  BY SameHistory DEF ReaderInv
<1>4. \A x \in Device : job'[x] = NoJob
  <2>1. \A x \in Device \ {d} : job[x] = NoJob
    BY DEF JobInv, Alone
  <2> QED
    BY <2>1 DEF KeysTyped
<1> QED
  BY <1>1, <1>2, <1>3, <1>4

(* A key file is written where there is none, with the key that the next   *)
(* version commits to.                                                     *)
LEMMA WriteStep ==
  ASSUME NEW L, LineInv(L), NEW d \in Device, NEW f, WriteKey(d, f)
  PROVE  LineInv(L)'
<1> USE DEF LineInv
<1>1. /\ job[d] # NoJob /\ JobInv(L, d) /\ f \in job[d].files
      /\ UNCHANGED <<folder, seen, chain, held, draft, minted, begun>>
  BY DEF WriteKey
<1>2. \A x \in Device \ {d} : job[x] = NoJob
  BY <1>1 DEF JobInv, Alone
<1> DEFINE v == job[d].ver
<1>3. IsLine(L) /\ IsLine(Append(L, v))
  BY <1>1 DEF JobInv
<1>4. PICK s0 \in Scope, e0 \in Epoch, r0 \in Device \cup {Root} :
        /\ f.path = <<s0, e0, r0>> /\ e0 <= Epochs(v, s0) /\ f.key = v.checks[s0][e0]
        /\ r0 # Root => r0 \in Readers(v, s0)
  BY <1>1 DEF JobInv, FileOfJob
<1>5. e0 \in 1 .. Epochs(v, s0) /\ f.key \in Key /\ f.path \in Path
  BY <1>3, <1>4, NextFacts, AccessAssumption DEF Epoch, Path
<1>6. CASE keyfile[f.path] # 0 /\ f.strict
  BY <1>1, <1>6, JobGone DEF WriteKey
<1>7. CASE ~ (keyfile[f.path] # 0 /\ f.strict)
  <2>1. keyfile' = IF keyfile[f.path] = 0 THEN [keyfile EXCEPT ![f.path] = f.key] ELSE keyfile
    BY DEF WriteKey
  <2>2. job' = [job EXCEPT ![d] = [job[d] EXCEPT !.files = job[d].files \ {f}]]
    BY <1>1, <1>7 DEF WriteKey
  <2>3. /\ job'[d] = [job[d] EXCEPT !.files = job[d].files \ {f}] /\ \A x \in Device \ {d} : job'[x] = NoJob
        /\ job' = [x \in Device |-> job'[x]]
    BY <1>2, <2>2 DEF KeysTyped
  <2>4. /\ DOMAIN job'[d] = {"files", "ver"} /\ job'[d] = [x \in DOMAIN job'[d] |-> job'[d][x]]
        /\ job'[d].ver = v /\ job'[d].files = job[d].files \ {f}
    <3>1. job[d] = [x \in DOMAIN job[d] |-> job[d][x]] /\ DOMAIN job[d] = {"files", "ver"} /\ job[d].ver = v
      BY <1>1 DEF JobInv
    <3> QED
      BY <2>3, <3>1
  <2>5. /\ keyfile' \in [Path -> Nat] /\ \A p \in Path : keyfile[p] # 0 => keyfile'[p] = keyfile[p]
        /\ \A p \in Path : keyfile'[p] = IF p = f.path /\ keyfile[p] = 0 THEN f.key ELSE keyfile[p]
    BY <1>5, <2>1 DEF KeysTyped, Key
  <2>6. \A s \in Scope, e \in Epoch, r \in Device \cup {Root} : <<s, e, r>> \in Path
    BY DEF Path
  <2>7. ChainsInv(L)' /\ KeysTyped'
    BY <1>1, <2>3, <2>5 DEF ChainsInv, KeysTyped
  <2>11. HistInv(L)'
    <3>5. BegunInv(begun, L) /\ OriginInv(begun) /\ begun' = begun
      BY <1>1 DEF HistInv
    <3>6. ASSUME NEW s \in Scope, NEW e \in Epoch, NEW x \in Device, keyfile'[<<s, e, x>>] # 0
          PROVE  \E u \in begun : /\ x \in u.readers[s] /\ e <= Len(u.checks[s])
                                  /\ u.checks[s][e] = keyfile'[<<s, e, x>>]
      <4>1. CASE keyfile'[<<s, e, x>>] = keyfile[<<s, e, x>>]
        BY <3>5, <3>6, <4>1 DEF OriginInv
      <4>2. CASE keyfile'[<<s, e, x>>] # keyfile[<<s, e, x>>]
        <5>1. <<s, e, x>> = f.path /\ keyfile'[<<s, e, x>>] = f.key
          BY <2>5, <2>6, <4>2
        <5>2. s = s0 /\ e = e0 /\ x = r0 /\ x # Root
          BY <1>4, <5>1, AccessAssumption
        <5>3. Attempt(v) \in begun
          BY <1>1 DEF JobInv
        <5> QED
          BY <1>4, <5>1, <5>2, <5>3, AttemptIs
      <4> QED
        BY <4>1, <4>2
    <3>7. OriginInv(begun)'
      BY <3>5, <3>6 DEF OriginInv
    <3>8. BegunInv(begun, L)'
      BY <3>5 DEF BegunInv
    <3> QED
      BY <3>7, <3>8 DEF HistInv
  <2>8. KeyFileInv(L)'
    <3>1. ASSUME NEW s \in Scope, NEW e \in Epoch, NEW r \in Device \cup {Root}, NEW key, key = keyfile'[<<s, e, r>>]
          PROVE  \/ key = 0
                 \/ e <= Epochs(Top(L), s) /\ key = Top(L).checks[s][e]
                 \/ e > Epochs(Top(L), s) /\ \E x \in Device : draft'[x][<<s, e>>] = key
      <4>1. CASE key = keyfile[<<s, e, r>>]
        BY <1>1, <4>1 DEF KeyFileInv
      <4>2. CASE key # keyfile[<<s, e, r>>]
        <5>1. <<s, e, r>> = f.path /\ key = f.key
          BY <2>5, <2>6, <3>1, <4>2
        <5>2. s = s0 /\ e = e0
          BY <1>4, <5>1
        <5>3. e \in Nat /\ Epochs(Top(L), s) \in Nat /\ e >= 1
          BY <1>3, NextFacts, AccessAssumption DEF Epoch
        <5>4. CASE e <= Epochs(Top(L), s)
          <6>1. v.checks[s][e] = Top(L).checks[s][e]
            BY <1>3, <5>3, <5>4, NextFacts
          <6> QED
            BY <1>4, <5>1, <5>2, <5>4, <6>1
        <5>5. CASE e > Epochs(Top(L), s)
          BY <1>1, <1>4, <1>5, <5>1, <5>2, <5>5 DEF JobInv
        <5> QED
          BY <5>3, <5>4, <5>5
      <4> QED
        BY <4>1, <4>2
    <3> HIDE DEF LineInv
    <3> QED
      BY <3>1 DEF KeyFileInv
  <2>9. ReaderInv(L)'
    <3>1. ASSUME NEW i \in 1 .. Len(L), NEW s \in Scope, NEW r \in Readers(L[i], s), NEW e \in 1 .. Epochs(L[i], s)
          PROVE  keyfile'[<<s, e, r>>] = L[i].checks[s][e]
      <4>1. keyfile[<<s, e, r>>] = L[i].checks[s][e]
        BY DEF ReaderInv
      <4>2. L[i].checks[s][e] \in Key /\ e \in Epoch /\ r \in Device
        BY LineFacts, EpochsBelow DEF Readers
      <4> QED
        BY <2>5, <2>6, <4>1, <4>2 DEF Key
    <3> QED
      BY <3>1 DEF ReaderInv
  <2>10. JobInv(L, d)'
    <3>1. Alone(d)'
      BY <1>1, <2>3 DEF JobInv, Alone
    <3>2. \A g : FileOfJob(d, g) => FileOfJob(d, g)'
      BY <2>4 DEF FileOfJob
    <3>3. ASSUME NEW s \in Scope, NEW r \in Readers(v, s), NEW e \in 1 .. Epochs(v, s) PROVE Wanted(d, s, e, r)'
      <4>1. v.checks[s][e] \in Key /\ e \in Epoch /\ r \in Device /\ <<s, e, r>> \in Path
        BY <1>3, <2>6, NextFacts DEF Readers
      <4>2. Wanted(d, s, e, r)
        BY <1>1 DEF JobInv
      <4>3. CASE keyfile[<<s, e, r>>] # 0
        BY <2>4, <2>5, <4>1, <4>2, <4>3 DEF Wanted
      <4>4. CASE keyfile[<<s, e, r>>] = 0 /\ f.path = <<s, e, r>>
        <5>1. keyfile'[<<s, e, r>>] = f.key /\ s = s0 /\ e = e0
          BY <1>4, <2>5, <4>1, <4>4
        <5> QED
          BY <1>4, <2>4, <5>1 DEF Wanted
      <4>5. CASE keyfile[<<s, e, r>>] = 0 /\ f.path # <<s, e, r>>
        <5>1. keyfile'[<<s, e, r>>] = 0
          BY <2>5, <4>1, <4>5
        <5>2. PICK g \in job[d].files : g.path = <<s, e, r>>
          BY <4>1, <4>2, <4>5 DEF Wanted, Key
        <5> QED
          BY <2>4, <4>5, <5>1, <5>2 DEF Wanted
      <4> QED
        BY <4>3, <4>4, <4>5
    <3> QED
      BY <1>1, <2>4, <3>1, <3>2, <3>3 DEF JobInv
  <2> QED
    BY <2>3, <2>7, <2>8, <2>9, <2>10, <2>11
<1> QED
  BY <1>6, <1>7
-----------------------------------------------------------------------------
(* As long as a hash is free the line may go on. *)
LEMMA Room ==
  ASSUME NEW L, IsLine(L), NEW h \in Hash, \A i \in 1 .. Len(L) : L[i].hash # h
  PROVE  Len(L) + 1 \in 1 .. MaxVersions
<1>1. Len(L) \in Nat /\ MaxVersions \in Nat
  BY LineFacts
<1> DEFINE n == Len(L) + 1
           f == [i \in 1 .. n |-> IF i <= Len(L) THEN L[i].hash ELSE h]
<1>2. f \in Injection(1 .. n, 1 .. MaxVersions)
  <2>1. \A i \in 1 .. Len(L) : L[i].hash \in Hash
    BY DEF IsLine
  <2>2. f \in [1 .. n -> 1 .. MaxVersions]
    BY <1>1, <2>1 DEF Hash
  <2>3. ASSUME NEW i \in 1 .. n, NEW j \in 1 .. n, f[i] = f[j] PROVE i = j
    BY <1>1, <2>3 DEF IsLine
  <2> QED
    BY <2>2, <2>3 DEF Injection, IsInjective
<1>3. n \in Nat
  BY <1>1
<1> HIDE DEF f, n
<1>4. Cardinality(1 .. n) <= Cardinality(1 .. MaxVersions)
  BY <1>1, <1>2, <1>3, FS_Interval, FS_Injection
<1>5. ASSUME NEW m \in Nat PROVE Cardinality(1 .. m) = m
  <2>1. Cardinality(1 .. m) = IF 1 > m THEN 0 ELSE m - 1 + 1
    BY FS_Interval
  <2> QED
    BY <2>1
<1>6. n <= MaxVersions
  BY <1>1, <1>3, <1>4, <1>5
<1> QED
  BY <1>1, <1>6 DEF n

(* A line with one valid version more is a line. *)
LEMMA AppendLine ==
  ASSUME NEW L, IsLine(L), NEW v \in Version, Verify(L, v), v.hash \in Hash,
         \A i \in 1 .. Len(L) : L[i].hash # v.hash, \A s \in Scope : Epochs(v, s) <= Len(L) + 1
  PROVE  IsLine(Append(L, v))
<1> DEFINE M == Append(L, v)
<1>1. /\ L \in Seq(Version) /\ Len(L) \in Nat /\ L # <<>> /\ Top(L) = Last(L) /\ Top(L) = L[Len(L)]
      /\ Len(L) \in 1 .. Len(L) /\ Top(L) \in Version
  BY LineFacts
<1>2. /\ M \in Seq(Version) /\ Len(M) = Len(L) + 1 /\ M[Len(L) + 1] = v /\ Top(M) = v
      /\ \A i \in 1 .. Len(L) : M[i] = L[i]
  BY <1>1 DEF Top
<1>3. v.num = Len(L) + 1
  BY DEF Verify
<1>4. ASSUME NEW s \in Scope PROVE Epochs(v, s) <= Epochs(v, s) /\ Epochs(Top(L), s) <= Epochs(v, s)
  <2>1. IsPrefix(Top(L).checks[s], v.checks[s])
    BY <1>1 DEF Verify, EpochsKept
  <2>2. Top(L).checks[s] \in Seq(Key) /\ v.checks[s] \in Seq(Key)
    BY <1>1 DEF Version
  <2> QED
    BY <2>1, <2>2 DEF IsPrefix, Epochs
<1>5. \A i \in 0 .. Len(L) : Prefix(M, i) = Prefix(L, i)
  BY <1>1, PrefixOfLonger
<1>6. Prefix(L, Len(L)) = L
  BY LineFacts
<1> HIDE DEF M
<1>7. ASSUME NEW i \in 1 .. Len(M)
      PROVE  /\ M[i].num = i /\ M[i].hash \in Hash
             /\ \A s \in Scope : Epochs(M[i], s) <= i /\ Epochs(M[i], s) <= Epochs(Top(M), s)
             /\ Verify(Prefix(M, i - 1), M[i])
  <2>1. CASE i = Len(L) + 1
    <3>1. M[i] = v /\ i - 1 = Len(L) /\ Prefix(M, i - 1) = L
      BY <1>1, <1>2, <1>5, <1>6, <2>1
    <3> QED
      BY <1>2, <1>3, <1>4, <2>1, <3>1
  <2>2. CASE i \in 1 .. Len(L)
    <3>1. M[i] = L[i] /\ i - 1 \in 0 .. Len(L) /\ Prefix(M, i - 1) = Prefix(L, i - 1)
      BY <1>1, <1>2, <1>5, <2>2
    <3>2. /\ L[i].num = i /\ L[i].hash \in Hash /\ Verify(Prefix(L, i - 1), L[i])
          /\ \A s \in Scope : Epochs(L[i], s) <= i
      BY <2>2 DEF IsLine
    <3>3. ASSUME NEW s \in Scope PROVE Epochs(L[i], s) <= Epochs(v, s)
      <4>1. Epochs(L[i], s) \in Nat /\ Epochs(Top(L), s) \in Nat /\ Epochs(L[i], s) <= Epochs(Top(L), s)
        BY <2>2, EpochsBelow
      <4>2. v.checks[s] \in Seq(Key)
        BY DEF Version
      <4>3. Epochs(v, s) \in Nat
        BY <4>2 DEF Epochs
      <4> QED
        BY <1>4, <4>1, <4>3
    <3> QED
      BY <1>2, <3>1, <3>2, <3>3
  <2> QED
    BY <1>1, <1>2, <2>1, <2>2
<1>8. ASSUME NEW i \in 1 .. Len(M), NEW j \in 1 .. Len(M), M[i].hash = M[j].hash PROVE i = j
  BY <1>1, <1>2, <1>8 DEF IsLine
<1>9. M[1] = First /\ Len(M) >= 1
  BY <1>1, <1>2 DEF IsLine
<1> QED
  BY <1>2, <1>7, <1>8, <1>9 DEF IsLine, M

(* Publishing makes the version the newest of the line. *)
LEMMA PublishStep ==
  ASSUME NEW L, LineInv(L), NEW d \in Device, Publish(d)
  PROVE  \E M : LineInv(M)'
<1> USE DEF LineInv
<1> DEFINE v == job[d].ver
           M == Append(L, v)
<1>1. /\ job[d] # NoJob /\ JobInv(L, d) /\ job[d].files = {}
      /\ UNCHANGED <<chain, keyfile, held, draft, minted, begun>> /\ folder' = folder \cup {v}
      /\ job' = [job EXCEPT ![d] = NoJob]
  BY DEF Publish
<1>2. IsLine(L) /\ IsLine(M) /\ Alone(d)
  BY <1>1 DEF JobInv
<1>3. /\ L \in Seq(Version) /\ Len(L) \in Nat /\ v \in Version
  BY <1>2, LineFacts, NextFacts
<1>4. Len(M) = Len(L) + 1 /\ M[Len(L) + 1] = v /\ Top(M) = v /\ \A i \in 1 .. Len(L) : M[i] = L[i]
  BY <1>3 DEF Top
<1>5. \A x \in Device : job'[x] = NoJob
  BY <1>1, <1>2 DEF KeysTyped, Alone
<1>6. \A n \in 0 .. Len(L) : Prefix(M, n) = Prefix(L, n)
  BY <1>3, PrefixOfLonger
<1> HIDE DEF M, v
<1>7. PICK K : K = M
  OBVIOUS
<1>8. ChainsInv(K)'
  <2>1. folder' = {K[i] : i \in 1 .. Len(K)}
    BY <1>1, <1>3, <1>4, <1>7 DEF ChainsInv
  <2>2. ASSUME NEW x \in Device PROVE \E n \in 0 .. Len(K) : chain'[x] = Prefix(K, n)
    <3>1. PICK n \in 0 .. Len(L) : chain[x] = Prefix(L, n)
      BY DEF ChainsInv
    <3> QED
      BY <1>1, <1>3, <1>4, <1>6, <1>7, <3>1
  <2>3. chain' = [x \in Device |-> chain'[x]]
    BY <1>1 DEF ChainsInv
  <2> QED
    BY <2>1, <2>2, <2>3 DEF ChainsInv
<1>9. KeysTyped'
  BY <1>1 DEF KeysTyped
<1>10. KeyFileInv(K)'
  <2>1. ASSUME NEW s \in Scope, NEW e \in Epoch, NEW r \in Device \cup {Root}, NEW key, key = keyfile'[<<s, e, r>>]
        PROVE  \/ key = 0
               \/ e <= Epochs(v, s) /\ key = v.checks[s][e]
               \/ e > Epochs(v, s) /\ \E x \in Device : draft'[x][<<s, e>>] = key
    <3>1. /\ e \in Nat /\ e >= 1 /\ Epochs(v, s) \in Nat /\ Epochs(Top(L), s) \in Nat
          /\ Epochs(Top(L), s) <= Epochs(v, s) /\ <<s, e>> \in KeyRef
      BY <1>2, NextFacts, AccessAssumption DEF Epoch, M, KeyRef
    <3>2. \/ key = 0
          \/ e <= Epochs(Top(L), s) /\ key = Top(L).checks[s][e]
          \/ e > Epochs(Top(L), s) /\ \E x \in Device : draft[x][<<s, e>>] = key
      BY <1>1, <2>1 DEF KeyFileInv
    <3>3. CASE e <= Epochs(Top(L), s) /\ key = Top(L).checks[s][e]
      <4>1. v.checks[s][e] = Top(L).checks[s][e]
        BY <1>2, <3>1, <3>3, NextFacts DEF M
      <4> QED
        BY <3>1, <3>3, <4>1
    <3>4. CASE e > Epochs(Top(L), s) /\ key # 0 /\ \E x \in Device : draft[x][<<s, e>>] = key
      <4>1. draft[d][<<s, e>>] = key
        BY <1>2, <3>1, <3>4 DEF Alone
      <4>2. CASE e <= Epochs(v, s)
        <5>1. e \in 1 .. Epochs(v, s)
          BY <3>1, <4>2
        <5> QED
          BY <1>1, <3>4, <4>1, <4>2, <5>1 DEF JobInv, v
      <4>3. CASE e > Epochs(v, s)
        BY <1>1, <4>1, <4>3
      <4> QED
        BY <3>1, <4>2, <4>3
    <3> QED
      BY <3>2, <3>3, <3>4
  <2>2. Top(K) = v
    BY <1>4, <1>7
  <2>3. ASSUME NEW s \in Scope, NEW e \in Epoch, NEW r \in Device \cup {Root}, NEW key, key = keyfile'[<<s, e, r>>]
        PROVE  \/ key = 0
               \/ e <= Epochs(Top(K), s) /\ key = Top(K).checks[s][e]
               \/ e > Epochs(Top(K), s) /\ \E x \in Device : draft'[x][<<s, e>>] = key
    BY <2>1, <2>2, <2>3
  <2> HIDE DEF LineInv
  <2> QED
    BY <2>3 DEF KeyFileInv
<1>11. ReaderInv(K)'
  <2>1. ASSUME NEW i \in 1 .. Len(K), NEW s \in Scope, NEW r \in Readers(K[i], s), NEW e \in 1 .. Epochs(K[i], s)
        PROVE  keyfile'[<<s, e, r>>] = K[i].checks[s][e]
    <3>1. CASE i \in 1 .. Len(L)
      <4>1. K[i] = L[i]
        BY <1>4, <1>7, <3>1
      <4>2. keyfile[<<s, e, r>>] = L[i].checks[s][e]
        BY <3>1, <4>1 DEF ReaderInv
      <4> QED
        BY <1>1, <4>1, <4>2
    <3>2. CASE i = Len(L) + 1
      <4>1. K[i] = v
        BY <1>4, <1>7, <3>2
      <4>2. Wanted(d, s, e, r)
        BY <1>1, <4>1 DEF JobInv, v
      <4> QED
        BY <1>1, <4>1, <4>2 DEF Wanted, v
    <3> QED
      BY <1>3, <1>4, <1>7, <3>1, <3>2
  <2> QED
    BY <2>1 DEF ReaderInv
<1>12. HistInv(K)'
  <2>1. PICK B : B = begun
    OBVIOUS
  <2>2. BegunInv(B, L) /\ OriginInv(B) /\ begun' = B
    BY <1>1, <2>1 DEF HistInv
  <2>3. keyfile' = keyfile
    BY <1>1
  <2>4. OriginInv(B)'
    BY <2>2, <2>3 DEF OriginInv
  <2>5. ASSUME NEW u \in B, NEW s \in Scope
        PROVE  /\ Len(u.checks[s]) \in Nat /\ Len(u.checks[s]) <= Epochs(Top(K), s) + 1
               /\ \A i \in 1 .. Len(K) : u.num <= i + 1 /\ Len(u.checks[s]) > Epochs(K[i], s)
                                          => u.readers[s] \subseteq Readers(K[i], s)
    <3>1. /\ u.num \in Nat /\ u.num <= Len(L) + 1
          /\ Len(u.checks[s]) \in Nat /\ Len(u.checks[s]) <= Epochs(Top(L), s) + 1
          /\ \A i \in 1 .. Len(L) : u.num <= i + 1 /\ Len(u.checks[s]) > Epochs(L[i], s)
                                     => u.readers[s] \subseteq Readers(L[i], s)
      BY <2>2 DEF BegunInv
    <3>2. Epochs(v, s) \in Nat /\ Epochs(Top(L), s) \in Nat /\ Epochs(Top(L), s) <= Epochs(v, s)
      BY <1>2, NextFacts DEF M
    <3>3. Len(K) = Len(L) + 1 /\ Top(K) = v /\ K[Len(L) + 1] = v /\ \A i \in 1 .. Len(L) : K[i] = L[i]
      BY <1>4, <1>7
    <3>4. ASSUME Len(u.checks[s]) > Epochs(v, s) PROVE u.readers[s] \subseteq Readers(v, s)
      <4>1. Epochs(v, s) = Epochs(Top(L), s) /\ Len(u.checks[s]) > Epochs(Top(L), s)
        BY <3>1, <3>2, <3>4
      <4>2. Top(L) = L[Len(L)] /\ Len(L) \in 1 .. Len(L)
        BY <1>2, LineFacts
      <4>3. u.readers[s] \subseteq Readers(Top(L), s)
        BY <3>1, <4>1, <4>2
      <4>4. Readers(Top(L), s) \subseteq Readers(v, s)
        BY <1>1, <4>1 DEF JobInv, v
      <4> QED
        BY <4>3, <4>4
    <3>5. ASSUME NEW i \in 1 .. Len(K), u.num <= i + 1, Len(u.checks[s]) > Epochs(K[i], s)
          PROVE  u.readers[s] \subseteq Readers(K[i], s)
      <4>1. CASE i \in 1 .. Len(L)
        BY <3>1, <3>3, <3>5, <4>1
      <4>2. CASE i = Len(L) + 1
        BY <3>3, <3>4, <3>5, <4>2
      <4> QED
        BY <1>3, <3>3, <4>1, <4>2
    <3> QED
      BY <1>3, <3>1, <3>2, <3>3, <3>5
  <2>6. \A u \in B : u.num \in Nat /\ u.num <= Len(K) + 1
    BY <1>3, <1>4, <1>7, <2>2 DEF BegunInv
  <2>7. BegunInv(B, K)
    <3> HIDE DEF LineInv
    <3> QED
      BY <2>5, <2>6 DEF BegunInv
  <2> QED
    BY <2>2, <2>4, <2>7 DEF HistInv
<1>13. LineInv(K)'
  BY <1>2, <1>5, <1>7, <1>8, <1>9, <1>10, <1>11, <1>12
<1> QED
  BY <1>13
-----------------------------------------------------------------------------
(* Who has all files and has refreshed follows the whole line. *)
LEMMA AllAccepted ==
  ASSUME NEW L, IsLine(L), ChainsInv(L), NEW d \in Device, seen[d] = {v.hash : v \in folder}, Refreshed(d)
  PROVE  chain[d] = L /\ Newest(d) = Top(L)
<1>1. PICK k : Reach(L, Candidates(d), k) /\ Resolve(Candidates(d)) = Prefix(L, k)
  BY RefreshesTo
<1>2. folder \subseteq Candidates(d)
  BY DEF Candidates, Files
<1>3. Len(L) \in Nat /\ Prefix(L, Len(L)) = L /\ Top(L) = Last(L)
  BY LineFacts
<1>4. k = Len(L)
  <2> SUFFICES ASSUME k # Len(L) PROVE FALSE
    OBVIOUS
  <2>1. k + 1 \in 1 .. Len(L) /\ L[k + 1] \notin Candidates(d)
    BY <1>1, <1>3 DEF Reach
  <2> QED
    BY <1>2, <2>1 DEF ChainsInv
<1> QED
  BY <1>1, <1>3, <1>4 DEF Refreshed, Newest

(* What a change of the list may ask for, whoever makes it. *)
Sensible(old, role, gone) ==
  /\ role \in [Device -> Role \cup {Unlisted}] /\ gone \subseteq Device
  /\ \A x \in gone : role[x] # Unlisted
  /\ old.gone \subseteq gone
  /\ \A x \in Device : IF old.role[x] = Unlisted THEN x \notin gone ELSE role[x] # Unlisted
  /\ \E x \in Device : \A y \in Device \ {x} : role[y] = old.role[y] /\ (y \in gone <=> y \in old.gone)

(* As a change is about one device, a scope that loses it gains nobody. *)
LEMMA NobodyElse ==
  ASSUME NEW old, NEW role, NEW gone, Sensible(old, role, gone),
         NEW s \in LosingScopes(old, [role |-> role, gone |-> gone])
  PROVE  Readers([role |-> role, gone |-> gone], s) \subseteq Readers(old, s)
<1> DEFINE plan == [role |-> role, gone |-> gone]
<1>1. PICK x \in Device : \A y \in Device \ {x} : role[y] = old.role[y] /\ (y \in gone <=> y \in old.gone)
  BY DEF Sensible
<1>2. \A y \in Device \ {x} : y \in Readers(plan, s) <=> y \in Readers(old, s)
  BY <1>1 DEF Readers, Active
<1>3. Readers(plan, s) \subseteq Device /\ Readers(old, s) \subseteq Device
  BY DEF Readers
<1>4. ~ (Readers(old, s) \subseteq Readers(plan, s))
  BY DEF LosingScopes
<1> HIDE DEF plan
<1>5. x \notin Readers(plan, s)
  BY <1>2, <1>3, <1>4
<1> QED
  BY <1>2, <1>3, <1>5 DEF plan

(* Drafts are stored where there are none. *)
LEMMA DraftsStep ==
  ASSUME NEW L, IsLine(L), ChainsInv(L), KeysTyped, KeyFileInv(L), NEW d \in Device, FreeHashes # {},
         NEW scopes, scopes \subseteq Scope, StoreDrafts(d, Top(L), scopes), keyfile' = keyfile, held' = held,
         job' = [x \in Device |-> job'[x]]
  PROVE  /\ KeysTyped' /\ KeyFileInv(L)'
         /\ \A x \in Device \ {d} : draft'[x] = draft[x]
         /\ \A s \in Scope : \A e \in Epoch : draft'[d][<<s, e>>]
              = IF s \in scopes /\ e = Epochs(Top(L), s) + 1 THEN DraftKey(d, <<s, e>>) ELSE draft[d][<<s, e>>]
<1>1. /\ draft' = [draft EXCEPT ![d] = [k \in KeyRef |->
                 IF k[1] \in scopes /\ k[2] = Epochs(Top(L), k[1]) + 1 THEN DraftKey(d, k) ELSE draft[d][k]]]
      /\ minted' \in {minted, minted + 1}
  BY DEF StoreDrafts, KeysTyped
<1>2. ASSUME NEW k \in KeyRef PROVE draft[d][k] \in Nat /\ DraftKey(d, k) \in Nat
  BY DEF KeysTyped, DraftKey
<1>3. /\ draft'[d] = [k \in KeyRef |->
                 IF k[1] \in scopes /\ k[2] = Epochs(Top(L), k[1]) + 1 THEN DraftKey(d, k) ELSE draft[d][k]]
      /\ \A x \in Device \ {d} : draft'[x] = draft[x]
      /\ draft' = [x \in Device |-> draft'[x]]
  BY <1>1 DEF KeysTyped
<1>4. ASSUME NEW s \in Scope, NEW e \in Epoch
      PROVE  /\ draft'[d][<<s, e>>]
                  = IF s \in scopes /\ e = Epochs(Top(L), s) + 1 THEN DraftKey(d, <<s, e>>) ELSE draft[d][<<s, e>>]
             /\ draft[d][<<s, e>>] # 0 => draft'[d][<<s, e>>] = draft[d][<<s, e>>]
  <2>1. PICK k \in KeyRef : k = <<s, e>>
    BY DEF KeyRef
  <2>2. draft'[d][k] = IF s \in scopes /\ e = Epochs(Top(L), s) + 1 THEN DraftKey(d, k) ELSE draft[d][k]
    BY <1>3, <2>1
  <2> QED
    BY <2>1, <2>2 DEF DraftKey
<1>5. KeysTyped'
  <2>1. draft'[d] \in [KeyRef -> Nat]
    BY <1>2, <1>3
  <2>2. \A x \in Device : draft'[x] \in [KeyRef -> Nat]
    BY <1>3, <2>1 DEF KeysTyped
  <2>3. draft' \in [Device -> [KeyRef -> Nat]] /\ minted' \in Nat
    BY <1>1, <1>3, <2>2 DEF KeysTyped
  <2> QED
    BY <2>3 DEF KeysTyped
<1>6. KeyFileInv(L)'
  <2>1. ASSUME NEW s \in Scope, NEW e \in Epoch, NEW r \in Device \cup {Root}, NEW key, key = keyfile'[<<s, e, r>>]
        PROVE  \/ key = 0
               \/ e <= Epochs(Top(L), s) /\ key = Top(L).checks[s][e]
               \/ e > Epochs(Top(L), s) /\ \E x \in Device : draft'[x][<<s, e>>] = key
    <3>1. \/ key = 0
          \/ e <= Epochs(Top(L), s) /\ key = Top(L).checks[s][e]
          \/ e > Epochs(Top(L), s) /\ \E x \in Device : draft[x][<<s, e>>] = key
      BY <2>1 DEF KeyFileInv
    <3> QED
      BY <1>3, <1>4, <3>1
  <2> QED
    BY <2>1 DEF KeyFileInv
<1> QED
  BY <1>3, <1>4, <1>5, <1>6

(* A change begun in turn prepares the successor of the whole line. *)
LEMMA MutateFromStep ==
  ASSUME Coordinated = TRUE, NEW L, LineInv(L), NEW d \in Device, NEW root \in BOOLEAN, NEW role, NEW gone,
         job[d] = NoJob, Turn(d), Refreshed(d), root \/ IsAdmin(Newest(d), d),
         MutateFrom(d, root, role, gone), Sensible(Newest(d), role, gone)
  PROVE  LineInv(L)'
<1> DEFINE old  == Newest(d)
           plan == [role |-> role, gone |-> gone]
           lose == LosingScopes(old, plan)
           fresh(s) == DraftKey(d, <<s, Epochs(old, s) + 1>>)
<1>1. /\ IsLine(L) /\ ChainsInv(L) /\ KeysTyped /\ KeyFileInv(L) /\ ReaderInv(L) /\ HistInv(L)
      /\ job[d] = NoJob /\ Turn(d) /\ Refreshed(d) /\ MutateFrom(d, root, role, gone)
      /\ root \/ IsAdmin(old, d)
  BY DEF LineInv
<1>2. /\ seen[d] = {x.hash : x \in folder} /\ Alone(d)
  BY <1>1 DEF Turn, Alone
<1>3. chain[d] = L /\ old = Top(L) /\ chain[d] # <<>>
  BY <1>1, <1>2, AllAccepted, LineFacts
<1>4. /\ Top(L) = Last(L) /\ Top(L) = L[Len(L)] /\ Len(L) \in 1 .. Len(L) /\ Top(L) \in Version /\ Len(L) \in Nat
      /\ Top(L).num = Len(L) /\ Top(L).hash \in Nat /\ L # <<>>
  <2>1. /\ Top(L) = Last(L) /\ Top(L) = L[Len(L)] /\ Len(L) \in 1 .. Len(L) /\ Top(L) \in Version
        /\ Len(L) \in Nat /\ L # <<>>
    BY <1>1, LineFacts
  <2> QED
    BY <1>1, <2>1 DEF IsLine, Version
<1> HIDE DEF plan, lose, fresh, old
<1>5. PICK h \in FreeHashes : \E v :
        /\ v = [num |-> old.num + 1, hash |-> h, prev |-> old.hash,
                author |-> IF root THEN Root ELSE d, role |-> role, gone |-> gone,
                checks |-> [s \in Scope |-> IF s \in lose THEN Append(old.checks[s], fresh(s)) ELSE old.checks[s]]]
        /\ job' = [job EXCEPT ![d] = [files |-> KeyFiles(d, root, old, plan), ver |-> v]]
        /\ begun' = begun \cup {Attempt(v)}
  BY <1>1 DEF MutateFrom, plan, lose, fresh, old
<1>6. /\ \A f \in KeyFiles(d, root, old, plan) : f.key # 0
      /\ StoreDrafts(d, old, lose) /\ FreeHashes # {} /\ lose \subseteq Scope
      /\ UNCHANGED <<folder, seen, chain, keyfile, held>>
  BY <1>1 DEF MutateFrom, plan, lose, old, LosingScopes
<1>7. PICK v : v = [num |-> old.num + 1, hash |-> h, prev |-> old.hash,
                  author |-> IF root THEN Root ELSE d, role |-> role, gone |-> gone,
                  checks |-> [s \in Scope |-> IF s \in lose THEN Append(old.checks[s], fresh(s)) ELSE old.checks[s]]]
  OBVIOUS
<1>8. PICK files : files = KeyFiles(d, root, old, plan)
  OBVIOUS
<1>9. /\ job'[d] = [files |-> files, ver |-> v] /\ \A x \in Device \ {d} : job'[x] = NoJob
      /\ job' = [x \in Device |-> job'[x]]
  BY <1>1, <1>2, <1>5, <1>7, <1>8 DEF KeysTyped, Alone
<1>10. /\ v.num = old.num + 1 /\ v.hash = h /\ v.prev = old.hash /\ v.author = (IF root THEN Root ELSE d)
       /\ v.role = role /\ v.gone = gone
  BY <1>7
<1>11. h \in Hash /\ \A i \in 1 .. Len(L) : L[i].hash # h
  BY <1>1 DEF FreeHashes, ChainsInv
<1>12. Len(L) + 1 \in 1 .. MaxVersions
  BY <1>1, <1>11, Room
<1>13. ASSUME NEW s \in Scope
       PROVE  /\ old.checks[s] \in Seq(Key) /\ Epochs(old, s) \in Nat /\ Epochs(old, s) <= Len(L)
              /\ Epochs(old, s) + 1 \in Epoch /\ <<s, Epochs(old, s) + 1>> \in KeyRef
              /\ draft[d][<<s, Epochs(old, s) + 1>>] \in Nat /\ fresh(s) \in Key
              /\ fresh(s) = IF draft[d][<<s, Epochs(old, s) + 1>>] # 0 THEN draft[d][<<s, Epochs(old, s) + 1>>]
                            ELSE minted + 1
  <2>1. old.checks[s] \in Seq(Key) /\ Epochs(old, s) \in Nat
    BY <1>3, <1>4 DEF Version, Epochs
  <2>2. Epochs(old, s) <= Len(L)
    BY <1>1, <1>3, <1>4, LineFacts
  <2>3. Epochs(old, s) + 1 \in Epoch /\ <<s, Epochs(old, s) + 1>> \in KeyRef
    BY <1>4, <1>12, <2>1, <2>2, AccessAssumption DEF Epoch, KeyRef
  <2>4. draft[d][<<s, Epochs(old, s) + 1>>] \in Nat /\ minted \in Nat
    BY <1>1, <2>3 DEF KeysTyped
  <2> QED
    BY <2>1, <2>2, <2>3, <2>4 DEF fresh, DraftKey, Key
<1>13a. \A s \in Scope : Epochs(old, s) \in Nat /\ Epochs(Top(L), s) = Epochs(old, s)
  BY <1>3, <1>13
<1>14. ASSUME NEW s \in Scope
       PROVE  /\ v.checks[s] = IF s \in lose THEN Append(old.checks[s], fresh(s)) ELSE old.checks[s]
              /\ v.checks[s] \in Seq(Key) /\ IsPrefix(old.checks[s], v.checks[s])
              /\ Epochs(v, s) = IF s \in lose THEN Epochs(old, s) + 1 ELSE Epochs(old, s)
              /\ \A e \in 1 .. Epochs(old, s) : v.checks[s][e] = old.checks[s][e]
              /\ s \in lose => v.checks[s][Epochs(old, s) + 1] = fresh(s)
  <2>1. v.checks[s] = IF s \in lose THEN Append(old.checks[s], fresh(s)) ELSE old.checks[s]
    BY <1>7
  <2>2. PICK c \in Seq(Key) : c = old.checks[s]
    BY <1>13
  <2>3. PICK k \in Key : k = fresh(s)
    BY <1>13
  <2>4. Epochs(old, s) = Len(c) /\ Epochs(v, s) = Len(v.checks[s])
    BY <2>2 DEF Epochs
  <2>5. IsPrefix(c, c) /\ IsPrefix(c, Append(c, k))
    BY DEF IsPrefix
  <2>6. Len(Append(c, k)) = Len(c) + 1 /\ Append(c, k)[Len(c) + 1] = k /\ Append(c, k) \in Seq(Key)
        /\ \A e \in 1 .. Len(c) : Append(c, k)[e] = c[e]
    OBVIOUS
  <2>7. CASE s \in lose
    BY <2>1, <2>2, <2>3, <2>4, <2>5, <2>6, <2>7
  <2>8. CASE s \notin lose
    BY <2>1, <2>2, <2>3, <2>4, <2>5, <2>8
  <2> QED
    BY <2>7, <2>8
<1>15. v \in Version
  <2>1. v.checks = [s \in Scope |-> v.checks[s]]
    BY <1>7
  <2>2. v.checks \in [Scope -> Seq(Key)]
    BY <1>14, <2>1
  <2>3. v = [num |-> v.num, hash |-> v.hash, prev |-> v.prev, author |-> v.author, gone |-> v.gone,
             role |-> v.role, checks |-> v.checks]
    BY <1>7
  <2>4. v.num \in Nat /\ v.hash \in Nat /\ v.prev \in Nat /\ v.author \in Device \cup {Root}
    BY <1>3, <1>4, <1>10, <1>11 DEF Hash
  <2>5. v.gone \in SUBSET Device /\ v.role \in [Device -> Role \cup {Unlisted}]
    BY <1>10 DEF Sensible
  <2> QED
    BY <2>2, <2>3, <2>4, <2>5 DEF Version
<1>16. IsLine(Append(L, v))
  <2>1. Verify(Prefix(L, Len(L) - 1), Top(L))
    BY <1>1, <1>4 DEF IsLine
  <2>2. ASSUME NEW s \in Scope PROVE Epochs(v, s) >= 1 /\ Epochs(v, s) <= Len(L) + 1
    <3>1. Epochs(Top(L), s) >= 1
      BY <2>1 DEF Verify, WellFormed
    <3>2. /\ Epochs(old, s) >= 1 /\ Epochs(old, s) <= Len(L) /\ Epochs(old, s) \in Nat
          /\ Epochs(v, s) \in {Epochs(old, s), Epochs(old, s) + 1}
      BY <1>3, <1>13, <1>14, <3>1
    <3> QED
      BY <1>4, <3>2
  <2>3. WellFormed(v)
    BY <1>10, <2>2 DEF WellFormed, Sensible
  <2>4. EpochsKept(Top(L), v)
    BY <1>3, <1>14 DEF EpochsKept
  <2>5. DevicesKept(Top(L), v)
    BY <1>3, <1>10 DEF DevicesKept, Sensible, old
  <2>6. v.author \in Admins(Top(L)) \cup {Root}
    BY <1>1, <1>3, <1>10 DEF Admins
  <2>7. Verify(L, v)
    BY <1>3, <1>4, <1>10, <2>3, <2>4, <2>5, <2>6 DEF Verify
  <2> QED
    BY <1>1, <1>10, <1>11, <1>15, <2>2, <2>7, AppendLine
<1>17. \A s : Readers(v, s) = Readers(plan, s)
  BY <1>10 DEF Readers, Active, plan
<1>18. ASSUME NEW s \in Scope, NEW e \in 1 .. Epochs(v, s)
       PROVE  /\ e \in Epoch /\ e \in Nat /\ v.checks[s][e] \in Key
              /\ \/ e \in 1 .. Epochs(old, s) /\ v.checks[s][e] = old.checks[s][e]
                 \/ s \in lose /\ e = Epochs(old, s) + 1 /\ v.checks[s][e] = fresh(s)
  <2>1. e \in Epoch /\ e \in Nat /\ v.checks[s][e] \in Key
    BY <1>1, <1>16, NextFacts
  <2>2. CASE e <= Epochs(old, s)
    <3>1. e \in 1 .. Epochs(old, s)
      BY <1>13, <2>1, <2>2
    <3> QED
      BY <1>14, <2>1, <3>1
  <2>3. CASE ~ e <= Epochs(old, s)
    <3>1. s \in lose /\ Epochs(v, s) = Epochs(old, s) + 1
      BY <1>13, <1>14, <2>1, <2>3
    <3>2. e = Epochs(old, s) + 1
      <4>1. Epochs(old, s) \in Nat /\ e <= Epochs(v, s)
        BY <1>13a, <3>1
      <4> QED
        BY <2>1, <2>3, <3>1, <4>1
    <3> QED
      BY <1>14, <2>1, <3>1, <3>2
  <2> QED
    BY <2>2, <2>3
<1>19. ASSUME NEW s \in Scope, NEW e \in Epoch, NEW r \in Device \cup {Root}
       PROVE  <<s, e, r>> \in Path /\ <<s, e>> \in KeyRef /\ keyfile[<<s, e, r>>] \in Nat /\ e \in Nat
  BY <1>1, AccessAssumption DEF Path, KeyRef, KeysTyped, Epoch
<1>20. ASSUME NEW f \in files PROVE FileOfJob(d, f)'
  <2>3. /\ f \in NewFiles(d, old, plan) => f.path[3] \in Readers(plan, f.path[1]) \cup {Root}
        /\ f \in OldFiles(d, root, old) /\ f \notin NewFiles(d, old, plan) => f.path[3] \in Readers(plan, f.path[1])
        /\ f \in NewFiles(d, old, plan) \/ f \in OldFiles(d, root, old)
    BY <1>8 DEF KeyFiles, Gained
  <2>1. CASE f \in NewFiles(d, old, plan)
    <3>1. PICK s \in lose, r \in Device \cup {Root} :
            f = [path |-> <<s, Epochs(old, s) + 1, r>>, strict |-> draft[d][<<s, Epochs(old, s) + 1>>] = 0,
                 key |-> fresh(s)]
      BY <2>1 DEF NewFiles, lose, fresh
    <3>2. f.path = <<s, Epochs(old, s) + 1, r>> /\ f.key = fresh(s)
      BY <3>1
    <3>3. s \in Scope
      BY <3>1 DEF lose, LosingScopes
    <3>4. /\ Epochs(old, s) + 1 \in Epoch /\ Epochs(old, s) + 1 <= Epochs(v, s)
          /\ f.key = v.checks[s][Epochs(old, s) + 1]
          /\ r # Root => r \in Readers(v, s)
      BY <1>13, <1>14, <1>17, <2>1, <2>3, <3>1, <3>2, <3>3
    <3> QED
      BY <1>9, <3>2, <3>3, <3>4 DEF FileOfJob
  <2>2. CASE f \in OldFiles(d, root, old) /\ f \notin NewFiles(d, old, plan)
    <3>1. PICK k \in KeyRef, r \in Device :
            /\ k[2] <= Epochs(old, k[1])
            /\ f = [path |-> <<k[1], k[2], r>>, strict |-> FALSE, key |-> KnownKey(d, root, k)]
      BY <2>2 DEF OldFiles
    <3>2. f.path = <<k[1], k[2], r>> /\ f.key = KnownKey(d, root, k) /\ f.key # 0
      BY <1>6, <1>8, <3>1
    <3>3. k[1] \in Scope /\ k[2] \in Epoch /\ k[2] \in 1 .. Epochs(old, k[1])
      BY <1>13, <3>1, AccessAssumption DEF KeyRef, Epoch
    <3>4. f.key = old.checks[k[1]][k[2]]
      BY <3>2 DEF KnownKey, old
    <3>5. f.key = v.checks[k[1]][k[2]] /\ k[2] <= Epochs(v, k[1])
      <4>1. /\ Epochs(old, k[1]) \in Nat /\ k[2] \in Nat
            /\ Epochs(v, k[1]) \in {Epochs(old, k[1]), Epochs(old, k[1]) + 1}
            /\ \A e \in 1 .. Epochs(old, k[1]) : v.checks[k[1]][e] = old.checks[k[1]][e]
        BY <1>14, <1>13a, <3>3
      <4> QED
        BY <3>1, <3>3, <3>4, <4>1
    <3>6. r \in Readers(v, k[1])
      BY <1>17, <2>2, <2>3, <3>2
    <3> QED
      BY <1>9, <3>2, <3>3, <3>5, <3>6 DEF FileOfJob
  <2> QED
    BY <2>1, <2>2, <2>3
<1>21. ASSUME NEW s \in Scope, NEW r \in Readers(v, s), NEW e \in 1 .. Epochs(v, s) PROVE Wanted(d, s, e, r)'
  <2>1. r \in Device /\ r \in Readers(plan, s) /\ e \in Epoch /\ e \in Nat
    BY <1>17, <1>18 DEF Readers
  <2>2. job'[d].ver = v /\ job'[d].files = files /\ keyfile' = keyfile
    BY <1>6, <1>9
  <2>3. \/ keyfile[<<s, e, r>>] = 0
        \/ e <= Epochs(old, s) /\ keyfile[<<s, e, r>>] = old.checks[s][e]
        \/ e > Epochs(old, s) /\ \E x \in Device : draft[x][<<s, e>>] = keyfile[<<s, e, r>>]
    BY <1>1, <1>3, <2>1 DEF KeyFileInv
  <2>4. CASE e \in 1 .. Epochs(old, s) /\ v.checks[s][e] = old.checks[s][e]
    <3>1. CASE r \in Readers(old, s)
      <4>1. PICK i \in 1 .. Len(L) : L[i] = old
        BY <1>3, <1>4
      <4>2. keyfile[<<s, e, r>>] = old.checks[s][e]
        BY <1>1, <2>4, <3>1, <4>1 DEF ReaderInv
      <4> QED
        BY <2>2, <2>4, <4>2 DEF Wanted
    <3>2. CASE r \notin Readers(old, s)
      <4>1. r \in Gained(old, plan, s)
        BY <2>1, <3>2 DEF Gained
      <4>2. PICK f : f = [path |-> <<s, e, r>>, strict |-> FALSE, key |-> KnownKey(d, root, <<s, e>>)]
        OBVIOUS
      <4>3. f \in OldFiles(d, root, old)
        <5>1. PICK k \in KeyRef : k = <<s, e>>
          BY <1>19, <2>1
        <5>2. k[1] = s /\ k[2] = e
          BY <5>1
        <5>3. e <= Epochs(old, s)
          BY <1>13a, <2>1, <2>4
        <5> DEFINE Past == {x \in KeyRef : x[2] <= Epochs(old, x[1])}
                   File(x, y) == [path |-> <<x[1], x[2], y>>, strict |-> FALSE, key |-> KnownKey(d, root, x)]
        <5>4. k \in Past
          BY <5>2, <5>3
        <5>6. OldFiles(d, root, old) = {File(x, y) : x \in Past, y \in Device}
          BY DEF OldFiles
        <5>5. f = File(k, r)
          BY <4>2, <5>1, <5>2
        <5> HIDE DEF Past, File
        <5> QED
          BY <2>1, <5>4, <5>5, <5>6
      <4>4. f \in files /\ f.path = <<s, e, r>>
        <5>1. f.path = <<s, e, r>> /\ f.path[3] = r /\ f.path[1] = s
          BY <4>2
        <5> QED
          BY <1>8, <4>1, <4>3, <5>1 DEF KeyFiles
      <4>5. e <= Epochs(old, s) /\ ~ e > Epochs(old, s)
        BY <1>13a, <2>1, <2>4
      <4> QED
        BY <2>2, <2>3, <2>4, <4>4, <4>5 DEF Wanted
    <3> QED
      BY <3>1, <3>2
  <2>5. CASE s \in lose /\ e = Epochs(old, s) + 1 /\ v.checks[s][e] = fresh(s)
    <3>1. PICK f : f = [path |-> <<s, Epochs(old, s) + 1, r>>, strict |-> draft[d][<<s, Epochs(old, s) + 1>>] = 0,
                        key |-> DraftKey(d, <<s, Epochs(old, s) + 1>>)]
      OBVIOUS
    <3>2. f \in NewFiles(d, old, plan)
      BY <2>1, <2>5, <3>1 DEF NewFiles, lose
    <3>3. f.path = <<s, e, r>> /\ f \in files
      BY <1>8, <2>1, <2>5, <3>1, <3>2 DEF KeyFiles
    <3>4. CASE keyfile[<<s, e, r>>] = 0
      BY <2>2, <3>3, <3>4 DEF Wanted
    <3>5. CASE keyfile[<<s, e, r>>] # 0
      <4>1. ~ e <= Epochs(old, s)
        BY <1>13a, <2>1, <2>5
      <4>2. PICK x \in Device : draft[x][<<s, e>>] = keyfile[<<s, e, r>>]
        BY <2>3, <3>5, <4>1
      <4>3. <<s, e>> \in KeyRef
        BY <1>19, <2>1
      <4>4. x = d
        BY <1>2, <3>5, <4>2, <4>3 DEF Alone
      <4>5. keyfile[<<s, e, r>>] = fresh(s)
        BY <1>13, <2>5, <3>5, <4>2, <4>4
      <4> QED
        BY <2>2, <2>5, <4>5 DEF Wanted
    <3> QED
      BY <3>4, <3>5
  <2> QED
    BY <1>18, <2>4, <2>5
<1>22. /\ KeysTyped' /\ KeyFileInv(L)' /\ \A x \in Device \ {d} : draft'[x] = draft[x]
       /\ \A s \in Scope : \A e \in Epoch : s \in lose /\ e = Epochs(old, s) + 1 => draft'[d][<<s, e>>] = fresh(s)
  <2>1. StoreDrafts(d, Top(L), lose) /\ keyfile' = keyfile /\ held' = held
    BY <1>3, <1>6
  <2>2. /\ KeysTyped' /\ KeyFileInv(L)' /\ \A x \in Device \ {d} : draft'[x] = draft[x]
        /\ \A s \in Scope : \A e \in Epoch : draft'[d][<<s, e>>]
              = IF s \in lose /\ e = Epochs(Top(L), s) + 1 THEN DraftKey(d, <<s, e>>) ELSE draft[d][<<s, e>>]
    BY <1>1, <1>6, <1>9, <2>1, DraftsStep
  <2> QED
    BY <1>3, <2>2 DEF fresh
<1>23. ChainsInv(L)' /\ ReaderInv(L)'
  BY <1>1, <1>6 DEF ChainsInv, ReaderInv
<1>24. HistInv(L)'
  <2>1. PICK B, u : B = begun /\ u = Attempt(v)
    OBVIOUS
  <2>2. BegunInv(B, L) /\ OriginInv(B)
    BY <1>1, <2>1 DEF HistInv
  <2>3. begun' = B \cup {u}
    BY <1>5, <1>7, <2>1
  <2>4. OriginInv(B \cup {u})'
    <3>1. PICK C : C = B \cup {u}
      OBVIOUS
    <3>2. B \subseteq C /\ keyfile' = keyfile
      BY <1>6, <3>1
    <3>3. OriginInv(C)'
      BY <2>2, <3>2 DEF OriginInv
    <3> QED
      BY <3>1, <3>3
  <2>5. ASSUME NEW s \in Scope
        PROVE  /\ u.num = Len(L) + 1 /\ Len(u.checks[s]) \in Nat /\ Len(u.checks[s]) <= Epochs(Top(L), s) + 1
               /\ Len(u.checks[s]) > Epochs(Top(L), s) => u.readers[s] \subseteq Readers(Top(L), s)
    <3>1. u.num = Len(L) + 1 /\ Len(u.checks[s]) = Epochs(v, s) /\ u.readers[s] = Readers(v, s)
      BY <1>3, <1>4, <1>10, <2>1, AttemptIs
    <3>2. Epochs(v, s) \in {Epochs(Top(L), s), Epochs(Top(L), s) + 1} /\ Epochs(Top(L), s) \in Nat
      BY <1>3, <1>13, <1>14
    <3>3. s \in lose => Readers(v, s) \subseteq Readers(Top(L), s)
      BY <1>3, <1>17, NobodyElse DEF lose, plan, old
    <3> QED
      BY <1>3, <1>13, <1>14, <3>1, <3>2, <3>3
  <2>6. BegunInv({u}, L)
    <3>1. ASSUME NEW s \in Scope, NEW i \in 1 .. Len(L), u.num <= i + 1, Len(u.checks[s]) > Epochs(L[i], s)
          PROVE  u.readers[s] \subseteq Readers(L[i], s)
      <4>1. i = Len(L) /\ L[i] = Top(L)
        BY <1>4, <2>5, <3>1
      <4> QED
        BY <2>5, <3>1, <4>1
    <3>2. u.num \in Nat /\ u.num <= Len(L) + 1
      BY <1>4, <1>10, <1>3, <2>1, AttemptIs
    <3> QED
      BY <2>5, <3>1, <3>2 DEF BegunInv
  <2>7. BegunInv(B \cup {u}, L)
    BY <2>2, <2>6 DEF BegunInv
  <2> QED
    BY <2>3, <2>4, <2>7 DEF HistInv
<1>27. JobInv(L, d)'
  <2>1. Alone(d)'
    BY <1>2, <1>9, <1>22 DEF Alone
  <2>2. ASSUME NEW s \in Scope, NEW e \in 1 .. Epochs(v, s), e > Epochs(Top(L), s)
        PROVE  draft'[d][<<s, e>>] = v.checks[s][e]
    <3>1. e \in Epoch /\ ~ e \in 1 .. Epochs(old, s)
      <4>1. e \in Epoch /\ e \in Nat
        BY <1>18
      <4>2. Epochs(old, s) \in Nat /\ e > Epochs(old, s)
        BY <1>13a, <2>2
      <4> QED
        BY <4>1, <4>2
    <3>2. s \in lose /\ e = Epochs(old, s) + 1 /\ v.checks[s][e] = fresh(s)
      BY <1>18, <3>1
    <3> QED
      BY <1>22, <3>1, <3>2
  <2>3. DOMAIN job'[d] = {"files", "ver"} /\ job'[d] = [x \in DOMAIN job'[d] |-> job'[d][x]]
    BY <1>9
  <2>4. job'[d].ver = v /\ job'[d].files = files /\ chain'[d] = L
    BY <1>3, <1>6, <1>9
  <2>5. ASSUME NEW s \in Scope, Epochs(v, s) = Epochs(Top(L), s) PROVE Readers(Top(L), s) \subseteq Readers(v, s)
    <3>1. s \notin lose
      BY <1>13a, <1>14, <2>5
    <3> QED
      BY <1>3, <1>17, <3>1 DEF lose, LosingScopes
  <2>6. Attempt(v) \in begun'
    BY <1>5, <1>7
  <2> QED
    BY <1>16, <1>20, <1>21, <2>1, <2>2, <2>3, <2>4, <2>5, <2>6 DEF JobInv
<1> QED
  BY <1>1, <1>9, <1>22, <1>23, <1>24, <1>27 DEF LineInv

(* One that stops early leaves drafts. *)
LEMMA StopStep ==
  ASSUME Coordinated = TRUE, NEW L, LineInv(L), NEW d \in Device, NEW root \in BOOLEAN, NEW role, NEW gone,
         job[d] = NoJob, Turn(d), Refreshed(d), StopDrafting(d, root, role, gone)
  PROVE  LineInv(L)'
<1>1. /\ IsLine(L) /\ ChainsInv(L) /\ KeysTyped /\ KeyFileInv(L) /\ ReaderInv(L) /\ HistInv(L)
      /\ \A x \in Device : job[x] = NoJob
  BY DEF LineInv, Turn
<1>2. Newest(d) = Top(L)
  BY <1>1, AllAccepted DEF Turn
<1>3. /\ FreeHashes # {} /\ UNCHANGED <<folder, seen, chain, keyfile, held, job, begun>>
      /\ \E scopes : scopes \subseteq Scope /\ StoreDrafts(d, Top(L), scopes)
  BY <1>2 DEF StopDrafting, LosingScopes
<1>4. KeysTyped' /\ KeyFileInv(L)'
  <2>1. job' = [x \in Device |-> job'[x]]
    BY <1>1, <1>3 DEF KeysTyped
  <2> QED
    BY <1>1, <1>3, <2>1, DraftsStep
<1>5. ChainsInv(L)' /\ ReaderInv(L)'
  BY <1>1, <1>3 DEF ChainsInv, ReaderInv
<1>6. HistInv(L)'
  BY <1>1, <1>3, SameHistory
<1> QED
  BY <1>1, <1>3, <1>4, <1>5, <1>6 DEF LineInv

LEMMA MutateStep ==
  ASSUME Coordinated = TRUE, NEW L, LineInv(L), NEW d \in Device, NEW root \in BOOLEAN, NEW role, NEW gone,
         job[d] = NoJob, Turn(d), Refreshed(d), Mutate(d, root, role, gone), Sensible(Newest(d), role, gone)
  PROVE  LineInv(L)'
BY MutateFromStep, StopStep DEF Mutate
-----------------------------------------------------------------------------
(* The four changes ask for sensible lists. *)
LEMMA NewestFacts ==
  ASSUME NEW L, LineInv(L), NEW d \in Device, Joined(d)
  PROVE  /\ Newest(d) \in Version /\ \A x \in Newest(d).gone : Newest(d).role[x] # Unlisted
         /\ \E n \in 1 .. Len(L) : chain[d] = Prefix(L, n) /\ Newest(d) = L[n] /\ Len(chain[d]) = n
<1>1. IsLine(L) /\ ChainsInv(L)
  BY DEF LineInv
<1>2. L \in Seq(Version) /\ Len(L) \in Nat
  BY <1>1, LineFacts
<1>3. PICK n \in 0 .. Len(L) : chain[d] = Prefix(L, n)
  BY <1>1 DEF ChainsInv
<1>4. n \in 1 .. Len(L) /\ Newest(d) = L[n] /\ Len(chain[d]) = n
  BY <1>2, <1>3, PrefixIs DEF Joined, Newest
<1>5. L[n] \in Version /\ Verify(Prefix(L, n - 1), L[n])
  BY <1>1, <1>4, LineFacts DEF IsLine
<1> QED
  BY <1>3, <1>4, <1>5 DEF Verify, WellFormed

LEMMA ChangeStep ==
  ASSUME Coordinated = TRUE, NEW L, LineInv(L), NEW d \in Device, Change(d)
  PROVE  LineInv(L)'
<1> DEFINE old == Newest(d)
<1>1. /\ Joined(d) /\ job[d] = NoJob /\ Turn(d) /\ Refreshed(d) /\ old.gone \subseteq Device /\ old.role \in [Device -> Role \cup {Unlisted}]
      /\ \A x \in old.gone : old.role[x] # Unlisted
  <2>1. Joined(d) /\ job[d] = NoJob /\ Turn(d) /\ Refreshed(d)
    BY DEF Change
  <2> QED
    BY <2>1, NewestFacts DEF Version
<1> HIDE DEF old
<1>2. ASSUME NEW e \in Device, NEW r \in Role, e \notin old.gone \/ Active(old, e)
      PROVE  Sensible(old, [old.role EXCEPT ![e] = r], old.gone)
  <2>1. e \notin old.gone /\ r # Unlisted
    BY <1>2, AccessAssumption DEF Active
  <2> QED
    BY <1>1, <2>1 DEF Sensible
<1>3. ASSUME NEW e \in Device, NEW r \in Role, Admit(d, e, r) PROVE LineInv(L)'
  <2>1. Mutate(d, FALSE, [old.role EXCEPT ![e] = r], old.gone) /\ old.role[e] = Unlisted
    BY <1>3 DEF Admit, old
  <2>2. Sensible(old, [old.role EXCEPT ![e] = r], old.gone)
    BY <1>1, <1>2, <2>1
  <2> QED
    BY <1>1, <2>1, <2>2, MutateStep DEF old
<1>4. ASSUME NEW e \in Device, NEW r \in Role, ChangeRole(d, e, r) PROVE LineInv(L)'
  <2>1. Mutate(d, FALSE, [old.role EXCEPT ![e] = r], old.gone) /\ Active(old, e)
    BY <1>4 DEF ChangeRole, old
  <2>2. Sensible(old, [old.role EXCEPT ![e] = r], old.gone)
    BY <1>2, <2>1
  <2> QED
    BY <1>1, <2>1, <2>2, MutateStep DEF old
<1>5. ASSUME NEW root \in BOOLEAN, NEW e \in Device, Revoke(d, root, e) PROVE LineInv(L)'
  <2>1. Mutate(d, root, old.role, old.gone \cup {e}) /\ Active(old, e)
    BY <1>5 DEF Revoke, old
  <2>2. Sensible(old, old.role, old.gone \cup {e})
    BY <1>1, <2>1 DEF Sensible, Active
  <2> QED
    BY <1>1, <2>1, <2>2, MutateStep DEF old
<1>6. ASSUME Recover(d) PROVE LineInv(L)'
  <2>1. Mutate(d, TRUE, [old.role EXCEPT ![d] = AdminRole], old.gone) /\ d \notin old.gone
    BY <1>6 DEF Recover, old
  <2>2. Sensible(old, [old.role EXCEPT ![d] = AdminRole], old.gone)
    BY <1>2, <2>1, AccessAssumption
  <2> QED
    BY <1>1, <2>1, <2>2, MutateStep DEF old
<1> QED
  BY <1>3, <1>4, <1>5, <1>6 DEF Change

(* Every step goes on from the line, and no chain shrinks. *)
LEMMA NextStep ==
  ASSUME Coordinated = TRUE, NEW L, LineInv(L), [Next]_vars
  PROVE  (\E M : LineInv(M)') /\ \A e \in Device : IsPrefix(chain[e], chain'[e])
<1>1. IsLine(L) /\ ChainsInv(L)
  BY DEF LineInv
<1>2. ASSUME NEW e \in Device, chain'[e] = chain[e] PROVE IsPrefix(chain[e], chain'[e])
  <2>1. PICK n \in 0 .. Len(L) : chain[e] = Prefix(L, n)
    BY <1>1 DEF ChainsInv
  <2>2. L \in Seq(Version) /\ n \in n .. Len(L)
    BY <1>1, LineFacts
  <2> QED
    BY <1>2, <2>1, <2>2, PrefixesKept
<1>3. ASSUME UNCHANGED vars PROVE LineInv(L)' /\ chain' = chain
  BY <1>3, SameLine DEF vars
<1>4. ASSUME NEW d \in Device, Refresh(d) PROVE LineInv(L)' /\ \A e \in Device : IsPrefix(chain[e], chain'[e])
  BY <1>4, RefreshStep
<1>5. ASSUME NEW d \in Device, Change(d) PROVE LineInv(L)' /\ chain' = chain
  <2>1. PICK root, role, gone : Mutate(d, root, role, gone)
    BY <1>5 DEF Change, Admit, ChangeRole, Revoke, Recover
  <2>2. chain' = chain
    BY <2>1 DEF Mutate, MutateFrom, StopDrafting
  <2> QED
    BY <1>5, <2>2, ChangeStep
<1>6. ASSUME NEW d \in Device, WriteKeys(d) PROVE LineInv(L)' /\ chain' = chain
  <2>1. PICK f : WriteKey(d, f)
    BY <1>6 DEF WriteKeys
  <2>2. chain' = chain
    BY <2>1 DEF WriteKey
  <2> QED
    BY <2>1, <2>2, WriteStep
<1>7. ASSUME NEW d \in Device, Publish(d) PROVE (\E M : LineInv(M)') /\ chain' = chain
  BY <1>7, PublishStep DEF Publish
<1>8. ASSUME NEW d \in Device, Crash(d) PROVE LineInv(L)' /\ chain' = chain
  BY <1>8, JobGone DEF Crash
<1>9. ASSUME NEW d \in Device, Deliver(d) \/ Vanish(d) PROVE LineInv(L)' /\ chain' = chain
  BY <1>9, SameLine DEF Deliver, Vanish
<1> QED
  BY <1>2, <1>3, <1>4, <1>5, <1>6, <1>7, <1>8, <1>9 DEF Next
-----------------------------------------------------------------------------
LEMMA LineAlways == ASSUME Coordinated = TRUE PROVE Spec => []IInv
<1>1. Init => IInv
  BY InitLine DEF IInv
<1>2. IInv /\ [Next]_vars => IInv'
  BY NextStep DEF IInv
<1> QED
  BY <1>1, <1>2, PTL DEF Spec

(* When admins take turns, the key files of all readers of a published     *)
(* version hold the keys it commits to (KeyFiles, written before publish   *)
(* in mutate), however often a change is cut off and begun again.          *)
THEOREM KeysComeFirst == ASSUME Coordinated = TRUE PROVE Spec => []KeysBeforeACL
<1>1. IInv => KeysBeforeACL
  <2> SUFFICES ASSUME NEW L, LineInv(L), NEW v \in folder, NEW s \in Scope, NEW d \in Readers(v, s),
                      NEW e \in 1 .. Epochs(v, s)
               PROVE  keyfile[<<s, e, d>>] = v.checks[s][e]
    BY DEF IInv, KeysBeforeACL
  <2>1. PICK i \in 1 .. Len(L) : v = L[i]
    BY DEF LineInv, ChainsInv
  <2> QED
    BY <2>1 DEF LineInv, ReaderInv
<1> QED
  BY <1>1, LineAlways, PTL

(* When admins take turns, a key file of an epoch that a published version *)
(* commits to is only for devices that a change begun with this key let    *)
(* read the scope, and none is for a device that an older version keeps    *)
(* out, unless a change begun since was to let it in (draftKey and         *)
(* writeKeyFiles in mutate, however often changes are cut off).            *)
THEOREM RevokedKeptOut == ASSUME Coordinated = TRUE PROVE Spec => []RevokedGetNoNewKeys
<1>1. IInv => RevokedGetNoNewKeys
  <2> SUFFICES ASSUME NEW L, LineInv(L), NEW w \in folder, NEW s \in Scope, NEW e \in 1 .. Epochs(w, s),
                      NEW d \in Device, keyfile[<<s, e, d>>] = w.checks[s][e]
               PROVE  /\ \E u \in begun : /\ d \in u.readers[s] /\ e <= Len(u.checks[s])
                                           /\ u.checks[s][e] = w.checks[s][e]
                      /\ \A v \in folder : Epochs(v, s) < e /\ d \notin Readers(v, s) =>
                           \E u \in begun : u.num > v.num /\ d \in u.readers[s]
    BY DEF IInv, RevokedGetNoNewKeys
  <2>1. IsLine(L) /\ BegunInv(begun, L) /\ OriginInv(begun) /\ folder = {L[i] : i \in 1 .. Len(L)}
    BY DEF LineInv, ChainsInv, HistInv
  <2>2. PICK i \in 1 .. Len(L) : w = L[i]
    BY <2>1
  <2>3. e \in Epoch /\ e \in Nat /\ w.checks[s][e] # 0
    BY <2>1, <2>2, LineFacts, EpochsBelow DEF Key
  <2>4. PICK u \in begun : d \in u.readers[s] /\ e <= Len(u.checks[s]) /\ u.checks[s][e] = w.checks[s][e]
    BY <2>1, <2>3 DEF OriginInv
  <2>5. ASSUME NEW j \in 1 .. Len(L), Epochs(L[j], s) < e, d \notin Readers(L[j], s) PROVE u.num > L[j].num
    <3>1. u.num \in Nat /\ Len(u.checks[s]) \in Nat
      BY <2>1 DEF BegunInv
    <3>2. Epochs(L[j], s) \in Nat /\ L[j].num = j
      BY <2>1, LineFacts DEF IsLine
    <3>3. Len(u.checks[s]) > Epochs(L[j], s)
      BY <2>3, <2>4, <2>5, <3>1, <3>2
    <3>4. ~ u.num <= j + 1
      BY <2>1, <2>4, <2>5, <3>3 DEF BegunInv
    <3> QED
      BY <3>1, <3>2, <3>4
  <2> QED
    BY <2>1, <2>4, <2>5
<1> QED
  BY <1>1, LineAlways, PTL

(* When admins take turns, all devices that have all files and refreshed   *)
(* follow one chain, and every reader holds all keys of its scopes.        *)
THEOREM Settled == ASSUME Coordinated = TRUE PROVE Spec => []SettledAgree
<1>1. IInv => SettledAgree
  <2> SUFFICES ASSUME NEW L, LineInv(L),
                      \A d \in Device : /\ seen[d] = {v.hash : v \in folder} /\ job[d] = NoJob /\ Refreshed(d)
               PROVE  /\ \A d, e \in Device : chain[d] = chain[e]
                      /\ \A d \in Device : \A s \in Scope : d \in Readers(Newest(d), s) =>
                           \A e \in 1 .. Epochs(Newest(d), s) : held[d][<<s, e>>] = Newest(d).checks[s][e]
    BY DEF IInv, SettledAgree
  <2>1. \A d \in Device : chain[d] = L /\ Newest(d) = Top(L)
    BY AllAccepted DEF LineInv
  <2>2. ASSUME NEW d \in Device, NEW s \in Scope, d \in Readers(Top(L), s), NEW e \in 1 .. Epochs(Top(L), s)
        PROVE  held[d][<<s, e>>] = Top(L).checks[s][e]
    <3>1. Top(L) = L[Len(L)] /\ Len(L) \in 1 .. Len(L)
      BY LineFacts DEF LineInv
    <3>2. e \in Epoch /\ Epochs(Top(L), s) \in Nat
      BY <3>1, EpochsBelow DEF LineInv
    <3>3. keyfile[<<s, e, d>>] = Top(L).checks[s][e]
      BY <2>2, <3>1 DEF LineInv, ReaderInv
    <3>4. <<s, e>> \in KeyRef /\ e <= Epochs(Top(L), s) /\ ~ e > Epochs(Top(L), s)
      BY <3>2 DEF KeyRef
    <3>5. held[d][<<s, e>>] = SyncedKey(d, Top(L), <<s, e>>)
      <4>1. PICK k : k = <<s, e>>
        OBVIOUS
      <4>2. k[2] <= Epochs(Newest(d), k[1]) /\ k \in KeyRef
        BY <2>1, <3>4, <4>1
      <4> QED
        BY <2>1, <4>1, <4>2 DEF Refreshed
    <3> QED
      BY <2>2, <3>3, <3>4, <3>5 DEF SyncedKey
  <2> QED
    BY <2>1, <2>2
<1> QED
  BY <1>1, LineAlways, PTL

(* When admins take turns, no step takes a version out of the chain a      *)
(* device has accepted (CheckRollback and the cache of Refresh), whatever  *)
(* files are late or vanish.                                               *)
THEOREM ChainsGrow == ASSUME Coordinated = TRUE PROVE Spec => NeverReplaced
<1>1. IInv /\ [Next]_vars => [\A d \in Device : IsPrefix(chain[d], chain'[d])]_vars
  BY NextStep DEF IInv
<1> QED
  BY <1>1, LineAlways, PTL DEF Spec, NeverReplaced
=============================================================================
