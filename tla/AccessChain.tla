---------------------------- MODULE AccessChain ----------------------------
(***************************************************************************)
(* Who may do what: the chain of access lists (ACL versions) that admin    *)
(* devices publish as immutable files, the chain every device resolves     *)
(* from the files it has, and the scope keys that follow from changes of   *)
(* the readers.                                                            *)
(*                                                                         *)
(* The hash of a version is a number nobody can choose; roles are fixed    *)
(* (no operation of the program edits them).  A key is a number; a key     *)
(* file is its path and the key wrapped in it.  Key files are seen as soon *)
(* as they are written, ACL files when the cloud client delivers them.     *)
(* Cutoffs of revoked devices are the subject of module Revocation.        *)
(***************************************************************************)
EXTENDS Integers, FiniteSets, SequencesExt

CONSTANTS Device, Members,   \* Members[d]: the role d has to begin with
          Role, AdminRole, \* AdminRole is the board: the role with rw on admin
          Scope, Reads,    \* Reads[role]: the scopes a role may read
          Root, Unlisted,  \* the root key as author and recipient; no entry
          NoJob,
          Coordinated,     \* TRUE: admins take turns, as the protocol asks
          MaxVersions,     \* bound on published versions
          MaxFaults        \* bound on changes cut off and files vanished

ASSUME AccessAssumption ==
  /\ AdminRole \in Role
  /\ Members \in [Device -> Role \cup {Unlisted}] /\ \E d \in Device : Members[d] = AdminRole
  /\ Reads \in [Role -> SUBSET Scope]
  /\ Root \notin Device /\ Unlisted \notin Role
  /\ Coordinated \in BOOLEAN
  /\ MaxVersions \in Nat \ {0} /\ MaxFaults \in Nat

VARIABLES
  folder,  \* the ACL files ever published
  seen,    \* seen[d]: hashes of the ACL files in d's copy of the folder
  chain,   \* chain[d]: sync_acl, the versions d has accepted
  keyfile, \* keyfile[<<s, e, recipient>>]: the key in that file, 0 if none
  held,    \* held[d][<<s, e>>]: sync_keys, 0 if none
  draft,   \* draft[d][<<s, e>>]: sync_key_drafts, 0 if none
  job,     \* job[d]: the change d is publishing, in memory
  minted,  \* how many keys were generated
  begun,   \* history: the changes ever begun, published or not
  faults   \* how often the environment failed so far

vars == <<folder, seen, chain, keyfile, held, draft, job, minted, begun, faults>>

Hash == 1 .. MaxVersions
Epoch == 1 .. MaxVersions
KeyRef == Scope \X Epoch
Path == Scope \X Epoch \X (Device \cup {Root})

Active(v, d) == v.role[d] # Unlisted /\ d \notin v.gone
IsAdmin(v, d) == Active(v, d) /\ v.role[d] = AdminRole
Admins(v) == {d \in Device : IsAdmin(v, d)}
Readers(v, s) == {d \in Device : Active(v, d) /\ s \in Reads[v.role[d]]}
Epochs(v, s) == Len(v.checks[s])

(* What is remembered of a change: who was to read what, with which keys.  *)
Attempt(v) == [num |-> v.num, checks |-> v.checks, readers |-> [s \in Scope |-> Readers(v, s)]]

(* checkFormat: a revoked device is one that was listed; each scope has    *)
(* an epoch.                                                               *)
WellFormed(v) ==
  /\ \A d \in v.gone : v.role[d] # Unlisted
  /\ \A s \in Scope : Epochs(v, s) >= 1

(* checkEpochs: the keys committed to stay. *)
EpochsKept(p, v) == \A s \in Scope : IsPrefix(p.checks[s], v.checks[s])

(* checkDevices: nobody is removed or comes back; who is new is active. *)
DevicesKept(p, v) ==
  /\ p.gone \subseteq v.gone
  /\ \A d \in Device : IF p.role[d] = Unlisted THEN d \notin v.gone ELSE v.role[d] # Unlisted

(* acl.Verify: v is a valid successor of the last version of c. *)
Verify(c, v) ==
  /\ v.num = Len(c) + 1
  /\ WellFormed(v)
  /\ IF c = <<>> THEN v.prev = 0 /\ v.author = Root /\ v.gone = {}
     ELSE LET p == Last(c) IN
          /\ v.prev = p.hash
          /\ v.author \in Admins(p) \cup {Root}
          /\ EpochsKept(p, v) /\ DevicesKept(p, v)

(* acl.Resolve: of concurrent valid versions the one with the smallest     *)
(* hash wins, version by version.                                          *)
Extended(c, cands) ==
  LET valid == {v \in cands : Verify(c, v)} IN
  IF valid = {} THEN c
  ELSE Append(c, CHOOSE v \in valid : \A w \in valid : v.hash <= w.hash)

Resolve(cands) ==
  LET upTo[n \in 0 .. MaxVersions] ==
        IF n = 0 THEN <<>>
        ELSE CHOOSE x \in {Extended(c, cands) : c \in {upTo[n - 1]}} : TRUE
  IN upTo[MaxVersions]

Files(d) == {v \in folder : v.hash \in seen[d]}
Candidates(d) == Files(d) \cup Range(chain[d])

Newest(d) == Last(chain[d])
Joined(d) == chain[d] # <<>>

(* A club with the devices that were admitted so far; the versions up to   *)
(* then are told as one.  With one member this is what club.Create leaves. *)
First == [num |-> 1, hash |-> 1, prev |-> 0, author |-> Root, gone |-> {}, role |-> Members,
          checks |-> [s \in Scope |-> <<1>>]]

Init ==
  LET has(d, k) == k[2] = 1 /\ d \in Readers(First, k[1]) IN
  /\ folder = {First}
  /\ seen = [d \in Device |-> IF Active(First, d) THEN {1} ELSE {}]
  /\ chain = [d \in Device |-> IF Active(First, d) THEN <<First>> ELSE <<>>]
  /\ keyfile = [p \in Path |-> IF has(p[3], p) \/ (p[2] = 1 /\ p[3] = Root) THEN 1 ELSE 0]
  /\ held = [d \in Device |-> [k \in KeyRef |-> IF has(d, k) THEN 1 ELSE 0]]
  /\ draft = [d \in Device |-> [k \in KeyRef |-> 0]]
  /\ job = [d \in Device |-> NoJob]
  /\ minted = 1 /\ begun = {Attempt(First)} /\ faults = 0
-----------------------------------------------------------------------------
(* Club.refresh. *)

(* syncKeys: what d holds of key k once v is accepted.  Keys that do not   *)
(* match are deleted; missing ones are read if d may read the scope.       *)
SyncedKeyOfNewestEpoch(d, v, k) ==
  LET check == v.checks[k[1]][k[2]] IN
  IF k[2] > Epochs(v, k[1]) \/ held[d][k] = check THEN held[d][k]
  ELSE IF d \in Readers(v, k[1]) /\ k[2] = Epochs(v, k[1]) /\ keyfile[<<k[1], k[2], d>>] = check
       THEN check
  ELSE 0

SyncedKey(d, v, k) ==
  LET check == v.checks[k[1]][k[2]]
      there == keyfile[<<k[1], k[2], d>>] IN
  IF k[2] > Epochs(v, k[1]) \/ held[d][k] = check THEN held[d][k]
  ELSE IF d \in Readers(v, k[1]) /\ there = check THEN check
  ELSE 0

RefreshTo(d, c) ==
  /\ chain' = [chain EXCEPT ![d] = c]
  /\ IF c = <<>> THEN UNCHANGED <<held, draft>>
     ELSE /\ held' = [held EXCEPT ![d] = [k \in KeyRef |-> SyncedKey(d, Last(c), k)]]
          /\ draft' = [draft EXCEPT ![d] = [k \in KeyRef |->
                         IF k[2] <= Epochs(Last(c), k[1]) THEN 0 ELSE @[k]]]
  /\ UNCHANGED <<folder, seen, keyfile, job, minted, begun, faults>>

RefreshWithoutCache(d) ==
  job[d] = NoJob /\ RefreshTo(d, Resolve(Files(d)))

(* CheckRollback: a chain that ends below the accepted one is an error. *)
Refresh(d) ==
  /\ job[d] = NoJob
  /\ \E c \in {Resolve(Candidates(d))} : Len(c) >= Len(chain[d]) /\ RefreshTo(d, c)

Refreshed(d) ==
  /\ chain[d] = Resolve(Candidates(d))
  /\ \A k \in KeyRef : k[2] <= Epochs(Newest(d), k[1]) =>
        held[d][k] = SyncedKey(d, Newest(d), k) /\ draft[d][k] = 0
-----------------------------------------------------------------------------
(* Club.mutate: derive the key changes from the change of readers, keep a  *)
(* draft of every new key, write the key files, publish the version.       *)

(* Admins take turns: the others have nothing unfinished, and what they    *)
(* published has arrived.                                                  *)
Turn(d) == Coordinated => /\ seen[d] = {v.hash : v \in folder}
                          /\ \A e \in Device \ {d} : /\ job[e] = NoJob
                                                     /\ \A k \in KeyRef : draft[e][k] = 0

(* scopeKey: a key of d's own, or the one in root's key file. *)
KnownKey(d, root, k) ==
  LET check == Newest(d).checks[k[1]][k[2]]
      rooted == keyfile[<<k[1], k[2], Root>>] IN
  IF held[d][k] = check \/ (root /\ rooted = check) THEN check ELSE 0

DraftKey(d, k) == IF draft[d][k] # 0 THEN draft[d][k] ELSE minted + 1

(* draftKey for each of the scopes.                                         *)
StoreDrafts(d, old, scopes) ==
  /\ draft' = [draft EXCEPT ![d] = [k \in KeyRef |->
                 IF k[1] \in scopes /\ k[2] = Epochs(old, k[1]) + 1 THEN DraftKey(d, k) ELSE @[k]]]
  /\ minted' = IF \E s \in scopes : draft[d][<<s, Epochs(old, s) + 1>>] = 0 THEN minted + 1 ELSE minted

LosingScopes(old, new) == {s \in Scope : ~ (Readers(old, s) \subseteq Readers(new, s))}
Gained(old, new, s) == Readers(new, s) \ Readers(old, s)

NewFiles(d, old, new) ==
  {[path |-> <<s, Epochs(old, s) + 1, r>>, strict |-> draft[d][<<s, Epochs(old, s) + 1>>] = 0,
    key |-> DraftKey(d, <<s, Epochs(old, s) + 1>>)]
   : s \in LosingScopes(old, new), r \in Device \cup {Root}}

OldFiles(d, root, old) ==
  {[path |-> <<k[1], k[2], r>>, strict |-> FALSE, key |-> KnownKey(d, root, k)]
   : k \in {x \in KeyRef : x[2] <= Epochs(old, x[1])}, r \in Device}

KeyFilesForOldReaders(d, root, old, plan) ==
  {f \in NewFiles(d, old, plan) : f.path[3] \in Readers(old, f.path[1]) \cup {Root}}
  \cup {f \in OldFiles(d, root, old) : f.path[3] \in Gained(old, plan, f.path[1])}

(* The key files a change needs: the new epoch of every scope that loses a  *)
(* reader, and all earlier epochs for every reader a scope gains.          *)
KeyFiles(d, root, old, plan) ==
  {f \in NewFiles(d, old, plan) : f.path[3] \in Readers(plan, f.path[1]) \cup {Root}}
  \cup {f \in OldFiles(d, root, old) : f.path[3] \in Gained(old, plan, f.path[1])}

(* The hashes a new version may get. *)
FreeHashes ==
  Hash \ ({v.hash : v \in folder} \cup {job[e].ver.hash : e \in {x \in Device : job[x] # NoJob}})

MutateFrom(d, root, role, gone) ==
  LET old  == Newest(d)
      plan == [role |-> role, gone |-> gone]
      lose == LosingScopes(old, plan)
      ver(h) == [num |-> old.num + 1, hash |-> h, prev |-> old.hash,
                 author |-> IF root THEN Root ELSE d, role |-> role, gone |-> gone,
                 checks |-> [s \in Scope |->
                   IF s \in lose
                   THEN Append(old.checks[s], DraftKey(d, <<s, Epochs(old, s) + 1>>))
                   ELSE old.checks[s]]]
  IN
  /\ FreeHashes # {}
  /\ \E files \in {KeyFiles(d, root, old, plan)} :
       /\ \A f \in files : f.key # 0
       /\ \E h \in FreeHashes :
            /\ job' = [job EXCEPT ![d] = [files |-> files, ver |-> ver(h)]]
            /\ begun' = begun \cup {Attempt(ver(h))}
  /\ StoreDrafts(d, old, lose)
  /\ UNCHANGED <<folder, seen, chain, keyfile, held, faults>>

(* The loop over the scopes stores one draft after the other.  It ends     *)
(* early when the program does, or when a key that a gained reader needs   *)
(* is not known; the drafts of some scopes stay.                           *)
StopDrafting(d, root, role, gone) ==
  LET old  == Newest(d)
      plan == [role |-> role, gone |-> gone]
      lose == LosingScopes(old, plan)
      known == \A f \in KeyFiles(d, root, old, plan) : f.key # 0
  IN
  /\ FreeHashes # {} /\ lose # {}
  /\ known => faults < MaxFaults
  /\ faults' = IF known THEN faults + 1 ELSE faults
  /\ \E scopes \in SUBSET lose : (known => scopes # lose) /\ StoreDrafts(d, old, scopes)
  /\ UNCHANGED <<folder, seen, chain, keyfile, held, job, begun>>

Mutate(d, root, role, gone) ==
  /\ root \/ IsAdmin(Newest(d), d)
  /\ MutateFrom(d, root, role, gone) \/ StopDrafting(d, root, role, gone)

(* Approve: the device of a join request is added. *)
Admit(d, e, r) ==
  /\ Newest(d).role[e] = Unlisted
  /\ Mutate(d, FALSE, [Newest(d).role EXCEPT ![e] = r], Newest(d).gone)

(* Giving a device the role it has publishes an equal list; left out. *)
ChangeRole(d, e, r) ==
  LET role == [Newest(d).role EXCEPT ![e] = r] IN
  /\ Active(Newest(d), e) /\ r # Newest(d).role[e]
  /\ Admins([role |-> role, gone |-> Newest(d).gone]) # {}
  /\ Mutate(d, FALSE, role, Newest(d).gone)

(* Revoke, and RevokeWithRoot, which may leave no admin. *)
Revoke(d, root, e) ==
  LET gone == Newest(d).gone \cup {e} IN
  /\ Active(Newest(d), e)
  /\ root \/ Admins([role |-> Newest(d).role, gone |-> gone]) # {}
  /\ Mutate(d, root, Newest(d).role, gone)

(* Recover: with the recovery kit a device makes itself an admin. *)
Recover(d) ==
  /\ d \notin Newest(d).gone
  /\ Mutate(d, TRUE, [Newest(d).role EXCEPT ![d] = AdminRole], Newest(d).gone)

(* One key file of the change.  A file that is there already ends the      *)
(* change if its key was generated in this attempt, and is left alone      *)
(* otherwise.                                                              *)
WriteKey(d, f) ==
  LET rest == [job[d] EXCEPT !.files = @ \ {f}] IN
  /\ job[d] # NoJob /\ f \in job[d].files
  /\ IF keyfile[f.path] = 0
     THEN /\ keyfile' = [keyfile EXCEPT ![f.path] = f.key]
          /\ job' = [job EXCEPT ![d] = rest]
     ELSE /\ keyfile' = keyfile
          /\ job' = [job EXCEPT ![d] = IF f.strict THEN NoJob ELSE rest]
  /\ UNCHANGED <<folder, seen, chain, held, draft, minted, begun, faults>>

PublishFirst(d) ==
  /\ job[d] # NoJob
  /\ folder' = folder \cup {job[d].ver}
  /\ seen' = [seen EXCEPT ![d] = @ \cup {job[d].ver.hash}]
  /\ job' = [job EXCEPT ![d] = NoJob]
  /\ UNCHANGED <<chain, keyfile, held, draft, minted, begun, faults>>

(* publish; the refresh that follows is the next Refresh of d. *)
Publish(d) ==
  /\ job[d] # NoJob /\ job[d].files = {}
  /\ folder' = folder \cup {job[d].ver}
  /\ seen' = [seen EXCEPT ![d] = @ \cup {job[d].ver.hash}]
  /\ job' = [job EXCEPT ![d] = NoJob]
  /\ UNCHANGED <<chain, keyfile, held, draft, minted, begun, faults>>

(* The process ends or the storage fails while a change is published. *)
Crash(d) ==
  /\ job[d] # NoJob /\ faults < MaxFaults
  /\ job' = [job EXCEPT ![d] = NoJob]
  /\ faults' = faults + 1
  /\ UNCHANGED <<folder, seen, chain, keyfile, held, draft, minted, begun>>
-----------------------------------------------------------------------------
(* The cloud client. *)
Deliver(d) ==
  /\ \E v \in folder : v.hash \notin seen[d] /\ seen' = [seen EXCEPT ![d] = @ \cup {v.hash}]
  /\ UNCHANGED <<folder, chain, keyfile, held, draft, job, minted, begun, faults>>

(* A file is gone from d's copy, e.g. an older copy of the folder. *)
Vanish(d) ==
  /\ faults < MaxFaults
  /\ \E h \in seen[d] : seen' = [seen EXCEPT ![d] = @ \ {h}]
  /\ faults' = faults + 1
  /\ UNCHANGED <<folder, chain, keyfile, held, draft, job, minted, begun>>

(* A change begins with a refresh, and one at a time runs on a device.      *)
(* Only with the recovery kit a device changes its own entry.              *)
Change(d) ==
  /\ job[d] = NoJob /\ Joined(d) /\ Turn(d) /\ Refreshed(d)
  /\ \/ \E e \in Device \ {d}, r \in Role : Admit(d, e, r) \/ ChangeRole(d, e, r)
     \/ \E e \in Device \ {d} : Revoke(d, FALSE, e)
     \/ \E e \in Device : Revoke(d, TRUE, e)
     \/ Recover(d)

(* The order of devices in the list is not modelled: any order will do.  *)
(* What matters is that the file of root is the last one of a new epoch.   *)
WriteKeys(d) ==
  /\ job[d] # NoJob
  /\ \E f \in job[d].files :
       /\ f.path[3] = Root => \A g \in job[d].files \ {f} :
                                 <<g.path[1], g.path[2]>> # <<f.path[1], f.path[2]>>
       /\ WriteKey(d, f)

Next == \E d \in Device :
          \/ Refresh(d) \/ Change(d) \/ WriteKeys(d) \/ Publish(d) \/ Crash(d)
          \/ Deliver(d) \/ Vanish(d)

Spec == Init /\ [][Next]_vars
-----------------------------------------------------------------------------
(* A device that finds itself in the ACL also finds its keys: the key      *)
(* files of all readers of a published version that can be accepted hold   *)
(* the keys the version commits to.                                        *)
KeysBeforeACL ==
  \A v \in folder : \A s \in Scope : \A d \in Readers(v, s) : \A e \in 1 .. Epochs(v, s) :
     keyfile[<<s, e, d>>] = v.checks[s][e]

(* Who loses a scope finds no key of it in the folder that is newer than   *)
(* the loss, although drafted keys outlive the change they were made for.  *)
(* The key of a published epoch is in key files only of devices that a     *)
(* change begun with this very key let read the scope; and a device that a *)
(* published version keeps out has no key file of an epoch begun later,    *)
(* unless a change begun since was to let it in again.  The epoch which    *)
(* that version itself introduces is left out: when its key was drafted    *)
(* for a change that was cut off, whoever was to stay then may have a file *)
(* of it, and keeps it when the next change revokes it instead.            *)
RevokedGetNoNewKeys ==
  \A w \in folder : \A s \in Scope : \A e \in 1 .. Epochs(w, s) : \A d \in Device :
    keyfile[<<s, e, d>>] = w.checks[s][e] =>
      /\ \E u \in begun : /\ d \in u.readers[s] /\ e <= Len(u.checks[s])
                          /\ u.checks[s][e] = w.checks[s][e]
      /\ \A v \in folder : Epochs(v, s) < e /\ d \notin Readers(v, s) =>
           \E u \in begun : u.num > v.num /\ d \in u.readers[s]

(* What was accepted is not replaced or forgotten, whatever files are      *)
(* late or lost.                                                           *)
NeverReplaced ==
  [][\A d \in Device : IsPrefix(chain[d], chain'[d])]_vars

(* Once all files have arrived and every device has refreshed, everybody   *)
(* follows the same chain and every reader has all keys of its scopes.     *)
SettledAgree ==
  (\A d \in Device : /\ seen[d] = {v.hash : v \in folder}
                     /\ job[d] = NoJob /\ Refreshed(d)) =>
    /\ \A d, e \in Device : chain[d] = chain[e]
    /\ \A d \in Device : \A s \in Scope : d \in Readers(Newest(d), s) =>
         \A e \in 1 .. Epochs(Newest(d), s) : held[d][<<s, e>>] = Newest(d).checks[s][e]
=============================================================================
