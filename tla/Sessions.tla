------------------------------ MODULE Sessions ------------------------------
(***************************************************************************)
(* Logins: the login throttle, access tokens, refresh tokens and their     *)
(* rotation, password changes and resets, and the management of accounts.  *)
(* Requests run concurrently: each is a sequence of steps that read or     *)
(* write the database, and others run in between.                          *)
(*                                                                         *)
(* Time is in whole seconds, the precision the issue time of a token is    *)
(* compared with.  A password is the number of the change that set it, and *)
(* 0 is a wrong one.  The administrator of the config file is an account   *)
(* like the others, except where the code treats it apart.  Writing the    *)
(* config file succeeds.                                                   *)
(***************************************************************************)
EXTENDS Integers, FiniteSets

CONSTANTS
  User,              \* accounts of the database
  Admin,             \* the account of the config file
  Email, AdminEmail,
  Role, AdminRole,   \* app roles
  None,
  Slot,              \* requests in flight
  Source,            \* addresses logins come from
  TokenTTL, AccessTTL, ResetTTL, ReuseGrace,
  AccountThreshold, SourceThreshold, BaseLockout, MaxLockout, FailureWindow,
  MaxTime,           \* bound on the clock
  Budgets            \* how often each kind of request happens in a behaviour

Kinds == {"login", "guess", "refresh", "logout", "change", "reset", "users", "fault"}
Account == User \cup {Admin}

ASSUME SessionsAssumption ==
  /\ Admin \notin User /\ None \notin Account \cup Email \cup Role \cup Slot
  /\ AdminEmail \in Email /\ AdminRole \in Role
  /\ {TokenTTL, AccessTTL, ResetTTL, AccountThreshold, SourceThreshold, BaseLockout} \subseteq Nat \ {0}
  /\ {ReuseGrace, MaxLockout, FailureWindow, MaxTime} \subseteq Nat
  /\ IsFiniteSet(Slot) /\ Slot # {}
  /\ Email \cap Source = {}
  /\ Budgets \subseteq [Kinds -> Nat]

VARIABLES
  account,  \* users and the administrator; epoch counts what changed in each
  tokens,   \* refresh_tokens
  bearer,   \* access tokens that have been handed out and have not expired
  links,    \* password_reset_tokens
  fails,    \* loginLimiter.entries: by e-mail and by source
  req,      \* what the requests in flight are doing
  now,
  nextId,
  left      \* requests left of each kind

vars == <<account, tokens, bearer, links, fails, req, now, nextId, left>>

(* Bound: one more request of a kind. *)
Spend(kind) == left[kind] > 0 /\ left' = [left EXCEPT ![kind] = @ - 1]

(* Of every token it is remembered whose login it comes from (who), what   *)
(* that account was then (epoch), and whether the account changed while a  *)
(* request that led to it was in flight, or changed without the token      *)
(* being revoked (raced).                                                  *)
Origin(r) == [who |-> req[r].who, epoch |-> req[r].epoch, raced |-> req[r].raced]

NoRow == [id |-> 0]
Quiet == [at |-> "idle", email |-> None, pass |-> 0, source |-> None, role |-> None,
          row |-> NoRow, time |-> 0, who |-> None, epoch |-> 0, raced |-> FALSE]
NoFailures == [n |-> 0, last |-> 0, until |-> 0, since |-> 0]

NoAccount == [live |-> FALSE, email |-> None, role |-> None, pass |-> 0, changed |-> 0, epoch |-> 0]

Init ==
  /\ \E first \in User, email \in Email \ {AdminEmail}, role \in Role :
       account = [u \in Account |->
         IF u = Admin THEN [live |-> TRUE, email |-> AdminEmail, role |-> AdminRole, pass |-> 1, changed |-> 0, epoch |-> 1]
         ELSE IF u = first THEN [live |-> TRUE, email |-> email, role |-> role, pass |-> 1, changed |-> 0, epoch |-> 1]
         ELSE NoAccount]
  /\ tokens = {} /\ bearer = {} /\ links = {}
  /\ fails = [k \in Email \cup Source |-> NoFailures]
  /\ req = [r \in Slot |-> Quiet]
  /\ now = 1 /\ nextId = 1
  /\ left \in Budgets

Is(r, at) == req[r].at = at
Goto(r, at) == req' = [req EXCEPT ![r].at = at]
End(r) == req' = [req EXCEPT ![r] = Quiet]

(* The account with an e-mail address, at most one. *)
With(email) == {u \in Account : account[u].live /\ account[u].email = email}

(* Mutant: the time a token was issued does not count. *)
AnyIssueTime(email, role, issued) == \E u \in With(email) : account[u].role = role

(* ValidateSession: the account has not changed since the token's second.  *)
ValidateSession(email, role, issued) ==
  \E u \in With(email) : account[u].role = role /\ issued >= account[u].changed

Accepted(b) == ValidateSession(b.email, b.role, b.issued)

-----------------------------------------------------------------------------
(* The login throttle. *)

(* Mutant: only the source of a login is looked at. *)
LockedSource(email, source) == fails[source].until > now

(* retryAfter *)
Locked(email, source) == \E k \in {email, source} : fails[k].until > now

(* Lockouts double with every failure from the threshold on, ten times at  *)
(* most.                                                                   *)
Lockout(n, threshold) ==
  LET over == n - threshold
  IN IF over < 10 /\ BaseLockout * 2 ^ over < MaxLockout THEN BaseLockout * 2 ^ over ELSE MaxLockout

Threshold(key) == IF key \in Email THEN AccountThreshold ELSE SourceThreshold

Recorded(key) ==
  LET old == IF fails[key].n = 0 \/ now - fails[key].last > FailureWindow THEN [NoFailures EXCEPT !.since = now]
             ELSE fails[key]
  IN [old EXCEPT !.n = @ + 1, !.last = now,
                 !.until = IF old.n + 1 >= Threshold(key) THEN now + Lockout(old.n + 1, Threshold(key)) ELSE @]

Pruned(key) == now > fails[key].until /\ now - fails[key].last > FailureWindow

(* failure prunes, then counts for the account and for the source.         *)
Failed(email, source) ==
  fails' = [k \in DOMAIN fails |->
              IF k \in {email, source} THEN Recorded(k) ELSE IF Pruned(k) THEN NoFailures ELSE fails[k]]

-----------------------------------------------------------------------------
(* Login: the throttle, the password, the access token, the refresh token. *)

LoginStart(r, email, pass, source) ==
  /\ Is(r, "idle") /\ Spend(IF pass = 0 THEN "guess" ELSE "login")
  /\ ~Locked(email, source)
  /\ req' = [req EXCEPT ![r] = [Quiet EXCEPT !.at = "verifying", !.email = email, !.pass = pass, !.source = source]]
  /\ UNCHANGED <<account, tokens, bearer, links, fails, now, nextId>>

(* checkLogin *)
LoginVerify(r) ==
  /\ Is(r, "verifying")
  /\ LET found == {u \in With(req[r].email) : account[u].pass = req[r].pass}
     IN \/ /\ found = {}
           /\ Failed(req[r].email, req[r].source)
           /\ End(r)
        \/ \E u \in found :
           /\ fails' = [fails EXCEPT ![req[r].email] = NoFailures]
           /\ req' = [req EXCEPT ![r] = [@ EXCEPT !.at = "minting", !.role = account[u].role,
                                                  !.who = u, !.epoch = account[u].epoch]]
  /\ UNCHANGED <<account, tokens, bearer, links, now, nextId, left>>

(* NewToken *)
Bearer(r) == [email |-> req[r].email, role |-> req[r].role, issued |-> now, from |-> Origin(r)]

LoginMint(r) ==
  /\ Is(r, "minting") /\ Goto(r, "issuing")
  /\ bearer' = bearer \cup {Bearer(r)}
  /\ UNCHANGED <<account, tokens, links, fails, now, nextId, left>>

(* Expired tokens go whenever a login stores a new one. *)
CreateRefreshToken(row) == tokens' = {t \in tokens : t.expires >= now} \cup {row}

(* issueRefreshToken looks the account up again, by its e-mail address;    *)
(* without one the login ends with the access token.                       *)
LoginIssue(r) ==
  /\ Is(r, "issuing") /\ End(r)
  /\ IF With(req[r].email) = {} THEN UNCHANGED <<tokens, nextId>>
     ELSE /\ \E u \in With(req[r].email) :
               CreateRefreshToken([id |-> nextId, family |-> nextId, email |-> req[r].email, role |-> req[r].role,
                                   user |-> IF u = Admin THEN None ELSE u, created |-> now,
                                   expires |-> now + TokenTTL, replaced |-> 0, from |-> Origin(r)])
          /\ nextId' = nextId + 1
  /\ UNCHANGED <<account, bearer, links, fails, now, left>>

-----------------------------------------------------------------------------
(* Refresh: the row of the token, the checks, the rotation, the answer.    *)

Revoked(family) == {t \in tokens : t.family # family}

(* The administrator's password has changed, the refresh tokens are there. *)
AdminChanging(email) == email = AdminEmail /\ \E s \in Slot : Is(s, "revoking")

RefreshRead(r, t) ==
  /\ Is(r, "idle") /\ Spend("refresh")
  /\ req' = [req EXCEPT ![r] = [Quiet EXCEPT !.at = "checking", !.email = t.email, !.role = t.role, !.row = t,
                                  !.who = t.from.who, !.epoch = t.from.epoch,
                                  !.raced = t.from.raced \/ AdminChanging(t.email)]]
  /\ UNCHANGED <<account, tokens, bearer, links, fails, now, nextId>>

(* A token past its time, a replaced one past the grace time, and one      *)
(* whose account changed end the login.                                    *)
EndsLogin(t) ==
  \/ now >= t.expires
  \/ t.replaced # 0 /\ now - t.replaced > ReuseGrace
  \/ ~ValidateSession(t.email, t.role, t.created)

RefreshCheck(r) ==
  /\ Is(r, "checking")
  /\ IF EndsLogin(req[r].row)
     THEN tokens' = Revoked(req[r].row.family) /\ End(r)
     ELSE /\ req' = [req EXCEPT ![r].at = IF req[r].row.replaced = 0 THEN "rotating" ELSE "granting", ![r].time = now]
          /\ UNCHANGED tokens
  /\ UNCHANGED <<account, bearer, links, fails, now, nextId, left>>

(* Mutant: the row is replaced whatever happened to it. *)
AnyRow(r) == req[r].row.id # 0
(* Mutant: a replaced row is replaced again. *)
RowThere(r) == \E t \in tokens : t.id = req[r].row.id

(* RotateRefreshToken's condition: neither replaced nor revoked meanwhile. *)
StillCurrent(r) == \E t \in tokens : t.id = req[r].row.id /\ t.replaced = 0

(* A rotation that comes too late hands out no new refresh token, but an   *)
(* access token all the same.                                              *)
RefreshRotate(r) ==
  /\ Is(r, "rotating") /\ Goto(r, "granting")
  /\ IF StillCurrent(r)
     THEN /\ tokens' = {IF t.id = req[r].row.id THEN [t EXCEPT !.replaced = req[r].time] ELSE t : t \in tokens}
                        \cup {[req[r].row EXCEPT !.id = nextId, !.created = req[r].time,
                                                 !.expires = req[r].time + TokenTTL, !.from = Origin(r)]}
          /\ nextId' = nextId + 1
     ELSE UNCHANGED <<tokens, nextId>>
  /\ UNCHANGED <<account, bearer, links, fails, now, left>>

RefreshGrant(r) ==
  /\ Is(r, "granting") /\ End(r)
  /\ bearer' = bearer \cup {Bearer(r)}
  /\ UNCHANGED <<account, tokens, links, fails, now, nextId, left>>

Logout(t) ==
  /\ Spend("logout")
  /\ tokens' = Revoked(t.family)
  /\ UNCHANGED <<account, bearer, links, fails, req, now, nextId>>

-----------------------------------------------------------------------------
(* Password changes and resets. *)

(* Requests in flight that concern an e-mail address, when its account     *)
(* changes; r is done with its own step.                                   *)
Overtaken(emails, r, then) ==
  req' = [s \in Slot |-> IF s = r THEN then
                         ELSE IF req[s].email \in emails THEN [req[s] EXCEPT !.raced = TRUE] ELSE req[s]]

(* ChangePassword, with the right current password where one is asked for. *)
ChangeStart(r, b) ==
  /\ Is(r, "idle") /\ Spend("change")
  /\ Accepted(b)
  /\ req' = [req EXCEPT ![r] = [Quiet EXCEPT !.at = "setting", !.email = b.email]]
  /\ UNCHANGED <<account, tokens, bearer, links, fails, now, nextId>>

Changed(a) == [a EXCEPT !.changed = now, !.epoch = @ + 1]
NewPassword(u) == account' = [account EXCEPT ![u] = [Changed(account[u]) EXCEPT !.pass = @ + 1]]

(* SetUserPassword: by e-mail address, with the refresh tokens issued to   *)
(* it.                                                                     *)
SetUserPassword(r) ==
  /\ Is(r, "setting") /\ req[r].email # AdminEmail
  /\ IF With(req[r].email) = {} THEN End(r) /\ UNCHANGED <<account, tokens>>
     ELSE /\ \E u \in With(req[r].email) : NewPassword(u)
          /\ tokens' = {t \in tokens : t.email # req[r].email}
          /\ Overtaken({req[r].email}, r, Quiet)
  /\ UNCHANGED <<bearer, links, fails, now, nextId, left>>

(* The administrator's password is in the config file; the refresh tokens  *)
(* go after it, unless the database or the server fails in between: what   *)
(* was issued before the second of the change is refused all the same.     *)
SetAdminPassword(r) ==
  /\ Is(r, "setting") /\ req[r].email = AdminEmail
  /\ NewPassword(Admin)
  /\ Overtaken({AdminEmail}, r, [Quiet EXCEPT !.at = "revoking", !.email = AdminEmail])
  /\ UNCHANGED <<tokens, bearer, links, fails, now, nextId, left>>

Spared(t) == t.email = AdminEmail /\ t.created >= account[Admin].changed
KeepAdminTokens == tokens' = {IF Spared(t) THEN [t EXCEPT !.from.raced = TRUE] ELSE t : t \in tokens}

RevokeAdminTokens(r) ==
  /\ Is(r, "revoking")
  /\ \/ tokens' = {t \in tokens : t.email # AdminEmail} /\ UNCHANGED left
     \/ KeepAdminTokens /\ Spend("fault")
  /\ Overtaken({AdminEmail}, r, Quiet)
  /\ UNCHANGED <<account, bearer, links, fails, now, nextId>>

LiveLinks == {l \in links : now < l.expires}

(* A new link replaces an older one of the account. *)
CreatePasswordResetToken(u) ==
  links' = {l \in LiveLinks : l.user # u} \cup {[user |-> u, expires |-> now + ResetTTL]}

ForgotPassword(u) ==
  /\ Spend("reset") /\ account[u].live
  /\ CreatePasswordResetToken(u)
  /\ UNCHANGED <<account, tokens, bearer, fails, req, now, nextId>>

(* ResetPassword: redeeming deletes the link; then the account is looked   *)
(* up by its id, and its password is set by its e-mail address.            *)
ResetConsume(r, l) ==
  /\ Is(r, "idle") /\ l \in LiveLinks
  /\ links' = {k \in LiveLinks : k.user # l.user}
  /\ req' = [req EXCEPT ![r] = [Quiet EXCEPT !.at = "resetting", !.who = l.user]]
  /\ UNCHANGED <<account, tokens, bearer, fails, now, nextId, left>>

ResetFind(r) ==
  /\ Is(r, "resetting")
  /\ IF account[req[r].who].live
     THEN req' = [req EXCEPT ![r] = [Quiet EXCEPT !.at = "setting", !.email = account[req[r].who].email]]
     ELSE End(r)
  /\ UNCHANGED <<account, tokens, bearer, links, fails, now, nextId, left>>

-----------------------------------------------------------------------------
(* Accounts, managed by an administrator. *)

(* emailAvailable and the unique index on the addresses of live users.     *)
Available(email, u) == email # AdminEmail /\ With(email) \subseteq {u}

CreateUser(u, email, role) ==
  /\ Spend("users")
  /\ account[u] = NoAccount /\ Available(email, u)
  /\ account' = [account EXCEPT ![u] = [live |-> TRUE, email |-> email, role |-> role, pass |-> 1, changed |-> now, epoch |-> 1]]
  /\ Overtaken({email}, None, Quiet)
  /\ UNCHANGED <<tokens, bearer, links, fails, now, nextId>>

UpdateUser(u, email, role) ==
  /\ Spend("users")
  /\ account[u].live /\ Available(email, u)
  /\ account' = [account EXCEPT ![u] = [Changed(account[u]) EXCEPT !.email = email, !.role = role]]
  /\ tokens' = {t \in tokens : t.user # u}
  /\ Overtaken({email, account[u].email}, None, Quiet)
  /\ UNCHANGED <<bearer, links, fails, now, nextId>>

DeleteUser(u) ==
  /\ Spend("users")
  /\ account[u].live
  /\ account' = [account EXCEPT ![u] = [Changed(account[u]) EXCEPT !.live = FALSE]]
  /\ tokens' = {t \in tokens : t.user # u}
  /\ links' = {l \in links : l.user # u}
  /\ Overtaken({account[u].email}, None, Quiet)
  /\ UNCHANGED <<bearer, fails, now, nextId>>

-----------------------------------------------------------------------------
(* An access token is refused after AccessTTL, so it is forgotten then.    *)
Tick ==
  /\ now < MaxTime /\ now' = now + 1
  /\ bearer' = {b \in bearer : now' <= b.issued + AccessTTL}
  /\ UNCHANGED <<account, tokens, links, fails, req, nextId, left>>

(* The server starts again: it has forgotten the failures, and what was in *)
(* flight has ended.                                                       *)
Restart ==
  /\ Spend("fault")
  /\ IF AdminChanging(AdminEmail) THEN KeepAdminTokens ELSE UNCHANGED tokens
  /\ fails' = [k \in DOMAIN fails |-> NoFailures]
  /\ req' = [r \in Slot |-> Quiet]
  /\ UNCHANGED <<account, bearer, links, now, nextId>>

LoginStep(r) ==
  \/ \E u \in Account, source \in Source, wrong \in BOOLEAN :
       account[u].live /\ LoginStart(r, account[u].email, IF wrong THEN 0 ELSE account[u].pass, source)
  \/ LoginVerify(r) \/ LoginMint(r) \/ LoginIssue(r)
RefreshStep(r) ==
  \/ \E t \in tokens : RefreshRead(r, t)
  \/ RefreshCheck(r) \/ RefreshRotate(r) \/ RefreshGrant(r)
ChangeStep(r) ==
  \/ \E b \in bearer : ChangeStart(r, b)
  \/ \E l \in links : ResetConsume(r, l)
  \/ ResetFind(r) \/ SetUserPassword(r) \/ SetAdminPassword(r) \/ RevokeAdminTokens(r)
ManageUsers ==
  \E u \in User :
    \/ \E email \in Email, role \in Role : CreateUser(u, email, role) \/ UpdateUser(u, email, role)
    \/ DeleteUser(u)

Next ==
  \/ \E r \in Slot : LoginStep(r) \/ RefreshStep(r) \/ ChangeStep(r)
  \/ \E t \in tokens : Logout(t)
  \/ \E u \in Account : ForgotPassword(u)
  \/ ManageUsers \/ Tick \/ Restart

Spec == Init /\ [][Next]_vars

-----------------------------------------------------------------------------
(* A login has at most one refresh token that can be exchanged for another *)
(* one, however many requests race with the same token (several tabs).     *)
OneCurrentToken ==
  \A t, u \in tokens : t # u /\ t.family = u.family => t.replaced # 0 \/ u.replaced # 0

(* A login that has ended, by logout, reuse of a token, expiry or a change *)
(* of its account, does not come back, also when a refresh was under way.  *)
Families == {t.family : t \in tokens}
EndedStaysEnded == [][\A f \in Families' : f \in Families \/ f = nextId]_vars

(* "Deleted users, changed roles and password changes end the login":      *)
(* every access token that is accepted, and every refresh token that would *)
(* be, comes from a login to the account as it is now.  Left out are       *)
(* access tokens issued in the second of the change, which ValidateSession *)
(* accepts as it says, what comes from requests that were in flight when   *)
(* the account changed, and the administrator's refresh tokens of that     *)
(* second when revoking them failed.                                       *)
UpToDate(email, from) ==
  from.raced \/ \E u \in With(email) : from.who = u /\ from.epoch = account[u].epoch

SameSecond(email, time) == \E u \in With(email) : account[u].changed = time

ChangeEndsLogins ==
  /\ \A b \in bearer : Accepted(b) => UpToDate(b.email, b.from) \/ SameSecond(b.email, b.issued)
  /\ \A t \in tokens :
       t.replaced = 0 /\ ~EndsLogin(t) => UpToDate(t.email, t.from) \/ SameSecond(t.email, t.created)

(* Guessing takes its time: of any Cardinality(Slot) failures in a row the *)
(* last one began after the lockout of the one before them, so the         *)
(* failures counted for an account have taken at least the lockouts of     *)
(* every Cardinality(Slot)-th of them.                                     *)
MinTime[n \in Nat] ==
  LET before == n - Cardinality(Slot)
  IN IF before < AccountThreshold THEN 0 ELSE MinTime[before] + Lockout(before, AccountThreshold)

GuessRate ==
  \A e \in Email : fails[e].n # 0 => now - fails[e].since >= MinTime[fails[e].n]
=============================================================================
