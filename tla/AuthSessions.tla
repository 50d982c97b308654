--------------------------- MODULE AuthSessions ----------------------------
(***************************************************************************)
(* The account of one user of an auth collection: password, session        *)
(* version, lock and reset token in its row; the signed session tokens in  *)
(* the hands of clients, which no server forgets; and the calls that       *)
(* authenticate, refresh, reset, lock and log out.  Each statement outside *)
(* a transaction commits by itself, so a call is several actions.          *)
(*                                                                         *)
(* A password and a reset token are named by a number, a new one each      *)
(* time.  The login limits by email and by address count the same calls    *)
(* here; one log stands for the tighter of the two.                        *)
(***************************************************************************)
EXTENDS Integers, Sequences, FiniteSets

CONSTANTS
    Calls,         \* request threads
    None,
    Deployments,   \* backend, mfa, and auth.session_absolute_max_age (0: none)
    TokenExpiry,   \* auth.token_expiry
    Leeway,        \* what the JWT library allows after exp
    ResetExpiry,   \* auth.reset_token_expiry
    PendingExpiry, \* MFA_PENDING_EXPIRY
    MaxAttempts,   \* auth.max_login_attempts
    Window,        \* auth.login_lockout_seconds
    MaxTime,       \* bound on the clock
    Budgets        \* bounds on the operations of a behaviour

Ops == {"login", "refresh", "forgot", "reset", "lock", "unlock", "logout", "password"}

ASSUME AuthAssumption ==
    /\ IsFiniteSet(Calls)
    /\ None \notin Calls
    /\ Deployments \subseteq [pg : BOOLEAN, mfa : BOOLEAN, max_age : Nat]
    /\ TokenExpiry \in Nat \ {0}
    /\ Leeway \in Nat
    /\ ResetExpiry \in Nat
    /\ PendingExpiry \in Nat
    /\ MaxAttempts \in Nat \ {0}
    /\ Window \in Nat \ {0}
    /\ MaxTime \in Nat
    /\ Budgets \subseteq [Ops -> Nat]

VARIABLES
    deploy,    \* the deployment at hand, fixed
    now,       \* the clock, in seconds
    user,      \* the committed row
    writer,    \* who holds the write lock (SQLite) or the row's lock (Postgres)
    calls,
    sessions,  \* session tokens that have not expired
    pendings,  \* tokens of logins that wait for their MFA code
    log,       \* times of the failed logins, as the limiter keeps them
    used,      \* of each reset token made, how often it has set a password
    left       \* operations of each kind that may still be started

vars == <<deploy, now, user, writer, calls, sessions, pendings, log, used, left>>

Row == [pw : Nat, sv : Nat, locked : BOOLEAN, token : Nat, exp : Nat]

(* A token's claims.  login (when the password was checked) and dead (it   *)
(* was there when a revocation completed) are history, not claims.         *)
Claims == [sv : Nat, auth_time : Nat, exp : Nat, login : Nat, dead : BOOLEAN]
NoClaims == [sv |-> 0, auth_time |-> 0, exp |-> 0, login |-> 0, dead |-> FALSE]

NoRow == [pw |-> 0, sv |-> 0, locked |-> FALSE, token |-> 0, exp |-> 0]

Pcs == {"idle",
        "hash", "locked", "version", "failed",           \* login
        "won", "gate",
        "check", "issue",                                \* session_refresh
        "validate", "update", "clear",                   \* consume_reset_token
        "bump"}                                          \* lock_user

Call == [pc : Pcs,
         grpc : BOOLEAN,        \* by gRPC, or from the admin pages
         pw : Nat \cup {-1},    \* the password given
         claims : Claims,
         seen : Row,            \* the row a reset has found
         stale : BOOLEAN]       \* something has committed since

NoCall == [pc |-> "idle", grpc |-> FALSE, pw |-> -1, claims |-> NoClaims,
           seen |-> NoRow, stale |-> FALSE]

AuthTypeOK ==
    /\ deploy \in Deployments
    /\ now \in 0..MaxTime
    /\ user \in Row
    /\ writer \in Calls \cup {None}
    /\ calls \in [Calls -> Call]
    /\ sessions \subseteq Claims
    /\ pendings \subseteq Claims
    /\ log \in Seq(0..MaxTime)
    /\ used \in Seq(Nat)
    /\ left \in [Ops -> Nat]

Init ==
    /\ deploy \in Deployments
    /\ now = 0
    /\ user = NoRow
    /\ writer = None
    /\ calls = [c \in Calls |-> NoCall]
    /\ sessions = {}
    /\ pendings = {}
    /\ log = <<>>
    /\ used = <<>>
    /\ left \in Budgets

-----------------------------------------------------------------------------
(* What a statement sees and writes.                                       *)

Sqlite == ~deploy.pg
Idle(c) == calls[c].pc = "idle"
At(c, pc) == calls[c].pc = pc

Spend(op) == left[op] > 0 /\ left' = [left EXCEPT ![op] = @ - 1]

Go(c, pc) == calls' = [calls EXCEPT ![c].pc = pc]
End(c) == calls' = [calls EXCEPT ![c] = NoCall]

(* A transaction that has found its row before this commit is stale now.   *)
Aged(cs) == [c \in Calls |-> [cs[c] EXCEPT
                !.stale = @ \/ cs[c].pc \in {"validate", "update", "clear"}]]

(* A commit that revokes: every token there is has seen a revocation, and  *)
(* every call that has already read its version.                           *)
Dead(T) == {[s EXCEPT !.dead = TRUE] : s \in T}
Buried(cs) == [c \in Calls |-> [cs[c] EXCEPT
                  !.claims.dead = @ \/ cs[c].pc \in {"won", "gate", "check", "issue"}]]

Revoke(u, cs) ==
    /\ user' = u
    /\ calls' = Buried(Aged(cs))
    /\ sessions' = Dead(sessions)
    /\ pendings' = Dead(pendings)

Bumped(u) == [u EXCEPT !.sv = @ + 1]

Expired(s) == s.exp + Leeway < now

(* A request with token s is authenticated now.  The check of _locked in   *)
(* resolve_token does not count: find_by_id, whose document it looks at,   *)
(* does not select that column.                                            *)
resolve_token(s) == ~Expired(s) /\ s.sv = user.sv

Token(sv, auth_time, login, dead) ==
    [sv |-> sv, auth_time |-> auth_time, exp |-> now + TokenExpiry,
     login |-> login, dead |-> dead]

-----------------------------------------------------------------------------
(* The login limiter.                                                      *)

(* What retain keeps.  The times are in order, so what it drops comes      *)
(* first.                                                                  *)
Past == {i \in DOMAIN log : now - log[i] >= Window}

Recent == SubSeq(log, Cardinality(Past) + 1, Len(log))

\* Mutant of is_blocked: one attempt too many is let through.
BlockedAbove == Len(Recent) > MaxAttempts

is_blocked == Len(Recent) >= MaxAttempts

-----------------------------------------------------------------------------
(* Login: authenticate_local reads the hash, the lock and the version in   *)
(* statements of their own.  A blocked login does nothing.                 *)

LoginBegin(c, grpc, pw) ==
    /\ Idle(c)
    /\ ~is_blocked
    /\ Spend("login")
    /\ log' = Recent
    /\ calls' = [calls EXCEPT ![c] = [NoCall EXCEPT !.pc = "hash", !.grpc = grpc, !.pw = pw]]
    /\ UNCHANGED <<deploy, now, user, writer, sessions, pendings, used>>

VerifyPassword(c) ==
    /\ At(c, "hash")
    /\ Go(c, IF calls[c].pw = user.pw THEN "locked" ELSE "failed")
    /\ UNCHANGED <<deploy, now, user, writer, sessions, pendings, log, used, left>>

LoginIsLocked(c) ==
    /\ At(c, "locked")
    /\ Go(c, IF user.locked THEN "failed" ELSE "version")
    /\ UNCHANGED <<deploy, now, user, writer, sessions, pendings, log, used, left>>

record_failure(c) ==
    /\ At(c, "failed")
    /\ log' = Append(Recent, now)
    /\ End(c)
    /\ UNCHANGED <<deploy, now, user, writer, sessions, pendings, used, left>>

get_session_version(c) ==
    /\ At(c, "version")
    /\ calls' = [calls EXCEPT ![c].pc = "won", ![c].claims.sv = user.sv]
    /\ UNCHANGED <<deploy, now, user, writer, sessions, pendings, log, used, left>>

(* A gRPC login makes its token; an admin login asks the admin.access gate *)
(* first.  Both clear the limiter.                                         *)
login_impl(c) ==
    /\ At(c, "won") /\ calls[c].grpc
    /\ sessions' = sessions \cup {Token(calls[c].claims.sv, now, now, calls[c].claims.dead)}
    /\ log' = <<>>
    /\ End(c)
    /\ UNCHANGED <<deploy, now, user, writer, pendings, used, left>>

login_action(c) ==
    /\ At(c, "won") /\ ~calls[c].grpc
    /\ log' = <<>>
    /\ Go(c, "gate")
    /\ UNCHANGED <<deploy, now, user, writer, sessions, pendings, used, left>>

build_session_response(c) ==
    /\ At(c, "gate")
    /\ LET sv   == calls[c].claims.sv
           dead == calls[c].claims.dead
       IN  IF deploy.mfa
           THEN /\ pendings' = pendings \cup
                     {[Token(sv, now, now, dead) EXCEPT !.exp = now + PendingExpiry]}
                /\ UNCHANGED sessions
           ELSE /\ sessions' = sessions \cup {Token(sv, now, now, dead)}
                /\ UNCHANGED pendings
    /\ End(c)
    /\ UNCHANGED <<deploy, now, user, writer, log, used, left>>

(* A database error, or the gate refuses: nothing is recorded.             *)
LoginError(c) ==
    /\ calls[c].pc \in {"hash", "locked", "version", "gate"}
    /\ End(c)
    /\ UNCHANGED <<deploy, now, user, writer, sessions, pendings, log, used, left>>

(* The code of a pending login has been verified.                          *)
verify_mfa_action(p) ==
    /\ p \in pendings
    /\ sessions' = sessions \cup {Token(p.sv, now, now, p.dead)}
    /\ UNCHANGED <<deploy, now, user, writer, calls, pendings, log, used, left>>

-----------------------------------------------------------------------------
(* session_refresh: the middleware has accepted s; the status is checked   *)
(* in a blocking task, and the token made when that task has returned.     *)

RefreshBegin(c, s) ==
    /\ Idle(c)
    /\ s \in sessions
    /\ resolve_token(s)
    /\ Spend("refresh")
    /\ calls' = [calls EXCEPT ![c] = [NoCall EXCEPT !.pc = "check", !.claims = s]]
    /\ UNCHANGED <<deploy, now, user, writer, sessions, pendings, log, used>>

(* The lock and the version are two reads; as versions only grow, both     *)
(* answers are those of the first.                                         *)
check_session_status(c) ==
    /\ At(c, "check")
    /\ IF user.locked \/ calls[c].claims.sv # user.sv THEN End(c) ELSE Go(c, "issue")
    /\ UNCHANGED <<deploy, now, user, writer, sessions, pendings, log, used, left>>

(* No connection, or the user is gone.                                     *)
RefreshFails(c) ==
    /\ At(c, "check")
    /\ End(c)
    /\ UNCHANGED <<deploy, now, user, writer, sessions, pendings, log, used, left>>

TooOld(s) == deploy.max_age > 0 /\ now - s.auth_time > deploy.max_age

\* Mutant of Refreshed: a refresh counts as an authentication.
Reauthenticated(s) == Token(s.sv, now, s.login, s.dead)

Refreshed(s) == Token(s.sv, s.auth_time, s.login, s.dead)

session_refresh(c) ==
    /\ At(c, "issue")
    /\ sessions' = IF TooOld(calls[c].claims) THEN sessions
                   ELSE sessions \cup {Refreshed(calls[c].claims)}
    /\ End(c)
    /\ UNCHANGED <<deploy, now, user, writer, pendings, log, used, left>>

-----------------------------------------------------------------------------
(* Password reset.  The gRPC transaction is IMMEDIATE, the admin one       *)
(* DEFERRED: on SQLite it reads its snapshot and may write only while that *)
(* is the last commit.  A token that is not found has no effect.           *)

generate_reset_token ==
    /\ Spend("forgot")
    /\ writer = None
    /\ used' = Append(used, 0)
    /\ user' = [user EXCEPT !.token = Len(used) + 1, !.exp = now + ResetExpiry]
    /\ calls' = Aged(calls)
    /\ UNCHANGED <<deploy, now, writer, sessions, pendings, log>>

ResetBegin(c, grpc, t) ==
    /\ Idle(c)
    /\ t = user.token
    /\ Spend("reset")
    /\ Sqlite /\ grpc => writer = None
    /\ writer' = IF Sqlite /\ grpc THEN c ELSE writer
    /\ calls' = [calls EXCEPT ![c] =
                    [NoCall EXCEPT !.pc = "validate", !.grpc = grpc, !.seen = user]]
    /\ UNCHANGED <<deploy, now, user, sessions, pendings, log, used>>

\* Mutant of CanWrite: a DEFERRED transaction writes over a newer commit.
CanWriteOver(c) == writer \in {None, c}

CanWrite(c) == writer \in {None, c} /\ (Sqlite => ~calls[c].stale)

SeenLocked(c) == IF Sqlite THEN calls[c].seen.locked ELSE user.locked

Released(c) == writer' = IF writer = c THEN None ELSE writer

(* The account is locked: the token is cleared, and both callers roll that *)
(* back.  Expired: the admin caller commits the clear, the gRPC one does   *)
(* not.                                                                    *)
RejectLocked(c) ==
    /\ At(c, "validate")
    /\ SeenLocked(c)
    /\ Released(c)
    /\ End(c)
    /\ UNCHANGED <<deploy, now, user, sessions, pendings, log, used, left>>

RejectExpired(c) ==
    /\ At(c, "validate")
    /\ ~SeenLocked(c)
    /\ now >= calls[c].seen.exp
    /\ Released(c)
    /\ IF calls[c].grpc THEN End(c) /\ UNCHANGED user
       ELSE /\ CanWrite(c)
            /\ user' = [user EXCEPT !.token = 0, !.exp = 0]
            /\ calls' = Aged([calls EXCEPT ![c] = NoCall])
    /\ UNCHANGED <<deploy, now, sessions, pendings, log, used, left>>

HashPassword(c) ==
    /\ At(c, "validate")
    /\ ~SeenLocked(c)
    /\ now < calls[c].seen.exp
    /\ Go(c, "update")
    /\ UNCHANGED <<deploy, now, user, writer, sessions, pendings, log, used, left>>

update_password(c) ==
    /\ At(c, "update")
    /\ CanWrite(c)
    /\ writer' = c
    /\ Go(c, "clear")
    /\ UNCHANGED <<deploy, now, user, sessions, pendings, log, used, left>>

\* Mutant of ResetRow: the token stays.
TokenKept == [Bumped(user) EXCEPT !.pw = @ + 1]

ResetRow == [Bumped(user) EXCEPT !.pw = @ + 1, !.token = 0, !.exp = 0]

(* clear_reset_token, and the commit of both statements.                   *)
consume_reset_token(c) ==
    /\ At(c, "clear")
    /\ Revoke(ResetRow, [calls EXCEPT ![c] = NoCall])
    /\ writer' = None
    /\ used' = [used EXCEPT ![calls[c].seen.token] = @ + 1]
    /\ UNCHANGED <<deploy, now, log, left>>

(* The database is busy, the connection or the process is gone: rollback.  *)
ResetFails(c) ==
    /\ calls[c].pc \in {"validate", "update", "clear"}
    /\ Released(c)
    /\ End(c)
    /\ UNCHANGED <<deploy, now, user, sessions, pendings, log, used, left>>

-----------------------------------------------------------------------------
(* Lock, unlock, logout, and a password set with the document.             *)

lock_user(c) ==
    /\ Idle(c)
    /\ Spend("lock")
    /\ writer = None
    /\ user' = [user EXCEPT !.locked = TRUE]
    /\ calls' = Aged([calls EXCEPT ![c] = [NoCall EXCEPT !.pc = "bump"]])
    /\ UNCHANGED <<deploy, now, writer, sessions, pendings, log, used>>

\* Mutant of LockedRow: locking does not bump the version.
NotBumped == user

LockedRow == Bumped(user)

bump_session_version(c) ==
    /\ At(c, "bump")
    /\ writer = None
    /\ Revoke(LockedRow, [calls EXCEPT ![c] = NoCall])
    /\ UNCHANGED <<deploy, now, writer, log, used, left>>

(* The bump fails, or the process dies: locked, and the versions stand.    *)
LockFails(c) ==
    /\ At(c, "bump")
    /\ End(c)
    /\ UNCHANGED <<deploy, now, user, writer, sessions, pendings, log, used, left>>

unlock_user ==
    /\ Spend("unlock")
    /\ writer = None
    /\ user' = [user EXCEPT !.locked = FALSE]
    /\ calls' = Aged(calls)
    /\ UNCHANGED <<deploy, now, writer, sessions, pendings, log, used>>

(* A bump that fails is logged, and the logout has no effect on the server. *)
logout_action(s) ==
    /\ s \in sessions
    /\ resolve_token(s)
    /\ Spend("logout")
    /\ writer = None
    /\ Revoke(Bumped(user), calls)
    /\ UNCHANGED <<deploy, now, writer, log, used>>

persist_update ==
    /\ Spend("password")
    /\ writer = None
    /\ Revoke([Bumped(user) EXCEPT !.pw = @ + 1], calls)
    /\ UNCHANGED <<deploy, now, writer, log, used>>

(* The clock advances; tokens past their leeway are never accepted again.  *)
Tick ==
    /\ now < MaxTime
    /\ now' = now + 1
    /\ sessions' = {s \in sessions : s.exp + Leeway >= now'}
    /\ pendings' = {p \in pendings : p.exp + Leeway >= now'}
    /\ UNCHANGED <<deploy, user, writer, calls, log, used, left>>

-----------------------------------------------------------------------------
LoginStep(c) ==
    \/ \E grpc \in BOOLEAN, pw \in {-1, user.pw} : LoginBegin(c, grpc, pw)
    \/ VerifyPassword(c)
    \/ LoginIsLocked(c)
    \/ get_session_version(c)
    \/ login_impl(c)
    \/ login_action(c)
    \/ build_session_response(c)
    \/ record_failure(c)
    \/ LoginError(c)

RefreshStep(c) ==
    \/ \E s \in sessions : RefreshBegin(c, s)
    \/ check_session_status(c)
    \/ RefreshFails(c)
    \/ session_refresh(c)

ResetStep(c) ==
    \/ \E grpc \in BOOLEAN, t \in 1..Len(used) : ResetBegin(c, grpc, t)
    \/ RejectLocked(c)
    \/ RejectExpired(c)
    \/ HashPassword(c)
    \/ update_password(c)
    \/ consume_reset_token(c)
    \/ ResetFails(c)

LockStep(c) ==
    \/ lock_user(c)
    \/ bump_session_version(c)
    \/ LockFails(c)

Next ==
    \/ \E c \in Calls : LoginStep(c) \/ RefreshStep(c) \/ ResetStep(c) \/ LockStep(c)
    \/ \E p \in pendings : verify_mfa_action(p)
    \/ \E s \in sessions : logout_action(s)
    \/ generate_reset_token
    \/ unlock_user
    \/ persist_update
    \/ Tick

Spec == Init /\ [][Next]_vars

-----------------------------------------------------------------------------
(* A token that was there when a lock, a logout, a reset or a password     *)
(* change completed is never accepted again, unlocked or not; neither is a *)
(* token refreshed from it or made from it with an MFA code, whatever call *)
(* was under way (account.rs lock_user, session_refresh.rs).               *)
RevokedStaysOut == \A s \in sessions : s.dead => ~resolve_token(s)

(* On SQLite a reset token sets a password once, however its uses overlap  *)
(* (consume_reset_token, in a DEFERRED or an IMMEDIATE transaction).       *)
TokenOnce == Sqlite => \A t \in 1..Len(used) : used[t] <= 1

(* On SQLite, when a reset commits its password the account is not locked  *)
(* and the token is still the one on record, although both were checked    *)
(* before the slow hash (consume_reset_token).                             *)
ResetIsCurrent ==
    [][\A t \in 1..Len(used) :
            Sqlite /\ used'[t] # used[t] => ~user.locked /\ user.token = t]_vars

(* No chain of refreshes carries a session further than the absolute age,  *)
(* and one token life, past the login it began with                        *)
(* (resolve_original_auth_time).                                           *)
SessionAgeCapped ==
    deploy.max_age > 0 =>
        \A s \in sessions : s.exp <= s.login + deploy.max_age + TokenExpiry

(* The limiter checks before and records after the password is verified:   *)
(* in a window it admits fewer than the limit and one per call under way   *)
(* (login_action, LoginRateLimiter).                                       *)
Admitted == {c \in Calls : calls[c].pc \in {"hash", "locked", "failed"}}

AttemptsBounded ==
    Len(Recent) + Cardinality(Admitted) < MaxAttempts + Cardinality(Calls)
=============================================================================
