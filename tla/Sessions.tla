------------------------------ MODULE Sessions ------------------------------
(***************************************************************************)
(* AuthService and whatever else ends or keeps a session: the status of    *)
(* the account, the clean-up job.  One account; the sessions of different  *)
(* accounts share nothing.                                                 *)
(*                                                                         *)
(* A refresh token is known by the row that stores its hash.  What a       *)
(* browser has asked for is answered in reply, and a handler that dies     *)
(* answers with an error.                                                  *)
(***************************************************************************)
EXTENDS Handlers

CONSTANTS
    ERROR,        \* the answer of a request that is refused or fails
    Calls,        \* requests of the browser that wait for an answer
    Tokens,       \* ids for RefreshToken rows, 1 .. n; bound: their number
    Resets,       \* ids for PasswordResetToken rows; bound: their number
    MaxAttempts,  \* security.loginMaxAttempts
    MaxPasswords, \* bound: times the password is changed
    MaxCounter    \* bound: failed attempts the counter of a request may show

ASSUME SessionsAssumption ==
    /\ MaxAttempts \in Nat \ {0}
    /\ MaxPasswords \in Nat
    /\ MaxCounter \in Nat
    /\ Tokens \subseteq Nat

VARIABLES
    account,  \* the User row, or NULL
    token,    \* token[t]: the RefreshToken row, NULL before it is issued
    reset,    \* reset[r]: the state of a PasswordResetToken row, NULL before it is asked for
    reply     \* reply[q]: the answer to call q: a token, ERROR, or NULL

accountVars  == <<account, token, reset>>
sessionsVars == <<accountVars, reply, handlerVars>>

UserStatuses == {"ACTIVE", "INACTIVE", "BLOCKED"}

\* lockedUntil is "none", in the "future" or in the "past"; password counts the changes.
AccountRows ==
    [status : UserStatuses, attempts : Nat, lockedUntil : {"none", "future", "past"},
     password : 0 .. MaxPasswords]

\* root is the token of the login the session began with, parent the token this one was
\* refreshed from, password the one the login was made with.
TokenRows ==
    [state : {"live", "expired", "revoked", "deleted"}, root : Tokens,
     parent : Tokens \cup {NULL}, password : 0 .. MaxPasswords]

ResetStates == {"open", "expired", "used", "deleted"}

\* No row and no call is the value that stands for the absence of one, and an error is no token.
ASSUME NullAssumption == NULL \notin Tokens \cup TokenRows \cup AccountRows \cup Calls

ASSUME ErrorAssumption == ERROR \notin Tokens \cup {NULL}

SessionsInit ==
    /\ HandlersInit
    /\ account = NULL
    /\ token   = [t \in Tokens |-> NULL]
    /\ reset   = [r \in Resets |-> NULL]
    /\ reply   = [q \in Calls |-> NULL]

Registered == account # NULL

\* JwtStrategy.validate: an access token only serves an active account.
Admitted == Registered /\ account.status = "ACTIVE"

Issued(t) == token[t] # NULL

Live == {t \in Tokens : Issued(t) /\ token[t].state = "live"}

\* updateMany({ userId, revokedAt: null }, { revokedAt }); an expired token stays useless
RevokeAll ==
    token' = [t \in Tokens |->
        IF Issued(t) /\ token[t].state \in {"live", "expired"}
        THEN [token[t] EXCEPT !.state = "revoked"] ELSE token[t]]

-----------------------------------------------------------------------------
(* How a handler answers the call it was started by, if any                *)

Answer(w, answer) ==
    reply' = IF ctx[w].caller = NULL THEN reply ELSE [reply EXCEPT ![ctx[w].caller] = answer]

Refuse(w) == Answer(w, ERROR) /\ Return(w)

\* A request that is refused on what it reads first
Reject(caller) ==
    /\ reply' = IF caller = NULL THEN reply ELSE [reply EXCEPT ![caller] = ERROR]
    /\ UNCHANGED <<accountVars, handlerVars>>

-----------------------------------------------------------------------------
(* issueTokens: the row is the last thing written                          *)

IssueToken(w) ==
    LET c == ctx[w] IN
    \E t \in Tokens :
       /\ At(w, "token.issue")
       /\ ~Issued(t)
       /\ \A u \in Tokens : ~Issued(u) => t <= u
       /\ token' = [token EXCEPT ![t] =
             [state |-> "live", parent |-> c.parent, password |-> c.password,
              root |-> IF c.parent = NULL THEN t ELSE token[c.parent].root]]
       /\ Answer(w, t)
       /\ Return(w)
       /\ UNCHANGED <<account, reset>>

\* POST /auth/register: the e-mail is looked up here, and unique in the table
RequestRegister(w, caller) ==
    /\ ~Registered
    /\ Begin(w, "register.create", [caller |-> caller])
    /\ UNCHANGED <<accountVars, reply>>

RegisterCreate(w) ==
    /\ At(w, "register.create")
    /\ ~Registered
    /\ account' = [status |-> "ACTIVE", attempts |-> 0, lockedUntil |-> "none", password |-> 0]
    /\ GotoWith(w, "token.issue", [caller |-> ctx[w].caller, parent |-> NULL, password |-> 0])
    /\ UNCHANGED <<token, reset, reply>>

RegisterTaken(w) ==
    /\ At(w, "register.create")
    /\ Registered
    /\ Refuse(w)
    /\ UNCHANGED accountVars

\* Mutant: the lock is not looked at.
RequestLoginAnyway(w, valid, caller) ==
    /\ pc[w] = "idle"
    /\ Registered
    /\ account.attempts <= MaxCounter
    /\ account.status = "ACTIVE"
    /\ Begin(w, IF valid THEN "login.reset" ELSE "login.fail",
             [caller |-> caller, attempts |-> account.attempts, password |-> account.password])
    /\ UNCHANGED <<accountVars, reply>>

\* POST /auth/login: lock and status are those of the row read here.  The password is
\* compared with the hash in that row, and the comparison takes its time.
RequestLogin(w, valid, caller) ==
    /\ pc[w] = "idle"
    /\ Registered
    /\ account.attempts <= MaxCounter
    /\ IF account.lockedUntil # "future" /\ account.status = "ACTIVE"
       THEN /\ Begin(w, IF valid THEN "login.reset" ELSE "login.fail",
                     [caller |-> caller, attempts |-> account.attempts,
                      password |-> account.password])
            /\ UNCHANGED <<accountVars, reply>>
       ELSE Reject(caller)

\* Mutant: the lock comes one failure late.
LoginFailLate(w) ==
    LET attempts == ctx[w].attempts + 1 IN
    /\ At(w, "login.fail")
    /\ account' = [account EXCEPT !.attempts = attempts,
                     !.lockedUntil = IF attempts > MaxAttempts THEN "future" ELSE "none"]
    /\ Refuse(w)
    /\ UNCHANGED <<token, reset>>

\* The counter written is the one read plus one, with the lock that goes with it.
LoginFail(w) ==
    LET attempts == ctx[w].attempts + 1 IN
    /\ At(w, "login.fail")
    /\ account' = [account EXCEPT !.attempts = attempts,
                     !.lockedUntil = IF attempts >= MaxAttempts THEN "future" ELSE "none"]
    /\ Refuse(w)
    /\ UNCHANGED <<token, reset>>

LoginReset(w) ==
    LET c == ctx[w] IN
    /\ At(w, "login.reset")
    /\ account' = [account EXCEPT !.attempts = 0, !.lockedUntil = "none"]
    /\ GotoWith(w, "token.issue",
                [caller |-> c.caller, parent |-> NULL, password |-> c.password])
    /\ UNCHANGED <<token, reset, reply>>

-----------------------------------------------------------------------------
(* refresh, logout                                                         *)

\* POST /auth/refresh: a token that is not live in the row read here is refused ...
RequestRefresh(w, t, caller) ==
    /\ pc[w] = "idle"
    /\ Issued(t)
    /\ IF t \in Live
       THEN /\ Begin(w, "refresh.revoke", [caller |-> caller, token |-> t])
            /\ UNCHANGED <<accountVars, reply>>
       ELSE Reject(caller)

\* Mutant: the old token is left alone.
RefreshKeeps(w) ==
    /\ At(w, "refresh.revoke")
    /\ Goto(w, "refresh.user")
    /\ UNCHANGED <<accountVars, reply>>

\* ... and revoked by its id in the next call, which rejects when the row is gone.
RefreshRevoke(w) ==
    LET t == ctx[w].token IN
    /\ At(w, "refresh.revoke")
    /\ token[t].state # "deleted"
    /\ token' = [token EXCEPT ![t].state = "revoked"]
    /\ Goto(w, "refresh.user")
    /\ UNCHANGED <<account, reset, reply>>

RefreshGone(w) ==
    /\ At(w, "refresh.revoke")
    /\ token[ctx[w].token].state = "deleted"
    /\ Refuse(w)
    /\ UNCHANGED accountVars

RefreshUser(w) ==
    LET c == ctx[w] IN
    /\ At(w, "refresh.user")
    /\ IF account.status = "ACTIVE"
       THEN /\ GotoWith(w, "token.issue",
                        [caller |-> c.caller, parent |-> c.token,
                         password |-> token[c.token].password])
            /\ UNCHANGED reply
       ELSE Refuse(w)
    /\ UNCHANGED accountVars

\* POST /auth/logout with the token in its body
Logout(t) ==
    /\ Admitted
    /\ Issued(t)
    /\ token[t].state \in {"live", "expired"}
    /\ token' = [token EXCEPT ![t].state = "revoked"]
    /\ UNCHANGED <<account, reset, reply, handlerVars>>

LogoutAll ==
    /\ Admitted
    /\ RevokeAll
    /\ UNCHANGED <<account, reset, reply, handlerVars>>

\* The handler exchanges a refresh token, which it has found live.
Exchanges(w) ==
    \/ pc[w] \in {"refresh.revoke", "refresh.user"}
    \/ pc[w] = "token.issue" /\ ctx[w].parent # NULL

Exchanged(w) == IF pc[w] = "token.issue" THEN ctx[w].parent ELSE ctx[w].token

-----------------------------------------------------------------------------
(* Passwords                                                               *)

ForgotPassword(r) ==
    /\ Registered
    /\ reset[r] = NULL
    /\ reset' = [reset EXCEPT ![r] = "open"]
    /\ UNCHANGED <<account, token, reply, handlerVars>>

\* POST /auth/reset-password: usedAt and the expiry are looked at here, the hash computed ...
RequestReset(w, r) ==
    /\ reset[r] # NULL
    /\ reset[r] = "open"
    /\ account.password < MaxPasswords
    /\ Begin(w, "reset.write", [caller |-> NULL, reset |-> r])
    /\ UNCHANGED <<accountVars, reply>>

\* ... and one transaction writes it, marks the token and ends every session.
ResetWrite(w) ==
    LET r == ctx[w].reset IN
    /\ At(w, "reset.write")
    /\ reset[r] # "deleted"
    /\ account.password < MaxPasswords
    /\ account' = [account EXCEPT !.password = @ + 1]
    /\ reset' = [reset EXCEPT ![r] = "used"]
    /\ RevokeAll
    /\ Return(w)
    /\ UNCHANGED reply

\* The row is gone, or the bound is reached meanwhile.
ResetGone(w) ==
    /\ At(w, "reset.write")
    /\ reset[ctx[w].reset] = "deleted" \/ account.password = MaxPasswords
    /\ Return(w)
    /\ UNCHANGED <<accountVars, reply>>

\* POST /auth/change-password compares the current password, and writes the new one.
RequestChange(w) ==
    /\ Admitted
    /\ account.password < MaxPasswords
    /\ Begin(w, "password.write", [caller |-> NULL])
    /\ UNCHANGED <<accountVars, reply>>

ChangePassword(w) ==
    /\ At(w, "password.write")
    /\ account' = [account EXCEPT !.password = IF @ < MaxPasswords THEN @ + 1 ELSE @]
    /\ Return(w)
    /\ UNCHANGED <<token, reset, reply>>

-----------------------------------------------------------------------------
(* The account                                                             *)

\* PATCH /users/:id/status writes the status, and ends the sessions in a second call.
SetStatus(w, status) ==
    /\ Registered
    /\ pc[w] = "idle"
    /\ account' = [account EXCEPT !.status = status]
    /\ IF status = "ACTIVE"
       THEN UNCHANGED handlerVars
       ELSE Begin(w, "status.revoke", [caller |-> NULL])
    /\ UNCHANGED <<token, reset, reply>>

\* Mutant: the sessions of a blocked account are left to expire.
StatusKeepsSessions(w) ==
    /\ At(w, "status.revoke")
    /\ Return(w)
    /\ UNCHANGED <<accountVars, reply>>

StatusRevoke(w) ==
    /\ At(w, "status.revoke")
    /\ RevokeAll
    /\ Return(w)
    /\ UNCHANGED <<account, reset, reply>>

\* Employees are deactivated, and customers anonymized, without touching the tokens.
Deactivate ==
    /\ Registered
    /\ account' = [account EXCEPT !.status = "INACTIVE"]
    /\ UNCHANGED <<token, reset, reply, handlerVars>>

-----------------------------------------------------------------------------
(* Time, and the nightly clean-up of what it has ended                     *)

LockElapses ==
    /\ Registered
    /\ account.lockedUntil = "future"
    /\ account' = [account EXCEPT !.lockedUntil = "past"]
    /\ UNCHANGED <<token, reset, reply, handlerVars>>

TokenExpires(t) ==
    /\ t \in Live
    /\ token' = [token EXCEPT ![t].state = "expired"]
    /\ UNCHANGED <<account, reset, reply, handlerVars>>

ResetExpires(r) ==
    /\ reset[r] # NULL
    /\ reset[r] = "open"
    /\ reset' = [reset EXCEPT ![r] = "expired"]
    /\ UNCHANGED <<account, token, reply, handlerVars>>

CleanupRefresh ==
    /\ token' = [t \in Tokens |->
          IF Issued(t) /\ token[t].state \in {"expired", "revoked"}
          THEN [token[t] EXCEPT !.state = "deleted"] ELSE token[t]]
    /\ UNCHANGED <<account, reset, reply, handlerVars>>

CleanupReset ==
    /\ reset' = [r \in Resets |->
          IF reset[r] # NULL /\ reset[r] \in {"expired", "used"}
          THEN "deleted" ELSE reset[r]]
    /\ UNCHANGED <<account, token, reply, handlerVars>>

-----------------------------------------------------------------------------
\* What reaches the server from elsewhere than the browser that is modelled
AccountRequest(w) ==
    \/ RequestRegister(w, NULL)
    \/ \E valid \in BOOLEAN : RequestLogin(w, valid, NULL)
    \/ \E status \in UserStatuses : SetStatus(w, status)

PasswordRequest(w) ==
    \/ \E r \in Resets : ForgotPassword(r) \/ RequestReset(w, r)
    \/ RequestChange(w)

SessionsStep(w) ==
    \/ IssueToken(w) \/ RegisterCreate(w) \/ RegisterTaken(w)
    \/ LoginFail(w) \/ LoginReset(w)
    \/ RefreshRevoke(w) \/ RefreshGone(w) \/ RefreshUser(w)
    \/ ResetWrite(w) \/ ResetGone(w) \/ ChangePassword(w) \/ StatusRevoke(w)

SessionsTime ==
    \/ LockElapses \/ CleanupRefresh \/ CleanupReset
    \/ \E t \in Tokens : TokenExpires(t)
    \/ \E r \in Resets : ResetExpires(r)

SessionsDie(w) ==
    /\ Die(w)
    /\ Answer(w, ERROR)
    /\ UNCHANGED accountVars

-----------------------------------------------------------------------------
(* Whatever overlaps and whatever dies                                     *)

SessionsTypeOK ==
    /\ account \in AccountRows \cup {NULL}
    /\ token \in [Tokens -> TokenRows \cup {NULL}]
    /\ reset \in [Resets -> ResetStates \cup {NULL}]
    /\ reply \in [Calls -> Tokens \cup {NULL, ERROR}]

\* Rotation revokes before it issues: a session that was refreshed never has the token it
\* was refreshed from as well, even if the handler dies in between (auth.service.ts:260-274).
ParentRevoked ==
    \A t \in Tokens : Issued(t) /\ token[t].parent # NULL =>
        /\ Issued(token[t].parent)
        /\ token[token[t].parent].state \in {"revoked", "deleted"}

\* The lock follows the counter: failures that overlap may be counted once, but an account
\* whose counter is at its limit has a lock, and no other has (auth.service.ts:183-191).
LockPaired ==
    Registered => (account.lockedUntil # "none") = (account.attempts >= MaxAttempts)

-----------------------------------------------------------------------------
(* One handler at a time                                                   *)

\* A session has one live token: refreshing never multiplies it (docs/AUTHENTICATION.md:88,
\* the comment "Rotate: revoke the old token", auth.service.ts:260).
OneLiveToken ==
    \A t, u \in Live : token[t].root = token[u].root => t = u

\* A lock ends with its time and not before: no login, right or wrong, writes it away
\* (auth.service.ts:174).  Two logins that overlap can: the row read says who is locked.
LockHolds ==
    Registered /\ account.lockedUntil = "future" => account'.lockedUntil \in {"future", "past"}

\* The session of a token is known by its first token; some are between two tokens.
SessionOf == [t \in Tokens |-> IF Issued(t) THEN token[t].root ELSE NULL]

UnderWay == {token[Exchanged(w)].root : w \in {x \in Workers : Exchanges(x)}}

Rotates ==
    INSTANCE Rotation WITH serving <- Live, session <- SessionOf, exchange <- UnderWay

\* Blocking an account ends its sessions (users.service.ts:48).
BlockedHasNoSession ==
    Quiet /\ Registered /\ account.status = "BLOCKED" => Live = {}
=============================================================================
