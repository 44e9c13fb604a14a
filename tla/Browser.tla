------------------------------ MODULE Browser ------------------------------
(***************************************************************************)
(* The site in one tab (services/api.ts, services/tokenStore.ts,           *)
(* features/auth/AuthProvider.tsx) against AuthService.                    *)
(*                                                                         *)
(* The tab keeps an access token in memory and a refresh token in its      *)
(* session storage.  Every call that comes back unauthorized takes the     *)
(* refresh token stored at that moment and exchanges it on its own; so     *)
(* does a page that is loaded.  An exchange that fails clears the store.   *)
(***************************************************************************)
EXTENDS Sessions

CONSTANT Schedules

ASSUME BrowserAssumption == Schedules \subseteq {"alone", "overlap"}

VARIABLES
    stored,   \* the refresh token in sessionStorage, or NULL
    access,   \* the access token in memory has not expired
    call,     \* call[q]: what call q waits for
    schedule  \* "alone": one call of the tab at a time, and requests from elsewhere only while
              \* no handler is at work; "overlap": the tab is closed, and requests from
              \* elsewhere overlap and may die

browserVars == <<sessionsVars, stored, access, call, schedule>>
storeVars   == <<stored, access>>

Idle == [step |-> "idle", token |-> NULL]

BrowserInit ==
    /\ SessionsInit
    /\ stored = NULL
    /\ access = FALSE
    /\ call = [q \in Calls |-> Idle]
    /\ schedule \in Schedules

CallAt(q, step) == call[q].step = step

NoCall == \A q \in Calls : call[q] = Idle

\* A call begins on its own.
Free(q) == schedule = "alone" /\ NoCall /\ Quiet /\ CallAt(q, "idle")

-----------------------------------------------------------------------------
(* The tab                                                                 *)

\* applyAuth and setTokens
SetTokens(t) == stored' = t /\ access' = TRUE

ClearTokens == stored' = NULL /\ access' = FALSE

\* AuthProvider.register and login post, and wait for an answer with tokens.
SignUp(w, q) ==
    /\ Free(q)
    /\ stored = NULL
    /\ RequestRegister(w, q)
    /\ call' = [call EXCEPT ![q] = [step |-> "signing", token |-> NULL]]
    /\ UNCHANGED storeVars

SignIn(w, q) ==
    /\ Free(q)
    /\ stored = NULL
    /\ RequestLogin(w, TRUE, q)
    /\ call' = [call EXCEPT ![q] = [step |-> "signing", token |-> NULL]]
    /\ UNCHANGED storeVars

AccessExpires ==
    /\ access
    /\ access' = FALSE
    /\ UNCHANGED <<sessionsVars, stored, call>>

\* A call is answered 401; a page that is loaded has no access token and refreshes too
\* (refreshMe, which runs twice in development).
Unauthorized(q) ==
    /\ Free(q)
    /\ stored # NULL
    /\ ~access
    /\ call' = [call EXCEPT ![q] = [step |-> "unauthorized", token |-> NULL]]
    /\ UNCHANGED <<sessionsVars, storeVars>>

\* The interceptor reads the store, and posts what it finds.
PostRefresh(q) ==
    /\ CallAt(q, "unauthorized")
    /\ call' = [call EXCEPT ![q] =
                  IF stored = NULL THEN Idle ELSE [step |-> "posted", token |-> stored]]
    /\ UNCHANGED <<sessionsVars, storeVars>>

TakeRefresh(w, q) ==
    /\ CallAt(q, "posted")
    /\ RequestRefresh(w, call[q].token, q)
    /\ call' = [call EXCEPT ![q].step = "refreshing"]
    /\ UNCHANGED storeVars

\* Mutant: the new refresh token is not stored.
ReceiveTokensOld(q) ==
    /\ reply[q] \in Tokens
    /\ access' = TRUE
    /\ stored' = IF CallAt(q, "signing") THEN reply[q] ELSE stored
    /\ reply' = [reply EXCEPT ![q] = NULL]
    /\ call' = [call EXCEPT ![q] = Idle]
    /\ UNCHANGED <<accountVars, handlerVars>>

ReceiveTokens(q) ==
    /\ reply[q] \in Tokens
    /\ SetTokens(reply[q])
    /\ reply' = [reply EXCEPT ![q] = NULL]
    /\ call' = [call EXCEPT ![q] = Idle]
    /\ UNCHANGED <<accountVars, handlerVars>>

\* A failed exchange clears the store, whatever it holds by now; a failed login does not.
ReceiveError(q) ==
    /\ reply[q] = ERROR
    /\ IF CallAt(q, "refreshing") THEN ClearTokens ELSE UNCHANGED <<stored, access>>
    /\ reply' = [reply EXCEPT ![q] = NULL]
    /\ call' = [call EXCEPT ![q] = Idle]
    /\ UNCHANGED <<accountVars, handlerVars>>

\* AuthProvider.logout posts no body: the server refuses the request for want of a
\* refreshToken, which logout ignores; the store is cleared.
SignOut ==
    /\ stored # NULL
    /\ NoCall /\ Quiet
    /\ ClearTokens
    /\ UNCHANGED <<sessionsVars, call>>

BrowserStep(q) ==
    Unauthorized(q) \/ PostRefresh(q) \/ ReceiveTokens(q) \/ ReceiveError(q)

-----------------------------------------------------------------------------
\* Requests from elsewhere and the clock.  Nobody else has the tokens of the tab, and
\* passwords are changed one at a time.
Elsewhere ==
    \/ \E w \in Workers : AccountRequest(w)
    \/ schedule = "alone" /\ \E w \in Workers : PasswordRequest(w)
    \/ schedule = "overlap" /\ \E w \in Workers, t \in Tokens : RequestRefresh(w, t, NULL)
    \/ \E t \in Tokens : Logout(t)
    \/ LogoutAll \/ Deactivate \/ SessionsTime

BrowserNext ==
    /\ \/ \E w \in Workers, q \in Calls : SignUp(w, q) \/ SignIn(w, q) \/ TakeRefresh(w, q)
       \/ \E q \in Calls : BrowserStep(q)
       \/ AccessExpires
       \/ SignOut
       \/ /\ \/ \E w \in Workers : SessionsStep(w)
             \/ schedule = "overlap" /\ \E w \in Workers : SessionsDie(w)
             \/ (schedule = "alone" => Quiet) /\ Elsewhere
          /\ UNCHANGED <<storeVars, call>>
    /\ UNCHANGED schedule

BrowserSpec == BrowserInit /\ [][BrowserNext]_browserVars

-----------------------------------------------------------------------------
\* Rows and store keep their shape; a tab with an access token has a refresh token
\* (services/tokenStore.ts).
BrowserTypeOK ==
    /\ SessionsTypeOK
    /\ stored \in Tokens \cup {NULL}
    /\ access => stored # NULL
    /\ call \in [Calls -> [step : {"idle", "signing", "unauthorized", "posted", "refreshing"},
                           token : Tokens \cup {NULL}]]

\* One login at a time, the lock of an account ends with its time, and no login writes it
\* away (AuthService.login, auth.service.ts:174).
LocksHold == [][schedule = "alone" => LockHolds]_browserVars

LiveOf(t) == {u \in Live : token[u].root = token[t].root}

\* What the tab stores is the live token of its session, as long as there is one.
StoredIsCurrent ==
    Quiet /\ NoCall /\ stored # NULL => LiveOf(stored) \subseteq {stored}

\* With one call at a time, and requests from elsewhere that do not overtake a handler, a
\* session has one live refresh token, which is the one the tab stores, and a blocked account
\* has none (AuthService.refresh, auth.service.ts:260, UsersService.setStatus,
\* users.service.ts:48, api.ts:53).  Two exchanges of one token that overlap both pass the
\* check, and the session goes on twice.
SessionsAgree ==
    schedule = "alone" => OneLiveToken /\ BlockedHasNoSession /\ StoredIsCurrent

\* A tab that did not sign out only forgets its session when the session is over
\* (api.ts:60-62).  Two calls that refreshed at once would not keep this: the second one is
\* refused and clears the token the first one has stored.
KeepsSession ==
    [][stored # NULL /\ stored' = NULL /\ reply' # reply => LiveOf(stored) = {}]_browserVars

\* Handlers and tab implement Rotation: a session begins with a login, its next token is given
\* when the one before serves no more, and what has no token and is given none is over
\* (AuthService.refresh, auth.service.ts:238-276).
KeepsRotation ==
    /\ schedule = "alone" => Rotates!Init
    /\ [][schedule = "alone" => Rotates!Next]_browserVars

\* A session that is over is not resumed, whatever the tab still stores (auth.service.ts:251).
OverStaysOver ==
    [][schedule = "alone" => \A s \in Tokens : Rotates!Over(s) => Rotates!Over(s)']_browserVars

\* Refresh tokens are revoked on logout (docs/AUTHENTICATION.md:88): when the tab forgets its
\* token on the user's demand, the token is of no more use.
SignOutRevokes ==
    [][stored # NULL /\ stored' = NULL /\ reply' = reply => stored \notin Live]_browserVars
=============================================================================
