--------------------------- MODULE Browser_proofs ---------------------------
(***************************************************************************)
(* Rotation, the lock and the shape of the rows, for every number of       *)
(* handlers, tokens, calls and failures, and for every schedule.           *)
(*                                                                         *)
(* Nearly every step writes one of account, token and the handlers'        *)
(* locals.  Three facts about a step are enough for the properties:        *)
(* AccountKept, TokensKept and ParentsSpent; the locals of the handler     *)
(* that steps are HandlerOK's affair.                                      *)
(*                                                                         *)
(* The second half is about sessions whose calls come one at a time; its   *)
(* end shows that they implement Rotation.                                 *)
(***************************************************************************)
EXTENDS Browser, TLAPS

Labels ==
    {"idle", "register.create", "token.issue", "login.fail", "login.reset", "refresh.revoke",
     "refresh.user", "reset.write", "password.write", "status.revoke"}

\* A token that has been exchanged: it never serves again.
Spent(t) == t \in Tokens /\ Issued(t) /\ token[t].state \in {"revoked", "deleted"}

\* What a handler at work may rely on
HandlerOK(w) ==
    /\ pc[w] # "idle" => ctx[w].caller \in Calls \cup {NULL}
    /\ pc[w] \notin {"idle", "register.create"} => Registered
    /\ pc[w] \in {"login.fail", "login.reset"} =>
           ctx[w].attempts \in Nat /\ ctx[w].password \in 0 .. MaxPasswords
    /\ pc[w] = "token.issue" =>
           /\ ctx[w].password \in 0 .. MaxPasswords
           /\ ctx[w].parent = NULL \/ Spent(ctx[w].parent)
    /\ pc[w] = "refresh.revoke" => ctx[w].token \in Tokens /\ Issued(ctx[w].token)
    /\ pc[w] = "refresh.user" => Spent(ctx[w].token)

HandlersOK ==
    /\ pc \in [Workers -> Labels]
    /\ ctx = [w \in Workers |-> ctx[w]]
    /\ \A w \in Workers : HandlerOK(w)

\* Nothing is issued before there is an account.
AccountFirst ==
    /\ \A t \in Tokens : Issued(t) => Registered
    /\ \A r \in Resets : reset[r] # NULL => Registered

CallsOK == \A q \in Calls : CallAt(q, "posted") => call[q].token \in Tokens

BrowserInv ==
    BrowserTypeOK /\ CallsOK /\ HandlersOK /\ AccountFirst /\ ParentRevoked /\ LockPaired

-----------------------------------------------------------------------------
(* What a step does to the account and its tokens                          *)

LockMatches == (account'.lockedUntil # "none") = (account'.attempts >= MaxAttempts)

AccountKept == account' = account \/ (account' \in AccountRows /\ LockMatches)

\* Rows stay, with the token they came from, and an ended one does not come back.
TokensKept ==
    /\ token' \in [Tokens -> TokenRows \cup {NULL}]
    /\ \A t \in Tokens : Issued(t) =>
           /\ token'[t] # NULL
           /\ token'[t].parent = token[t].parent
           /\ token[t].state \in {"revoked", "deleted"} =>
                  token'[t].state \in {"revoked", "deleted"}

\* A row that is new comes from no token, or from one that is spent.
ParentsSpent ==
    \A t \in Tokens : ~Issued(t) /\ token'[t] # NULL =>
        Registered' /\ (token'[t].parent = NULL \/ Spent(token'[t].parent))

ResetsKept ==
    /\ reset' \in [Resets -> ResetStates \cup {NULL}]
    /\ \A r \in Resets : reset'[r] # NULL => reset[r] # NULL \/ Registered

RepliesKept == reply' \in [Calls -> Tokens \cup {NULL, ERROR}]

RowsKept == AccountKept /\ TokensKept /\ ParentsSpent /\ ResetsKept /\ RepliesKept

\* Spent tokens stay so, and so does the account: what a handler knows stays true while the
\* others work.
LEMMA HandlerKept ==
    ASSUME NEW w \in Workers, HandlerOK(w), AccountKept, TokensKept,
           pc'[w] = pc[w], ctx'[w] = ctx[w]
    PROVE  HandlerOK(w)'
<1>1. Registered => Registered'
  BY NullAssumption DEF AccountKept, Registered
<1>2. \A t : Spent(t) => Spent(t)'
  BY DEF TokensKept, Spent, Issued
<1>3. \A t \in Tokens : Issued(t) => Issued(t)'
  BY DEF TokensKept, Issued
<1> QED
  BY <1>1, <1>2, <1>3 DEF HandlerOK

\* The rows follow from what a step does to them.
LEMMA RowsFollow ==
    ASSUME BrowserInv, RowsKept
    PROVE  SessionsTypeOK' /\ AccountFirst' /\ ParentRevoked' /\ LockPaired'
<1> USE DEF RowsKept
<1>1. SessionsTypeOK'
  BY DEF BrowserInv, BrowserTypeOK, SessionsTypeOK, AccountKept, TokensKept, ResetsKept, RepliesKept
<1>2. Registered => Registered'
  BY NullAssumption DEF AccountKept, Registered
<1>3. AccountFirst'
  BY <1>2 DEF BrowserInv, AccountFirst, TokensKept, ParentsSpent, ResetsKept, Issued
<1>4. ParentRevoked'
  <2> SUFFICES ASSUME NEW t \in Tokens, Issued(t)', token'[t].parent # NULL
               PROVE  /\ Issued(token[t].parent)'
                      /\ token'[token'[t].parent].state \in {"revoked", "deleted"}
    BY DEF ParentRevoked
  <2>1. token'[t].parent \in Tokens
    BY DEF TokensKept, TokenRows, Issued
  <2>2. Issued(token'[t].parent)
        /\ token[token'[t].parent].state \in {"revoked", "deleted"}
    <3>1. CASE Issued(t)
      BY <3>1 DEF BrowserInv, ParentRevoked, TokensKept, Issued
    <3>2. CASE ~Issued(t)
      BY <3>2 DEF ParentsSpent, Spent, Issued
    <3> QED BY <3>1, <3>2
  <2> QED BY <2>1, <2>2 DEF TokensKept, Issued
<1>5. LockPaired'
  BY DEF BrowserInv, AccountKept, LockMatches, LockPaired, Registered
<1> QED BY <1>1, <1>3, <1>4, <1>5

-----------------------------------------------------------------------------
(* How handlers move                                                       *)

\* Only w is somewhere else afterwards.
Moves(w) ==
    /\ pc' \in [Workers -> Labels]
    /\ ctx' = [v \in Workers |-> ctx'[v]]
    /\ \A v \in Workers \ {w} : pc'[v] = pc[v] /\ ctx'[v] = ctx[v]

LEMMA EntersAt ==
    ASSUME BrowserInv, NEW w \in Workers, NEW label \in Labels, NEW locals,
           Begin(w, label, locals) \/ GotoWith(w, label, locals)
    PROVE  Moves(w) /\ pc'[w] = label /\ ctx'[w] = locals
  BY DEF BrowserInv, HandlersOK, Begin, GotoWith, Moves

LEMMA GoesTo ==
    ASSUME BrowserInv, NEW w \in Workers, NEW label \in Labels, Goto(w, label)
    PROVE  Moves(w) /\ pc'[w] = label /\ ctx'[w] = ctx[w]
  BY DEF BrowserInv, HandlersOK, Goto, Moves

LEMMA Leaves ==
    ASSUME BrowserInv, NEW w \in Workers, Return(w) \/ Die(w)
    PROVE  Moves(w) /\ HandlerOK(w)'
<1>1. Moves(w) /\ pc'[w] = "idle"
  BY DEF BrowserInv, HandlersOK, Return, Die, Moves, Labels
<1> QED BY <1>1 DEF HandlerOK

\* A handler that moves leaves the others where they are, with what they know.
LEMMA HandlersFollow ==
    ASSUME BrowserInv, RowsKept, NEW w \in Workers, Moves(w), HandlerOK(w)'
    PROVE  HandlersOK'
<1>1. \A v \in Workers \ {w} : HandlerOK(v)'
  BY HandlerKept DEF BrowserInv, HandlersOK, RowsKept, Moves
<1> QED BY <1>1 DEF HandlersOK, Moves

LEMMA HandlersStay ==
    ASSUME BrowserInv, RowsKept, UNCHANGED handlerVars
    PROVE  HandlersOK'
<1>1. \A v \in Workers : HandlerOK(v)'
  BY HandlerKept DEF BrowserInv, HandlersOK, RowsKept, handlerVars
<1> QED BY <1>1 DEF BrowserInv, HandlersOK, handlerVars

-----------------------------------------------------------------------------
(* What a step leaves alone, it keeps                                      *)

LEMMA TokensUntouched == ASSUME BrowserInv, UNCHANGED token PROVE TokensKept /\ ParentsSpent
  BY DEF BrowserInv, BrowserTypeOK, SessionsTypeOK, TokensKept, ParentsSpent, Issued

LEMMA ResetsUntouched == ASSUME BrowserInv, UNCHANGED reset PROVE ResetsKept
  BY DEF BrowserInv, BrowserTypeOK, SessionsTypeOK, ResetsKept

LEMMA RepliesUntouched == ASSUME BrowserInv, UNCHANGED reply PROVE RepliesKept
  BY DEF BrowserInv, BrowserTypeOK, SessionsTypeOK, RepliesKept

LEMMA RowsUntouched ==
    ASSUME BrowserInv, UNCHANGED accountVars, RepliesKept
    PROVE  RowsKept
  BY TokensUntouched, ResetsUntouched DEF accountVars, RowsKept, AccountKept

LEMMA Answered ==
    ASSUME BrowserInv, NEW w \in Workers, pc[w] # "idle",
           NEW answer \in Tokens \cup {ERROR}, Answer(w, answer)
    PROVE  RepliesKept
  BY DEF BrowserInv, BrowserTypeOK, SessionsTypeOK, HandlersOK, HandlerOK, Answer, RepliesKept

LEMMA Rejected ==
    ASSUME BrowserInv, NEW caller \in Calls \cup {NULL}, Reject(caller)
    PROVE  RowsKept /\ UNCHANGED handlerVars
<1>1. RepliesKept
  BY DEF BrowserInv, BrowserTypeOK, SessionsTypeOK, Reject, RepliesKept
<1> QED BY <1>1, RowsUntouched DEF Reject

\* Tokens that are revoked, expire or are cleaned up keep their rows.
LEMMA Marked ==
    ASSUME BrowserInv, NEW marked \in SUBSET Tokens, \A t \in marked : Issued(t),
           NEW state \in {"revoked", "deleted", "expired"},
           state = "expired" => \A t \in marked : token[t].state = "live",
           token' = [t \in Tokens |-> IF t \in marked THEN [token[t] EXCEPT !.state = state]
                                                      ELSE token[t]]
    PROVE  TokensKept /\ ParentsSpent
<1>1. \A t \in marked : token[t] \in TokenRows /\ token'[t] \in TokenRows
  BY DEF BrowserInv, BrowserTypeOK, SessionsTypeOK, TokenRows, Issued
<1>2. \A t \in marked : token'[t].parent = token[t].parent /\ token'[t].state = state
  BY <1>1 DEF TokenRows
<1>3. \A t \in Tokens \ marked : token'[t] = token[t]
  OBVIOUS
<1>4. token' \in [Tokens -> TokenRows \cup {NULL}]
  BY <1>1, <1>3 DEF BrowserInv, BrowserTypeOK, SessionsTypeOK
<1>5. TokensKept
  BY <1>1, <1>2, <1>3, <1>4, NullAssumption DEF TokensKept, Issued
<1>6. ParentsSpent
  BY <1>3 DEF ParentsSpent, Issued
<1> QED BY <1>5, <1>6

LEMMA AllRevoked == ASSUME BrowserInv, RevokeAll PROVE TokensKept /\ ParentsSpent
<1> DEFINE marked == {t \in Tokens : Issued(t) /\ token[t].state \in {"live", "expired"}}
<1>1. token' = [t \in Tokens |-> IF t \in marked THEN [token[t] EXCEPT !.state = "revoked"]
                                                 ELSE token[t]]
  BY DEF RevokeAll
<1> QED BY <1>1, Marked

-----------------------------------------------------------------------------
(* Handlers: one lemma per action                                          *)

\* What an action of handler w has to show
Sound(w) == RowsKept /\ Moves(w) /\ HandlerOK(w)'

LEMMA IssueTokenSound == ASSUME BrowserInv, NEW w \in Workers, IssueToken(w) PROVE Sound(w)
<1> DEFINE c == ctx[w]
<1> PICK t \in Tokens :
          /\ At(w, "token.issue")
          /\ ~Issued(t)
          /\ token' = [token EXCEPT ![t] =
                [state |-> "live", parent |-> c.parent, password |-> c.password,
                 root |-> IF c.parent = NULL THEN t ELSE token[c.parent].root]]
          /\ Answer(w, t)
          /\ Return(w)
          /\ UNCHANGED <<account, reset>>
  BY DEF IssueToken
<1>1. /\ Registered
      /\ c.password \in 0 .. MaxPasswords
      /\ c.parent = NULL \/ Spent(c.parent)
  BY DEF BrowserInv, HandlersOK, HandlerOK, At
<1>2. token'[t] \in TokenRows
  <2>1. c.parent # NULL => token[c.parent].root \in Tokens
    BY <1>1 DEF BrowserInv, BrowserTypeOK, SessionsTypeOK, TokenRows, Spent, Issued
  <2>2. c.parent \in Tokens \cup {NULL}
    BY <1>1 DEF Spent
  <2> QED BY <1>1, <2>1, <2>2 DEF BrowserInv, BrowserTypeOK, SessionsTypeOK, TokenRows
<1>3. TokensKept
  BY <1>2 DEF BrowserInv, BrowserTypeOK, SessionsTypeOK, TokensKept, Issued
<1>4. ParentsSpent
  BY <1>1 DEF BrowserInv, BrowserTypeOK, SessionsTypeOK, ParentsSpent, Issued, Registered
<1>5. RepliesKept
  BY Answered DEF At
<1> QED BY <1>3, <1>4, <1>5, ResetsUntouched, Leaves DEF Sound, RowsKept, AccountKept

LEMMA RequestRegisterSound ==
    ASSUME BrowserInv, NEW w \in Workers, NEW caller \in Calls \cup {NULL},
           RequestRegister(w, caller)
    PROVE  Sound(w)
<1>1. Moves(w) /\ pc'[w] = "register.create" /\ ctx'[w] = [caller |-> caller]
  BY EntersAt DEF RequestRegister, Labels
<1>2. HandlerOK(w)'
  BY <1>1 DEF HandlerOK
<1> QED BY <1>1, <1>2, RowsUntouched, RepliesUntouched DEF RequestRegister, Sound

LEMMA RegisterCreateSound == ASSUME BrowserInv, NEW w \in Workers, RegisterCreate(w) PROVE Sound(w)
<1>1. account' \in AccountRows /\ LockMatches
  BY SessionsAssumption DEF RegisterCreate, AccountRows, LockMatches, UserStatuses
<1>2. /\ Moves(w) /\ pc'[w] = "token.issue"
      /\ ctx'[w] = [caller |-> ctx[w].caller, parent |-> NULL, password |-> 0]
  BY EntersAt DEF RegisterCreate, Labels
<1>3. HandlerOK(w)'
  <2>1. ctx[w].caller \in Calls \cup {NULL}
    BY DEF BrowserInv, HandlersOK, HandlerOK, RegisterCreate, At
  <2>2. Registered'
    BY <1>1, NullAssumption DEF Registered
  <2> QED BY <1>2, <2>1, <2>2, SessionsAssumption DEF HandlerOK
<1> QED BY <1>1, <1>2, <1>3, TokensUntouched, ResetsUntouched, RepliesUntouched
        DEF RegisterCreate, Sound, RowsKept, AccountKept

LEMMA RegisterTakenSound == ASSUME BrowserInv, NEW w \in Workers, RegisterTaken(w) PROVE Sound(w)
  BY Answered, RowsUntouched, Leaves DEF RegisterTaken, Refuse, At, Sound

LEMMA RequestLoginSound ==
    ASSUME BrowserInv, NEW w \in Workers, NEW valid \in BOOLEAN, NEW caller \in Calls \cup {NULL},
           RequestLogin(w, valid, caller)
    PROVE  Sound(w) \/ (RowsKept /\ UNCHANGED handlerVars)
<1>1. CASE Reject(caller)
  BY <1>1, Rejected
<1>2. CASE ~Reject(caller)
  <2> DEFINE label == IF valid THEN "login.reset" ELSE "login.fail"
             locals == [caller |-> caller, attempts |-> account.attempts,
                        password |-> account.password]
  <2>1. /\ Registered
        /\ Begin(w, label, locals)
        /\ UNCHANGED <<accountVars, reply>>
    BY <1>2 DEF RequestLogin
  <2>2. Moves(w) /\ pc'[w] = label /\ ctx'[w] = locals
    BY <2>1, EntersAt DEF Labels
  <2>3. Registered' /\ account \in AccountRows
    BY <2>1 DEF BrowserInv, BrowserTypeOK, SessionsTypeOK, Registered, accountVars
  <2>4. HandlerOK(w)'
    BY <2>2, <2>3 DEF HandlerOK, AccountRows
  <2> QED BY <2>1, <2>2, <2>4, RowsUntouched, RepliesUntouched DEF Sound
<1> QED BY <1>1, <1>2

LEMMA LoginFailSound == ASSUME BrowserInv, NEW w \in Workers, LoginFail(w) PROVE Sound(w)
<1>1. Registered /\ ctx[w].attempts \in Nat
  BY DEF BrowserInv, HandlersOK, HandlerOK, LoginFail, At
<1>2. account \in AccountRows
  BY <1>1 DEF BrowserInv, BrowserTypeOK, SessionsTypeOK, Registered
<1>3. account' \in AccountRows
  <2> DEFINE attempts == ctx[w].attempts + 1
             locked   == IF attempts >= MaxAttempts THEN "future" ELSE "none"
  <2>1. attempts \in Nat
    BY <1>1
  <2>2. locked \in {"none", "future", "past"}
    OBVIOUS
  <2>3. account' = [account EXCEPT !.attempts = attempts, !.lockedUntil = locked]
    BY DEF LoginFail
  <2> HIDE DEF attempts, locked
  <2> QED BY <1>2, <2>1, <2>2, <2>3 DEF AccountRows
<1>4. /\ account'.attempts = ctx[w].attempts + 1
      /\ account'.lockedUntil = IF account'.attempts >= MaxAttempts THEN "future" ELSE "none"
  BY <1>2 DEF LoginFail, AccountRows
<1>5. LockMatches
  <2>1. CASE account'.attempts >= MaxAttempts
    BY <1>4, <2>1 DEF LockMatches
  <2>2. CASE ~(account'.attempts >= MaxAttempts)
    BY <1>4, <2>2 DEF LockMatches
  <2> QED BY <2>1, <2>2
<1>6. RepliesKept /\ Return(w)
  BY Answered DEF LoginFail, Refuse, At
<1> QED BY <1>3, <1>5, <1>6, TokensUntouched, ResetsUntouched, Leaves
        DEF LoginFail, Sound, RowsKept, AccountKept

LEMMA LoginResetSound == ASSUME BrowserInv, NEW w \in Workers, LoginReset(w) PROVE Sound(w)
<1> DEFINE c == ctx[w]
<1>1. Registered /\ c.password \in 0 .. MaxPasswords /\ c.caller \in Calls \cup {NULL}
  BY DEF BrowserInv, HandlersOK, HandlerOK, LoginReset, At
<1>2. account \in AccountRows
  BY <1>1 DEF BrowserInv, BrowserTypeOK, SessionsTypeOK, Registered
<1>3. /\ account' \in AccountRows
      /\ account'.attempts = 0 /\ account'.lockedUntil = "none"
  BY <1>2 DEF LoginReset, AccountRows
<1>4. LockMatches
  BY <1>3, SessionsAssumption DEF LockMatches
<1>5. /\ Moves(w) /\ pc'[w] = "token.issue"
      /\ ctx'[w] = [caller |-> c.caller, parent |-> NULL, password |-> c.password]
  BY EntersAt DEF LoginReset, Labels
<1>6. HandlerOK(w)'
  BY <1>1, <1>3, <1>5, NullAssumption DEF HandlerOK, Registered
<1> QED BY <1>3, <1>4, <1>5, <1>6, TokensUntouched, ResetsUntouched, RepliesUntouched
        DEF LoginReset, Sound, RowsKept, AccountKept

LEMMA RequestRefreshSound ==
    ASSUME BrowserInv, NEW w \in Workers, NEW t \in Tokens, NEW caller \in Calls \cup {NULL},
           RequestRefresh(w, t, caller)
    PROVE  Sound(w) \/ (RowsKept /\ UNCHANGED handlerVars)
<1>1. CASE Reject(caller)
  BY <1>1, Rejected
<1>2. CASE ~Reject(caller)
  <2>1. /\ Issued(t)
        /\ Begin(w, "refresh.revoke", [caller |-> caller, token |-> t])
        /\ UNCHANGED <<accountVars, reply>>
    BY <1>2 DEF RequestRefresh
  <2>2. /\ Moves(w) /\ pc'[w] = "refresh.revoke"
        /\ ctx'[w] = [caller |-> caller, token |-> t]
    BY <2>1, EntersAt DEF Labels
  <2>3. Issued(t)' /\ Registered'
    BY <2>1 DEF BrowserInv, AccountFirst, Issued, Registered, accountVars
  <2>4. HandlerOK(w)'
    BY <2>2, <2>3 DEF HandlerOK
  <2> QED BY <2>1, <2>2, <2>4, RowsUntouched, RepliesUntouched DEF Sound
<1> QED BY <1>1, <1>2

LEMMA RefreshRevokeSound == ASSUME BrowserInv, NEW w \in Workers, RefreshRevoke(w) PROVE Sound(w)
<1> DEFINE t == ctx[w].token
<1>1. Registered /\ t \in Tokens /\ Issued(t) /\ ctx[w].caller \in Calls \cup {NULL}
  BY DEF BrowserInv, HandlersOK, HandlerOK, RefreshRevoke, At
<1>2. token[t] \in TokenRows
  BY <1>1 DEF BrowserInv, BrowserTypeOK, SessionsTypeOK, Issued
<1>3. token' = [u \in Tokens |-> IF u \in {t} THEN [token[u] EXCEPT !.state = "revoked"]
                                              ELSE token[u]]
  BY DEF BrowserInv, BrowserTypeOK, SessionsTypeOK, RefreshRevoke
<1>4. TokensKept /\ ParentsSpent
  BY <1>1, <1>3, Marked
<1>5. Moves(w) /\ pc'[w] = "refresh.user" /\ ctx'[w] = ctx[w]
  BY GoesTo DEF RefreshRevoke, Labels
<1>6. Spent(t)'
  BY <1>1, <1>2, <1>3, <1>4, <1>5, NullAssumption DEF Spent, Issued, TokenRows
<1>7. HandlerOK(w)'
  BY <1>1, <1>5, <1>6 DEF HandlerOK, RefreshRevoke, Registered
<1> QED BY <1>4, <1>5, <1>7, ResetsUntouched, RepliesUntouched
        DEF RefreshRevoke, Sound, RowsKept, AccountKept

LEMMA RefreshGoneSound == ASSUME BrowserInv, NEW w \in Workers, RefreshGone(w) PROVE Sound(w)
  BY Answered, RowsUntouched, Leaves DEF RefreshGone, Refuse, At, Sound

LEMMA RefreshUserSound == ASSUME BrowserInv, NEW w \in Workers, RefreshUser(w) PROVE Sound(w)
<1> DEFINE c == ctx[w]
<1>1. Registered /\ Spent(c.token) /\ c.caller \in Calls \cup {NULL}
  BY DEF BrowserInv, HandlersOK, HandlerOK, RefreshUser, At
<1>2. CASE account.status # "ACTIVE"
  BY <1>2, Answered, RowsUntouched, Leaves DEF RefreshUser, Refuse, At, Sound
<1>3. CASE account.status = "ACTIVE"
  <2>1. /\ Moves(w) /\ pc'[w] = "token.issue"
        /\ ctx'[w] = [caller |-> c.caller, parent |-> c.token,
                      password |-> token[c.token].password]
    BY <1>3, EntersAt DEF RefreshUser, Labels
  <2>2. token[c.token].password \in 0 .. MaxPasswords
    BY <1>1 DEF BrowserInv, BrowserTypeOK, SessionsTypeOK, Spent, Issued, TokenRows
  <2>3. Registered' /\ \A t : Spent(t) => Spent(t)'
    BY <1>1 DEF RefreshUser, accountVars, Spent, Issued, Registered
  <2>4. HandlerOK(w)'
    BY <1>1, <2>1, <2>2, <2>3 DEF HandlerOK
  <2> QED BY <1>3, <2>1, <2>4, RowsUntouched, RepliesUntouched DEF RefreshUser, Sound
<1> QED BY <1>2, <1>3

LEMMA ResetWriteSound == ASSUME BrowserInv, NEW w \in Workers, ResetWrite(w) PROVE Sound(w)
<1>1. account \in AccountRows
  BY DEF BrowserInv, BrowserTypeOK, SessionsTypeOK, HandlersOK, HandlerOK, ResetWrite, At, Registered
<1>2. /\ account' \in AccountRows
      /\ account'.attempts = account.attempts /\ account'.lockedUntil = account.lockedUntil
  BY <1>1, SessionsAssumption DEF ResetWrite, AccountRows
<1>3. LockMatches
  BY <1>1, <1>2, NullAssumption DEF BrowserInv, LockPaired, Registered, LockMatches
<1>4. ResetsKept
  BY <1>1, NullAssumption DEF BrowserInv, BrowserTypeOK, SessionsTypeOK, ResetWrite, ResetsKept, ResetStates, Registered
<1>5. RepliesKept
  BY RepliesUntouched DEF ResetWrite
<1> QED BY <1>2, <1>3, <1>4, <1>5, AllRevoked, Leaves DEF ResetWrite, Sound, RowsKept, AccountKept

LEMMA ResetGoneSound == ASSUME BrowserInv, NEW w \in Workers, ResetGone(w) PROVE Sound(w)
  BY RowsUntouched, RepliesUntouched, Leaves DEF ResetGone, Sound

LEMMA ChangePasswordSound == ASSUME BrowserInv, NEW w \in Workers, ChangePassword(w) PROVE Sound(w)
<1>1. account \in AccountRows
  BY DEF BrowserInv, BrowserTypeOK, SessionsTypeOK, HandlersOK, HandlerOK, ChangePassword, At, Registered
<1>2. /\ account' \in AccountRows
      /\ account'.attempts = account.attempts /\ account'.lockedUntil = account.lockedUntil
  BY <1>1, SessionsAssumption DEF ChangePassword, AccountRows
<1>3. LockMatches
  BY <1>1, <1>2, NullAssumption DEF BrowserInv, LockPaired, Registered, LockMatches
<1> QED BY <1>2, <1>3, TokensUntouched, ResetsUntouched, RepliesUntouched, Leaves
        DEF ChangePassword, Sound, RowsKept, AccountKept

LEMMA StatusRevokeSound == ASSUME BrowserInv, NEW w \in Workers, StatusRevoke(w) PROVE Sound(w)
  BY AllRevoked, ResetsUntouched, RepliesUntouched, Leaves
  DEF StatusRevoke, Sound, RowsKept, AccountKept

LEMMA SessionsDieSound == ASSUME BrowserInv, NEW w \in Workers, SessionsDie(w) PROVE Sound(w)
  BY Answered, RowsUntouched, Leaves DEF SessionsDie, Die, Sound

LEMMA SessionsStepSound == ASSUME BrowserInv, NEW w \in Workers, SessionsStep(w) PROVE Sound(w)
  BY IssueTokenSound, RegisterCreateSound, RegisterTakenSound, LoginFailSound, LoginResetSound,
     RefreshRevokeSound, RefreshGoneSound, RefreshUserSound, ResetWriteSound, ResetGoneSound,
     ChangePasswordSound, StatusRevokeSound
  DEF SessionsStep

-----------------------------------------------------------------------------
(* Requests from elsewhere, and time                                       *)

\* What a request has to show that may be refused or settled at once
Handled(w) == Sound(w) \/ (RowsKept /\ UNCHANGED handlerVars)

\* A write to the account that leaves the counter and the lock
LEMMA LockUntouched ==
    ASSUME BrowserInv, Registered, account' \in AccountRows,
           account'.attempts = account.attempts,
           account'.lockedUntil # "none" <=> account.lockedUntil # "none"
    PROVE  AccountKept
  BY DEF BrowserInv, LockPaired, AccountKept, LockMatches

LEMMA StatusWritten ==
    ASSUME BrowserInv, Registered, NEW status \in UserStatuses,
           account' = [account EXCEPT !.status = status]
    PROVE  AccountKept /\ Registered'
<1>1. account \in AccountRows
  BY DEF BrowserInv, BrowserTypeOK, SessionsTypeOK, Registered
<1>2. /\ account' \in AccountRows
      /\ account'.attempts = account.attempts /\ account'.lockedUntil = account.lockedUntil
  BY <1>1 DEF AccountRows
<1> QED BY <1>2, LockUntouched, NullAssumption DEF Registered

LEMMA SetStatusSound ==
    ASSUME BrowserInv, NEW w \in Workers, NEW status \in UserStatuses, SetStatus(w, status)
    PROVE  Handled(w)
<1>1. RowsKept /\ Registered'
  BY StatusWritten, TokensUntouched, ResetsUntouched, RepliesUntouched DEF SetStatus, RowsKept
<1>2. CASE status = "ACTIVE"
  BY <1>1, <1>2 DEF SetStatus, Handled
<1>3. CASE status # "ACTIVE"
  <2>1. Moves(w) /\ pc'[w] = "status.revoke" /\ ctx'[w] = [caller |-> NULL]
    BY <1>3, EntersAt DEF SetStatus, Labels
  <2>2. HandlerOK(w)'
    BY <1>1, <2>1 DEF HandlerOK
  <2> QED BY <1>1, <2>1, <2>2 DEF Handled, Sound
<1> QED BY <1>2, <1>3

LEMMA AccountRequestSound ==
    ASSUME BrowserInv, NEW w \in Workers, AccountRequest(w) PROVE Handled(w)
  BY RequestRegisterSound, RequestLoginSound, SetStatusSound DEF AccountRequest, Handled

LEMMA ForgotPasswordSound ==
    ASSUME BrowserInv, NEW r \in Resets, ForgotPassword(r)
    PROVE  RowsKept /\ UNCHANGED handlerVars
<1>1. ResetsKept
  BY DEF BrowserInv, BrowserTypeOK, SessionsTypeOK, ForgotPassword, ResetsKept, ResetStates
<1> QED BY <1>1, TokensUntouched, RepliesUntouched DEF ForgotPassword, RowsKept, AccountKept

LEMMA RequestResetSound ==
    ASSUME BrowserInv, NEW w \in Workers, NEW r \in Resets, RequestReset(w, r)
    PROVE  Sound(w)
<1>1. Moves(w) /\ pc'[w] = "reset.write" /\ ctx'[w] = [caller |-> NULL, reset |-> r]
  BY EntersAt DEF RequestReset, Labels
<1>2. Registered'
  BY DEF BrowserInv, AccountFirst, RequestReset, accountVars, Registered
<1>3. HandlerOK(w)'
  BY <1>1, <1>2 DEF HandlerOK
<1> QED BY <1>1, <1>3, RowsUntouched, RepliesUntouched DEF RequestReset, Sound

LEMMA RequestChangeSound ==
    ASSUME BrowserInv, NEW w \in Workers, RequestChange(w) PROVE Sound(w)
<1>1. Moves(w) /\ pc'[w] = "password.write" /\ ctx'[w] = [caller |-> NULL]
  BY EntersAt DEF RequestChange, Labels
<1>2. HandlerOK(w)'
  BY <1>1 DEF HandlerOK, RequestChange, Admitted, accountVars, Registered
<1> QED BY <1>1, <1>2, RowsUntouched, RepliesUntouched DEF RequestChange, Sound

LEMMA PasswordRequestSound ==
    ASSUME BrowserInv, NEW w \in Workers, PasswordRequest(w) PROVE Handled(w)
  BY ForgotPasswordSound, RequestResetSound, RequestChangeSound DEF PasswordRequest, Handled

LEMMA LogoutSound ==
    ASSUME BrowserInv, NEW t \in Tokens, Logout(t) PROVE RowsKept /\ UNCHANGED handlerVars
<1>1. token' = [u \in Tokens |-> IF u \in {t} THEN [token[u] EXCEPT !.state = "revoked"]
                                              ELSE token[u]]
  BY DEF BrowserInv, BrowserTypeOK, SessionsTypeOK, Logout
<1>2. TokensKept /\ ParentsSpent
  BY <1>1, Marked DEF Logout
<1> QED BY <1>2, ResetsUntouched, RepliesUntouched DEF Logout, RowsKept, AccountKept

LEMMA LogoutAllSound == ASSUME BrowserInv, LogoutAll PROVE RowsKept /\ UNCHANGED handlerVars
  BY AllRevoked, ResetsUntouched, RepliesUntouched DEF LogoutAll, RowsKept, AccountKept

LEMMA DeactivateSound == ASSUME BrowserInv, Deactivate PROVE RowsKept /\ UNCHANGED handlerVars
  BY StatusWritten, TokensUntouched, ResetsUntouched, RepliesUntouched
  DEF Deactivate, RowsKept, UserStatuses

LEMMA SessionsTimeSound == ASSUME BrowserInv, SessionsTime PROVE RowsKept /\ UNCHANGED handlerVars
<1>1. CASE LockElapses
  <2>1. account \in AccountRows
    BY <1>1 DEF BrowserInv, BrowserTypeOK, SessionsTypeOK, LockElapses, Registered
  <2>2. /\ account' \in AccountRows
        /\ account'.attempts = account.attempts /\ account'.lockedUntil = "past"
    BY <1>1, <2>1 DEF LockElapses, AccountRows
  <2>3. AccountKept
    BY <1>1, <2>2, LockUntouched DEF LockElapses
  <2> QED BY <1>1, <2>3, TokensUntouched, ResetsUntouched, RepliesUntouched
          DEF LockElapses, RowsKept
<1>2. CASE CleanupRefresh
  <2> DEFINE marked == {t \in Tokens : Issued(t) /\ token[t].state \in {"expired", "revoked"}}
  <2>1. token' = [t \in Tokens |-> IF t \in marked THEN [token[t] EXCEPT !.state = "deleted"]
                                                   ELSE token[t]]
    BY <1>2 DEF CleanupRefresh
  <2>2. TokensKept /\ ParentsSpent
    BY <2>1, Marked
  <2> QED BY <1>2, <2>2, ResetsUntouched, RepliesUntouched DEF CleanupRefresh, RowsKept, AccountKept
<1>3. CASE CleanupReset
  <2>1. ResetsKept
    BY <1>3 DEF BrowserInv, BrowserTypeOK, SessionsTypeOK, CleanupReset, ResetsKept, ResetStates
  <2> QED BY <1>3, <2>1, TokensUntouched, RepliesUntouched DEF CleanupReset, RowsKept, AccountKept
<1>4. CASE \E t \in Tokens : TokenExpires(t)
  <2> PICK t \in Tokens : TokenExpires(t)
    BY <1>4
  <2>1. token' = [u \in Tokens |-> IF u \in {t} THEN [token[u] EXCEPT !.state = "expired"]
                                                ELSE token[u]]
    BY DEF BrowserInv, BrowserTypeOK, SessionsTypeOK, TokenExpires
  <2>2. TokensKept /\ ParentsSpent
    BY <2>1, Marked DEF TokenExpires, Live
  <2> QED BY <2>2, ResetsUntouched, RepliesUntouched DEF TokenExpires, RowsKept, AccountKept
<1>5. CASE \E r \in Resets : ResetExpires(r)
  <2> PICK r \in Resets : ResetExpires(r)
    BY <1>5
  <2>1. ResetsKept
    BY DEF BrowserInv, BrowserTypeOK, SessionsTypeOK, ResetExpires, ResetsKept, ResetStates
  <2> QED BY <2>1, TokensUntouched, RepliesUntouched DEF ResetExpires, RowsKept, AccountKept
<1> QED BY <1>1, <1>2, <1>3, <1>4, <1>5 DEF SessionsTime

-----------------------------------------------------------------------------
(* The tab                                                                 *)

\* Its store, and what its calls wait for
TabOK ==
    /\ stored \in Tokens \cup {NULL}
    /\ access => stored # NULL
    /\ call \in [Calls -> [step : {"idle", "signing", "unauthorized", "posted", "refreshing"},
                           token : Tokens \cup {NULL}]]
    /\ CallsOK

LEMMA TabHolds == BrowserInv => TabOK
  BY DEF BrowserInv, BrowserTypeOK, TabOK

LEMMA TabUntouched == ASSUME BrowserInv, UNCHANGED <<storeVars, call>> PROVE TabOK'
  BY TabHolds DEF TabOK, storeVars, CallsOK, CallAt

LEMMA AskingSound ==
    ASSUME BrowserInv, NEW w \in Workers, NEW q \in Calls,
           SignUp(w, q) \/ SignIn(w, q) \/ TakeRefresh(w, q)
    PROVE  Handled(w) /\ TabOK'
<1>1. CASE SignUp(w, q)
  <2>1. TabOK'
    BY <1>1, TabHolds DEF SignUp, TabOK, storeVars, CallsOK, CallAt
  <2> QED BY <1>1, <2>1, RequestRegisterSound DEF SignUp, Handled
<1>2. CASE SignIn(w, q)
  <2>1. TabOK'
    BY <1>2, TabHolds DEF SignIn, TabOK, storeVars, CallsOK, CallAt
  <2> QED BY <1>2, <2>1, RequestLoginSound DEF SignIn, Handled
<1>3. CASE TakeRefresh(w, q)
  <2>1. call[q].token \in Tokens
    BY <1>3 DEF BrowserInv, CallsOK, TakeRefresh
  <2>2. TabOK'
    BY <1>3, TabHolds DEF TakeRefresh, TabOK, storeVars, CallsOK, CallAt
  <2> QED BY <1>3, <2>1, <2>2, RequestRefreshSound DEF TakeRefresh, Handled
<1> QED BY <1>1, <1>2, <1>3

LEMMA BrowserStepSound ==
    ASSUME BrowserInv, NEW q \in Calls, BrowserStep(q)
    PROVE  RowsKept /\ UNCHANGED handlerVars /\ TabOK'
<1>1. CASE Unauthorized(q)
  <2>1. TabOK'
    BY <1>1, TabHolds DEF Unauthorized, TabOK, storeVars, CallsOK, CallAt
  <2> QED BY <1>1, <2>1, RowsUntouched, RepliesUntouched DEF Unauthorized, sessionsVars
<1>2. CASE PostRefresh(q)
  <2>1. TabOK'
    BY <1>2, TabHolds DEF PostRefresh, Idle, TabOK, storeVars, CallsOK, CallAt
  <2> QED BY <1>2, <2>1, RowsUntouched, RepliesUntouched DEF PostRefresh, sessionsVars
<1>3. CASE ReceiveTokens(q)
  <2>1. RepliesKept
    BY <1>3 DEF BrowserInv, BrowserTypeOK, SessionsTypeOK, ReceiveTokens, RepliesKept
  <2>2. TabOK'
    BY <1>3, TabHolds, NullAssumption
    DEF ReceiveTokens, SetTokens, Idle, TabOK, CallsOK, CallAt
  <2> QED BY <1>3, <2>1, <2>2, RowsUntouched DEF ReceiveTokens
<1>4. CASE ReceiveError(q)
  <2>1. RepliesKept
    BY <1>4 DEF BrowserInv, BrowserTypeOK, SessionsTypeOK, ReceiveError, RepliesKept
  <2>2. TabOK'
    BY <1>4, TabHolds DEF ReceiveError, ClearTokens, Idle, TabOK, CallsOK, CallAt
  <2> QED BY <1>4, <2>1, <2>2, RowsUntouched DEF ReceiveError
<1> QED BY <1>1, <1>2, <1>3, <1>4 DEF BrowserStep

-----------------------------------------------------------------------------
(* The invariant                                                           *)

LEMMA InvInit == BrowserInit => BrowserInv
<1> SUFFICES ASSUME BrowserInit PROVE BrowserInv
  OBVIOUS
<1> USE DEF BrowserInit, SessionsInit, HandlersInit
<1>1. BrowserTypeOK
  BY DEF BrowserTypeOK, SessionsTypeOK, Idle
<1>2. CallsOK
  BY DEF CallsOK, CallAt, Idle
<1>3. HandlersOK
  BY DEF HandlersOK, HandlerOK, Labels
<1>4. AccountFirst /\ ParentRevoked /\ LockPaired
  BY DEF AccountFirst, ParentRevoked, LockPaired, Issued, Registered
<1> QED BY <1>1, <1>2, <1>3, <1>4 DEF BrowserInv

LEMMA InvFollows ==
    ASSUME BrowserInv, TabOK',
           (RowsKept /\ UNCHANGED handlerVars) \/ \E w \in Workers : Sound(w)
    PROVE  BrowserInv'
<1>1. RowsKept /\ HandlersOK'
  BY HandlersFollow, HandlersStay DEF Sound
<1> QED BY <1>1, RowsFollow DEF BrowserInv, BrowserTypeOK, TabOK

LEMMA InvStep == BrowserInv /\ [BrowserNext]_browserVars => BrowserInv'
<1> SUFFICES ASSUME BrowserInv, [BrowserNext]_browserVars PROVE BrowserInv'
  OBVIOUS
<1>1. ASSUME NEW w \in Workers, NEW q \in Calls,
             SignUp(w, q) \/ SignIn(w, q) \/ TakeRefresh(w, q)
      PROVE  BrowserInv'
  BY <1>1, AskingSound, InvFollows DEF Handled
<1>2. ASSUME NEW q \in Calls, BrowserStep(q) PROVE BrowserInv'
  BY <1>2, BrowserStepSound, InvFollows
<1>3. CASE AccessExpires
  <2>1. TabOK'
    BY <1>3, TabHolds DEF AccessExpires, TabOK, CallsOK, CallAt
  <2> QED BY <1>3, <2>1, RowsUntouched, RepliesUntouched, InvFollows DEF AccessExpires, sessionsVars
<1>4. CASE SignOut
  <2>1. TabOK'
    BY <1>4, TabHolds DEF SignOut, ClearTokens, TabOK, CallsOK, CallAt
  <2> QED BY <1>4, <2>1, RowsUntouched, RepliesUntouched, InvFollows DEF SignOut, sessionsVars
<1>5. ASSUME NEW w \in Workers, SessionsStep(w) \/ SessionsDie(w), UNCHANGED <<storeVars, call>>
      PROVE  BrowserInv'
  BY <1>5, SessionsStepSound, SessionsDieSound, TabUntouched, InvFollows
<1>6. CASE Elsewhere /\ UNCHANGED <<storeVars, call>>
  <2>1. ASSUME NEW w \in Workers, Handled(w) PROVE BrowserInv'
    BY <1>6, <2>1, TabUntouched, InvFollows DEF Handled
  <2>2. CASE RowsKept /\ UNCHANGED handlerVars
    BY <1>6, <2>2, TabUntouched, InvFollows
  <2>3. ASSUME NEW w \in Workers, NEW t \in Tokens, RequestRefresh(w, t, NULL) PROVE BrowserInv'
    BY <2>1, <2>3, RequestRefreshSound DEF Handled
  <2> QED BY <1>6, <2>1, <2>2, <2>3, AccountRequestSound, PasswordRequestSound, LogoutSound,
             LogoutAllSound, DeactivateSound, SessionsTimeSound
          DEF Elsewhere
<1>7. CASE UNCHANGED browserVars
  <2>1. TabOK'
    BY <1>7, TabUntouched DEF browserVars, storeVars
  <2> QED BY <1>7, <2>1, RowsUntouched, RepliesUntouched, InvFollows DEF browserVars, sessionsVars
<1> QED BY <1>1, <1>2, <1>3, <1>4, <1>5, <1>6, <1>7 DEF BrowserNext

LEMMA InvAlways == BrowserSpec => []BrowserInv
  BY InvInit, InvStep, PTL DEF BrowserSpec

\* Rows, locals and the tab's store keep their shape, and a tab with an access token has a
\* refresh token, whatever overlaps and dies.
THEOREM BrowserTypeCorrect == BrowserSpec => []BrowserTypeOK
<1>1. BrowserInv => BrowserTypeOK
  BY DEF BrowserInv
<1> QED BY <1>1, InvAlways, PTL

\* No session has the token it was refreshed from as well: however many exchanges overlap and
\* wherever they die, a token is revoked before its successor is written.
THEOREM RotationRevokesFirst == BrowserSpec => []ParentRevoked
<1>1. BrowserInv => ParentRevoked
  BY DEF BrowserInv
<1> QED BY <1>1, InvAlways, PTL

\* The lock of the account matches its counter after every login, however stale the counter is
\* that a login writes back.
THEOREM LockMatchesCounter == BrowserSpec => []LockPaired
<1>1. BrowserInv => LockPaired
  BY DEF BrowserInv
<1> QED BY <1>1, InvAlways, PTL

-----------------------------------------------------------------------------
(* What a session is worth while the calls of the tab come one at a time   *)
(* and requests from elsewhere overtake no handler: one live token, which  *)
(* is the one the tab stores; none for a blocked account; a lock that no   *)
(* login writes away.  For every number of handlers, calls and tokens.     *)
(*                                                                         *)
(* Two handlers can still be at work: one that exchanges the token of the  *)
(* tab, and one other, begun while the tab was about to ask.  The first    *)
(* touches no account; the second issues no token of an old session.       *)

Busy(w) == pc[w] # "idle"

Waits(q) == call[q].step \in {"signing", "refreshing"} /\ reply[q] = NULL

\* Who works, and for whom: one call, one exchange of the token it has read, and one other.
WorkOK(w) ==
    /\ Exchanges(w) =>
          /\ ctx[w].caller \in Calls /\ CallAt(ctx[w].caller, "refreshing")
          /\ Waits(ctx[w].caller)
          /\ stored # NULL /\ Exchanged(w) = stored
    /\ Busy(w) /\ ~Exchanges(w) /\ ctx[w].caller # NULL =>
          CallAt(ctx[w].caller, "signing") /\ Waits(ctx[w].caller)

CallOK(q) ==
    /\ CallAt(q, "idle") => call[q] = Idle
    /\ CallAt(q, "signing") <=> ~CallAt(q, "idle") /\ stored = NULL
    /\ CallAt(q, "posted") => call[q].token = stored
    /\ ~(call[q].step \in {"signing", "refreshing"}) => reply[q] = NULL

OneAtATime ==
    /\ \A q, r \in Calls : call[q] # Idle /\ call[r] # Idle => q = r
    /\ \A w, x \in Workers : Exchanges(w) /\ Exchanges(x) => w = x
    /\ \A w, x \in Workers : Busy(w) /\ Busy(x) /\ ~Exchanges(w) /\ ~Exchanges(x) => w = x
    /\ \A w \in Workers : WorkOK(w)
    /\ \A q \in Calls : CallOK(q)

\* Sessions begin with a token that was issued, and have one that is live.
RootIssued == \A t \in Tokens : Issued(t) => Issued(token[t].root)

\* The token stored is the live one of its session, or its successor is on its way to the tab.
StoredOK ==
    stored # NULL =>
        /\ Issued(stored)
        /\ \/ LiveOf(stored) \subseteq {stored}
           \/ \E q \in Calls : CallAt(q, "refreshing") /\ reply[q] \in Tokens

\* Past its first write, an exchange has ended the session but for what it will issue.
ExchangeOK(w) ==
    Exchanges(w) /\ pc[w] # "refresh.revoke" => LiveOf(Exchanged(w)) = {}

\* What is on its way to the tab is the live token of its session; an error ends it.
ReplyOK(q) ==
    /\ reply[q] \in Tokens => Issued(reply[q]) /\ LiveOf(reply[q]) \subseteq {reply[q]}
    /\ reply[q] = ERROR /\ CallAt(q, "refreshing") => LiveOf(stored) = {}

TokensAgree ==
    /\ RootIssued
    /\ OneLiveToken
    /\ StoredOK
    /\ \A w \in Workers : ExchangeOK(w)
    /\ \A q \in Calls : ReplyOK(q)

\* A login that goes on was admitted to an account that was open, and still is.
LoginOK(w) ==
    /\ pc[w] \in {"login.fail", "login.reset"} => account.lockedUntil # "future"
    /\ pc[w] \in {"login.reset", "token.issue"} => account.status = "ACTIVE"

AccountAgrees ==
    /\ \A w \in Workers : LoginOK(w)
    /\ Registered /\ account.status = "BLOCKED" =>
          Live = {} \/ \E w \in Workers : pc[w] = "status.revoke"

AloneInv == OneAtATime /\ TokensAgree /\ AccountAgrees

\* A tab that is closed asks for nothing, and nobody works for it.
Closed ==
    /\ stored = NULL /\ NoCall
    /\ \A q \in Calls : reply[q] = NULL
    /\ \A w \in Workers : Busy(w) => ctx[w].caller = NULL

SessionsInv ==
    /\ schedule \in {"alone", "overlap"}
    /\ schedule = "alone" => AloneInv
    /\ schedule = "overlap" => Closed


-----------------------------------------------------------------------------
(* Who works                                                               *)

LEMMA WorkStays ==
    ASSUME OneAtATime, UNCHANGED <<pc, ctx, call, reply, stored>>
    PROVE  OneAtATime'
  BY DEF OneAtATime, WorkOK, CallOK, Busy, Exchanges, Exchanged, Waits, CallAt

\* A handler goes on, for whom and with what it has begun.
LEMMA WorkContinues ==
    ASSUME OneAtATime, NEW w \in Workers, Moves(w), Busy(w), pc'[w] # "idle",
           ctx'[w].caller = ctx[w].caller, Exchanges(w)' <=> Exchanges(w),
           Exchanges(w) => Exchanged(w)' = Exchanged(w), UNCHANGED <<call, reply, stored>>
    PROVE  OneAtATime'
<1>1. ASSUME NEW x \in Workers
      PROVE  /\ Exchanges(x)' <=> Exchanges(x)
             /\ Busy(x)' <=> Busy(x)
             /\ ctx'[x].caller = ctx[x].caller
             /\ Exchanges(x) => Exchanged(x)' = Exchanged(x)
  <2>1. CASE x = w
    BY <2>1 DEF Busy
  <2>2. CASE x # w
    BY <2>2 DEF Moves, Exchanges, Exchanged, Busy
  <2> QED BY <2>1, <2>2
<1>2. \A x \in Workers : WorkOK(x)'
  BY <1>1 DEF OneAtATime, WorkOK, Waits, CallAt
<1>3. \A q \in Calls : CallOK(q)'
  BY DEF OneAtATime, CallOK, CallAt
<1> QED BY <1>1, <1>2, <1>3 DEF OneAtATime

\* A handler ends, with an answer to its caller or without.
LEMMA WorkEnds ==
    ASSUME BrowserInv, OneAtATime, NEW w \in Workers, Moves(w), Busy(w), pc'[w] = "idle",
           NEW answer, UNCHANGED <<call, stored>>,
           \/ UNCHANGED reply
           \/ ctx[w].caller # NULL /\ reply' = [reply EXCEPT ![ctx[w].caller] = answer]
    PROVE  OneAtATime'
<1>0. ASSUME NEW q, q # ctx[w].caller \/ ctx[w].caller = NULL PROVE reply'[q] = reply[q]
  <2>1. CASE UNCHANGED reply
    BY <2>1
  <2>2. CASE ctx[w].caller # NULL /\ reply' = [reply EXCEPT ![ctx[w].caller] = answer]
    BY <1>0, <2>2
  <2> QED BY <2>1, <2>2
<1>1. ctx[w].caller \in Calls \cup {NULL}
  BY DEF BrowserInv, HandlersOK, HandlerOK, Busy
<1>2. ASSUME NEW x \in Workers, Busy(x)'
      PROVE  /\ x # w /\ Busy(x) /\ ctx'[x] = ctx[x]
             /\ Exchanges(x)' <=> Exchanges(x)
             /\ Exchanged(x)' = Exchanged(x)
  BY <1>2 DEF Moves, Exchanges, Exchanged, Busy
<1>3. ASSUME NEW x \in Workers PROVE Exchanges(x)' => Busy(x)'
  BY DEF Exchanges, Busy
<1>4. ASSUME NEW x \in Workers, Busy(x)', ctx[x].caller # NULL
      PROVE  reply'[ctx[x].caller] = reply[ctx[x].caller]
  <2>1. x # w /\ Busy(x) /\ (Exchanges(x)' <=> Exchanges(x))
    BY <1>2, <1>4
  <2>2. ctx[x].caller # ctx[w].caller
    BY <1>4, <2>1 DEF OneAtATime, WorkOK, CallAt
  <2> QED BY <1>0, <2>2
<1>5. ASSUME NEW x \in Workers PROVE WorkOK(x)'
  <2>1. CASE ~Busy(x)'
    BY <1>3, <2>1 DEF WorkOK
  <2>2. CASE Busy(x)'
    <3>1. WorkOK(x)
      BY DEF OneAtATime
    <3>2. NULL \notin Calls
      BY NullAssumption
    <3> QED BY <1>2, <1>4, <2>2, <3>1, <3>2 DEF WorkOK, Waits, CallAt
  <2> QED BY <2>1, <2>2
<1>6. ASSUME NEW q \in Calls PROVE CallOK(q)'
  <2>1. CASE reply'[q] = reply[q]
    BY <2>1 DEF OneAtATime, CallOK, CallAt
  <2>2. CASE reply'[q] # reply[q]
    <3>1. q = ctx[w].caller /\ ctx[w].caller # NULL
      BY <1>0, <2>2
    <3>2. call[q].step \in {"signing", "refreshing"}
      BY <3>1 DEF OneAtATime, WorkOK, CallAt
    <3> QED BY <3>2 DEF OneAtATime, CallOK, CallAt
  <2> QED BY <2>1, <2>2
<1> QED BY <1>2, <1>3, <1>5, <1>6 DEF OneAtATime

\* A handler that is no exchange begins while no other is at work: for no call of the tab ...
LEMMA WorkBegins ==
    ASSUME OneAtATime, NEW w \in Workers, Moves(w), Quiet, ~Exchanges(w)', ctx'[w].caller = NULL,
           UNCHANGED <<call, reply, stored>>
    PROVE  OneAtATime'
<1>1. \A x \in Workers \ {w} : ~Busy(x)' /\ ~Exchanges(x)'
  BY DEF Moves, Quiet, Busy, Exchanges
<1>2. \A x \in Workers : WorkOK(x)'
  BY <1>1 DEF WorkOK
<1>3. \A q \in Calls : CallOK(q)'
  BY DEF OneAtATime, CallOK, CallAt
<1> QED BY <1>1, <1>2, <1>3 DEF OneAtATime

\* ... or for the one that begins with it, or is refused.
LEMMA WorkSigns ==
    ASSUME BrowserInv, OneAtATime, NEW w \in Workers, NEW q \in Calls, Free(q), stored = NULL,
           call' = [call EXCEPT ![q] = [step |-> "signing", token |-> NULL]], UNCHANGED stored,
           \/ Moves(w) /\ ~Exchanges(w)' /\ ctx'[w].caller = q /\ UNCHANGED reply
           \/ UNCHANGED <<pc, ctx>> /\ reply' = [reply EXCEPT ![q] = ERROR]
    PROVE  OneAtATime'
<1>1. \A x \in Workers \ {w} : ~Busy(x)' /\ ~Exchanges(x)'
  BY DEF Moves, Free, Quiet, Busy, Exchanges
<1>2. /\ call \in [Calls -> [step : {"idle", "signing", "unauthorized", "posted", "refreshing"},
                            token : Tokens \cup {NULL}]]
      /\ reply \in [Calls -> Tokens \cup {NULL, ERROR}]
  BY DEF BrowserInv, BrowserTypeOK, SessionsTypeOK
<1>3. call'[q] = [step |-> "signing", token |-> NULL] /\ reply[q] = NULL
  BY <1>2 DEF OneAtATime, CallOK, Free, CallAt
<1>4. \A r \in Calls \ {q} : call'[r] = Idle /\ reply'[r] = reply[r] /\ reply[r] = NULL
  BY <1>2 DEF OneAtATime, CallOK, Free, NoCall, CallAt, Idle
<1>5. ASSUME NEW x \in Workers PROVE WorkOK(x)'
  <2>1. CASE x = w /\ ctx'[w].caller = q /\ ~Exchanges(w)' /\ UNCHANGED reply
    BY <1>3, <2>1 DEF WorkOK, Waits, CallAt
  <2>2. CASE ~Busy(x)'
    BY <2>2 DEF WorkOK, Exchanges, Busy
  <2> QED BY <1>1, <2>1, <2>2 DEF Free, Quiet, Busy
<1>6. \A r \in Calls : CallOK(r)'
  BY <1>3, <1>4 DEF CallOK, CallAt, Idle
<1>7. ~Exchanges(w)'
  BY DEF Free, Quiet, Exchanges
<1> QED BY <1>1, <1>4, <1>5, <1>6, <1>7 DEF OneAtATime


\* A call that is not answered yet by the one handler that would has no handler.
LEMMA NoneWorksFor ==
    ASSUME BrowserInv, OneAtATime, NEW q \in Calls, call[q] # Idle,
           ~(call[q].step \in {"signing", "refreshing"}) \/ reply[q] # NULL
    PROVE  \A x \in Workers : ~Exchanges(x) /\ (Busy(x) => ctx[x].caller = NULL)
<1> SUFFICES ASSUME NEW x \in Workers, Busy(x), ctx[x].caller # NULL PROVE FALSE
  BY NullAssumption DEF OneAtATime, WorkOK, Exchanges, Busy
<1> DEFINE r == ctx[x].caller
<1>1. r \in Calls /\ Waits(r)
  BY DEF BrowserInv, HandlersOK, HandlerOK, OneAtATime, WorkOK, Busy
<1>2. call[r] # Idle
  BY <1>1 DEF Waits, Idle
<1>3. r = q
  BY <1>1, <1>2 DEF OneAtATime
<1> QED BY <1>1, <1>3 DEF Waits

\* The call is the only one, and moves on without a handler.
LEMMA WorkMoves ==
    ASSUME BrowserInv, OneAtATime, NEW q \in Calls, UNCHANGED <<pc, ctx>>,
           \A x \in Workers : ~Exchanges(x) /\ (Busy(x) => ctx[x].caller = NULL),
           \A r \in Calls \ {q} : call[r] = Idle /\ call'[r] = Idle /\ reply'[r] = reply[r],
           CallOK(q)'
    PROVE  OneAtATime'
<1>1. \A x \in Workers : ~Exchanges(x)' /\ (Busy(x)' <=> Busy(x)) /\ WorkOK(x)'
  BY DEF Exchanges, Busy, WorkOK
<1>2. \A r \in Calls \ {q} : CallOK(r)'
  BY DEF OneAtATime, CallOK, CallAt, Idle
<1> QED BY <1>1, <1>2 DEF OneAtATime, Exchanges

\* The others are idle.
LEMMA OthersIdle ==
    ASSUME OneAtATime, NEW q \in Calls, call[q] # Idle
    PROVE  \A r \in Calls \ {q} : call[r] = Idle
  BY DEF OneAtATime

LEMMA WorkOfTab ==
    ASSUME BrowserInv, OneAtATime, NEW q \in Calls, BrowserStep(q) PROVE OneAtATime'
<1>0. /\ call \in [Calls -> [step : {"idle", "signing", "unauthorized", "posted", "refreshing"},
                             token : Tokens \cup {NULL}]]
      /\ reply \in [Calls -> Tokens \cup {NULL, ERROR}]
  BY DEF BrowserInv, BrowserTypeOK, SessionsTypeOK
<1>1. CASE Unauthorized(q)
  <2>1. \A x \in Workers : ~Exchanges(x) /\ ~Busy(x)
    BY <1>1 DEF Unauthorized, Free, Quiet, Exchanges, Busy
  <2>2. call'[q] = [step |-> "unauthorized", token |-> NULL] /\ reply'[q] = NULL
    BY <1>0, <1>1 DEF Unauthorized, Free, OneAtATime, CallOK, CallAt, sessionsVars
  <2>3. CallOK(q)'
    BY <1>1, <2>2 DEF CallOK, CallAt, Unauthorized, storeVars
  <2>4. \A r \in Calls \ {q} : call[r] = Idle /\ call'[r] = Idle /\ reply'[r] = reply[r]
    BY <1>0, <1>1 DEF Unauthorized, Free, NoCall, sessionsVars
  <2> QED BY <1>1, <2>1, <2>3, <2>4, WorkMoves DEF Unauthorized, sessionsVars, handlerVars
<1>2. CASE PostRefresh(q)
  <2>1. call[q].step = "unauthorized" /\ call[q] # Idle
    BY <1>2 DEF PostRefresh, CallAt, Idle
  <2>2. stored # NULL /\ reply[q] = NULL
    BY <2>1 DEF OneAtATime, CallOK, CallAt
  <2>3. call'[q] = [step |-> "posted", token |-> stored]
    BY <1>0, <1>2, <2>2 DEF PostRefresh
  <2>4. CallOK(q)'
    BY <1>2, <2>2, <2>3 DEF CallOK, CallAt, PostRefresh, storeVars, sessionsVars
  <2>5. \A r \in Calls \ {q} : call[r] = Idle /\ call'[r] = Idle /\ reply'[r] = reply[r]
    BY <1>0, <1>2, <2>1, OthersIdle DEF PostRefresh, sessionsVars
  <2>6. \A x \in Workers : ~Exchanges(x) /\ (Busy(x) => ctx[x].caller = NULL)
    BY <2>1, NoneWorksFor
  <2> QED BY <1>2, <2>4, <2>5, <2>6, WorkMoves DEF PostRefresh, sessionsVars, handlerVars
<1>3. CASE ReceiveTokens(q) \/ ReceiveError(q)
  <2>1. /\ reply[q] # NULL
        /\ reply' = [reply EXCEPT ![q] = NULL] /\ call' = [call EXCEPT ![q] = Idle]
        /\ UNCHANGED <<pc, ctx>>
    BY <1>3, NullAssumption, ErrorAssumption DEF ReceiveTokens, ReceiveError, handlerVars
  <2>2. call[q] # Idle
    BY <2>1 DEF OneAtATime, CallOK, CallAt, Idle
  <2>3. call'[q] = Idle /\ reply'[q] = NULL
    BY <1>0, <2>1
  <2>4. CallOK(q)'
    BY <2>3 DEF CallOK, CallAt, Idle
  <2>5. \A r \in Calls \ {q} : call[r] = Idle /\ call'[r] = Idle /\ reply'[r] = reply[r]
    BY <1>0, <2>1, <2>2, OthersIdle
  <2> QED BY <2>1, <2>2, <2>4, <2>5, WorkMoves, NoneWorksFor
<1> QED BY <1>1, <1>2, <1>3 DEF BrowserStep

LEMMA WorkSignsOut == ASSUME BrowserInv, OneAtATime, SignOut PROVE OneAtATime'
<1>1. \A x \in Workers : ~Exchanges(x)' /\ ~Busy(x)'
  BY DEF SignOut, Quiet, Exchanges, Busy, sessionsVars, handlerVars
<1>2. \A q \in Calls : CallOK(q)'
  BY DEF SignOut, NoCall, OneAtATime, CallOK, CallAt, Idle, sessionsVars
<1> QED BY <1>1, <1>2 DEF SignOut, NoCall, OneAtATime, WorkOK, Idle

\* An exchange begins with the token the tab stores, or its call is refused.
LEMMA WorkAsks ==
    ASSUME BrowserInv, OneAtATime, NEW w \in Workers, NEW q \in Calls, TakeRefresh(w, q)
    PROVE  OneAtATime'
<1>0. /\ call \in [Calls -> [step : {"idle", "signing", "unauthorized", "posted", "refreshing"},
                             token : Tokens \cup {NULL}]]
      /\ reply \in [Calls -> Tokens \cup {NULL, ERROR}]
  BY DEF BrowserInv, BrowserTypeOK, SessionsTypeOK
<1>1. call[q].step = "posted" /\ call[q] # Idle
  BY DEF TakeRefresh, CallAt, Idle
<1>2. stored # NULL /\ call[q].token = stored /\ reply[q] = NULL
  BY <1>1 DEF OneAtATime, CallOK, CallAt
<1>3. \A x \in Workers : ~Exchanges(x) /\ (Busy(x) => ctx[x].caller = NULL)
  BY <1>1, NoneWorksFor
<1>4. /\ call'[q].step = "refreshing" /\ UNCHANGED stored
      /\ \A r \in Calls \ {q} : call[r] = Idle /\ call'[r] = Idle
  BY <1>0, <1>1, OthersIdle DEF TakeRefresh, storeVars
<1>5. CallOK(q)'
  BY <1>2, <1>4 DEF CallOK, CallAt
<1>6. CASE Reject(q)
  <2>1. UNCHANGED <<pc, ctx>> /\ \A r \in Calls \ {q} : reply'[r] = reply[r]
    BY <1>0, <1>6, NullAssumption DEF Reject, handlerVars
  <2> QED BY <1>3, <1>4, <1>5, <2>1, WorkMoves
<1>7. CASE ~Reject(q)
  <2>1. /\ Begin(w, "refresh.revoke", [caller |-> q, token |-> stored])
        /\ UNCHANGED reply
    BY <1>2, <1>7 DEF TakeRefresh, RequestRefresh
  <2>2. /\ Moves(w) /\ pc'[w] = "refresh.revoke"
        /\ ctx'[w] = [caller |-> q, token |-> stored]
    BY <2>1, EntersAt DEF Labels
  <2>3. \A x \in Workers \ {w} :
            ~Exchanges(x)' /\ (Busy(x)' <=> Busy(x)) /\ (Busy(x) => ctx'[x].caller = NULL)
    BY <1>3, <2>2 DEF Moves, Exchanges, Busy
  <2>4. Exchanges(w)' /\ WorkOK(w)'
    BY <1>2, <1>4, <2>1, <2>2 DEF Exchanges, Exchanged, WorkOK, Waits, CallAt
  <2>5. \A x \in Workers \ {w} : WorkOK(x)'
    BY <2>3 DEF WorkOK
  <2>6. \A r \in Calls \ {q} : CallOK(r)'
    BY <1>4, <2>1 DEF OneAtATime, CallOK, CallAt, Idle
  <2> QED BY <1>3, <1>4, <1>5, <2>3, <2>4, <2>5, <2>6 DEF OneAtATime
<1> QED BY <1>6, <1>7


LEMMA WorkAnswered ==
    ASSUME BrowserInv, OneAtATime, NEW w \in Workers, Busy(w), NEW answer, Answer(w, answer),
           Return(w), UNCHANGED <<call, stored>>
    PROVE  OneAtATime'
<1>1. Moves(w) /\ pc'[w] = "idle"
  BY DEF BrowserInv, HandlersOK, Return, Moves, Labels
<1>2. CASE ctx[w].caller = NULL
  BY <1>1, <1>2, WorkEnds DEF Answer
<1>3. CASE ctx[w].caller # NULL
  BY <1>1, <1>3, WorkEnds DEF Answer
<1> QED BY <1>2, <1>3

LEMMA WorkReturns ==
    ASSUME BrowserInv, OneAtATime, NEW w \in Workers, Busy(w), Return(w),
           UNCHANGED <<call, stored, reply>>
    PROVE  OneAtATime'
<1>1. Moves(w) /\ pc'[w] = "idle"
  BY DEF BrowserInv, HandlersOK, Return, Moves, Labels
<1> QED BY <1>1, WorkEnds

LEMMA WorkGoesOn ==
    ASSUME BrowserInv, OneAtATime, NEW w \in Workers, SessionsStep(w), UNCHANGED <<stored, call>>
    PROVE  OneAtATime'
<1>1. CASE IssueToken(w) \/ RegisterTaken(w) \/ LoginFail(w) \/ RefreshGone(w)
  BY <1>1, WorkAnswered DEF IssueToken, RegisterTaken, LoginFail, RefreshGone, Refuse, At, Busy
<1>2. CASE ResetWrite(w) \/ ResetGone(w) \/ ChangePassword(w) \/ StatusRevoke(w)
  BY <1>2, WorkReturns DEF ResetWrite, ResetGone, ChangePassword, StatusRevoke, At, Busy
<1>3. CASE RegisterCreate(w)
  <2>1. /\ Moves(w) /\ pc'[w] = "token.issue"
        /\ ctx'[w] = [caller |-> ctx[w].caller, parent |-> NULL, password |-> 0]
    BY <1>3, EntersAt DEF RegisterCreate, Labels
  <2>2. pc[w] = "register.create" /\ UNCHANGED reply
    BY <1>3 DEF RegisterCreate, At
  <2> QED BY <2>1, <2>2, WorkContinues DEF Exchanges, Busy
<1>4. CASE LoginReset(w)
  <2>1. /\ Moves(w) /\ pc'[w] = "token.issue"
        /\ ctx'[w] = [caller |-> ctx[w].caller, parent |-> NULL, password |-> ctx[w].password]
    BY <1>4, EntersAt DEF LoginReset, Labels
  <2>2. pc[w] = "login.reset" /\ UNCHANGED reply
    BY <1>4 DEF LoginReset, At
  <2> QED BY <2>1, <2>2, WorkContinues DEF Exchanges, Busy
<1>5. CASE RefreshRevoke(w)
  <2>1. Moves(w) /\ pc'[w] = "refresh.user" /\ ctx'[w] = ctx[w]
    BY <1>5, GoesTo DEF RefreshRevoke, Labels
  <2>2. pc[w] = "refresh.revoke" /\ UNCHANGED reply
    BY <1>5 DEF RefreshRevoke, At
  <2> QED BY <2>1, <2>2, WorkContinues DEF Exchanges, Exchanged, Busy
<1>6. CASE RefreshUser(w)
  <2>1. pc[w] = "refresh.user"
    BY <1>6 DEF RefreshUser, At
  <2>2. CASE account.status # "ACTIVE"
    BY <1>6, <2>1, <2>2, WorkAnswered DEF RefreshUser, Refuse, Busy
  <2>3. CASE account.status = "ACTIVE"
    <3>1. /\ Moves(w) /\ pc'[w] = "token.issue"
          /\ ctx'[w] = [caller |-> ctx[w].caller, parent |-> ctx[w].token,
                        password |-> token[ctx[w].token].password]
      BY <1>6, <2>3, EntersAt DEF RefreshUser, Labels
    <3>2. ctx[w].token # NULL
      BY <2>1, NullAssumption DEF BrowserInv, HandlersOK, HandlerOK, Spent
    <3> QED BY <1>6, <2>1, <2>3, <3>1, <3>2, WorkContinues
            DEF RefreshUser, Exchanges, Exchanged, Busy
  <2> QED BY <2>2, <2>3
<1> QED BY <1>1, <1>2, <1>3, <1>4, <1>5, <1>6 DEF SessionsStep

\* Requests from elsewhere begin on their own, for no call of the tab and with no token.
OwnLabels == Labels \ {"idle", "refresh.revoke", "refresh.user", "token.issue"}

BeginsAlone ==
    \/ UNCHANGED handlerVars
    \/ \E w \in Workers, label \in OwnLabels :
          \E locals : locals.caller = NULL /\ Begin(w, label, locals)

LEMMA ElsewhereBegins ==
    ASSUME schedule = "alone", Elsewhere PROVE BeginsAlone /\ UNCHANGED reply
<1>1. ASSUME NEW w \in Workers, NEW label \in OwnLabels, NEW locals, locals.caller = NULL,
             Begin(w, label, locals)
      PROVE  BeginsAlone
  BY <1>1 DEF BeginsAlone
<1>2. UNCHANGED handlerVars => BeginsAlone
  BY DEF BeginsAlone
<1>3. ASSUME NEW w \in Workers, AccountRequest(w) PROVE BeginsAlone /\ UNCHANGED reply
  <2>1. CASE RequestRegister(w, NULL)
    BY <1>1, <2>1 DEF RequestRegister, OwnLabels, Labels
  <2>2. ASSUME NEW valid \in BOOLEAN, RequestLogin(w, valid, NULL)
        PROVE  BeginsAlone /\ UNCHANGED reply
    <3>1. CASE Reject(NULL)
      BY <1>2, <3>1 DEF Reject
    <3>2. CASE ~Reject(NULL)
      BY <1>1, <2>2, <3>2 DEF RequestLogin, OwnLabels, Labels
    <3> QED BY <3>1, <3>2
  <2>3. ASSUME NEW status \in UserStatuses, SetStatus(w, status)
        PROVE  BeginsAlone /\ UNCHANGED reply
    BY <1>1, <1>2, <2>3 DEF SetStatus, OwnLabels, Labels
  <2> QED BY <1>3, <2>1, <2>2, <2>3 DEF AccountRequest
<1>4. ASSUME NEW w \in Workers, PasswordRequest(w) PROVE BeginsAlone /\ UNCHANGED reply
  <2>1. ASSUME NEW r \in Resets, ForgotPassword(r) PROVE BeginsAlone /\ UNCHANGED reply
    BY <1>2, <2>1 DEF ForgotPassword
  <2>2. ASSUME NEW r \in Resets, RequestReset(w, r) PROVE BeginsAlone /\ UNCHANGED reply
    BY <1>1, <2>2 DEF RequestReset, OwnLabels, Labels
  <2>3. CASE RequestChange(w)
    BY <1>1, <2>3 DEF RequestChange, OwnLabels, Labels
  <2> QED BY <1>4, <2>1, <2>2, <2>3 DEF PasswordRequest
<1>5. ASSUME NEW t \in Tokens, Logout(t) PROVE BeginsAlone /\ UNCHANGED reply
  BY <1>2, <1>5 DEF Logout
<1>6. CASE LogoutAll \/ Deactivate
  BY <1>2, <1>6 DEF LogoutAll, Deactivate
<1>7. CASE SessionsTime
  BY <1>2, <1>7
  DEF SessionsTime, LockElapses, CleanupRefresh, CleanupReset, TokenExpires, ResetExpires
<1> QED BY <1>3, <1>4, <1>5, <1>6, <1>7 DEF Elsewhere

LEMMA BeginsNoExchange ==
    ASSUME BrowserInv, Quiet, BeginsAlone PROVE \A x \in Workers : ~Exchanges(x)'
<1>1. CASE UNCHANGED handlerVars
  BY <1>1 DEF handlerVars, Quiet, Exchanges
<1>2. ASSUME NEW w \in Workers, NEW label \in OwnLabels, NEW locals, Begin(w, label, locals)
      PROVE  \A x \in Workers : ~Exchanges(x)'
  <2>1. Moves(w) /\ pc'[w] = label
    BY <1>2, EntersAt DEF OwnLabels
  <2> QED BY <2>1 DEF Moves, OwnLabels, Quiet, Exchanges
<1> QED BY <1>1, <1>2 DEF BeginsAlone

LEMMA WorkElsewhere ==
    ASSUME BrowserInv, OneAtATime, schedule = "alone", Quiet, Elsewhere, UNCHANGED <<stored, call>>
    PROVE  OneAtATime'
<1>1. BeginsAlone /\ UNCHANGED reply
  BY ElsewhereBegins
<1>2. CASE UNCHANGED handlerVars
  BY <1>1, <1>2, WorkStays DEF handlerVars
<1>3. ASSUME NEW w \in Workers, NEW label \in OwnLabels, NEW locals, locals.caller = NULL,
             Begin(w, label, locals)
      PROVE  OneAtATime'
  <2>1. Moves(w) /\ ctx'[w] = locals
    BY <1>3, EntersAt DEF OwnLabels
  <2>2. ~Exchanges(w)'
    BY <1>1, BeginsNoExchange
  <2> QED BY <1>1, <1>3, <2>1, <2>2, WorkBegins
<1> QED BY <1>1, <1>2, <1>3 DEF BeginsAlone

LEMMA WorkAsksOrSigns ==
    ASSUME BrowserInv, OneAtATime, NEW w \in Workers, NEW q \in Calls,
           SignUp(w, q) \/ SignIn(w, q) \/ TakeRefresh(w, q)
    PROVE  OneAtATime'
<1>1. CASE SignUp(w, q)
  <2>1. /\ Moves(w) /\ pc'[w] = "register.create" /\ ctx'[w] = [caller |-> q]
        /\ UNCHANGED reply
    BY <1>1, EntersAt DEF SignUp, RequestRegister, Labels
  <2>2. ~Exchanges(w)' /\ ctx'[w].caller = q
    BY <2>1 DEF Exchanges
  <2>3. /\ Free(q) /\ stored = NULL /\ UNCHANGED stored
        /\ call' = [call EXCEPT ![q] = [step |-> "signing", token |-> NULL]]
    BY <1>1 DEF SignUp, storeVars
  <2> QED BY <2>1, <2>2, <2>3, WorkSigns
<1>2. CASE SignIn(w, q)
  <2>1. CASE Reject(q)
    BY <1>2, <2>1, NullAssumption, WorkSigns DEF SignIn, storeVars, Reject, handlerVars
  <2>2. CASE ~Reject(q)
    <3>1. /\ Moves(w) /\ pc'[w] = "login.reset"
          /\ ctx'[w] = [caller |-> q, attempts |-> account.attempts,
                        password |-> account.password]
          /\ UNCHANGED reply
      BY <1>2, <2>2, EntersAt DEF SignIn, RequestLogin, Labels
    <3>2. ~Exchanges(w)' /\ ctx'[w].caller = q
      BY <3>1 DEF Exchanges
    <3>3. /\ Free(q) /\ stored = NULL /\ UNCHANGED stored
          /\ call' = [call EXCEPT ![q] = [step |-> "signing", token |-> NULL]]
      BY <1>2 DEF SignIn, storeVars
    <3> QED BY <3>1, <3>2, <3>3, WorkSigns
  <2> QED BY <2>1, <2>2
<1> QED BY <1>1, <1>2, WorkAsks

\* The steps that are possible while the calls of the tab come one at a time
AloneNext ==
    \/ \E w \in Workers, q \in Calls : SignUp(w, q) \/ SignIn(w, q) \/ TakeRefresh(w, q)
    \/ \E q \in Calls : BrowserStep(q)
    \/ AccessExpires
    \/ SignOut
    \/ (\E w \in Workers : SessionsStep(w)) /\ UNCHANGED <<stored, call>>
    \/ Quiet /\ Elsewhere /\ UNCHANGED <<stored, call>>
    \/ UNCHANGED browserVars

LEMMA AloneSteps == schedule = "alone" /\ [BrowserNext]_browserVars => AloneNext
  BY DEF BrowserNext, AloneNext, storeVars

LEMMA WorkStep ==
    ASSUME BrowserInv, OneAtATime, schedule = "alone", AloneNext PROVE OneAtATime'
<1>1. CASE AccessExpires \/ UNCHANGED browserVars
  BY <1>1, WorkStays DEF AccessExpires, browserVars, sessionsVars, handlerVars, storeVars
<1> QED BY <1>1, WorkAsksOrSigns, WorkOfTab, WorkSignsOut, WorkGoesOn, WorkElsewhere DEF AloneNext


-----------------------------------------------------------------------------
(* The tokens of a session                                                 *)

\* No row is issued, none comes back to life, and every one keeps its session.
Fades ==
    \A t \in Tokens :
        /\ Issued(t)' <=> Issued(t)
        /\ Issued(t) => token'[t].root = token[t].root
        /\ t \in Live' => t \in Live

LEMMA FadesUntouched == UNCHANGED token => Fades
  BY DEF Fades, Issued, Live

LEMMA FadesMarked ==
    ASSUME BrowserInv, NEW marked \in SUBSET Tokens, \A t \in marked : Issued(t),
           NEW state \in {"revoked", "deleted", "expired"},
           token' = [t \in Tokens |-> IF t \in marked THEN [token[t] EXCEPT !.state = state]
                                                      ELSE token[t]]
    PROVE  Fades
<1>1. \A t \in marked : token[t] \in TokenRows
  BY DEF BrowserInv, BrowserTypeOK, SessionsTypeOK, Issued
<1>2. \A t \in marked : /\ token'[t] \in TokenRows /\ token'[t].state = state
                        /\ token'[t].root = token[t].root
  BY <1>1 DEF TokenRows
<1>3. \A t \in Tokens \ marked : token'[t] = token[t]
  OBVIOUS
<1> QED BY <1>2, <1>3, NullAssumption DEF Fades, Issued, Live

\* Only the one that issues a token does otherwise.
LEMMA RevokedFades == ASSUME BrowserInv, RevokeAll PROVE Fades /\ Live' = {}
<1> DEFINE marked == {t \in Tokens : Issued(t) /\ token[t].state \in {"live", "expired"}}
<1>1. token' = [t \in Tokens |-> IF t \in marked THEN [token[t] EXCEPT !.state = "revoked"]
                                                 ELSE token[t]]
  BY DEF RevokeAll
<1>2. Fades
  BY <1>1, FadesMarked
<1>3. \A t \in marked : token'[t].state = "revoked"
  BY <1>1 DEF BrowserInv, BrowserTypeOK, SessionsTypeOK, Issued, TokenRows
<1>4. \A t \in Tokens \ marked : token'[t] = token[t]
  BY <1>1
<1> QED BY <1>2, <1>3, <1>4 DEF Live, Issued

LEMMA StepFades ==
    ASSUME BrowserInv, NEW w \in Workers, SessionsStep(w), ~IssueToken(w) PROVE Fades
<1>1. CASE RefreshRevoke(w)
  <2>1. token' = [u \in Tokens |-> IF u \in {ctx[w].token} THEN [token[u] EXCEPT !.state = "revoked"]
                                                           ELSE token[u]]
    BY <1>1 DEF BrowserInv, BrowserTypeOK, SessionsTypeOK, RefreshRevoke
  <2>2. ctx[w].token \in Tokens /\ Issued(ctx[w].token)
    BY <1>1 DEF BrowserInv, HandlersOK, HandlerOK, RefreshRevoke, At
  <2> QED BY <2>1, <2>2, FadesMarked
<1>2. CASE ResetWrite(w) \/ StatusRevoke(w)
  BY <1>2, RevokedFades DEF ResetWrite, StatusRevoke
<1>3. CASE UNCHANGED token
  BY <1>3, FadesUntouched
<1> QED
  BY <1>1, <1>2, <1>3
  DEF SessionsStep, RegisterCreate, RegisterTaken, LoginFail, LoginReset, RefreshGone, RefreshUser,
      ResetGone, ChangePassword, accountVars

LEMMA ElsewhereFades == ASSUME BrowserInv, schedule = "alone", Elsewhere PROVE Fades
<1>1. ASSUME NEW t \in Tokens, Logout(t) PROVE Fades
  <2>1. token' = [u \in Tokens |-> IF u \in {t} THEN [token[u] EXCEPT !.state = "revoked"]
                                                ELSE token[u]]
    BY <1>1 DEF BrowserInv, BrowserTypeOK, SessionsTypeOK, Logout
  <2> QED BY <1>1, <2>1, FadesMarked DEF Logout
<1>2. CASE LogoutAll
  BY <1>2, RevokedFades DEF LogoutAll
<1>3. ASSUME NEW t \in Tokens, TokenExpires(t) PROVE Fades
  <2>1. token' = [u \in Tokens |-> IF u \in {t} THEN [token[u] EXCEPT !.state = "expired"]
                                                ELSE token[u]]
    BY <1>3 DEF BrowserInv, BrowserTypeOK, SessionsTypeOK, TokenExpires
  <2> QED BY <1>3, <2>1, FadesMarked DEF TokenExpires, Live
<1>4. CASE CleanupRefresh
  <2> DEFINE marked == {t \in Tokens : Issued(t) /\ token[t].state \in {"expired", "revoked"}}
  <2>1. token' = [t \in Tokens |-> IF t \in marked THEN [token[t] EXCEPT !.state = "deleted"]
                                                   ELSE token[t]]
    BY <1>4 DEF CleanupRefresh
  <2> QED BY <2>1, FadesMarked
<1>5. ASSUME NEW w \in Workers, AccountRequest(w) \/ PasswordRequest(w) PROVE UNCHANGED token
  BY <1>5
  DEF AccountRequest, RequestRegister, RequestLogin, Reject, SetStatus, PasswordRequest,
      ForgotPassword, RequestReset, RequestChange, accountVars
<1>6. CASE Deactivate \/ LockElapses \/ CleanupReset \/ \E r \in Resets : ResetExpires(r)
  BY <1>6, FadesUntouched DEF Deactivate, LockElapses, CleanupReset, ResetExpires
<1> QED BY <1>1, <1>2, <1>3, <1>4, <1>5, <1>6, FadesUntouched DEF Elsewhere, SessionsTime

\* A session that fades has no more live tokens than before.
LEMMA SessionFades ==
    ASSUME Fades, NEW t \in Tokens, Issued(t) PROVE LiveOf(t)' \subseteq LiveOf(t)
  BY DEF Fades, LiveOf, Live

LEMMA RowsFade ==
    ASSUME BrowserInv, RootIssued, OneLiveToken, Fades PROVE RootIssued' /\ OneLiveToken'
<1>1. \A t \in Tokens : Issued(t) => token[t].root \in Tokens
  BY DEF BrowserInv, BrowserTypeOK, SessionsTypeOK, Issued, TokenRows
<1>2. RootIssued'
  BY <1>1 DEF RootIssued, Fades
<1>3. OneLiveToken'
  BY DEF OneLiveToken, Fades, Live
<1> QED BY <1>2, <1>3

LEMMA ExchangeStays ==
    ASSUME BrowserInv, Fades, NEW w \in Workers, ExchangeOK(w), pc'[w] = pc[w], ctx'[w] = ctx[w]
    PROVE  ExchangeOK(w)'
<1> SUFFICES ASSUME Exchanges(w)', pc'[w] # "refresh.revoke" PROVE LiveOf(Exchanged(w))' = {}
  BY DEF ExchangeOK
<1>1. Exchanges(w) /\ pc[w] # "refresh.revoke" /\ Exchanged(w)' = Exchanged(w)
  BY DEF Exchanges, Exchanged
<1>2. Exchanged(w) \in Tokens /\ Issued(Exchanged(w))
  BY <1>1 DEF BrowserInv, HandlersOK, HandlerOK, Exchanges, Exchanged, Spent
<1>3. LiveOf(Exchanged(w)) = {}
  BY <1>1 DEF ExchangeOK
<1>4. LiveOf(Exchanged(w))' \subseteq LiveOf(Exchanged(w))
  BY <1>1, <1>2 DEF Fades, LiveOf, Live
<1> QED BY <1>3, <1>4


\* Nothing is issued, the tab keeps its token, and an error only comes when the session is over.
LEMMA TokensFade ==
    ASSUME BrowserInv, TokensAgree, Fades, UNCHANGED stored,
           \A w \in Workers : ExchangeOK(w)',
           \A q \in Calls : reply'[q] \in Tokens => reply'[q] = reply[q],
           \A q \in Calls : CallAt(q, "refreshing") /\ reply[q] \in Tokens =>
               CallAt(q, "refreshing")' /\ reply'[q] = reply[q],
           \A q \in Calls : reply'[q] = ERROR /\ CallAt(q, "refreshing")' =>
               stored # NULL /\ LiveOf(stored) = {}
    PROVE  TokensAgree'
<1>1. RootIssued' /\ OneLiveToken'
  BY RowsFade DEF TokensAgree
<1>2. stored \in Tokens \cup {NULL}
  BY DEF BrowserInv, BrowserTypeOK
<1>3. ASSUME stored # NULL
      PROVE  Issued(stored) /\ Issued(stored)' /\ LiveOf(stored)' \subseteq LiveOf(stored)
  BY <1>2, <1>3, SessionFades DEF TokensAgree, StoredOK, Fades
<1>4. StoredOK'
  <2> SUFFICES ASSUME stored # NULL
               PROVE  /\ Issued(stored)'
                      /\ \/ LiveOf(stored)' \subseteq {stored}
                         \/ \E q \in Calls : CallAt(q, "refreshing")' /\ reply'[q] \in Tokens
    BY DEF StoredOK
  <2>1. CASE LiveOf(stored) \subseteq {stored}
    BY <1>3, <2>1
  <2>2. ASSUME NEW q \in Calls, CallAt(q, "refreshing"), reply[q] \in Tokens
        PROVE  CallAt(q, "refreshing")' /\ reply'[q] \in Tokens
    BY <2>2
  <2> QED BY <1>3, <2>1, <2>2 DEF TokensAgree, StoredOK
<1>5. ASSUME NEW q \in Calls PROVE ReplyOK(q)'
  <2>1. ASSUME reply'[q] \in Tokens
        PROVE  Issued(reply[q])' /\ LiveOf(reply[q])' \subseteq {reply[q]}
    <3>1. reply'[q] = reply[q]
      BY <2>1
    <3>2. Issued(reply[q]) /\ LiveOf(reply[q]) \subseteq {reply[q]}
      BY <2>1, <3>1 DEF TokensAgree, ReplyOK
    <3>3. LiveOf(reply[q])' \subseteq LiveOf(reply[q])
      BY <2>1, <3>1, <3>2 DEF Fades, LiveOf, Live
    <3> QED BY <2>1, <3>1, <3>2, <3>3 DEF Fades, Issued
  <2>2. ASSUME reply'[q] = ERROR, CallAt(q, "refreshing")' PROVE LiveOf(stored)' = {}
    BY <1>3, <2>2
  <2>3. reply'[q] \in Tokens => reply'[q] = reply[q]
    OBVIOUS
  <2> QED BY <2>1, <2>2, <2>3 DEF ReplyOK, LiveOf, Issued
<1> QED BY <1>1, <1>4, <1>5 DEF TokensAgree

\* Nothing is said to the tab either.
LEMMA TokensStay ==
    ASSUME BrowserInv, OneAtATime, TokensAgree, Fades, UNCHANGED <<stored, reply>>,
           \A w \in Workers : ExchangeOK(w)',
           \A q \in Calls : CallAt(q, "refreshing")' <=> CallAt(q, "refreshing")
    PROVE  TokensAgree'
<1>1. \A q \in Calls : reply'[q] = ERROR /\ CallAt(q, "refreshing")' =>
          stored # NULL /\ LiveOf(stored) = {}
  BY DEF TokensAgree, ReplyOK, OneAtATime, CallOK, CallAt
<1> QED BY <1>1, TokensFade


\* The answer of a handler that issues nothing: an error, for a caller that still waits.
LEMMA TokensRefused ==
    ASSUME BrowserInv, OneAtATime, TokensAgree, NEW w \in Workers, Busy(w), Fades,
           Answer(w, ERROR), Return(w), UNCHANGED <<stored, call>>,
           Exchanges(w) => LiveOf(stored) = {}
    PROVE  TokensAgree'
<1> DEFINE q == ctx[w].caller
<1>1. /\ reply \in [Calls -> Tokens \cup {NULL, ERROR}]
      /\ q \in Calls \cup {NULL}
  BY DEF BrowserInv, BrowserTypeOK, SessionsTypeOK, HandlersOK, HandlerOK, Busy
<1>2. q # NULL => Waits(q) /\ CallAt(q, IF Exchanges(w) THEN "refreshing" ELSE "signing")
  BY DEF OneAtATime, WorkOK
<1>3. \A r \in Calls : IF r = q THEN reply'[r] = ERROR ELSE reply'[r] = reply[r]
  BY <1>1, NullAssumption DEF Answer
<1>4. \A x \in Workers : ExchangeOK(x)'
  <2>1. Moves(w) /\ pc'[w] = "idle"
    BY DEF BrowserInv, HandlersOK, Return, Moves, Labels
  <2>2. ExchangeOK(w)'
    BY <2>1 DEF ExchangeOK, Exchanges
  <2> QED BY <2>1, <2>2, ExchangeStays DEF Moves, TokensAgree
<1>5. \A r \in Calls : reply'[r] \in Tokens => reply'[r] = reply[r]
  BY <1>3, ErrorAssumption
<1>6. \A r \in Calls : CallAt(r, "refreshing") /\ reply[r] \in Tokens =>
          CallAt(r, "refreshing")' /\ reply'[r] = reply[r]
  BY <1>2, <1>3, NullAssumption DEF Waits, CallAt
<1>7. \A r \in Calls : reply'[r] = ERROR /\ CallAt(r, "refreshing")' =>
          stored # NULL /\ LiveOf(stored) = {}
  <2> SUFFICES ASSUME NEW r \in Calls, reply'[r] = ERROR, CallAt(r, "refreshing")
               PROVE  stored # NULL /\ LiveOf(stored) = {}
    BY DEF CallAt
  <2>1. stored # NULL
    BY DEF OneAtATime, CallOK, CallAt
  <2>2. CASE r = q
    BY <1>1, <1>2, <2>1, <2>2, NullAssumption DEF CallAt
  <2>3. CASE r # q
    BY <1>3, <2>1, <2>3 DEF TokensAgree, ReplyOK
  <2> QED BY <2>2, <2>3
<1> QED BY <1>4, <1>5, <1>6, <1>7, TokensFade

\* While an exchange is at work nothing is on its way to the tab.
LEMMA StoredLive ==
    ASSUME BrowserInv, OneAtATime, TokensAgree, NEW w \in Workers, Exchanges(w)
    PROVE  /\ stored \in Tokens /\ Issued(stored) /\ LiveOf(stored) \subseteq {stored}
           /\ Exchanged(w) = stored
<1>1. /\ ctx[w].caller \in Calls /\ CallAt(ctx[w].caller, "refreshing")
      /\ Waits(ctx[w].caller)
      /\ stored # NULL /\ Exchanged(w) = stored
  BY DEF OneAtATime, WorkOK
<1>2. ASSUME NEW q \in Calls, CallAt(q, "refreshing"), reply[q] \in Tokens PROVE FALSE
  <2>1. call[q] # Idle /\ call[ctx[w].caller] # Idle
    BY <1>1, <1>2 DEF CallAt, Idle
  <2>2. q = ctx[w].caller
    BY <1>1, <2>1 DEF OneAtATime
  <2> QED BY <1>1, <1>2, <2>2, NullAssumption DEF Waits
<1> QED BY <1>1, <1>2 DEF BrowserInv, BrowserTypeOK, TokensAgree, StoredOK

\* The handler writes for nobody to hear, and the exchanges stay true.
LEMMA TokensGoOn ==
    ASSUME BrowserInv, OneAtATime, TokensAgree, NEW w \in Workers, Fades, Moves(w),
           UNCHANGED <<stored, call, reply>>, ExchangeOK(w)'
    PROVE  TokensAgree'
<1>1. \A x \in Workers : ExchangeOK(x)'
  BY ExchangeStays DEF Moves, TokensAgree
<1> QED BY <1>1, TokensStay DEF CallAt

LEMMA TokensReturn ==
    ASSUME BrowserInv, OneAtATime, TokensAgree, NEW w \in Workers, Fades, Return(w),
           UNCHANGED <<stored, call, reply>>
    PROVE  TokensAgree'
<1>1. Moves(w) /\ pc'[w] = "idle"
  BY DEF BrowserInv, HandlersOK, Return, Moves, Labels
<1>2. ExchangeOK(w)'
  BY <1>1 DEF ExchangeOK, Exchanges
<1> QED BY <1>1, <1>2, TokensGoOn

LEMMA RefreshRevokeAgrees ==
    ASSUME BrowserInv, OneAtATime, TokensAgree, NEW w \in Workers, RefreshRevoke(w),
           UNCHANGED <<stored, call>>
    PROVE  TokensAgree'
<1>1. Exchanges(w) /\ Exchanged(w) = ctx[w].token
  BY DEF RefreshRevoke, At, Exchanges, Exchanged
<1>2. /\ stored \in Tokens /\ Issued(stored) /\ LiveOf(stored) \subseteq {stored}
      /\ ctx[w].token = stored
  BY <1>1, StoredLive
<1>3. Moves(w) /\ pc'[w] = "refresh.user" /\ ctx'[w] = ctx[w]
  BY GoesTo DEF RefreshRevoke, Labels
<1>4. Fades
  BY StepFades DEF SessionsStep, RefreshRevoke, IssueToken, At
<1>5. stored \notin Live'
  <2>1. token'[stored].state = "revoked"
    BY <1>2 DEF BrowserInv, BrowserTypeOK, SessionsTypeOK, RefreshRevoke, TokenRows, Issued
  <2> QED BY <2>1 DEF Live
<1>6. LiveOf(stored)' = {}
  BY <1>2, <1>4, <1>5, SessionFades DEF LiveOf
<1>7. ExchangeOK(w)'
  BY <1>2, <1>3, <1>6 DEF ExchangeOK, Exchanged, LiveOf
<1> QED BY <1>3, <1>4, <1>7, TokensGoOn DEF RefreshRevoke

LEMMA RefreshGoneAgrees ==
    ASSUME BrowserInv, OneAtATime, TokensAgree, NEW w \in Workers, RefreshGone(w),
           UNCHANGED <<stored, call>>
    PROVE  TokensAgree'
<1>1. Exchanges(w) /\ Exchanged(w) = ctx[w].token
  BY DEF RefreshGone, At, Exchanges, Exchanged
<1>2. /\ stored \in Tokens /\ Issued(stored) /\ LiveOf(stored) \subseteq {stored}
      /\ ctx[w].token = stored
  BY <1>1, StoredLive
<1>3. LiveOf(stored) = {}
  BY <1>2 DEF RefreshGone, LiveOf, Live
<1>4. Fades
  BY FadesUntouched DEF RefreshGone, accountVars
<1> QED BY <1>3, <1>4, TokensRefused DEF RefreshGone, Refuse, At, Busy

LEMMA RefreshUserAgrees ==
    ASSUME BrowserInv, OneAtATime, TokensAgree, NEW w \in Workers, RefreshUser(w),
           UNCHANGED <<stored, call>>
    PROVE  TokensAgree'
<1>1. /\ Exchanges(w) /\ Exchanged(w) = ctx[w].token
      /\ pc[w] = "refresh.user"
  BY DEF RefreshUser, At, Exchanges, Exchanged
<1>2. stored \in Tokens /\ ctx[w].token = stored
  BY <1>1, StoredLive
<1>3. LiveOf(stored) = {}
  BY <1>1, <1>2 DEF TokensAgree, ExchangeOK
<1>4. Fades
  BY FadesUntouched DEF RefreshUser, accountVars
<1>5. CASE account.status # "ACTIVE"
  BY <1>1, <1>3, <1>4, <1>5, TokensRefused DEF RefreshUser, Refuse, Busy
<1>6. CASE account.status = "ACTIVE"
  <2>1. /\ Moves(w) /\ pc'[w] = "token.issue"
        /\ ctx'[w] = [caller |-> ctx[w].caller, parent |-> ctx[w].token,
                      password |-> token[ctx[w].token].password]
        /\ UNCHANGED reply
    BY <1>6, EntersAt DEF RefreshUser, Labels
  <2>2. Exchanged(w)' = stored
    BY <1>2, <2>1 DEF Exchanged
  <2>3. LiveOf(stored)' \subseteq LiveOf(stored)
    BY <1>4 DEF RefreshUser, accountVars, LiveOf, Live, Issued
  <2>4. LiveOf(Exchanged(w))' = {}
    BY <1>3, <2>2, <2>3 DEF LiveOf
  <2>5. ExchangeOK(w)'
    BY <2>4 DEF ExchangeOK
  <2> QED BY <1>4, <2>1, <2>5, TokensGoOn
<1> QED BY <1>5, <1>6


\* A new token is the only live one of its session: the session is new, or has none left.
LEMMA IssueTokenAgrees ==
    ASSUME BrowserInv, OneAtATime, TokensAgree, NEW w \in Workers, IssueToken(w),
           UNCHANGED <<stored, call>>
    PROVE  TokensAgree'
<1> DEFINE c == ctx[w]
           q == ctx[w].caller
<1> PICK t \in Tokens :
          /\ At(w, "token.issue")
          /\ ~Issued(t)
          /\ token' = [token EXCEPT ![t] =
                [state |-> "live", parent |-> c.parent, password |-> c.password,
                 root |-> IF c.parent = NULL THEN t ELSE token[c.parent].root]]
          /\ Answer(w, t)
          /\ Return(w)
          /\ UNCHANGED <<account, reset>>
  BY DEF IssueToken
<1>1. /\ token \in [Tokens -> TokenRows \cup {NULL}]
      /\ reply \in [Calls -> Tokens \cup {NULL, ERROR}]
      /\ q \in Calls \cup {NULL} /\ Busy(w)
      /\ c.parent = NULL \/ Spent(c.parent)
      /\ Exchanges(w) <=> c.parent # NULL
      /\ Exchanges(w) => Exchanged(w) = c.parent
  BY DEF BrowserInv, BrowserTypeOK, SessionsTypeOK, HandlersOK, HandlerOK, At, Busy,
         Exchanges, Exchanged
<1>2. q # NULL => Waits(q) /\ CallAt(q, IF Exchanges(w) THEN "refreshing" ELSE "signing")
  BY <1>1 DEF OneAtATime, WorkOK
<1>3. /\ token'[t].root = IF c.parent = NULL THEN t ELSE token[c.parent].root
      /\ token'[t].state = "live" /\ Issued(t)'
  <2>1. token'[t] =
            [state |-> "live", parent |-> c.parent, password |-> c.password,
             root |-> IF c.parent = NULL THEN t ELSE token[c.parent].root]
    BY <1>1
  <2>2. c.password \in 0 .. MaxPasswords
    BY DEF BrowserInv, HandlersOK, HandlerOK, At
  <2>3. c.parent \in Tokens \cup {NULL} /\ (c.parent # NULL => token[c.parent].root \in Tokens)
    BY <1>1 DEF Spent, Issued, TokenRows
  <2>4. token'[t] \in TokenRows
    BY <2>1, <2>2, <2>3 DEF TokenRows
  <2>5. Issued(t)'
    BY <2>4, NullAssumption DEF Issued
  <2> QED BY <2>1, <2>5
<1>4. \A u \in Tokens \ {t} : token'[u] = token[u]
  BY <1>1
<1>5. Live' = Live \cup {t}
  BY <1>3, <1>4 DEF Live, Issued
<1>6. \A u \in Tokens : Issued(u) => /\ u # t /\ token[u].root \in Tokens
                                     /\ Issued(token[u].root) /\ token[u].root # t
  BY <1>1 DEF TokensAgree, RootIssued, Issued, TokenRows
<1>7. \A u \in Live : token[u].root # token'[t].root
  <2> SUFFICES ASSUME NEW u \in Live, token[u].root = token'[t].root PROVE FALSE
    OBVIOUS
  <2>1. CASE c.parent = NULL
    BY <1>3, <1>6, <2>1 DEF Live
  <2>2. CASE c.parent # NULL
    <3>1. LiveOf(c.parent) = {}
      BY <1>1, <2>2 DEF TokensAgree, ExchangeOK, At
    <3>2. u \in LiveOf(c.parent)
      BY <1>3, <2>2 DEF LiveOf
    <3> QED BY <3>1, <3>2
  <2> QED BY <2>1, <2>2
<1>8. RootIssued'
  <2>1. Issued(token[t].root)'
    BY <1>1, <1>3, <1>4, <1>6 DEF Spent, Issued
  <2>2. \A u \in Tokens \ {t} : Issued(u)' => Issued(token[u].root)'
    BY <1>4, <1>6 DEF Issued
  <2> QED BY <2>1, <2>2 DEF RootIssued, Issued
<1>9. OneLiveToken'
  <2> SUFFICES ASSUME NEW u \in Live', NEW v \in Live', token'[u].root = token'[v].root
               PROVE  u = v
    BY DEF OneLiveToken
  <2>1. CASE u # t /\ v # t
    BY <1>4, <1>5, <2>1 DEF TokensAgree, OneLiveToken, Live
  <2>2. CASE u = t \/ v = t
    BY <1>4, <1>5, <1>7, <2>2 DEF Live
  <2> QED BY <2>1, <2>2
<1>10. LiveOf(t)' = {t}
  BY <1>4, <1>5, <1>7, <1>6 DEF LiveOf, Live
<1>11. \A u \in Tokens : Issued(u) /\ token[u].root # token'[t].root => LiveOf(u)' \subseteq LiveOf(u)
  BY <1>4, <1>5, <1>6 DEF LiveOf, Live
<1>12. \A r \in Calls : IF r = q THEN reply'[r] = t ELSE reply'[r] = reply[r]
  BY <1>1, NullAssumption DEF Answer
<1>13. \A x \in Workers : ExchangeOK(x)'
  <2>1. Moves(w) /\ pc'[w] = "idle"
    BY DEF BrowserInv, HandlersOK, Return, Moves, Labels
  <2>2. ExchangeOK(w)'
    BY <2>1 DEF ExchangeOK, Exchanges
  <2>3. ASSUME NEW x \in Workers \ {w} PROVE ExchangeOK(x)'
    <3> SUFFICES ASSUME Exchanges(x)', pc'[x] # "refresh.revoke"
                 PROVE  LiveOf(Exchanged(x))' = {}
      BY DEF ExchangeOK
    <3>1. Exchanges(x) /\ pc[x] # "refresh.revoke" /\ Exchanged(x)' = Exchanged(x)
      BY <2>1 DEF Moves, Exchanges, Exchanged
    <3>2. ~Exchanges(w)
      BY <3>1 DEF OneAtATime
    <3>3. Exchanged(x) \in Tokens /\ Issued(Exchanged(x)) /\ LiveOf(Exchanged(x)) = {}
      BY <3>1, StoredLive DEF TokensAgree, ExchangeOK
    <3>4. token'[t].root = t
      BY <1>1, <1>3, <3>2
    <3>5. LiveOf(Exchanged(x))' \subseteq LiveOf(Exchanged(x))
      BY <1>6, <1>11, <3>1, <3>3, <3>4 DEF LiveOf, Live, Issued
    <3>6. LiveOf(Exchanged(x))' = {}
      BY <3>3, <3>5
    <3> QED BY <3>1, <3>6
  <2> QED BY <2>2, <2>3
<1>14. ASSUME ~Exchanges(w) PROVE StoredOK'
  <2>1. token'[t].root = t
    BY <1>1, <1>3, <1>14
  <2>2. stored \in Tokens \cup {NULL}
    BY DEF BrowserInv, BrowserTypeOK
  <2>3. stored # NULL => Issued(stored) /\ Issued(stored)' /\ LiveOf(stored)' \subseteq LiveOf(stored)
    BY <1>4, <1>6, <1>11, <2>1, <2>2 DEF TokensAgree, StoredOK, Issued
  <2>4. \A r \in Calls : CallAt(r, "refreshing") /\ reply[r] \in Tokens =>
            CallAt(r, "refreshing")' /\ reply'[r] \in Tokens
    BY <1>12 DEF CallAt
  <2>5. stored # NULL => \/ LiveOf(stored) \subseteq {stored}
                         \/ \E r \in Calls : CallAt(r, "refreshing") /\ reply[r] \in Tokens
    BY DEF TokensAgree, StoredOK
  <2>6. stored # NULL => \/ LiveOf(stored)' \subseteq {stored}
                         \/ \E r \in Calls : CallAt(r, "refreshing")' /\ reply'[r] \in Tokens
    BY <2>3, <2>4, <2>5
  <2> QED BY <2>3, <2>6 DEF StoredOK, LiveOf, Live, Issued, CallAt
<1>15. ASSUME Exchanges(w) PROVE StoredOK'
  <2> PICK r \in Calls : r = q /\ CallAt(r, "refreshing")
    BY <1>15 DEF OneAtATime, WorkOK
  <2>2. CallAt(r, "refreshing")' /\ reply'[r] \in Tokens
    BY <1>12 DEF CallAt
  <2>3. stored # NULL => Issued(stored)'
    BY <1>4, <1>6 DEF TokensAgree, StoredOK, BrowserInv, BrowserTypeOK, Issued
  <2> QED BY <2>2, <2>3 DEF StoredOK, CallAt, Issued
<1>16. ASSUME NEW r \in Calls PROVE ReplyOK(r)'
  <2>1. CASE r = q
    <3>1. reply'[r] = t
      BY <1>12, <2>1
    <3>2. LiveOf(reply[r])' \subseteq {t}
      BY <1>10, <3>1 DEF LiveOf
    <3> QED BY <1>3, <3>1, <3>2, ErrorAssumption DEF ReplyOK, LiveOf, Issued
  <2>2. CASE r # q /\ Exchanges(w)
    <3>1. q \in Calls /\ CallAt(q, "refreshing")
      BY <2>2 DEF OneAtATime, WorkOK
    <3>2. call[r] = Idle
      BY <2>2, <3>1 DEF OneAtATime, CallAt, Idle
    <3>3. reply[r] = NULL
      BY <3>2 DEF OneAtATime, CallOK, CallAt, Idle
    <3>4. reply'[r] = NULL
      BY <1>12, <2>2, <3>3
    <3> QED BY <3>4, NullAssumption, ErrorAssumption DEF ReplyOK
  <2>3. CASE r # q /\ ~Exchanges(w)
    <3>1. reply'[r] = reply[r] /\ token'[t].root = t
      BY <1>1, <1>3, <1>12, <2>3
    <3>2. ASSUME reply[r] \in Tokens
          PROVE  Issued(reply[r])' /\ LiveOf(reply[r])' \subseteq {reply[r]}
      <4>1. Issued(reply[r]) /\ LiveOf(reply[r]) \subseteq {reply[r]}
        BY <3>2 DEF TokensAgree, ReplyOK
      <4>2. LiveOf(reply[r])' \subseteq LiveOf(reply[r])
        BY <1>6, <1>11, <3>1, <3>2, <4>1 DEF LiveOf
      <4> QED BY <1>4, <1>6, <3>1, <3>2, <4>1, <4>2 DEF Issued, LiveOf
    <3>3. ASSUME reply[r] = ERROR, CallAt(r, "refreshing") PROVE LiveOf(stored)' = {}
      <4>1. LiveOf(stored) = {} /\ stored # NULL
        BY <3>3 DEF TokensAgree, ReplyOK, OneAtATime, CallOK, CallAt
      <4>2. stored \in Tokens /\ Issued(stored)
        BY <4>1 DEF TokensAgree, StoredOK, BrowserInv, BrowserTypeOK
      <4>3. LiveOf(stored)' \subseteq LiveOf(stored)
        BY <1>6, <1>11, <3>1, <4>2 DEF LiveOf
      <4> QED BY <4>1, <4>3
    <3> QED BY <3>1, <3>2, <3>3 DEF ReplyOK, CallAt, LiveOf, Live, Issued
  <2> QED BY <2>1, <2>2, <2>3
<1> QED BY <1>8, <1>9, <1>13, <1>14, <1>15, <1>16 DEF TokensAgree


LEMMA TokensOfStep ==
    ASSUME BrowserInv, OneAtATime, TokensAgree, NEW w \in Workers, SessionsStep(w),
           UNCHANGED <<stored, call>>
    PROVE  TokensAgree'
<1>1. ~IssueToken(w) => Fades
  BY StepFades
<1>2. CASE RegisterCreate(w) \/ LoginReset(w)
  <2>1. Moves(w) /\ pc'[w] = "token.issue" /\ ctx'[w].parent = NULL /\ UNCHANGED reply
    BY <1>2, EntersAt DEF RegisterCreate, LoginReset, Labels
  <2>2. ExchangeOK(w)'
    BY <2>1 DEF ExchangeOK, Exchanges
  <2>3. ~IssueToken(w)
    BY <1>2 DEF RegisterCreate, LoginReset, IssueToken, At
  <2> QED BY <1>1, <2>1, <2>2, <2>3, TokensGoOn
<1>3. CASE RegisterTaken(w) \/ LoginFail(w)
  <2>1. Busy(w) /\ ~Exchanges(w) /\ ~IssueToken(w)
    BY <1>3 DEF RegisterTaken, LoginFail, IssueToken, At, Busy, Exchanges
  <2>2. Answer(w, ERROR) /\ Return(w)
    BY <1>3 DEF RegisterTaken, LoginFail, Refuse
  <2> QED BY <1>1, <2>1, <2>2, TokensRefused
<1>4. CASE ResetWrite(w) \/ ResetGone(w) \/ ChangePassword(w) \/ StatusRevoke(w)
  <2>1. Return(w) /\ UNCHANGED reply /\ ~IssueToken(w)
    BY <1>4 DEF ResetWrite, ResetGone, ChangePassword, StatusRevoke, IssueToken, At
  <2> QED BY <1>1, <2>1, TokensReturn
<1> QED BY <1>2, <1>3, <1>4, IssueTokenAgrees, RefreshRevokeAgrees, RefreshGoneAgrees,
           RefreshUserAgrees
        DEF SessionsStep

LEMMA TokensElsewhere ==
    ASSUME BrowserInv, OneAtATime, TokensAgree, schedule = "alone", Quiet, Elsewhere,
           UNCHANGED <<stored, call>>
    PROVE  TokensAgree'
<1>1. Fades /\ UNCHANGED reply /\ \A x \in Workers : ~Exchanges(x)'
  BY ElsewhereFades, ElsewhereBegins, BeginsNoExchange
<1>2. \A x \in Workers : ExchangeOK(x)'
  BY <1>1 DEF ExchangeOK
<1> QED BY <1>1, <1>2, TokensStay DEF CallAt

\* The tab asks.
LEMMA TokensAsked ==
    ASSUME BrowserInv, OneAtATime, TokensAgree, NEW w \in Workers, NEW q \in Calls,
           SignUp(w, q) \/ SignIn(w, q) \/ TakeRefresh(w, q)
    PROVE  TokensAgree'
<1>0. /\ call \in [Calls -> [step : {"idle", "signing", "unauthorized", "posted", "refreshing"},
                             token : Tokens \cup {NULL}]]
      /\ reply \in [Calls -> Tokens \cup {NULL, ERROR}]
  BY DEF BrowserInv, BrowserTypeOK, SessionsTypeOK
<1>1. UNCHANGED <<token, stored>> /\ Fades
  BY FadesUntouched
  DEF SignUp, SignIn, TakeRefresh, RequestRegister, RequestLogin, RequestRefresh, Reject,
      storeVars, accountVars
<1>2. \A x \in Workers : ExchangeOK(x)'
  <2>1. CASE UNCHANGED <<pc, ctx>>
    BY <1>1, <2>1, ExchangeStays DEF TokensAgree
  <2>2. ASSUME NEW label \in Labels \ {"refresh.user", "token.issue"}, NEW locals,
               Begin(w, label, locals)
        PROVE  \A x \in Workers : ExchangeOK(x)'
    <3>1. Moves(w) /\ pc'[w] = label
      BY <2>2, EntersAt
    <3>2. ExchangeOK(w)'
      BY <3>1 DEF ExchangeOK, Exchanges
    <3> QED BY <1>1, <3>1, <3>2, ExchangeStays DEF Moves, TokensAgree
  <2>3. CASE Reject(q)
    BY <2>1, <2>3 DEF Reject, handlerVars
  <2>4. CASE SignUp(w, q)
    BY <2>2, <2>4 DEF SignUp, RequestRegister, Labels
  <2>5. CASE SignIn(w, q) /\ ~Reject(q)
    BY <2>2, <2>5 DEF SignIn, RequestLogin, Labels
  <2>6. CASE TakeRefresh(w, q) /\ ~Reject(q)
    BY <2>2, <2>6 DEF TakeRefresh, RequestRefresh, Labels
  <2> QED BY <2>3, <2>4, <2>5, <2>6
<1>3. reply[q] = NULL /\ ~CallAt(q, "refreshing")
  BY DEF SignUp, SignIn, TakeRefresh, Free, CallAt, OneAtATime, CallOK
<1>4. /\ \A r \in Calls \ {q} : reply'[r] = reply[r] /\ call'[r] = call[r]
      /\ reply'[q] \in {NULL, ERROR}
  BY <1>0, <1>3
  DEF SignUp, SignIn, TakeRefresh, RequestRegister, RequestLogin, RequestRefresh, Reject
<1>5. \A r \in Calls : reply'[r] \in Tokens => reply'[r] = reply[r]
  BY <1>4, NullAssumption, ErrorAssumption
<1>6. \A r \in Calls : CallAt(r, "refreshing") /\ reply[r] \in Tokens =>
          CallAt(r, "refreshing")' /\ reply'[r] = reply[r]
  BY <1>3, <1>4 DEF CallAt
<1>7. \A r \in Calls : reply'[r] = ERROR /\ CallAt(r, "refreshing")' =>
          stored # NULL /\ LiveOf(stored) = {}
  <2> SUFFICES ASSUME NEW r \in Calls, reply'[r] = ERROR, call'[r].step = "refreshing"
               PROVE  stored # NULL /\ LiveOf(stored) = {}
    BY DEF CallAt
  <2>1. CASE r # q
    BY <1>4, <2>1 DEF TokensAgree, ReplyOK, OneAtATime, CallOK, CallAt
  <2>2. CASE r = q
    <3>0. ASSUME call' = [call EXCEPT ![q] = [step |-> "signing", token |-> NULL]]
          PROVE  call'[q].step = "signing"
      BY <1>0, <3>0
    <3>1. TakeRefresh(w, q)
      BY <2>2, <3>0 DEF SignUp, SignIn
    <3>2. stored # NULL /\ call[q].token = stored
      BY <3>1 DEF TakeRefresh, OneAtATime, CallOK, CallAt
    <3>3. reply'[q] # reply[q]
      BY <1>3, <2>2, ErrorAssumption
    <3>4. stored \notin Live
      BY <3>1, <3>2, <3>3 DEF TakeRefresh, RequestRefresh
    <3>5. call[q] # Idle
      BY <3>1 DEF TakeRefresh, CallAt, Idle
    <3>6. \A s \in Calls : ~CallAt(s, "refreshing")
      BY <1>3, <3>5 DEF OneAtATime, CallAt, Idle
    <3>7. LiveOf(stored) \subseteq {stored}
      BY <3>2, <3>6 DEF TokensAgree, StoredOK
    <3> QED BY <3>2, <3>4, <3>7 DEF LiveOf
  <2> QED BY <2>1, <2>2
<1> QED BY <1>1, <1>2, <1>5, <1>6, <1>7, TokensFade


\* The tab moves on.
LEMMA TokensOfTab ==
    ASSUME BrowserInv, OneAtATime, TokensAgree, NEW q \in Calls, BrowserStep(q)
    PROVE  TokensAgree'
<1>0. /\ call \in [Calls -> [step : {"idle", "signing", "unauthorized", "posted", "refreshing"},
                             token : Tokens \cup {NULL}]]
      /\ reply \in [Calls -> Tokens \cup {NULL, ERROR}]
  BY DEF BrowserInv, BrowserTypeOK, SessionsTypeOK
<1>1. UNCHANGED <<token, pc, ctx>> /\ Fades
  BY FadesUntouched
  DEF BrowserStep, Unauthorized, PostRefresh, ReceiveTokens, ReceiveError, sessionsVars,
      accountVars, handlerVars
<1>2. \A x \in Workers : ExchangeOK(x)'
  BY <1>1, ExchangeStays DEF TokensAgree
<1>3. CASE Unauthorized(q) \/ PostRefresh(q)
  <2>1. UNCHANGED <<stored, reply>>
    BY <1>3 DEF Unauthorized, PostRefresh, storeVars, sessionsVars
  <2>2. \A r \in Calls : CallAt(r, "refreshing")' <=> CallAt(r, "refreshing")
    BY <1>0, <1>3 DEF Unauthorized, PostRefresh, Free, CallAt, Idle
  <2> QED BY <1>1, <1>2, <2>1, <2>2, TokensStay
<1>4. CASE ReceiveTokens(q) \/ ReceiveError(q)
  <2>1. /\ reply[q] # NULL
        /\ reply' = [reply EXCEPT ![q] = NULL] /\ call' = [call EXCEPT ![q] = Idle]
    BY <1>4, NullAssumption, ErrorAssumption DEF ReceiveTokens, ReceiveError
  <2>2. call[q] # Idle
    BY <2>1 DEF OneAtATime, CallOK, CallAt, Idle
  <2>3. \A r \in Calls \ {q} : call[r] = Idle /\ reply[r] = NULL
    BY <2>2, OthersIdle DEF OneAtATime, CallOK, CallAt, Idle
  <2>4. \A r \in Calls : call'[r] = Idle /\ reply'[r] = NULL
    BY <1>0, <2>1, <2>3
  <2>5. \A r \in Calls : ReplyOK(r)'
    BY <2>4, NullAssumption, ErrorAssumption DEF ReplyOK
  <2>6. RootIssued' /\ OneLiveToken'
    BY <1>1, RowsFade DEF TokensAgree
  <2>7. CASE ReceiveTokens(q)
    <3>1. Issued(reply[q]) /\ LiveOf(reply[q]) \subseteq {reply[q]}
      BY <2>7 DEF ReceiveTokens, TokensAgree, ReplyOK
    <3>2. stored' = reply[q] /\ UNCHANGED token
      BY <1>1, <2>7 DEF ReceiveTokens, SetTokens
    <3>3. LiveOf(stored)' \subseteq {stored'}
      BY <3>1, <3>2 DEF LiveOf, Live, Issued
    <3>4. StoredOK'
      BY <3>1, <3>2, <3>3 DEF StoredOK, Issued
    <3> QED BY <1>2, <2>5, <2>6, <3>4 DEF TokensAgree
  <2>8. CASE ReceiveError(q) /\ CallAt(q, "refreshing")
    <3>1. stored' = NULL
      BY <2>8 DEF ReceiveError, ClearTokens
    <3>2. StoredOK'
      BY <3>1 DEF StoredOK
    <3> QED BY <1>2, <2>5, <2>6, <3>2 DEF TokensAgree
  <2>9. CASE ReceiveError(q) /\ ~CallAt(q, "refreshing")
    <3>1. UNCHANGED stored
      BY <2>9 DEF ReceiveError
    <3>2. \A r \in Calls : ~CallAt(r, "refreshing")
      BY <2>3, <2>9 DEF CallAt, Idle
    <3> QED BY <1>1, <1>2, <2>4, <3>1, <3>2, TokensFade, NullAssumption, ErrorAssumption
  <2> QED BY <1>4, <2>7, <2>8, <2>9
<1> QED BY <1>3, <1>4 DEF BrowserStep

LEMMA TokensSignOut ==
    ASSUME BrowserInv, OneAtATime, TokensAgree, SignOut PROVE TokensAgree'
<1>1. UNCHANGED <<token, pc, ctx, reply>> /\ Fades /\ stored' = NULL
  BY FadesUntouched DEF SignOut, ClearTokens, sessionsVars, accountVars, handlerVars
<1>2. \A x \in Workers : ExchangeOK(x)'
  BY <1>1, ExchangeStays DEF TokensAgree
<1>3. RootIssued' /\ OneLiveToken'
  BY <1>1, RowsFade DEF TokensAgree
<1>4. \A q \in Calls : reply'[q] = NULL
  BY <1>1 DEF SignOut, NoCall, OneAtATime, CallOK, CallAt, Idle
<1>5. \A q \in Calls : ReplyOK(q)'
  BY <1>4, NullAssumption, ErrorAssumption DEF ReplyOK
<1> QED BY <1>1, <1>2, <1>3, <1>5 DEF TokensAgree, StoredOK

LEMMA TokensStep ==
    ASSUME BrowserInv, OneAtATime, TokensAgree, schedule = "alone", AloneNext PROVE TokensAgree'
<1>1. CASE AccessExpires \/ UNCHANGED browserVars
  <2>1. UNCHANGED <<token, pc, ctx, reply, stored, call>> /\ Fades
    BY <1>1, FadesUntouched
    DEF AccessExpires, browserVars, sessionsVars, accountVars, handlerVars, storeVars
  <2>2. \A x \in Workers : ExchangeOK(x)'
    BY <2>1, ExchangeStays DEF TokensAgree
  <2> QED BY <2>1, <2>2, TokensStay DEF CallAt
<1> QED BY <1>1, TokensAsked, TokensOfTab, TokensSignOut, TokensOfStep, TokensElsewhere
        DEF AloneNext


-----------------------------------------------------------------------------
(* The account                                                             *)

LEMMA FadesLive == Fades => Live' \subseteq Live
  BY DEF Fades, Live

\* Nobody writes the account, and nobody moves.
LEMMA AccountStays ==
    ASSUME AccountAgrees, UNCHANGED <<account, pc>>, Fades PROVE AccountAgrees'
  BY FadesLive DEF AccountAgrees, LoginOK, Registered

\* Handler w leaves the account alone.
LEMMA AccountRead ==
    ASSUME AccountAgrees, NEW w \in Workers, Moves(w), UNCHANGED account, LoginOK(w)',
           Live' \subseteq Live \/ account.status # "BLOCKED",
           pc[w] = "status.revoke" => Live' = {}
    PROVE  AccountAgrees'
<1>1. \A x \in Workers : LoginOK(x)'
  BY DEF AccountAgrees, LoginOK, Moves
<1>2. ASSUME Registered, account.status = "BLOCKED"
      PROVE  Live' = {} \/ \E x \in Workers : pc'[x] = "status.revoke"
  <2>1. CASE Live = {}
    BY <1>2, <2>1
  <2>2. ASSUME NEW x \in Workers, pc[x] = "status.revoke"
        PROVE  Live' = {} \/ pc'[x] = "status.revoke"
    BY <2>2 DEF Moves
  <2> QED BY <1>2, <2>1, <2>2 DEF AccountAgrees
<1> QED BY <1>1, <1>2 DEF AccountAgrees, Registered

\* Handler w writes the account, but not its status, while no other handler does.
LEMMA AccountWritten ==
    ASSUME OneAtATime, AccountAgrees, NEW w \in Workers, Moves(w), Busy(w), ~Exchanges(w),
           pc[w] # "status.revoke", Registered, account'.status = account.status, Fades, LoginOK(w)'
    PROVE  AccountAgrees'
<1>1. ASSUME NEW x \in Workers \ {w} PROVE LoginOK(x)'
  <2>1. pc'[x] = pc[x]
    BY DEF Moves
  <2>2. pc[x] \notin {"login.fail", "login.reset"}
    BY DEF OneAtATime, Busy, Exchanges
  <2> QED BY <2>1, <2>2 DEF AccountAgrees, LoginOK
<1>2. ASSUME account.status = "BLOCKED"
      PROVE  Live' = {} \/ \E x \in Workers : pc'[x] = "status.revoke"
  <2>1. CASE Live = {}
    BY <2>1, FadesLive
  <2>2. ASSUME NEW x \in Workers, pc[x] = "status.revoke" PROVE pc'[x] = "status.revoke"
    BY <2>2 DEF Moves
  <2> QED BY <1>2, <2>1, <2>2 DEF AccountAgrees
<1> QED BY <1>1, <1>2 DEF AccountAgrees

LEMMA AccountOfStep ==
    ASSUME BrowserInv, OneAtATime, AccountAgrees, NEW w \in Workers, SessionsStep(w)
    PROVE  AccountAgrees'
<1>0. Moves(w)
  BY SessionsStepSound DEF Sound
<1>1. ~IssueToken(w) => Fades
  BY StepFades
<1>2. CASE IssueToken(w)
  <2>1. account.status = "ACTIVE" /\ pc[w] = "token.issue"
    BY <1>2 DEF IssueToken, At, AccountAgrees, LoginOK
  <2>2. UNCHANGED account /\ LoginOK(w)'
    <3>1. pc'[w] = "idle"
      BY <1>2 DEF BrowserInv, HandlersOK, IssueToken, Return
    <3> QED BY <1>2, <3>1 DEF IssueToken, LoginOK
  <2> QED BY <1>0, <2>1, <2>2, AccountRead
<1>3. CASE RegisterTaken(w) \/ ResetGone(w) \/ RefreshGone(w)
  <2>1. UNCHANGED account /\ pc'[w] = "idle" /\ pc[w] # "status.revoke" /\ ~IssueToken(w)
    BY <1>3 DEF BrowserInv, HandlersOK, RegisterTaken, ResetGone, RefreshGone, Refuse, Return,
                IssueToken, At, accountVars
  <2>2. LoginOK(w)'
    BY <2>1 DEF LoginOK
  <2> QED BY <1>0, <1>1, <2>1, <2>2, AccountRead, FadesLive
<1>4. CASE RefreshRevoke(w)
  <2>1. /\ UNCHANGED account /\ pc'[w] = "refresh.user" /\ pc[w] # "status.revoke"
        /\ ~IssueToken(w)
    BY <1>4 DEF BrowserInv, HandlersOK, RefreshRevoke, Goto, IssueToken, At
  <2>2. LoginOK(w)'
    BY <2>1 DEF LoginOK
  <2> QED BY <1>0, <1>1, <2>1, <2>2, AccountRead, FadesLive
<1>5. CASE RefreshUser(w)
  <2>1. /\ UNCHANGED account /\ pc[w] # "status.revoke" /\ ~IssueToken(w)
        /\ \/ pc'[w] = "idle"
           \/ pc'[w] = "token.issue" /\ account.status = "ACTIVE"
    BY <1>5 DEF BrowserInv, HandlersOK, RefreshUser, GotoWith, Refuse, Return, IssueToken, At,
                accountVars
  <2>2. LoginOK(w)'
    BY <2>1 DEF LoginOK
  <2> QED BY <1>0, <1>1, <2>1, <2>2, AccountRead, FadesLive
<1>6. CASE StatusRevoke(w)
  <2>1. UNCHANGED account /\ pc'[w] = "idle" /\ Live' = {}
    BY <1>6, RevokedFades DEF BrowserInv, HandlersOK, StatusRevoke, Return
  <2>2. LoginOK(w)'
    BY <2>1 DEF LoginOK
  <2> QED BY <1>0, <2>1, <2>2, AccountRead
<1>7. CASE RegisterCreate(w)
  <2>1. /\ account'.status = "ACTIVE" /\ account'.lockedUntil = "none"
        /\ ~Registered /\ pc'[w] = "token.issue"
    BY <1>7 DEF BrowserInv, HandlersOK, RegisterCreate, GotoWith
  <2>2. \A x \in Workers \ {w} : pc'[x] \in {"idle", "register.create"}
    BY <1>0, <2>1 DEF BrowserInv, HandlersOK, HandlerOK, Moves
  <2> QED BY <2>1, <2>2 DEF AccountAgrees, LoginOK
<1>8. CASE LoginFail(w) \/ ResetWrite(w) \/ ChangePassword(w)
  <2>1. /\ pc[w] \in {"login.fail", "reset.write", "password.write"} /\ pc'[w] = "idle"
        /\ ~IssueToken(w)
    BY <1>8 DEF BrowserInv, HandlersOK, LoginFail, ResetWrite, ChangePassword, Refuse, Return,
                IssueToken, At
  <2>2. Registered /\ account \in AccountRows
    BY <2>1 DEF BrowserInv, BrowserTypeOK, SessionsTypeOK, HandlersOK, HandlerOK, Registered
  <2>3. account'.status = account.status
    BY <1>8, <2>2 DEF LoginFail, ResetWrite, ChangePassword, AccountRows
  <2>4. LoginOK(w)' /\ Busy(w) /\ ~Exchanges(w)
    BY <2>1 DEF LoginOK, Busy, Exchanges
  <2> QED BY <1>0, <1>1, <2>1, <2>2, <2>3, <2>4, AccountWritten
<1>9. CASE LoginReset(w)
  <2>1. pc[w] = "login.reset" /\ pc'[w] = "token.issue" /\ ~IssueToken(w)
    BY <1>9 DEF BrowserInv, HandlersOK, LoginReset, GotoWith, IssueToken, At
  <2>2. Registered /\ account \in AccountRows /\ account.status = "ACTIVE"
    BY <2>1 DEF BrowserInv, BrowserTypeOK, SessionsTypeOK, HandlersOK, HandlerOK, Registered,
                AccountAgrees, LoginOK
  <2>3. account'.status = account.status
    BY <1>9, <2>2 DEF LoginReset, AccountRows
  <2>4. LoginOK(w)' /\ Busy(w) /\ ~Exchanges(w)
    BY <2>1, <2>2, <2>3 DEF LoginOK, Busy, Exchanges
  <2> QED BY <1>0, <1>1, <2>1, <2>2, <2>3, <2>4, AccountWritten
<1> QED BY <1>2, <1>3, <1>4, <1>5, <1>6, <1>7, <1>8, <1>9 DEF SessionsStep

\* A login is only begun when the account is open.
LEMMA AccountOfRequest ==
    ASSUME BrowserInv, AccountAgrees, NEW w \in Workers, NEW caller \in Calls \cup {NULL},
           RequestRegister(w, caller) \/ \E valid \in BOOLEAN : RequestLogin(w, valid, caller)
    PROVE  AccountAgrees'
<1>1. UNCHANGED <<account, token>> /\ Fades
  BY FadesUntouched DEF RequestRegister, RequestLogin, Reject, accountVars
<1>2. CASE UNCHANGED handlerVars
  BY <1>1, <1>2, AccountStays DEF handlerVars
<1>3. ASSUME NEW label \in {"register.create", "login.reset", "login.fail"}, NEW locals,
             Begin(w, label, locals),
             label # "register.create" => account.lockedUntil # "future" /\ account.status = "ACTIVE"
      PROVE  AccountAgrees'
  <2>1. Moves(w) /\ pc'[w] = label /\ pc[w] = "idle"
    BY <1>3, EntersAt DEF Labels, Begin
  <2>2. LoginOK(w)'
    BY <1>1, <1>3, <2>1 DEF LoginOK
  <2> QED BY <1>1, <2>1, <2>2, AccountRead, FadesLive
<1>4. CASE RequestRegister(w, caller)
  BY <1>3, <1>4 DEF RequestRegister
<1>5. ASSUME NEW valid \in BOOLEAN, RequestLogin(w, valid, caller), ~Reject(caller)
      PROVE  AccountAgrees'
  BY <1>3, <1>5 DEF RequestLogin
<1> QED BY <1>2, <1>4, <1>5 DEF Reject

LEMMA AccountElsewhere ==
    ASSUME BrowserInv, OneAtATime, AccountAgrees, schedule = "alone", Quiet, Elsewhere
    PROVE  AccountAgrees'
<1>1. Fades /\ BeginsAlone
  BY ElsewhereFades, ElsewhereBegins
<1>2. ASSUME NEW w \in Workers, NEW status \in UserStatuses, SetStatus(w, status)
      PROVE  AccountAgrees'
  <2>1. account \in AccountRows
    BY <1>2 DEF BrowserInv, BrowserTypeOK, SessionsTypeOK, SetStatus, Registered
  <2>2. account'.status = status
    BY <1>2, <2>1 DEF SetStatus, AccountRows
  <2>3. CASE status = "ACTIVE"
    <3>1. \A x \in Workers : pc'[x] = "idle"
      BY <1>2, <2>3 DEF SetStatus, handlerVars, Quiet
    <3> QED BY <2>2, <2>3, <3>1 DEF AccountAgrees, LoginOK
  <2>4. CASE status # "ACTIVE"
    <3>1. Moves(w) /\ pc'[w] = "status.revoke"
      BY <1>2, <2>4, EntersAt DEF SetStatus, Labels
    <3>2. \A x \in Workers \ {w} : pc'[x] = "idle"
      BY <3>1 DEF Moves, Quiet
    <3> QED BY <3>1, <3>2 DEF AccountAgrees, LoginOK
  <2> QED BY <2>3, <2>4
<1>3. ASSUME NEW w \in Workers, AccountRequest(w) PROVE AccountAgrees'
  BY <1>2, <1>3, AccountOfRequest DEF AccountRequest
<1>4. ASSUME NEW w \in Workers, RequestChange(w) \/ \E r \in Resets : RequestReset(w, r)
      PROVE  AccountAgrees'
  <2>1. Moves(w) /\ pc'[w] \in {"password.write", "reset.write"} /\ UNCHANGED account
    BY <1>4, EntersAt DEF RequestChange, RequestReset, Labels, accountVars
  <2>2. LoginOK(w)' /\ pc[w] # "status.revoke"
    BY <2>1 DEF LoginOK, Quiet
  <2> QED BY <1>1, <2>1, <2>2, AccountRead, FadesLive
<1>5. ASSUME \A x \in Workers : pc'[x] = "idle",
             \/ account'.status = "INACTIVE"
             \/ Registered /\ account'.status = account.status
      PROVE  AccountAgrees'
  BY <1>1, <1>5, FadesLive DEF AccountAgrees, LoginOK, Quiet
<1>6. CASE Deactivate \/ LockElapses
  <2>1. account \in AccountRows /\ Registered
    BY <1>6 DEF BrowserInv, BrowserTypeOK, SessionsTypeOK, Deactivate, LockElapses, Registered
  <2>2. \A x \in Workers : pc'[x] = "idle"
    BY <1>6 DEF Deactivate, LockElapses, handlerVars, Quiet
  <2>3. account'.status = "INACTIVE" \/ account'.status = account.status
    BY <1>6, <2>1 DEF Deactivate, LockElapses, AccountRows
  <2> QED BY <1>5, <2>1, <2>2, <2>3
<1>7. CASE UNCHANGED <<account, pc>>
  BY <1>1, <1>7, AccountStays
<1> QED
  BY <1>3, <1>4, <1>6, <1>7
  DEF Elsewhere, PasswordRequest, ForgotPassword, Logout, LogoutAll, SessionsTime, CleanupRefresh,
      CleanupReset, TokenExpires, ResetExpires, handlerVars

LEMMA AccountStep ==
    ASSUME BrowserInv, OneAtATime, AccountAgrees, schedule = "alone", AloneNext
    PROVE  AccountAgrees'
<1>1. ASSUME UNCHANGED <<account, pc, token>> PROVE AccountAgrees'
  BY <1>1, AccountStays, FadesUntouched
<1>2. CASE AccessExpires \/ SignOut \/ UNCHANGED browserVars
  BY <1>1, <1>2 DEF AccessExpires, SignOut, browserVars, sessionsVars, accountVars, handlerVars
<1>3. ASSUME NEW q \in Calls, BrowserStep(q) PROVE AccountAgrees'
  BY <1>1, <1>3 DEF BrowserStep, Unauthorized, PostRefresh, ReceiveTokens, ReceiveError,
                    sessionsVars, accountVars, handlerVars
<1>4. ASSUME NEW w \in Workers, NEW q \in Calls, SignUp(w, q) \/ SignIn(w, q)
      PROVE  AccountAgrees'
  BY <1>4, AccountOfRequest DEF SignUp, SignIn
<1>5. ASSUME NEW w \in Workers, NEW q \in Calls, TakeRefresh(w, q) PROVE AccountAgrees'
  <2>1. UNCHANGED <<account, token>> /\ Fades
    BY <1>5, FadesUntouched DEF TakeRefresh, RequestRefresh, Reject, accountVars
  <2>2. CASE Reject(q)
    BY <1>1, <2>2 DEF Reject, accountVars, handlerVars
  <2>3. CASE ~Reject(q)
    <3>1. Begin(w, "refresh.revoke", [caller |-> q, token |-> call[q].token])
      BY <1>5, <2>3 DEF TakeRefresh, RequestRefresh
    <3>2. Moves(w) /\ pc'[w] = "refresh.revoke"
      BY <3>1, EntersAt DEF Labels
    <3>3. LoginOK(w)' /\ pc[w] = "idle"
      BY <3>1, <3>2 DEF LoginOK, Begin
    <3> QED BY <2>1, <3>2, <3>3, AccountRead, FadesLive
  <2> QED BY <2>2, <2>3
<1> QED BY <1>2, <1>3, <1>4, <1>5, AccountOfStep, AccountElsewhere DEF AloneNext


-----------------------------------------------------------------------------
(* The tab is closed                                                       *)

\* Nobody works for the tab, and it is told nothing.
ClosedServer ==
    /\ UNCHANGED reply
    /\ \A x \in Workers : Busy(x)' => ctx'[x].caller = NULL

LEMMA ClosedBegins ==
    ASSUME BrowserInv, Closed, NEW w \in Workers, NEW label \in Labels, NEW locals,
           locals.caller = NULL,
           Begin(w, label, locals) \/ GotoWith(w, label, locals), UNCHANGED reply
    PROVE  ClosedServer
<1>1. Moves(w) /\ ctx'[w] = locals
  BY EntersAt
<1> QED BY <1>1 DEF ClosedServer, Closed, Moves, Busy

LEMMA ClosedEnds ==
    ASSUME BrowserInv, Closed, NEW w \in Workers, Return(w) \/ Die(w), UNCHANGED reply
    PROVE  ClosedServer
<1>1. Moves(w) /\ pc'[w] = "idle"
  BY DEF BrowserInv, HandlersOK, Return, Die, Moves, Labels
<1> QED BY <1>1 DEF ClosedServer, Closed, Moves, Busy

LEMMA ClosedAnswers ==
    ASSUME Closed, NEW w \in Workers, Busy(w), NEW answer, Answer(w, answer)
    PROVE  UNCHANGED reply
  BY DEF Closed, Answer

LEMMA ClosedOfStep ==
    ASSUME BrowserInv, Closed, NEW w \in Workers, SessionsStep(w) \/ SessionsDie(w)
    PROVE  ClosedServer
<1>1. ASSUME Busy(w) PROVE ctx[w].caller = NULL
  BY <1>1 DEF Closed
<1>2. CASE IssueToken(w) \/ RegisterTaken(w) \/ LoginFail(w) \/ RefreshGone(w) \/ SessionsDie(w)
  <2>1. Busy(w) /\ (Return(w) \/ Die(w)) /\ \E answer : Answer(w, answer)
    BY <1>2 DEF IssueToken, RegisterTaken, LoginFail, RefreshGone, SessionsDie, Die, Refuse, At, Busy
  <2> QED BY <2>1, ClosedAnswers, ClosedEnds
<1>3. CASE ResetWrite(w) \/ ResetGone(w) \/ ChangePassword(w) \/ StatusRevoke(w)
  BY <1>3, ClosedEnds DEF ResetWrite, ResetGone, ChangePassword, StatusRevoke
<1>4. CASE RegisterCreate(w) \/ LoginReset(w)
  <2>1. ctx[w].caller = NULL
    BY <1>1, <1>4 DEF RegisterCreate, LoginReset, At, Busy
  <2> QED BY <1>4, <2>1, ClosedBegins DEF RegisterCreate, LoginReset, Labels
<1>5. CASE RefreshRevoke(w)
  <2>1. /\ Moves(w) /\ ctx'[w] = ctx[w] /\ UNCHANGED reply
        /\ ctx[w].caller = NULL
    BY <1>1, <1>5, GoesTo DEF RefreshRevoke, Labels, At, Busy
  <2> QED BY <2>1 DEF ClosedServer, Closed, Moves, Busy
<1>6. CASE RefreshUser(w)
  <2>1. ctx[w].caller = NULL /\ Busy(w)
    BY <1>1, <1>6 DEF RefreshUser, At, Busy
  <2>2. CASE account.status # "ACTIVE"
    BY <1>6, <2>1, <2>2, ClosedAnswers, ClosedEnds DEF RefreshUser, Refuse
  <2>3. CASE account.status = "ACTIVE"
    BY <1>6, <2>1, <2>3, ClosedBegins DEF RefreshUser, Labels
  <2> QED BY <2>2, <2>3
<1> QED BY <1>2, <1>3, <1>4, <1>5, <1>6 DEF SessionsStep

LEMMA ClosedElsewhere ==
    ASSUME BrowserInv, Closed, schedule = "overlap", Elsewhere PROVE ClosedServer
<1>1. ASSUME UNCHANGED <<handlerVars, reply>> PROVE ClosedServer
  BY <1>1 DEF ClosedServer, Closed, handlerVars, Busy
<1>2. CASE \E t \in Tokens : Logout(t)
  BY <1>1, <1>2 DEF Logout
<1>3. CASE LogoutAll \/ Deactivate \/ SessionsTime
  BY <1>1, <1>3
  DEF LogoutAll, Deactivate, SessionsTime, LockElapses, CleanupRefresh, CleanupReset,
      TokenExpires, ResetExpires
<1>4. ASSUME NEW w \in Workers, NEW t \in Tokens, RequestRefresh(w, t, NULL) PROVE ClosedServer
  BY <1>1, <1>4, ClosedBegins DEF RequestRefresh, Reject, Labels
<1>5. ASSUME NEW w \in Workers, AccountRequest(w) PROVE ClosedServer
  <2>1. CASE RequestRegister(w, NULL)
    BY <2>1, ClosedBegins DEF RequestRegister, Labels
  <2>2. ASSUME NEW valid \in BOOLEAN, RequestLogin(w, valid, NULL) PROVE ClosedServer
    <3>1. CASE Reject(NULL)
      BY <1>1, <3>1 DEF Reject
    <3>2. CASE ~Reject(NULL)
      BY <2>2, <3>2, ClosedBegins DEF RequestLogin, Labels
    <3> QED BY <3>1, <3>2
  <2>3. ASSUME NEW status \in UserStatuses, SetStatus(w, status) PROVE ClosedServer
    BY <1>1, <2>3, ClosedBegins DEF SetStatus, Labels
  <2> QED BY <1>5, <2>1, <2>2, <2>3 DEF AccountRequest
<1> QED BY <1>2, <1>3, <1>4, <1>5 DEF Elsewhere

LEMMA ClosedStep ==
    ASSUME BrowserInv, Closed, schedule = "overlap", [BrowserNext]_browserVars PROVE Closed'
<1>1. ASSUME UNCHANGED <<storeVars, call>>, ClosedServer PROVE Closed'
  BY <1>1 DEF ClosedServer, Closed, NoCall, Idle, storeVars
<1>2. ASSUME NEW q \in Calls PROVE reply[q] = NULL /\ call[q].step = "idle" /\ ~Free(q)
  BY DEF Closed, NoCall, Idle, Free
<1>3. ASSUME NEW w \in Workers, NEW q \in Calls, SignUp(w, q) \/ SignIn(w, q) \/ TakeRefresh(w, q)
      PROVE  FALSE
  BY <1>2, <1>3 DEF SignUp, SignIn, TakeRefresh, CallAt
<1>4. ASSUME NEW q \in Calls, BrowserStep(q) PROVE FALSE
  BY <1>2, <1>4, NullAssumption, ErrorAssumption
  DEF BrowserStep, Unauthorized, PostRefresh, ReceiveTokens, ReceiveError, CallAt
<1>5. ~AccessExpires /\ ~SignOut
  BY DEF AccessExpires, SignOut, Closed, BrowserInv, BrowserTypeOK
<1>6. CASE UNCHANGED browserVars
  <2>1. ClosedServer /\ UNCHANGED <<storeVars, call>>
    BY <1>6 DEF ClosedServer, Closed, Busy, browserVars, sessionsVars, handlerVars, storeVars
  <2> QED BY <1>1, <2>1
<1> QED BY <1>1, <1>3, <1>4, <1>5, <1>6, ClosedOfStep, ClosedElsewhere DEF BrowserNext

-----------------------------------------------------------------------------
(* The theorems                                                            *)

SessionsStrong == BrowserInv /\ SessionsInv

LEMMA SessionsInvInit == BrowserInit => SessionsInv
<1> SUFFICES ASSUME BrowserInit PROVE SessionsInv
  OBVIOUS
<1> USE DEF BrowserInit, SessionsInit, HandlersInit
<1>1. schedule \in {"alone", "overlap"}
  BY BrowserAssumption
<1>2. Closed
  BY DEF Closed, NoCall, Busy
<1>3. OneAtATime
  BY DEF OneAtATime, WorkOK, CallOK, CallAt, Busy, Exchanges, Idle
<1>4. Live = {} /\ \A t \in Tokens : ~Issued(t)
  BY DEF Live, Issued
<1>5. TokensAgree
  BY <1>4, NullAssumption, ErrorAssumption
  DEF TokensAgree, RootIssued, OneLiveToken, StoredOK, ExchangeOK, Exchanges, ReplyOK
<1>6. AccountAgrees
  BY <1>4 DEF AccountAgrees, LoginOK
<1> QED BY <1>1, <1>2, <1>3, <1>5, <1>6 DEF SessionsInv, AloneInv

LEMMA SessionsInvStep == SessionsStrong /\ [BrowserNext]_browserVars => SessionsStrong'
<1> SUFFICES ASSUME SessionsStrong, [BrowserNext]_browserVars PROVE SessionsInv'
  BY InvStep DEF SessionsStrong
<1>1. UNCHANGED schedule
  BY DEF BrowserNext, browserVars
<1>2. CASE schedule = "alone"
  <2>1. AloneNext
    BY <1>2, AloneSteps
  <2> QED BY <1>1, <1>2, <2>1, WorkStep, TokensStep, AccountStep
          DEF SessionsStrong, SessionsInv, AloneInv
<1>3. CASE schedule = "overlap"
  BY <1>1, <1>3, ClosedStep DEF SessionsStrong, SessionsInv
<1> QED BY <1>2, <1>3 DEF SessionsStrong, SessionsInv

LEMMA SessionsAlways == BrowserSpec => []SessionsStrong
<1>1. BrowserInit => SessionsStrong
  BY InvInit, SessionsInvInit DEF SessionsStrong
<1> QED BY <1>1, SessionsInvStep, PTL DEF BrowserSpec

\* One call of the tab at a time, and requests from elsewhere that overtake no handler: however
\* often the session is refreshed, ended from elsewhere or locked out, it has one live refresh
\* token, which is the one the tab stores, and a blocked account has none (AuthService.refresh
\* and login, UsersService.setStatus, api.ts).
THEOREM SessionsStayTrue == BrowserSpec => []SessionsAgree
<1>1. SessionsStrong => SessionsAgree
  <2> SUFFICES ASSUME SessionsStrong, schedule = "alone"
               PROVE  OneLiveToken /\ BlockedHasNoSession /\ StoredIsCurrent
    BY DEF SessionsAgree
  <2>1. OneLiveToken /\ StoredOK
    BY DEF SessionsStrong, SessionsInv, AloneInv, TokensAgree
  <2>2. BlockedHasNoSession
    BY DEF SessionsStrong, SessionsInv, AloneInv, AccountAgrees, BlockedHasNoSession, Quiet
  <2>3. NoCall => \A q \in Calls : ~CallAt(q, "refreshing")
    BY DEF NoCall, CallAt, Idle
  <2>4. StoredIsCurrent
    BY <2>1, <2>3 DEF StoredIsCurrent, StoredOK
  <2> QED BY <2>1, <2>2, <2>4
<1> QED BY <1>1, SessionsAlways, PTL

\* The same calls never make the tab forget a session that goes on: an exchange is only refused
\* when the session is over (the interceptor of api.ts, which clears the store).
THEOREM TabKeepsSession == BrowserSpec => KeepsSession
<1>1. SessionsStrong /\ [BrowserNext]_browserVars =>
          [stored # NULL /\ stored' = NULL /\ reply' # reply => LiveOf(stored) = {}]_browserVars
  <2> SUFFICES ASSUME SessionsStrong, BrowserNext, stored # NULL, stored' = NULL, reply' # reply
               PROVE  LiveOf(stored) = {}
    OBVIOUS
  <2>1. schedule = "alone" /\ AloneInv
    BY DEF SessionsStrong, SessionsInv, Closed
  <2>2. AloneNext
    BY <2>1, AloneSteps
  <2>3. PICK q \in Calls : BrowserStep(q)
    BY <2>2 DEF AloneNext, SignUp, SignIn, TakeRefresh, AccessExpires, SignOut, storeVars,
                sessionsVars, browserVars
  <2>4. reply[q] = ERROR /\ CallAt(q, "refreshing")
    BY <2>3, NullAssumption
    DEF BrowserStep, Unauthorized, PostRefresh, ReceiveTokens, ReceiveError, SetTokens,
        storeVars, sessionsVars
  <2> QED BY <2>1, <2>4 DEF AloneInv, TokensAgree, ReplyOK
<1> QED BY <1>1, SessionsAlways, PTL DEF BrowserSpec, KeepsSession

\* No login, right or wrong, writes the lock of the account away, as long as no other login
\* overlaps it (AuthService.login).
THEOREM LockIsKept == BrowserSpec => LocksHold
<1>1. SessionsStrong /\ [BrowserNext]_browserVars =>
          [schedule = "alone" => LockHolds]_browserVars
  <2> SUFFICES ASSUME SessionsStrong, BrowserNext, schedule = "alone",
                      Registered, account.lockedUntil = "future"
               PROVE  account'.lockedUntil \in {"future", "past"}
    BY DEF LockHolds
  <2>0. AloneNext /\ AccountAgrees
    BY AloneSteps DEF SessionsStrong, SessionsInv, AloneInv
  <2>1. account \in AccountRows
    BY DEF SessionsStrong, BrowserInv, BrowserTypeOK, SessionsTypeOK, Registered
  <2>2. CASE UNCHANGED account
    BY <2>2
  <2>3. ASSUME NEW w \in Workers, SessionsStep(w) PROVE account'.lockedUntil = "future"
    <3>1. ~LoginFail(w) /\ ~LoginReset(w) /\ ~RegisterCreate(w)
      BY <2>0 DEF AccountAgrees, LoginOK, LoginFail, LoginReset, RegisterCreate, At
    <3>2. CASE ResetWrite(w) \/ ChangePassword(w)
      BY <2>1, <3>2 DEF ResetWrite, ChangePassword, AccountRows
    <3> QED
      BY <2>3, <3>1, <3>2
      DEF SessionsStep, IssueToken, RegisterTaken, RefreshRevoke, RefreshGone, RefreshUser,
          ResetGone, StatusRevoke, accountVars
  <2>4. CASE Elsewhere
    <3>1. ASSUME NEW w \in Workers, NEW status \in UserStatuses, SetStatus(w, status)
          PROVE  account'.lockedUntil = "future"
      BY <2>1, <3>1 DEF SetStatus, AccountRows
    <3>2. CASE Deactivate
      BY <2>1, <3>2 DEF Deactivate, AccountRows
    <3>3. CASE LockElapses
      BY <2>1, <3>3 DEF LockElapses, AccountRows
    <3>4. ASSUME NEW w \in Workers, AccountRequest(w)
          PROVE  account'.lockedUntil = "future"
      BY <3>1, <3>4 DEF AccountRequest, RequestRegister, RequestLogin, Reject, accountVars
    <3>5. ASSUME NEW w \in Workers, PasswordRequest(w) PROVE UNCHANGED account
      BY <3>5 DEF PasswordRequest, ForgotPassword, RequestReset, RequestChange, accountVars
    <3> QED
      BY <2>2, <2>4, <3>2, <3>3, <3>4, <3>5
      DEF Elsewhere, Logout, LogoutAll, SessionsTime, CleanupRefresh, CleanupReset, TokenExpires,
          ResetExpires
  <2> QED
    BY <2>0, <2>2, <2>3, <2>4
    DEF AloneNext, SignUp, SignIn, TakeRefresh, RequestRegister, RequestLogin, RequestRefresh,
        Reject, BrowserStep, Unauthorized, PostRefresh, ReceiveTokens, ReceiveError, AccessExpires,
        SignOut, accountVars, sessionsVars, browserVars
<1> QED BY <1>1, SessionsAlways, PTL DEF BrowserSpec, LocksHold

-----------------------------------------------------------------------------
(* Rotation, step by step                                                  *)

\* A step that issues nothing keeps the session of every token.
LEMMA SessionOfFades == Fades => SessionOf' = SessionOf
  BY DEF Fades, SessionOf

\* A handler that exchanges a token has one that was issued.
LEMMA ExchangedIssued ==
    ASSUME BrowserInv, NEW w \in Workers, Exchanges(w)
    PROVE  Exchanged(w) \in Tokens /\ Issued(Exchanged(w)) /\ token[Exchanged(w)].root \in Tokens
<1>1. Exchanged(w) \in Tokens /\ Issued(Exchanged(w))
  BY DEF BrowserInv, HandlersOK, HandlerOK, Exchanges, Exchanged, Spent
<1> QED BY <1>1 DEF BrowserInv, BrowserTypeOK, SessionsTypeOK, Issued, TokenRows

\* At most one session is between two tokens.
LEMMA OneUnderWay ==
    ASSUME OneAtATime, NEW w \in Workers, Exchanges(w)
    PROVE  UnderWay = {token[Exchanged(w)].root}
<1>1. \A x \in Workers : Exchanges(x) => x = w
  BY DEF OneAtATime
<1> QED BY <1>1 DEF UnderWay

LEMMA NoneUnderWay == (\A x \in Workers : ~Exchanges(x)) => UnderWay = {}
  BY DEF UnderWay

\* Serve, of the tokens a session is known by
LEMMA ServesLive ==
    ASSUME BrowserInv, NEW t \in Tokens, Issued(t)
    PROVE  Rotates!Serve(token[t].root) = LiveOf(t)
<1>1. Live \subseteq Tokens /\ \A u \in Live : SessionOf[u] = token[u].root
  BY DEF Live, SessionOf
<1> QED BY <1>1 DEF Rotates!Serve, LiveOf

\* Tokens may end, and no exchange begins or ends.
LEMMA TokensEnd ==
    ASSUME BrowserInv, Fades,
           \A x \in Workers : Exchanges(x)' <=> Exchanges(x),
           \A x \in Workers : Exchanges(x) => Exchanged(x)' = Exchanged(x)
    PROVE  Rotates!Next
<1>1. SessionOf' = SessionOf
  BY SessionOfFades
<1>2. \A x \in Workers : Exchanges(x) => token'[Exchanged(x)'].root = token[Exchanged(x)].root
  BY ExchangedIssued DEF Fades
<1>3. UnderWay' = UnderWay
  BY <1>2 DEF UnderWay
<1>4. Live' = Live \ (Live \ Live') /\ Live \ Live' \in SUBSET Tokens
  BY DEF Fades, Live
<1> QED BY <1>1, <1>3, <1>4 DEF Rotates!Next, Rotates!End

\* Nobody moves.
LEMMA TokensRest ==
    ASSUME BrowserInv, UNCHANGED <<token, pc, ctx>> PROVE Rotates!Next
<1>1. Fades
  BY FadesUntouched
<1>2. \A x \in Workers : (Exchanges(x)' <=> Exchanges(x)) /\ Exchanged(x)' = Exchanged(x)
  BY DEF Exchanges, Exchanged
<1> QED BY <1>1, <1>2, TokensEnd

\* Whoever moves has to do with no exchange.
LEMMA TokensAside ==
    ASSUME BrowserInv, Fades, NEW w \in Workers, Moves(w), ~Exchanges(w), ~Exchanges(w)'
    PROVE  Rotates!Next
<1>1. \A x \in Workers \ {w} :
          (Exchanges(x)' <=> Exchanges(x)) /\ Exchanged(x)' = Exchanged(x)
  BY DEF Moves, Exchanges, Exchanged
<1> QED BY <1>1, TokensEnd

\* An exchange goes on with the token it has.
LEMMA ExchangeGoesOn ==
    ASSUME BrowserInv, Fades, NEW w \in Workers, Moves(w), Exchanges(w), Exchanges(w)',
           Exchanged(w)' = Exchanged(w)
    PROVE  Rotates!Next
<1>1. \A x \in Workers \ {w} :
          (Exchanges(x)' <=> Exchanges(x)) /\ Exchanged(x)' = Exchanged(x)
  BY DEF Moves, Exchanges, Exchanged
<1> QED BY <1>1, TokensEnd

\* An exchange is given up, and the session has no token left.
LEMMA ExchangeRefused ==
    ASSUME BrowserInv, OneAtATime, NEW w \in Workers, Exchanges(w), Return(w), UNCHANGED token,
           LiveOf(Exchanged(w)) = {}
    PROVE  Rotates!Next
<1> DEFINE s == token[Exchanged(w)].root
<1>1. s \in Tokens /\ Rotates!Serve(s) = {}
  BY ExchangedIssued, ServesLive
<1>2. UnderWay = {s}
  BY OneUnderWay
<1>3. \A x \in Workers : ~Exchanges(x)'
  BY DEF OneAtATime, Return, Exchanges, BrowserInv, HandlersOK
<1>4. UnderWay' = UnderWay \ {s}
  BY <1>2, <1>3, NoneUnderWay DEF UnderWay
<1>5. UNCHANGED <<Live, SessionOf>>
  BY DEF Live, SessionOf, Issued
<1> QED BY <1>1, <1>2, <1>4, <1>5 DEF Rotates!Next, Rotates!Refuse

\* A token is issued: the first of a session, or the next.
LEMMA IssueTokenRotates ==
    ASSUME BrowserInv, OneAtATime, TokensAgree, NEW w \in Workers, IssueToken(w)
    PROVE  Rotates!Next
<1> DEFINE c == ctx[w]
           root(t) == IF c.parent = NULL THEN t ELSE token[c.parent].root
<1> PICK t \in Tokens :
          /\ At(w, "token.issue")
          /\ ~Issued(t)
          /\ token' = [token EXCEPT ![t] =
                [state |-> "live", parent |-> c.parent, password |-> c.password,
                 root |-> root(t)]]
          /\ Return(w)
  BY DEF IssueToken
<1>1. /\ token \in [Tokens -> TokenRows \cup {NULL}]
      /\ Exchanges(w) <=> c.parent # NULL
      /\ Exchanges(w) => Exchanged(w) = c.parent
      /\ pc'[w] = "idle" /\ Moves(w)
  BY Leaves DEF BrowserInv, BrowserTypeOK, SessionsTypeOK, HandlersOK, At, Exchanges, Exchanged,
         Return
<1>2. c.parent # NULL => root(t) \in Tokens
  BY <1>1, ExchangedIssued
<1>3. /\ token'[t] = [state |-> "live", parent |-> c.parent, password |-> c.password,
                      root |-> root(t)]
      /\ \A u \in Tokens \ {t} : token'[u] = token[u]
      /\ Issued(t)'
  <2>1. /\ token'[t] = [state |-> "live", parent |-> c.parent, password |-> c.password,
                        root |-> root(t)]
        /\ \A u \in Tokens \ {t} : token'[u] = token[u]
    BY <1>1
  <2>2. c.password \in 0 .. MaxPasswords /\ c.parent \in Tokens \cup {NULL}
    BY <1>1, ExchangedIssued DEF BrowserInv, HandlersOK, HandlerOK, At
  <2>3. token'[t] \in TokenRows
    BY <1>2, <2>1, <2>2 DEF TokenRows
  <2> QED BY <2>1, <2>3, NullAssumption DEF Issued
<1>4. Live' = Live \cup {t}
  BY <1>3 DEF Live, Issued
<1>5. SessionOf' = [SessionOf EXCEPT ![t] = root(t)] /\ SessionOf[t] = NULL
  <2>1. token'[t].root = root(t) /\ \A u \in Tokens \ {t} : Issued(u)' <=> Issued(u)
    BY <1>3 DEF Issued
  <2>2. \A u \in Tokens : SessionOf'[u] = IF u = t THEN root(t) ELSE SessionOf[u]
    BY <1>3, <2>1 DEF SessionOf
  <2> QED BY <2>2 DEF SessionOf
<1>6. ~Exchanges(w)' /\ \A x \in Workers \ {w} :
          (Exchanges(x)' <=> Exchanges(x)) /\ Exchanged(x)' = Exchanged(x)
  BY <1>1 DEF Moves, Exchanges, Exchanged
<1>7. CASE c.parent = NULL
  <2>1. \A u \in Tokens : SessionOf[u] # t
    BY NullAssumption DEF SessionOf, TokensAgree, RootIssued
  <2>2. \A x \in Workers : Exchanges(x) => token'[Exchanged(x)].root = token[Exchanged(x)].root
    BY <1>3, ExchangedIssued
  <2>3. UnderWay' = UnderWay
    BY <1>1, <1>6, <1>7, <2>2 DEF UnderWay
  <2> QED BY <1>4, <1>5, <1>7, <2>1, <2>3 DEF Rotates!Next, Rotates!Login
<1>8. CASE c.parent # NULL
  <2> DEFINE s == token[c.parent].root
  <2>1. UnderWay = {s} /\ s \in Tokens
    BY <1>1, <1>8, OneUnderWay, ExchangedIssued
  <2>2. Rotates!Serve(s) = {}
    <3>1. LiveOf(c.parent) = {}
      BY <1>1, <1>8 DEF TokensAgree, ExchangeOK, At
    <3> QED BY <1>1, <1>8, <3>1, ExchangedIssued, ServesLive
  <2>3. UnderWay' = UnderWay \ {s}
    <3>1. \A x \in Workers : ~Exchanges(x)'
      BY <1>1, <1>6, <1>8 DEF OneAtATime
    <3> QED BY <2>1, <3>1 DEF UnderWay
  <2> QED BY <1>4, <1>5, <1>8, <2>1, <2>2, <2>3 DEF Rotates!Next, Rotates!Give
<1> QED BY <1>7, <1>8

\* The token of the tab is taken to be exchanged.
LEMMA TakeRefreshRotates ==
    ASSUME BrowserInv, OneAtATime, schedule = "alone", NEW w \in Workers, NEW q \in Calls,
           TakeRefresh(w, q)
    PROVE  Rotates!Next
<1> DEFINE t == call[q].token
<1>1. CASE Reject(q)
  BY <1>1, TokensRest DEF Reject, accountVars, handlerVars
<1>2. CASE ~Reject(q)
  <2>1. /\ t \in Live
        /\ Begin(w, "refresh.revoke", [caller |-> q, token |-> t])
        /\ UNCHANGED token
    BY <1>2 DEF TakeRefresh, RequestRefresh, accountVars
  <2>2. /\ Moves(w) /\ pc'[w] = "refresh.revoke"
        /\ ctx'[w] = [caller |-> q, token |-> t]
    BY <2>1, EntersAt DEF Labels
  <2>3. Exchanges(w)' /\ Exchanged(w)' = t /\ ~Exchanges(w)
    BY <2>1, <2>2 DEF Exchanges, Exchanged, Begin
  <2>4. \A x \in Workers \ {w} :
            (Exchanges(x)' <=> Exchanges(x)) /\ Exchanged(x)' = Exchanged(x)
    BY <2>2 DEF Moves, Exchanges, Exchanged
  <2>5. UnderWay' = UnderWay \cup {SessionOf[t]}
    BY <2>1, <2>3, <2>4 DEF UnderWay, SessionOf, Live
  <2>6. UNCHANGED <<Live, SessionOf>>
    BY <2>1 DEF Live, SessionOf, Issued
  <2> QED BY <2>1, <2>5, <2>6 DEF Rotates!Next, Rotates!Take, Live
<1> QED BY <1>1, <1>2

LEMMA StepRotates ==
    ASSUME BrowserInv, OneAtATime, TokensAgree, NEW w \in Workers, SessionsStep(w)
    PROVE  Rotates!Next
<1>1. ~IssueToken(w) => Fades
  BY StepFades
<1>2. CASE RefreshRevoke(w)
  <2>1. Exchanges(w) /\ Exchanged(w) = ctx[w].token /\ ~IssueToken(w)
    BY <1>2 DEF RefreshRevoke, At, Exchanges, Exchanged, IssueToken
  <2>2. Moves(w) /\ pc'[w] = "refresh.user" /\ ctx'[w] = ctx[w]
    BY <1>2, GoesTo DEF RefreshRevoke, Labels
  <2>3. Exchanges(w)' /\ Exchanged(w)' = Exchanged(w)
    BY <2>1, <2>2 DEF Exchanges, Exchanged
  <2> QED BY <1>1, <2>1, <2>2, <2>3, ExchangeGoesOn
<1>3. CASE RefreshGone(w)
  <2>1. Exchanges(w) /\ Exchanged(w) = ctx[w].token
    BY <1>3 DEF RefreshGone, At, Exchanges, Exchanged
  <2>2. LiveOf(Exchanged(w)) = {}
    BY <1>3, <2>1, StoredLive DEF RefreshGone, LiveOf, Live
  <2> QED BY <1>3, <2>1, <2>2, ExchangeRefused DEF RefreshGone, Refuse, accountVars
<1>4. CASE RefreshUser(w)
  <2>1. Exchanges(w) /\ Exchanged(w) = ctx[w].token /\ pc[w] = "refresh.user" /\ ~IssueToken(w)
    BY <1>4 DEF RefreshUser, At, Exchanges, Exchanged, IssueToken
  <2>2. CASE Return(w)
    BY <1>4, <2>1, <2>2, ExchangeRefused DEF RefreshUser, accountVars, TokensAgree, ExchangeOK
  <2>3. CASE ~Return(w)
    <3>1. /\ Moves(w) /\ pc'[w] = "token.issue"
          /\ ctx'[w] = [caller |-> ctx[w].caller, parent |-> ctx[w].token,
                        password |-> token[ctx[w].token].password]
      BY <1>4, <2>3, EntersAt DEF RefreshUser, Refuse, Labels
    <3>2. ctx[w].token # NULL
      BY <2>1, ExchangedIssued, NullAssumption
    <3>3. Exchanges(w)' /\ Exchanged(w)' = Exchanged(w)
      BY <2>1, <3>1, <3>2 DEF Exchanges, Exchanged
    <3> QED BY <1>1, <2>1, <3>1, <3>3, ExchangeGoesOn
  <2> QED BY <2>2, <2>3
<1>5. CASE RegisterCreate(w) \/ LoginReset(w)
  <2>1. Moves(w) /\ pc'[w] = "token.issue" /\ ctx'[w].parent = NULL
    BY <1>5, EntersAt DEF RegisterCreate, LoginReset, Labels
  <2>2. ~Exchanges(w) /\ ~Exchanges(w)' /\ ~IssueToken(w)
    BY <1>5, <2>1 DEF RegisterCreate, LoginReset, At, Exchanges, IssueToken
  <2> QED BY <1>1, <2>1, <2>2, TokensAside
<1>6. CASE \/ RegisterTaken(w) \/ LoginFail(w) \/ ResetWrite(w) \/ ResetGone(w)
           \/ ChangePassword(w) \/ StatusRevoke(w)
  <2>1. Return(w) /\ ~Exchanges(w) /\ ~IssueToken(w)
    BY <1>6 DEF RegisterTaken, LoginFail, ResetWrite, ResetGone, ChangePassword, StatusRevoke,
                Refuse, At, Exchanges, IssueToken
  <2>2. Moves(w) /\ ~Exchanges(w)'
    BY <2>1, Leaves DEF Return, Exchanges, BrowserInv, HandlersOK
  <2> QED BY <1>1, <2>1, <2>2, TokensAside
<1> QED BY <1>2, <1>3, <1>4, <1>5, <1>6, IssueTokenRotates DEF SessionsStep

LEMMA AloneRotates ==
    ASSUME BrowserInv, OneAtATime, TokensAgree, schedule = "alone", AloneNext
    PROVE  Rotates!Next
<1>1. ASSUME NEW w \in Workers, NEW q \in Calls, SignUp(w, q) \/ SignIn(w, q)
      PROVE  Rotates!Next
  <2>1. CASE UNCHANGED <<token, pc, ctx>>
    BY <2>1, TokensRest
  <2>2. CASE ~UNCHANGED <<token, pc, ctx>>
    <3>1. PICK label \in OwnLabels : \E locals : Begin(w, label, locals)
      BY <1>1, <2>2
      DEF SignUp, SignIn, RequestRegister, RequestLogin, Reject, accountVars, handlerVars,
          OwnLabels, Labels
    <3>2. Moves(w) /\ pc'[w] = label /\ pc[w] = "idle"
      BY <3>1, EntersAt DEF OwnLabels, Begin
    <3>3. ~Exchanges(w) /\ ~Exchanges(w)'
      BY <3>2 DEF Exchanges, OwnLabels
    <3>4. Fades
      BY <1>1, FadesUntouched
      DEF SignUp, SignIn, RequestRegister, RequestLogin, Reject, accountVars
    <3> QED BY <3>2, <3>3, <3>4, TokensAside
  <2> QED BY <2>1, <2>2
<1>2. CASE Quiet /\ Elsewhere
  <2>1. Fades /\ \A x \in Workers : ~Exchanges(x) /\ ~Exchanges(x)'
    BY <1>2, ElsewhereFades, ElsewhereBegins, BeginsNoExchange DEF Quiet, Exchanges
  <2> QED BY <2>1, TokensEnd
<1>3. CASE \/ \E q \in Calls : BrowserStep(q)
           \/ AccessExpires \/ SignOut \/ UNCHANGED browserVars
  BY <1>3, TokensRest
  DEF BrowserStep, Unauthorized, PostRefresh, ReceiveTokens, ReceiveError, AccessExpires, SignOut,
      browserVars, sessionsVars, accountVars, handlerVars
<1> QED BY <1>1, <1>2, <1>3, TakeRefreshRotates, StepRotates DEF AloneNext

LEMMA RotatesStep ==
    SessionsStrong /\ [BrowserNext]_browserVars /\ schedule = "alone" => Rotates!Next
  BY AloneSteps, AloneRotates DEF SessionsStrong, SessionsInv, AloneInv

\* One call of the tab at a time, and requests from elsewhere that overtake no handler: every
\* step of tab and server is a step of Rotation or none at all.  No token is given while another
\* one of its session serves, and none for a session of which no token was taken while it served
\* (AuthService.refresh, issueTokens).
THEOREM SessionsRotate == BrowserSpec => KeepsRotation
<1>1. BrowserInit => (schedule = "alone" => Rotates!Init)
  <2> SUFFICES ASSUME BrowserInit
               PROVE  Live = {} /\ UnderWay = {} /\ SessionOf = [t \in Tokens |-> NULL]
    BY DEF Rotates!Init
  <2> QED BY DEF BrowserInit, SessionsInit, HandlersInit, Live, UnderWay, SessionOf, Issued,
                 Exchanges
<1>2. SessionsStrong /\ [BrowserNext]_browserVars =>
          [schedule = "alone" => Rotates!Next]_browserVars
  BY RotatesStep
<1> QED BY <1>1, <1>2, SessionsAlways, PTL DEF BrowserSpec, KeepsRotation

\* A session that is over is not resumed: no step of Rotation does it.  An exchange that has
\* begun, though, is not stopped by what ends the session meanwhile (auth.service.ts:251-261).
THEOREM SessionsStayOver == BrowserSpec => OverStaysOver
<1>1. ASSUME SessionsStrong, [BrowserNext]_browserVars, schedule = "alone", NEW s \in Tokens,
             Rotates!Over(s)
      PROVE  Rotates!Over(s)'
  <2>1. Rotates!Next
    BY <1>1, RotatesStep
  <2>2. SessionOf \in [Tokens -> Tokens \cup {NULL}] /\ Live \subseteq Tokens
    BY <1>1 DEF SessionsStrong, BrowserInv, BrowserTypeOK, SessionsTypeOK, TokenRows, SessionOf,
                Issued, Live
  <2> USE DEF Rotates!Over, Rotates!Serve
  <2>3. ASSUME NEW t \in Tokens, Rotates!Login(t) PROVE Rotates!Over(s)'
    BY <1>1, <2>2, <2>3, NullAssumption DEF Rotates!Login
  <2>4. ASSUME NEW t \in Tokens, Rotates!Take(t) PROVE Rotates!Over(s)'
    BY <1>1, <2>2, <2>4 DEF Rotates!Take
  <2>5. ASSUME NEW t \in Tokens, NEW r \in Tokens, Rotates!Give(t, r) PROVE Rotates!Over(s)'
    BY <1>1, <2>2, <2>5, NullAssumption DEF Rotates!Give
  <2>6. ASSUME NEW r \in Tokens, Rotates!Refuse(r) PROVE Rotates!Over(s)'
    BY <1>1, <2>6 DEF Rotates!Refuse
  <2>7. ASSUME NEW tokens \in SUBSET Tokens, Rotates!End(tokens) PROVE Rotates!Over(s)'
    BY <1>1, <2>7 DEF Rotates!End
  <2> QED BY <2>1, <2>3, <2>4, <2>5, <2>6, <2>7 DEF Rotates!Next
<1>2. SessionsStrong /\ [BrowserNext]_browserVars =>
          [schedule = "alone" =>
              \A s \in Tokens : Rotates!Over(s) => Rotates!Over(s)']_browserVars
  BY <1>1
<1> QED BY <1>2, SessionsAlways, PTL DEF BrowserSpec, OverStaysOver
=============================================================================
