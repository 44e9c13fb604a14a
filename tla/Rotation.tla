------------------------------ MODULE Rotation ------------------------------
(***************************************************************************)
(* What AuthService may be relied on for refresh tokens: a session begins  *)
(* with a login, is known by its first token and serves by one token at a  *)
(* time; an exchange begins with a token that serves, and gives the next   *)
(* one when that one does not serve any more.  Nobody works on anything    *)
(* here, and what ends a session does not stop its exchange.               *)
(***************************************************************************)
CONSTANTS Tokens, NULL

VARIABLES
    serving,   \* the tokens that can be exchanged
    session,   \* session[t]: the session t was given for, NULL before it is given
    exchange   \* the sessions of which a token is being exchanged

rotationVars == <<serving, session, exchange>>

Serve(s) == {t \in serving : session[t] = s}

Init ==
    /\ serving = {}
    /\ session = [t \in Tokens |-> NULL]
    /\ exchange = {}

Login(t) ==
    /\ session[t] = NULL
    /\ \A u \in Tokens : session[u] # t
    /\ serving' = serving \cup {t}
    /\ session' = [session EXCEPT ![t] = t]
    /\ UNCHANGED exchange

Take(t) ==
    /\ t \in serving
    /\ exchange' = exchange \cup {session[t]}
    /\ UNCHANGED <<serving, session>>

\* The next token of a session, which has none that serves
Give(t, s) ==
    /\ s \in exchange /\ Serve(s) = {}
    /\ session[t] = NULL
    /\ serving' = serving \cup {t}
    /\ session' = [session EXCEPT ![t] = s]
    /\ exchange' = exchange \ {s}

Refuse(s) ==
    /\ s \in exchange /\ Serve(s) = {}
    /\ exchange' = exchange \ {s}
    /\ UNCHANGED <<serving, session>>

\* Revoked, expired, or exchanged
End(tokens) ==
    /\ serving' = serving \ tokens
    /\ UNCHANGED <<session, exchange>>

Next ==
    \/ \E t \in Tokens : Login(t) \/ Take(t)
    \/ \E t, s \in Tokens : Give(t, s)
    \/ \E s \in Tokens : Refuse(s)
    \/ \E tokens \in SUBSET Tokens : End(tokens)

Spec == Init /\ [][Next]_rotationVars

\* A session that is over: it began, no token of it serves, and none is being exchanged.
Over(s) == s \notin exchange /\ Serve(s) = {} /\ \E t \in Tokens : session[t] = s

\* What is over is not resumed.
StaysOver == [][\A s \in Tokens : Over(s) => Over(s)']_rotationVars
=============================================================================
