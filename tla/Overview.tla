------------------------------ MODULE Overview ------------------------------
(***************************************************************************)
(* The dashboards: figures that are computed anew for a seller and cached  *)
(* for the administrators, the job that drops the cache and tells all      *)
(* sockets, and the pages that ask again when they are told.               *)
(*                                                                         *)
(* The figures are a version number of what they are computed from.        *)
(***************************************************************************)
EXTENDS Handlers

CONSTANTS
    Admins, Readers,   \* dashboards, those of administrators among them
    Listeners,         \* bound: those with a socket; the others only load
    Openings,          \* bound: which of them are open in one behaviour
    MaxFigures         \* bound: changes of what is counted

ASSUME OverviewAssumption ==
    /\ Admins \subseteq Readers
    /\ Openings \subseteq SUBSET Readers
    /\ MaxFigures \in Nat
    /\ Workers \cap {"closed", "idle", "asked"} = {}

VARIABLES
    figures,    \* what the tables say now
    cached,     \* dashboard:admin in Redis, or NULL
    recalc,     \* the job recalcDashboards: "idle" or "emit"
    display,    \* what a page shows, or NULL
    awaits,     \* its request: "closed", "idle", "asked", or the handler that will answer
    news,       \* an event is on its way to the page
    told,       \* what it made the page ask for is not answered yet
    connected   \* its socket

overviewVars == <<handlerVars, figures, cached, recalc, display, awaits, news, told, connected>>

Versions == 0 .. MaxFigures

OverviewInit ==
    /\ figures = 0
    /\ cached = NULL
    /\ recalc = "idle"
    /\ display     = [c \in Readers |-> NULL]
    /\ \E open \in Openings :
          awaits = [c \in Readers |-> IF c \in open THEN "asked" ELSE "closed"]
    /\ news      = [c \in Readers |-> FALSE]
    /\ told      = [c \in Readers |-> FALSE]
    /\ connected = [c \in Readers |-> FALSE]

\* A sale, a contact, a vehicle
FiguresChange ==
    /\ figures < MaxFigures
    /\ figures' = figures + 1
    /\ UNCHANGED <<handlerVars, cached, recalc, display, awaits, news, told, connected>>

-----------------------------------------------------------------------------
(* The server                                                              *)

StartDashboard(w, c) ==
    /\ awaits[c] = "asked"
    /\ Begin(w, IF c \in Admins THEN "cached" ELSE "compute", [reader |-> c, fresh |-> NULL])
    /\ awaits' = [awaits EXCEPT ![c] = w]
    /\ UNCHANGED <<figures, cached, recalc, display, news, told, connected>>

\* The answer reaches the page, unless it waits for a later one.
Respond(w, value) ==
    LET c == ctx[w].reader IN
    /\ Return(w)
    /\ IF awaits[c] = w
          THEN /\ display' = [display EXCEPT ![c] = value]
               /\ awaits'  = [awaits EXCEPT ![c] = "idle"]
               /\ told'    = [told EXCEPT ![c] = FALSE]
          ELSE UNCHANGED <<display, awaits, told>>
    /\ UNCHANGED <<figures, recalc, news, connected>>

RememberGet(w) ==
    /\ At(w, "cached")
    /\ UNCHANGED cached
    /\ IF cached # NULL
          THEN Respond(w, cached)
          ELSE /\ Goto(w, "compute")
               /\ UNCHANGED <<figures, recalc, display, awaits, news, told, connected>>

computeAdmin(w) ==
    /\ At(w, "compute") /\ ctx[w].reader \in Admins
    /\ GotoWith(w, "set", [ctx[w] EXCEPT !.fresh = figures])
    /\ UNCHANGED <<figures, cached, recalc, display, awaits, news, told, connected>>

sellerDashboard(w) ==
    /\ At(w, "compute") /\ ctx[w].reader \notin Admins
    /\ Respond(w, figures)
    /\ UNCHANGED cached

RememberSet(w) ==
    /\ At(w, "set")
    /\ cached' = ctx[w].fresh
    /\ Respond(w, ctx[w].fresh)

\* After 30 seconds
CacheExpires ==
    /\ cached # NULL
    /\ cached' = NULL
    /\ UNCHANGED <<handlerVars, figures, recalc, display, awaits, news, told, connected>>

\* The request fails; react-query gives up after its retry.
DashboardFails(w) ==
    /\ Die(w)
    /\ LET c == ctx[w].reader IN
       IF awaits[c] = w
          THEN awaits' = [awaits EXCEPT ![c] = "idle"] /\ told' = [told EXCEPT ![c] = FALSE]
          ELSE UNCHANGED <<awaits, told>>
    /\ UNCHANGED <<figures, cached, recalc, display, news, connected>>

\* Mutant: the event is emitted and the cache kept.
DropNothing ==
    /\ recalc = "idle"
    /\ \A c \in Readers : ~news[c] /\ ~told[c]
    /\ recalc' = "emit"
    /\ UNCHANGED <<handlerVars, figures, cached, display, awaits, news, told, connected>>

\* recalcDashboards: del, then emit.  It comes every five minutes, after the pages have been
\* answered what the event before made them ask.
DropCache ==
    /\ recalc = "idle"
    /\ \A c \in Readers : ~news[c] /\ ~told[c]
    /\ recalc' = "emit"
    /\ cached' = NULL
    /\ UNCHANGED <<handlerVars, figures, display, awaits, news, told, connected>>

EmitUpdated ==
    /\ recalc = "emit"
    /\ recalc' = "idle"
    /\ news' = [c \in Readers |-> news[c] \/ connected[c]]
    /\ UNCHANGED <<handlerVars, figures, cached, display, awaits, told, connected>>

\* The server restarts between the two.
RecalcDies ==
    /\ recalc = "emit"
    /\ failures < MaxFailures
    /\ failures' = failures + 1
    /\ recalc' = "idle"
    /\ UNCHANGED <<pc, ctx, figures, cached, display, awaits, news, told, connected>>

-----------------------------------------------------------------------------
(* The page                                                                *)

\* invalidateQueries: a first load that is on its way is not asked for again.
InvalidateDashboard(c) ==
    /\ news[c]
    /\ news' = [news EXCEPT ![c] = FALSE]
    /\ IF display[c] # NULL \/ awaits[c] = "idle"
          THEN awaits' = [awaits EXCEPT ![c] = "asked"] /\ told' = [told EXCEPT ![c] = TRUE]
          ELSE UNCHANGED <<awaits, told>>
    /\ UNCHANGED <<handlerVars, figures, cached, recalc, display, connected>>

\* The reader comes back to the window.
Refocus(c) ==
    /\ awaits[c] = "idle"
    /\ c \in Listeners
    /\ awaits' = [awaits EXCEPT ![c] = "asked"]
    /\ UNCHANGED <<handlerVars, figures, cached, recalc, display, news, told, connected>>

Connect(c) ==
    /\ c \in Listeners
    /\ awaits[c] # "closed"
    /\ ~connected[c]
    /\ connected' = [connected EXCEPT ![c] = TRUE]
    /\ UNCHANGED <<handlerVars, figures, cached, recalc, display, awaits, news, told>>

\* What was on its way is lost.
Disconnect(c) ==
    /\ connected[c]
    /\ connected' = [connected EXCEPT ![c] = FALSE]
    /\ news' = [news EXCEPT ![c] = FALSE]
    /\ UNCHANGED <<handlerVars, figures, cached, recalc, display, awaits, told>>

-----------------------------------------------------------------------------
DashboardStep(w) ==
    RememberGet(w) \/ computeAdmin(w) \/ sellerDashboard(w) \/ RememberSet(w)

Serve(c) == \E w \in Workers : StartDashboard(w, c)

OverviewNext ==
    \/ FiguresChange \/ CacheExpires \/ DropCache \/ EmitUpdated \/ RecalcDies
    \/ \E w \in Workers : DashboardStep(w) \/ DashboardFails(w)
    \/ \E c \in Readers : Serve(c) \/ InvalidateDashboard(c) \/ Refocus(c)
                             \/ Connect(c) \/ Disconnect(c)

OverviewTypeOK ==
    /\ figures \in Versions
    /\ cached \in Versions \cup {NULL}
    /\ recalc \in {"idle", "emit"}
    /\ display \in [Readers -> Versions \cup {NULL}]
    /\ awaits \in [Readers -> Workers \cup {"closed", "idle", "asked"}]
    /\ news \in [Readers -> BOOLEAN]
    /\ told \in [Readers -> BOOLEAN]
    /\ connected \in [Readers -> BOOLEAN]
    /\ failures \in 0 .. MaxFailures
=============================================================================
