--------------------------------- MODULE Tab ---------------------------------
(***************************************************************************)
(* A browser tab on the application, one of its loads and one of its acts, *)
(* and the server that admits or refuses them.                             *)
(*                                                                         *)
(* user is the role the tab takes its reader for, account the role the     *)
(* server has on file.  The tab looks at one load of its page (query, a    *)
(* key of the query cache); what it does not look at is there if the       *)
(* server gives it away.  Of the data shown, and of the answer on its way, *)
(* all that counts is whether they are from before the act under way.      *)
(***************************************************************************)
EXTENDS Site

CONSTANT MaxPromotions   \* bound: how often the role of an account is changed

ASSUME TabAssumption == MaxPromotions \in Nat

VARIABLES
    account,     \* the role on file (users, employees)
    promotions,  \* changes of it so far
    user,        \* the role in the tab, or Nobody
    page, from,  \* where it is, and where a login leads back to
    query,       \* the key of the load that is looked at, or NoKey
    shown,       \* what it shows: "nothing", "before" or "current"
    fetch,       \* the request for it: "idle", "asked", "refused", or the answer on its way
    act,         \* the act under way, or NoAct
    body,        \* the fields it sends
    stage        \* "idle", "sent", "committed", "refused", "failed", "done" or "joined"

readVars  == <<query, shown, fetch>>
actVars   == <<act, body, stage>>
placeVars == <<user, page, from>>
tabVars   == <<account, promotions, placeVars, readVars, actVars>>

NoKey == <<>>
NoAct == useApiMutation("none", {}, {}, {})

TabInit ==
    /\ account \in Roles
    /\ promotions = 0
    /\ user = Nobody /\ page = "HomePage" /\ from = Nowhere
    /\ query = NoKey /\ shown = "nothing" /\ fetch = "idle"
    /\ act = NoAct /\ body = {} /\ stage = "idle"

\* Whom the server takes the tab for: jwt.strategy reads the role of the account anew.
Caller == IF user = Nobody THEN Nobody ELSE account

LoadsOf(name) == Site[user][name].loads \cup When(user \in Staff, {useUnreadCount})

Loads  == LoadsOf(page)
Offers == Site[user][page].acts \cup {CookieConsent}

Load(key)   == CHOOSE load \in Loads : load.key = key
Given(load) == Admitted(load.route, Caller) /\ PaginationQueryDto(load.limit)

\* What an act needs is shown, or could be.
Ready(offer) ==
    \A key \in offer.needs : IF key = query THEN shown # "nothing" ELSE Given(Load(key))

-----------------------------------------------------------------------------
(* Moving about.  Bound: the reader waits for an act to end.               *)

\* Another page has loaded nothing yet.
Arrive(name, back) ==
    /\ stage = "idle"
    /\ page' = name /\ from' = back
    /\ query' = NoKey /\ shown' = "nothing" /\ fetch' = "idle"
    /\ UNCHANGED actVars

\* ProtectedRoute leads a reader there or elsewhere, and the login remembers where from.
Enter(reader, name) ==
    LET reached == ProtectedRoute(reader, name) IN
    Arrive(reached, IF reached = "LoginPage" /\ name # reached THEN name ELSE Nowhere)

\* A link, a bookmark, an address typed in
Visit(name) ==
    /\ name \notin Drawers
    /\ Enter(user, name)
    /\ UNCHANGED <<account, promotions, user>>

\* The form of the login is open to whoever is signed in already, too.
SignIn(role) ==
    /\ page = "LoginPage"
    /\ Valid(Api["login"].body, {"email", "password"})
    /\ account' = role /\ user' = role
    /\ Enter(role, IF from = Nowhere THEN "DashboardPage" ELSE from)
    /\ UNCHANGED promotions

SignUp ==
    /\ page = "RegisterPage"
    /\ Valid(Api["register"].body, {"fullName", "email", "password", "document", "phone"})
    /\ account' = "CUSTOMER" /\ user' = "CUSTOMER"
    /\ Enter("CUSTOMER", "AccountPage")
    /\ UNCHANGED promotions

\* Mutant: the page stays open.
SignOutStays ==
    /\ stage = "idle"
    /\ user # Nobody
    /\ user' = Nobody
    /\ UNCHANGED <<account, promotions, page, from, readVars, actVars>>

\* The way home is never taken when the call that signs out is refused.
SignOut ==
    /\ user # Nobody
    /\ user' = Nobody
    /\ Enter(Nobody, IF Valid(Api["logout"].body, {}) THEN "HomePage" ELSE Under(page))
    /\ UNCHANGED <<account, promotions>>

\* Loading the application anew asks the server who the reader is.
RefreshMe ==
    /\ user # Nobody
    /\ user' = account
    /\ Enter(account, Under(page))
    /\ UNCHANGED <<account, promotions>>

OpenDrawer(name) ==
    /\ stage = "idle"
    /\ Site[user][name].over = page
    /\ name = "MovementDrawer" => user = "ADMIN"
    /\ page' = name
    /\ UNCHANGED <<account, promotions, user, from, readVars, actVars>>

\* What only the drawer showed goes with it.
Uncover ==
    /\ page' = Under(page)
    /\ query' = IF \E load \in LoadsOf(Under(page)) : load.key = query THEN query ELSE NoKey

CloseDrawer ==
    /\ stage = "idle"
    /\ page \in Drawers
    /\ Uncover
    /\ IF query' = query THEN UNCHANGED <<shown, fetch>> ELSE shown' = "nothing" /\ fetch' = "idle"
    /\ UNCHANGED <<account, promotions, user, from, actVars>>

\* An administrator changes the role of an employee.
ChangeRole ==
    /\ promotions < MaxPromotions
    /\ account \in Staff
    /\ account' \in Staff \ {account}
    /\ promotions' = promotions + 1
    /\ UNCHANGED <<placeVars, readVars, actVars>>
-----------------------------------------------------------------------------
(* Loading                                                                 *)

Look(load) ==
    /\ query = NoKey
    /\ query' = load.key /\ fetch' = "asked"
    /\ UNCHANGED <<account, promotions, placeVars, shown, actVars>>

\* The reader comes back to the tab, or the unread count is due.
Refetch ==
    /\ query # NoKey
    /\ fetch \in {"idle", "refused"}
    /\ fetch' = "asked"
    /\ UNCHANGED <<account, promotions, placeVars, query, shown, actVars>>

Answer ==
    /\ fetch = "asked"
    /\ fetch' = IF Given(Load(query)) THEN "current" ELSE "refused"
    /\ UNCHANGED <<account, promotions, placeVars, query, shown, actVars>>

Receive ==
    /\ fetch \in {"current", "before"}
    /\ shown' = fetch /\ fetch' = "idle"
    /\ UNCHANGED <<account, promotions, placeVars, query, actVars>>

-----------------------------------------------------------------------------
(* Acting.  A form sends what is filled in: only what must be, or all.     *)

Send(offer) ==
    /\ stage = "idle"
    /\ Ready(offer)
    /\ stage' = "sent" /\ act' = offer
    /\ \E extra \in {{}, offer.may} : body' = offer.always \cup extra
    /\ UNCHANGED <<account, promotions, placeVars, readVars>>

Stale(copy) ==
    IF /\ copy = "current" /\ query # NoKey
       /\ Load(query).shows \cap Api[act.route].changes # {}
    THEN "before" ELSE copy

Commit ==
    /\ stage = "sent"
    /\ IF Admitted(act.route, Caller) /\ Valid(Api[act.route].body, body)
          THEN stage' = "committed" /\ shown' = Stale(shown) /\ fetch' = Stale(fetch)
          ELSE stage' = "refused" /\ UNCHANGED <<shown, fetch>>
    /\ UNCHANGED <<account, promotions, placeVars, query, act, body>>

\* The handler refuses it for a reason of its own, or its answer is lost.
Fail ==
    /\ stage \in {"sent", "committed"}
    /\ stage' = "failed"
    /\ UNCHANGED <<account, promotions, placeVars, readVars, act, body>>

SucceedSilently ==
    /\ stage = "committed"
    /\ stage' = "done"
    /\ UNCHANGED <<account, promotions, placeVars, readVars, act, body>>

\* Data that is shown is asked for again, whatever is on its way; a first load on its way is
\* not, and counts as the new one.
Succeed ==
    LET again == query # NoKey /\ Invalidates(act, query)
        first == shown = "nothing" /\ fetch \notin {"idle", "refused"}
    IN  /\ stage = "committed"
        /\ stage' = IF again /\ first THEN "joined" ELSE "done"
        /\ IF act.onClose THEN Uncover ELSE UNCHANGED <<page, query>>
        /\ IF query' = query
              THEN shown' = shown /\ fetch' = IF again /\ ~first THEN "asked" ELSE fetch
              ELSE shown' = "nothing" /\ fetch' = "idle"
        /\ UNCHANGED <<account, promotions, user, from, act, body>>

\* The act is over; only success has invalidated anything.
Settle ==
    /\ stage \in {"refused", "failed", "done", "joined"}
    /\ stage' = "idle" /\ act' = NoAct /\ body' = {}
    /\ shown' = IF shown = "before" THEN "current" ELSE shown
    /\ fetch' = IF fetch = "before" THEN "current" ELSE fetch
    /\ UNCHANGED <<account, promotions, placeVars, query>>

-----------------------------------------------------------------------------
TabMove ==
    \/ \E name \in Names : Visit(name) \/ OpenDrawer(name)
    \/ \E role \in Roles : SignIn(role)
    \/ SignUp \/ SignOut \/ RefreshMe \/ CloseDrawer \/ ChangeRole

TabRead == (\E load \in Loads : Look(load)) \/ Refetch \/ Answer \/ Receive

TabAct == (\E offer \in Offers : Send(offer)) \/ Commit \/ Fail \/ Succeed \/ Settle

TabNext == TabMove \/ TabRead \/ TabAct

TabTypeOK ==
    /\ account \in Roles
    /\ promotions \in 0 .. MaxPromotions
    /\ user \in Everybody
    /\ page \in Names /\ from \in Names \cup {Nowhere}
    /\ query = NoKey \/ \E load \in Loads : load.key = query
    /\ shown \in {"nothing", "before", "current"}
    /\ fetch \in {"idle", "asked", "refused", "before", "current"}
    /\ stage \in {"idle", "sent", "committed", "refused", "failed", "done", "joined"}

-----------------------------------------------------------------------------
\* A page is never shown to a reader it is not for, however he came there: by an address, a
\* login that leads back, a role that has changed, a sign-out (ProtectedRoute.tsx:5).
PageFitsUser == user \in Audience(page)

\* Every entry of the menu opens what it names (nav.ts:74, Layout.tsx:41, App.tsx:54).
MenuOpens == \A name \in visibleGroups(user) : ProtectedRoute(user, name) = name

LoadRefused == fetch = "asked" /\ fetch' = "refused"
ActRefused  == stage = "sent" /\ stage' = "refused"

\* The server refuses nothing that a page does of its own accord or lets its reader do, as long
\* as the tab takes the reader for what he is (roles.guard.ts:15, main.ts:35).
OffersAreAccepted == [][LoadRefused \/ ActRefused => Caller # user]_tabVars

\* The same of all but one load (shared.tsx:24).
OtherOffersAreAccepted ==
    [][(LoadRefused /\ query # usePartOptions.key) \/ ActRefused => Caller # user]_tabVars

\* No field that a form fills in is dropped by the whitelist (main.ts:37), but for the contact
\* and the city of a supplier (Inventory.tsx:132).
FilledFieldsAreKept ==
    stage = "sent" =>
        body \ Whitelist(Api[act.route].body, body) \subseteq
            (IF act.route = "createSupplier" THEN {"contactName", "city"} ELSE {})

\* Three pairs are left behind: the state of the checklist beside the list of documents, and
\* the movements beside the status of a vehicle.
LeftBehind ==
    {<<"uploadDocument", "checklist-status">>, <<"validateDocument", "checklist-status">>,
     <<"changeStatus", "vehicleStock">>}

\* Once an act has succeeded and its page is at rest again, the page shows what was done, but
\* for what is left behind (data.ts:51).
OwnWorkShows ==
    stage = "done" /\ fetch = "idle" /\ shown = "before" =>
        <<act.route, Head(query)>> \in LeftBehind
=============================================================================
