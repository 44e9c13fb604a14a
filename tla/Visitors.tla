------------------------------ MODULE Visitors ------------------------------
(***************************************************************************)
(* What PrivacyService keeps about who looks at vehicles: favorites, with  *)
(* the counter on the vehicle, and views, with theirs.  A request looks    *)
(* for the favorite first; the row and the counter then change in one      *)
(* transaction, which the unique key or the missing row makes fail.        *)
(***************************************************************************)
EXTENDS Handlers

CONSTANTS
    Customers,  \* ids for Customer rows
    Vehicles,   \* ids for Vehicle rows
    MaxViews    \* bound: views of a vehicle

ASSUME VisitorsAssumption == MaxViews \in Nat

VARIABLES
    favorite,       \* the Favorite rows, as pairs of customer and vehicle
    favoriteCount,  \* Vehicle.favoriteCount
    views,          \* views[v]: the customers of the VehicleView rows, NULL for a visitor
    viewCount,      \* Vehicle.viewCount
    visited         \* visited[c]: the vehicles the signed-in customer has looked at

visitorVars == <<favorite, favoriteCount, views, viewCount, visited>>

VisitorsTypeOK ==
    /\ favorite \subseteq Customers \X Vehicles
    /\ favoriteCount \in [Vehicles -> Int]
    /\ views \in [Vehicles -> [Customers \cup {NULL} -> Nat]]
    /\ viewCount \in [Vehicles -> Nat]
    /\ visited \in [Customers -> SUBSET Vehicles]

VisitorsInit ==
    /\ favorite = {}
    /\ favoriteCount = [v \in Vehicles |-> 0]
    /\ views = [v \in Vehicles |-> [c \in Customers \cup {NULL} |-> 0]]
    /\ viewCount = [v \in Vehicles |-> 0]
    /\ visited = [c \in Customers |-> {}]

-----------------------------------------------------------------------------
(* addFavorite, removeFavorite                                             *)

RequestFavorite(w, c, v) ==
    /\ <<c, v>> \notin favorite
    /\ Begin(w, "favorite.create", [pair |-> <<c, v>>])
    /\ UNCHANGED visitorVars

\* Mutant: the counter does not depend on the row.
CreateFavoriteAnyway(w) ==
    /\ At(w, "favorite.create")
    /\ favorite' = favorite \cup {ctx[w].pair}
    /\ favoriteCount' = [favoriteCount EXCEPT ![ctx[w].pair[2]] = @ + 1]
    /\ Return(w)
    /\ UNCHANGED <<views, viewCount, visited>>

CreateFavorite(w) ==
    /\ At(w, "favorite.create")
    /\ ctx[w].pair \notin favorite
    /\ favorite' = favorite \cup {ctx[w].pair}
    /\ favoriteCount' = [favoriteCount EXCEPT ![ctx[w].pair[2]] = @ + 1]
    /\ Return(w)
    /\ UNCHANGED <<views, viewCount, visited>>

RequestUnfavorite(w, c, v) ==
    /\ <<c, v>> \in favorite
    /\ Begin(w, "favorite.delete", [pair |-> <<c, v>>])
    /\ UNCHANGED visitorVars

DeleteFavorite(w) ==
    /\ At(w, "favorite.delete")
    /\ ctx[w].pair \in favorite
    /\ favorite' = favorite \ {ctx[w].pair}
    /\ favoriteCount' = [favoriteCount EXCEPT ![ctx[w].pair[2]] = @ - 1]
    /\ Return(w)
    /\ UNCHANGED <<views, viewCount, visited>>

\* The transaction fails: the row is there, or gone, by now.
FavoriteFails(w) ==
    /\ \/ At(w, "favorite.create") /\ ctx[w].pair \in favorite
       \/ At(w, "favorite.delete") /\ ctx[w].pair \notin favorite
    /\ Return(w)
    /\ UNCHANGED visitorVars

-----------------------------------------------------------------------------
(* Views                                                                   *)

\* JwtAuthGuard lets a request to a public route through before any strategy has run:
\* whoever sends it, and whatever token it carries, it has no user.
UserOfPublicRoute(viewer) == NULL

\* trackVehicleView: one transaction.  viewer is the signed-in customer, or NULL.
TrackVehicleView(v, viewer) ==
    /\ viewCount[v] < MaxViews
    /\ views' = [views EXCEPT ![v][UserOfPublicRoute(viewer)] = @ + 1]
    /\ viewCount' = [viewCount EXCEPT ![v] = @ + 1]
    /\ visited' = IF viewer = NULL THEN visited
                  ELSE [visited EXCEPT ![viewer] = @ \cup {v}]
    /\ UNCHANGED <<favorite, favoriteCount, handlerVars>>

\* myViewHistory selects the rows of the customer.
ViewHistory(c) == {v \in Vehicles : views[v][c] > 0}

VisitorsStep(w) == CreateFavorite(w) \/ DeleteFavorite(w) \/ FavoriteFails(w)

VisitorsRequest(w) ==
    \E v \in Vehicles :
       \/ \E c \in Customers :
             RequestFavorite(w, c, v) \/ RequestUnfavorite(w, c, v) \/ TrackVehicleView(v, c)
       \/ TrackVehicleView(v, NULL)

-----------------------------------------------------------------------------
FavoritesOf(v) == {p \in favorite : p[2] = v}

\* However often and by however many overlapping requests a vehicle is marked and unmarked,
\* the counter shown with it is the number of customers who have it
\* (privacy.service.ts:157, :172).
FavoritesAreCounted ==
    \A v \in Vehicles : favoriteCount[v] = Cardinality(FavoritesOf(v))

\* Customers may see the history of the vehicles they have looked at
\* (docs/ROLES_AND_PERMISSIONS.md:29).
HistoryShowsViews == \A c \in Customers : visited[c] \subseteq ViewHistory(c)
=============================================================================
