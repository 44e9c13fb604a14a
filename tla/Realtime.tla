------------------------------ MODULE Realtime ------------------------------
(***************************************************************************)
(* Events to connected staff and customers: over sockets, which join rooms *)
(* when they connect, and over the stream of server-sent events, which     *)
(* filters for each subscriber.  Both keep the role they knew at the start.*)
(***************************************************************************)
EXTENDS Integers

CONSTANTS
    Members,    \* users; each is the seller with his own name
    Unknown,    \* no token, no connection, no seller
    MaxMoves    \* bound: changes of roles

ASSUME RealtimeAssumption == MaxMoves \in Nat

VARIABLES
    onFile,    \* on file
    moves,   \* changes of roles so far
    token,   \* the role in the access token of a browser, or Unknown
    socket,  \* the role whose room its socket has joined, or Unknown
    stream   \* the role its stream is filtered for, or Unknown

realtimeVars == <<onFile, moves, token, socket, stream>>

StaffRoles  == {"ADMIN", "SELLER"}
MemberRoles == StaffRoles \cup {"CUSTOMER"}

ASSUME UnknownAssumption == Unknown \notin Members \cup MemberRoles

\* What the services emit: an event, the roles it is for ({} where they are left out), and
\* whether it names the seller it is about
To(roles, name)    == [name |-> name, roles |-> roles, seller |-> FALSE]
ToAdmins(name)     == To({"ADMIN"}, name)
ToStaff(name)      == To({"ADMIN", "SELLER"}, name)
ToEverybody(name)  == To({}, name)
AboutASeller(name) == [name |-> name, roles |-> {"ADMIN"}, seller |-> TRUE]

VehicleEvents ==
    {ToStaff("vehicle.created"), ToStaff("vehicle.updated"), ToStaff("vehicle.status_changed"),
     ToAdmins("vehicle.viewed")}

WorkshopEvents ==
    {ToAdmins("part.stock_low"), ToAdmins("maintenance.created"),
     ToAdmins("maintenance.completed")}

DocumentEvents == {ToStaff("document.pending"), ToStaff("document.expiring")}
LeadEvents     == {ToAdmins("lead.created"), AboutASeller("lead.assigned")}
SaleEvents     == {AboutASeller("sale.created"), AboutASeller("sale.completed")}

CommissionEvents ==
    {AboutASeller("commission.generated"), AboutASeller("commission.approved"),
     AboutASeller("commission.paid")}

DashboardEvents == {ToEverybody("dashboard.updated")}

EVENTS ==
    VehicleEvents \cup WorkshopEvents \cup DocumentEvents \cup LeadEvents \cup SaleEvents \cup
    CommissionEvents \cup DashboardEvents

RealtimeInit ==
    /\ onFile \in [Members -> MemberRoles]
    /\ moves = 0
    /\ token  = [u \in Members |-> Unknown]
    /\ socket = [u \in Members |-> Unknown]
    /\ stream = [u \in Members |-> Unknown]

-----------------------------------------------------------------------------
\* A login or a refresh puts the role of the account in the token.
IssueAccess(u) ==
    /\ token' = [token EXCEPT ![u] = onFile[u]]
    /\ UNCHANGED <<onFile, moves, socket, stream>>

ChangeRoleOf(u) ==
    /\ moves < MaxMoves
    /\ onFile[u] \in StaffRoles
    /\ \E other \in StaffRoles \ {onFile[u]} : onFile' = [onFile EXCEPT ![u] = other]
    /\ moves' = moves + 1
    /\ UNCHANGED <<token, socket, stream>>

\* The rooms of the token; without one the socket is disconnected.
handleConnection(u) ==
    /\ socket[u] = Unknown
    /\ token[u] # Unknown
    /\ socket' = [socket EXCEPT ![u] = token[u]]
    /\ UNCHANGED <<onFile, moves, token, stream>>

\* The guards read the account, then the stream goes on for whom they have found.
Subscribe(u) ==
    /\ stream[u] = Unknown
    /\ token[u] # Unknown
    /\ onFile[u] \in StaffRoles
    /\ stream' = [stream EXCEPT ![u] = onFile[u]]
    /\ UNCHANGED <<onFile, moves, token, socket>>

\* The page is left, or the network breaks.
Hangs(u) ==
    /\ \/ socket[u] # Unknown /\ socket' = [socket EXCEPT ![u] = Unknown] /\ UNCHANGED stream
       \/ stream[u] # Unknown /\ stream' = [stream EXCEPT ![u] = Unknown] /\ UNCHANGED socket
    /\ UNCHANGED <<onFile, moves, token>>

-----------------------------------------------------------------------------
InRoom(u, room) == IF socket[u] = room THEN 1 ELSE 0

\* Mutant: a seller named is not looked at.
dispatchByRole(message, u) ==
    IF message.roles # {} /\ \A named \in message.roles : InRoom(u, named) = 0 THEN 0
    ELSE IF socket[u] # Unknown THEN 1 ELSE 0

\* How often the socket of u gets a message: a seller named gets it in a room of his own.
dispatch(message, u) ==
    IF message.sellerId # Unknown
       THEN (IF u = message.sellerId /\ socket[u] # Unknown THEN 1 ELSE 0) + InRoom(u, "ADMIN")
    ELSE IF message.roles # {}
       THEN IF \E named \in message.roles : InRoom(u, named) = 1 THEN 1 ELSE 0
    ELSE IF socket[u] # Unknown THEN 1 ELSE 0

isAllowed(message, u) ==
    /\ message.roles = {} \/ stream[u] \in message.roles
    /\ message.sellerId = Unknown \/ stream[u] = "ADMIN" \/ message.sellerId = u

\* Nothing is kept of an event: what counts is whom it reaches, at any moment.
emit(event, seller) ==
    LET message == [roles |-> event.roles, sellerId |-> seller] IN
    [sockets |-> {u \in Members : dispatch(message, u) > 0},
     streams |-> {u \in Members : stream[u] # Unknown /\ isAllowed(message, u)}]

\* About whom an event can be
Subject(event) ==
    IF event.seller THEN {u \in Members : onFile[u] \in StaffRoles} ELSE {Unknown}

RealtimeNext ==
    \E u \in Members :
       IssueAccess(u) \/ ChangeRoleOf(u) \/ handleConnection(u) \/ Subscribe(u) \/ Hangs(u)

RealtimeTypeOK ==
    /\ onFile \in [Members -> MemberRoles]
    /\ moves \in 0 .. MaxMoves
    /\ token \in [Members -> MemberRoles \cup {Unknown}]
    /\ socket \in [Members -> MemberRoles \cup {Unknown}]
    /\ stream \in [Members -> StaffRoles \cup {Unknown}]

-----------------------------------------------------------------------------
\* The audiences of docs/REALTIME_EVENTS.md
Audiences(name, seller) ==
    CASE name \in {"vehicle.created", "vehicle.updated", "vehicle.status_changed",
                    "document.pending", "document.expiring"} ->
            {u \in Members : onFile[u] \in StaffRoles}
      [] name \in {"lead.assigned", "sale.created", "sale.completed", "commission.generated",
                    "commission.approved", "commission.paid"} ->
            {u \in Members : onFile[u] = "ADMIN"} \cup {seller}
      [] name = "dashboard.updated" -> Members
      [] OTHER -> {u \in Members : onFile[u] = "ADMIN"}

\* Over the sockets an event reaches whom it is for and nobody else, and what is about one seller
\* no other; only a socket that joined before the role changed is served as before
\* (realtime.gateway.ts:14, :71).
SocketsReachTheAudience ==
    \A event \in EVENTS : \A seller \in Subject(event) : \A u \in Members :
       socket[u] = onFile[u] =>
           (u \in emit(event, seller).sockets <=> u \in Audiences(event.name, seller))

\* The stream, which filters by its own rule, delivers nothing that the sockets would keep from
\* the same reader (realtime.controller.ts:45).
StreamIsNarrower ==
    \A event \in EVENTS : \A seller \in Subject(event) :
       \A u \in emit(event, seller).streams :
           socket[u] = stream[u] => u \in emit(event, seller).sockets
=============================================================================
