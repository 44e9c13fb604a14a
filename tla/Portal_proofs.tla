---------------------------- MODULE Portal_proofs ----------------------------
(***************************************************************************)
(* The browser side for any number of members and of changes of roles:     *)
(* whom an event reaches, which pages a reader sees, and what the server   *)
(* makes of what they do.                                                  *)
(*                                                                         *)
(* The first two are the same for every state: what they take of the state *)
(* is that rooms and streams are those of roles, and that every way into a *)
(* page goes through ProtectedRoute, but for drawers, which open over a    *)
(* page and are for the same readers.  The third is a fact about each      *)
(* page, read against the routes it calls, and an inductive invariant of   *)
(* the load that is looked at and the act under way.  The last section     *)
(* gives the shape of it all, and who is waited for by a dashboard.        *)
(***************************************************************************)
EXTENDS Portal, TLAPS

-----------------------------------------------------------------------------
(* Whom an event is for                                                    *)

StaffNews ==
    {"vehicle.created", "vehicle.updated", "vehicle.status_changed", "document.pending",
     "document.expiring"}

AdminNews ==
    {"vehicle.viewed", "part.stock_low", "maintenance.created", "maintenance.completed",
     "lead.created"}

SellerNews ==
    {"lead.assigned", "sale.created", "sale.completed", "commission.generated",
     "commission.approved", "commission.paid"}

\* What the services emit, by audience
LEMMA EventGroups ==
    ASSUME NEW event \in EVENTS
    PROVE  \/ event.name \in StaffNews /\ event = ToStaff(event.name)
           \/ event.name \in AdminNews /\ event = ToAdmins(event.name)
           \/ event.name \in SellerNews /\ event = AboutASeller(event.name)
           \/ event.name = "dashboard.updated" /\ event = ToEverybody(event.name)
<1> USE DEF To, ToStaff, ToAdmins, ToEverybody, AboutASeller
<1>1. ASSUME event \in VehicleEvents
      PROVE  \/ event.name \in StaffNews /\ event = ToStaff(event.name)
             \/ event.name \in AdminNews /\ event = ToAdmins(event.name)
  BY <1>1 DEF VehicleEvents, StaffNews, AdminNews
<1>2. ASSUME event \in WorkshopEvents
      PROVE  event.name \in AdminNews /\ event = ToAdmins(event.name)
  BY <1>2 DEF WorkshopEvents, AdminNews
<1>3. ASSUME event \in DocumentEvents
      PROVE  event.name \in StaffNews /\ event = ToStaff(event.name)
  BY <1>3 DEF DocumentEvents, StaffNews
<1>4. ASSUME event \in LeadEvents
      PROVE  \/ event.name \in AdminNews /\ event = ToAdmins(event.name)
             \/ event.name \in SellerNews /\ event = AboutASeller(event.name)
  BY <1>4 DEF LeadEvents, AdminNews, SellerNews
<1>5. ASSUME event \in SaleEvents \cup CommissionEvents
      PROVE  event.name \in SellerNews /\ event = AboutASeller(event.name)
  BY <1>5 DEF SaleEvents, CommissionEvents, SellerNews
<1>6. ASSUME event \in DashboardEvents
      PROVE  event.name = "dashboard.updated" /\ event = ToEverybody(event.name)
  BY <1>6 DEF DashboardEvents
<1> QED BY <1>1, <1>2, <1>3, <1>4, <1>5, <1>6 DEF EVENTS

\* A message finds a socket in the rooms of a role it is for, or of the seller it is about.
LEMMA SocketsReach ==
    ASSUME RealtimeTypeOK
    PROVE  SocketsReachTheAudience
<1> SUFFICES ASSUME NEW event \in EVENTS, NEW seller \in Subject(event),
                    NEW u \in Members, socket[u] = onFile[u]
             PROVE  u \in emit(event, seller).sockets <=> u \in Audiences(event.name, seller)
  BY DEF SocketsReachTheAudience
<1> DEFINE message == [roles |-> event.roles, sellerId |-> seller]
<1>1. /\ u \in emit(event, seller).sockets <=> dispatch(message, u) > 0
      /\ onFile[u] \in MemberRoles /\ onFile[u] # Unknown
  BY UnknownAssumption DEF emit, RealtimeTypeOK
<1>2. CASE event.name \in StaffNews /\ event = ToStaff(event.name)
  <2>1. seller = Unknown
    BY <1>2 DEF Subject, ToStaff, To
  <2>2. Audiences(event.name, seller) = {x \in Members : onFile[x] \in StaffRoles}
    BY <1>2 DEF Audiences, StaffNews
  <2> QED BY <1>1, <1>2, <2>1, <2>2 DEF dispatch, InRoom, ToStaff, To, StaffRoles
<1>3. CASE event.name \in AdminNews /\ event = ToAdmins(event.name)
  <2>1. seller = Unknown
    BY <1>3 DEF Subject, ToAdmins, To
  <2>2. Audiences(event.name, seller) = {x \in Members : onFile[x] = "ADMIN"}
    BY <1>3 DEF Audiences, AdminNews
  <2> QED BY <1>1, <1>3, <2>1, <2>2 DEF dispatch, InRoom, ToAdmins, To
<1>4. CASE event.name \in SellerNews /\ event = AboutASeller(event.name)
  <2>1. seller \in Members /\ seller # Unknown
    BY <1>4, UnknownAssumption DEF Subject, AboutASeller
  <2>2. Audiences(event.name, seller) = {x \in Members : onFile[x] = "ADMIN"} \cup {seller}
    BY <1>4 DEF Audiences, SellerNews
  <2> QED BY <1>1, <1>4, <2>1, <2>2 DEF dispatch, InRoom, AboutASeller
<1>5. CASE event.name = "dashboard.updated" /\ event = ToEverybody(event.name)
  <2>1. seller = Unknown
    BY <1>5 DEF Subject, ToEverybody, To
  <2>2. Audiences(event.name, seller) = Members
    BY <1>5 DEF Audiences
  <2> QED BY <1>1, <1>5, <2>1, <2>2 DEF dispatch, ToEverybody, To
<1> QED BY <1>2, <1>3, <1>4, <1>5, EventGroups

\* The filter of the stream lets through what some room would.
LEMMA StreamKeepsBack ==
    ASSUME RealtimeTypeOK
    PROVE  StreamIsNarrower
<1> SUFFICES ASSUME NEW event \in EVENTS, NEW seller \in Subject(event),
                    NEW u \in emit(event, seller).streams, socket[u] = stream[u]
             PROVE  u \in emit(event, seller).sockets
  BY DEF StreamIsNarrower
<1> DEFINE message == [roles |-> event.roles, sellerId |-> seller]
<1>1. /\ u \in Members /\ stream[u] # Unknown /\ isAllowed(message, u)
      /\ u \in emit(event, seller).sockets <=> dispatch(message, u) > 0
  BY DEF emit
<1>2. CASE seller # Unknown
  BY <1>1, <1>2 DEF isAllowed, dispatch, InRoom
<1>3. CASE seller = Unknown
  BY <1>1, <1>3 DEF isAllowed, dispatch, InRoom
<1> QED BY <1>2, <1>3

LEMMA RealtimeTyped ==
    ASSUME RealtimeTypeOK, [PortalNext]_portalVars
    PROVE  RealtimeTypeOK'
<1>1. CASE UNCHANGED realtimeVars
  BY <1>1 DEF RealtimeTypeOK, realtimeVars
<1>2. CASE RealtimeNext
  <2>1. PICK u \in Members :
           IssueAccess(u) \/ ChangeRoleOf(u) \/ handleConnection(u) \/ Subscribe(u) \/ Hangs(u)
    BY <1>2 DEF RealtimeNext
  <2> USE DEF RealtimeTypeOK, StaffRoles, MemberRoles
  <2>2. CASE IssueAccess(u)
    BY <2>2 DEF IssueAccess
  <2>3. CASE ChangeRoleOf(u)
    BY <2>3, RealtimeAssumption DEF ChangeRoleOf
  <2>4. CASE handleConnection(u)
    BY <2>4 DEF handleConnection
  <2>5. CASE Subscribe(u)
    BY <2>5 DEF Subscribe
  <2>6. CASE Hangs(u)
    BY <2>6 DEF Hangs
  <2> QED BY <2>1, <2>2, <2>3, <2>4, <2>5, <2>6
<1> QED BY <1>1, <1>2 DEF PortalNext, portalVars

\* Over the sockets an event reaches whom it is for and nobody else, and the stream, which
\* filters by a rule of its own, delivers nothing that the sockets would keep from the same
\* reader (realtime.gateway.ts:71, realtime.controller.ts:45).
THEOREM EventsArrive == PortalFairSpec => []EventsReachTheAudience
<1>1. PortalInit => RealtimeTypeOK
  BY RealtimeAssumption DEF PortalInit, RealtimeInit, RealtimeTypeOK
<1>2. RealtimeTypeOK /\ [PortalNext]_portalVars => RealtimeTypeOK'
  BY RealtimeTyped
<1>3. RealtimeTypeOK => EventsReachTheAudience
  BY SocketsReach, StreamKeepsBack DEF EventsReachTheAudience
<1> QED BY <1>1, <1>2, <1>3, PTL DEF PortalFairSpec

-----------------------------------------------------------------------------
(* The pages of a reader                                                   *)

\* Pages that lie over no other, and drawers with what they lie over
Plain ==
    {"HomePage", "CatalogPage", "VehicleDetailPage", "LocationPage", "LoginPage",
     "RegisterPage", "ForgotPasswordPage"} \cup CustomerArea \cup StaffArea \cup AdminArea

Below ==
    [VehicleDrawer |-> "VehiclesAdminPage", MovementDrawer |-> "PartsPage",
     MaintenanceDrawer |-> "MaintenancePage", UploadDrawer |-> "DocumentsPage",
     SaleDrawer |-> "SalesPage", LeadDrawer |-> "LeadsPage", CustomerDrawer |-> "CustomersPage"]

LEMMA PageLies == \A loads, acts : Page(loads, acts).over = Nowhere
  BY DEF Page

LEMMA DrawerLies == \A over, under, loads, acts : Drawer(over, under, loads, acts).over = over
  BY DEF Drawer

LEMMA PagesLie ==
    ASSUME NEW role
    PROVE  /\ DOMAIN PagesOf(role) = Plain \cup DOMAIN Below
           /\ \A name \in Plain : PagesOf(role)[name].over = Nowhere
           /\ \A name \in DOMAIN Below : PagesOf(role)[name].over = Below[name]
<1>1. DOMAIN PagesOf(role) = Plain \cup DOMAIN Below
  BY DEF PagesOf, Plain, Below, CustomerArea, StaffArea, AdminArea
<1> USE PageLies
<1>2. /\ PagesOf(role).HomePage.over = Nowhere
      /\ PagesOf(role).CatalogPage.over = Nowhere
      /\ PagesOf(role).VehicleDetailPage.over = Nowhere
      /\ PagesOf(role).LocationPage.over = Nowhere
      /\ PagesOf(role).LoginPage.over = Nowhere
      /\ PagesOf(role).RegisterPage.over = Nowhere
      /\ PagesOf(role).ForgotPasswordPage.over = Nowhere
  BY DEF PagesOf, HomePage, CatalogPage, VehicleDetailPage, LocationPage, LoginPage,
         RegisterPage, ForgotPasswordPage
<1>3. \A name \in CustomerArea : PagesOf(role)[name].over = Nowhere
  BY DEF PagesOf, CustomerArea, AccountPage, FavoritesPage, ViewHistoryPage, PurchasesPage,
         PrivacyPage
<1>4. \A name \in StaffArea : PagesOf(role)[name].over = Nowhere
  BY DEF PagesOf, StaffArea, DashboardPage, VehiclesAdminPage, PartsPage, MaintenancePage,
         ChecklistStatusCard, FunnelPage, ReservationsPage, SalesPage, LeadsPage, CustomersPage,
         CommissionsPage, NotificationsPage
<1>5. \A name \in AdminArea : PagesOf(role)[name].over = Nowhere
  BY DEF PagesOf, AdminArea, AcquisitionsPage, DrePage, FinancialPage, CommissionRulesPage,
         EmployeesPage, UsersAccessPage, DocumentConfigPage, StoreConfigPage, ReportsPage,
         AuditPage
<1>6. \A name \in DOMAIN Below : PagesOf(role)[name].over = Below[name]
  BY DrawerLies DEF PagesOf, Below, VehicleDrawer, MovementDrawer, MaintenanceDrawer,
         UploadDrawer, SaleDrawer, LeadDrawer, CustomerDrawer
<1> QED BY <1>1, <1>2, <1>3, <1>4, <1>5, <1>6 DEF Plain

\* What lies over what, the same for every reader
LEMMA Layers ==
    /\ Names = Plain \cup DOMAIN Below /\ Nowhere \notin Names
    /\ \A reader \in Everybody, name \in Names :
          Site[reader][name].over = IF name \in DOMAIN Below THEN Below[name] ELSE Nowhere
    /\ Drawers = DOMAIN Below
    /\ \A name \in DOMAIN Below : Below[name] \in Plain
    /\ Plain \cap DOMAIN Below = {}
<1>1. Plain \cap DOMAIN Below = {} /\ Nowhere \notin Plain \cup DOMAIN Below
  BY DEF Plain, Below, CustomerArea, StaffArea, AdminArea, Nowhere
<1>2. \A name \in DOMAIN Below : Below[name] \in Plain
  BY DEF Plain, Below, StaffArea
<1>3. \A reader \in Everybody : Site[reader] = PagesOf(reader)
  BY DEF Site
<1>4. Nobody \in Everybody
  BY DEF Everybody
<1>5. Names = Plain \cup DOMAIN Below
  BY <1>3, <1>4, PagesLie DEF Names
<1>6. \A reader \in Everybody, name \in Names :
          Site[reader][name].over = IF name \in DOMAIN Below THEN Below[name] ELSE Nowhere
  BY <1>3, <1>5, PagesLie
<1>7. Drawers = DOMAIN Below
  BY <1>1, <1>2, <1>4, <1>5, <1>6 DEF Drawers
<1> QED BY <1>1, <1>2, <1>5, <1>6, <1>7

LEMMA UnderNames ==
    ASSUME NEW name \in Names
    PROVE  Under(name) \in Plain /\ Audience(Under(name)) = Audience(name)
<1>1. Under(name) \in Plain
  BY Layers DEF Under, Everybody
<1>2. Under(Under(name)) = Under(name)
  BY <1>1, Layers DEF Under
<1> QED BY <1>1, <1>2 DEF Audience

\* The pages nobody is kept from
LEMMA OpenToAll ==
    \A name \in {"HomePage", "CatalogPage", "LocationPage", "LoginPage", "RegisterPage"} :
        name \in Names /\ Audience(name) = Everybody
<1>1. \A name \in {"HomePage", "CatalogPage", "LocationPage", "LoginPage", "RegisterPage"} :
        name \in Plain /\ name \notin CustomerArea \cup StaffArea \cup AdminArea
  BY DEF Plain, CustomerArea, StaffArea, AdminArea
<1>2. \A name \in Plain : Under(name) = name
  BY Layers DEF Under
<1> QED BY <1>1, <1>2, Layers DEF Audience

\* Wherever ProtectedRoute leads a reader, he may be there.
LEMMA RouteFits ==
    ASSUME NEW reader \in Everybody, NEW name \in Names
    PROVE  /\ ProtectedRoute(reader, name) \in Names
           /\ reader \in Audience(ProtectedRoute(reader, name))
  BY OpenToAll DEF ProtectedRoute

\* Whom the areas are for
LEMMA AudienceOf ==
    /\ \A name \in CustomerArea : Audience(name) = {"CUSTOMER"}
    /\ \A name \in StaffArea \cup DOMAIN Below : Audience(name) = Staff
    /\ \A name \in AdminArea : Audience(name) = {"ADMIN"}
<1>1. /\ CustomerArea \cap StaffArea = {} /\ CustomerArea \cap AdminArea = {}
      /\ StaffArea \cap AdminArea = {}
  BY DEF CustomerArea, StaffArea, AdminArea
<1>2. \A name \in Plain : Under(name) = name
  BY Layers DEF Under
<1>3. \A name \in DOMAIN Below : Under(name) \in StaffArea
  <2>1. \A name \in DOMAIN Below : Below[name] \in StaffArea
    BY DEF Below, StaffArea
  <2> QED BY <2>1, Layers DEF Under, Everybody
<1> QED BY <1>1, <1>2, <1>3 DEF Audience, Plain

\* Every entry of the menu opens.
LEMMA MenusOpen ==
    \A reader \in Everybody : \A name \in visibleGroups(reader) :
        ProtectedRoute(reader, name) = name
<1> SUFFICES ASSUME NEW reader \in Everybody, NEW name \in visibleGroups(reader)
             PROVE  reader \in Audience(name)
  <2>1. \A name : Audience(name) \in {{"CUSTOMER"}, Staff, {"ADMIN"}, Everybody}
    BY DEF Audience
  <2>2. \A name : Nobody \in Audience(name) => Audience(name) = Everybody
    BY <2>1 DEF Staff, Nobody
  <2> QED BY <2>2 DEF ProtectedRoute
<1>1. staffNav(reader) = StaffArea \cup IF reader = "ADMIN" THEN AdminArea ELSE {}
  BY DEF staffNav, StaffArea, AdminArea, When
<1>2. \A other \in publicNav : Audience(other) = Everybody
  BY OpenToAll DEF publicNav
<1> QED BY <1>1, <1>2, AudienceOf DEF visibleGroups, customerNav, Staff

\* Where the tab is, and where a login leads back to, are pages; whoever is there may be.
TabInv ==
    /\ account \in Roles /\ user \in Everybody
    /\ page \in Names /\ from \in Names \cup {Nowhere}
    /\ PageFitsUser

LEMMA EnterFits ==
    ASSUME NEW reader \in Everybody, NEW name \in Names, Enter(reader, name),
           user' = reader, account' \in Roles
    PROVE  TabInv'
<1>1. /\ page' = ProtectedRoute(reader, name)
      /\ from' \in Names \cup {Nowhere}
  BY DEF Enter, Arrive
<1> QED BY <1>1, RouteFits DEF TabInv, PageFitsUser

\* Closing a drawer leaves its reader on a page for him.
LEMMA UncoverFits ==
    ASSUME TabInv, page' = page \/ page' = Under(page), UNCHANGED <<user, account, from>>
    PROVE  TabInv'
<1>1. page' \in Names /\ Audience(page') = Audience(page)
  BY UnderNames, Layers DEF TabInv
<1> QED BY <1>1 DEF TabInv, PageFitsUser

LEMMA TabFits ==
    ASSUME TabInv, TabNext
    PROVE  TabInv'
<1>1. \A role \in Roles : role \in Everybody
  BY DEF Everybody
<1>2. Nobody \in Everybody
  BY DEF Everybody
<1>3. \A name \in Names : Under(name) \in Names
  BY UnderNames, Layers
<1>4. ASSUME NEW name \in Names, Visit(name) PROVE TabInv'
  BY <1>4, EnterFits DEF Visit, TabInv
<1>5. ASSUME NEW name \in Names, OpenDrawer(name) PROVE TabInv'
  <2>1. page' = name /\ UNCHANGED <<account, user, from>> /\ Site[user][name].over = page
    BY <1>5 DEF OpenDrawer
  <2>2. name \in DOMAIN Below /\ Under(name) = page
    BY <1>2, <2>1, Layers DEF TabInv, Under
  <2>3. Audience(name) = Audience(page)
    BY <2>2, UnderNames
  <2> QED BY <2>1, <2>3 DEF TabInv, PageFitsUser
<1>6. ASSUME NEW role \in Roles, SignIn(role) PROVE TabInv'
  <2>1. "DashboardPage" \in Names
    BY Layers DEF Plain, StaffArea
  <2> QED BY <1>1, <1>6, <2>1, EnterFits DEF SignIn, TabInv
<1>7. CASE SignUp
  <2>1. "AccountPage" \in Names /\ "CUSTOMER" \in Roles
    BY Layers DEF Plain, CustomerArea, Roles
  <2> QED BY <1>1, <1>7, <2>1, EnterFits DEF SignUp
<1>8. CASE SignOut
  <2>1. PICK name \in Names : Enter(Nobody, name)
    BY <1>3, <1>8, OpenToAll DEF SignOut, TabInv
  <2> QED BY <1>2, <1>8, <2>1, EnterFits DEF SignOut, TabInv
<1>9. CASE RefreshMe
  BY <1>1, <1>3, <1>9, EnterFits DEF RefreshMe, TabInv
<1>10. CASE CloseDrawer
  BY <1>10, UncoverFits DEF CloseDrawer, Uncover
<1>11. CASE ChangeRole
  <2>1. account' \in Roles
    BY <1>11 DEF ChangeRole, Staff, Roles
  <2> QED BY <1>11, <2>1 DEF ChangeRole, placeVars, TabInv, PageFitsUser
<1>12. CASE TabRead
  BY <1>12, UncoverFits DEF TabRead, Look, Refetch, Answer, Receive, placeVars
<1>13. CASE TabAct
  <2>1. CASE Succeed
    BY <2>1, UncoverFits DEF Succeed, Uncover
  <2>2. CASE (\E offer \in Offers : Send(offer)) \/ Commit \/ Fail \/ Settle
    BY <2>2, UncoverFits DEF Send, Commit, Fail, Settle, placeVars
  <2> QED BY <1>13, <2>1, <2>2 DEF TabAct
<1> QED BY <1>4, <1>5, <1>6, <1>7, <1>8, <1>9, <1>10, <1>11, <1>12, <1>13 DEF TabNext, TabMove

LEMMA TabInductive ==
    /\ PortalInit => TabInv
    /\ TabInv /\ [PortalNext]_portalVars => TabInv'
<1>1. PortalInit => TabInv
  <2>1. Nobody \in Everybody
    BY DEF Everybody
  <2> QED BY <2>1, OpenToAll DEF PortalInit, TabInit, TabInv, PageFitsUser
<1>2. TabInv /\ [PortalNext]_portalVars => TabInv'
  <2>1. ASSUME TabInv, UNCHANGED tabVars PROVE TabInv'
    BY <2>1 DEF TabInv, tabVars, placeVars, PageFitsUser
  <2> QED BY <2>1, TabFits DEF PortalNext, portalVars
<1> QED BY <1>1, <1>2

\* A page is never shown to a reader it is not for, however he came there, and every entry of
\* his menu opens what it names (ProtectedRoute.tsx:5, nav.ts:74, App.tsx:54).
THEOREM PagesStayFit == PortalFairSpec => []PagesFitUser
<1>1. TabInv => PagesFitUser
  BY MenusOpen DEF TabInv, PagesFitUser, MenuOpens
<1> QED BY <1>1, TabInductive, PTL DEF PortalFairSpec
-----------------------------------------------------------------------------
(* What the server makes of what a page does                               *)

\* No route is one of two controllers.
LEMMA OneController ==
    \A c, d \in Controllers : \A name \in DOMAIN c \cap DOMAIN d : c = d
<1> USE DEF AuthController, CustomersController, EmployeesController, UsersController,
            PrivacyController, NotificationsController, VehiclesController,
            VehicleSpecsController, PartsController, MaintenanceController, DocumentsController,
            AcquisitionsController, ReservationsController, SalesController,
            CommissionsController, FinancialController, LeadsController, DashboardController,
            ReportsController, AuditController, StoreController, PublicController,
            RealtimeController
<1>1. ASSUME NEW name \in DOMAIN AuthController
      PROVE  \A d \in {CustomersController, EmployeesController, UsersController,
                   PrivacyController, NotificationsController, VehiclesController,
                   VehicleSpecsController, PartsController, MaintenanceController,
                   DocumentsController, AcquisitionsController, ReservationsController,
                   SalesController, CommissionsController, FinancialController,
                   LeadsController, DashboardController, ReportsController,
                   AuditController, StoreController, PublicController, RealtimeController}
                   : name \notin DOMAIN d
  BY <1>1
<1>2. ASSUME NEW name \in DOMAIN CustomersController
      PROVE  \A d \in {EmployeesController, UsersController, PrivacyController,
                   NotificationsController, VehiclesController, VehicleSpecsController,
                   PartsController, MaintenanceController, DocumentsController,
                   AcquisitionsController, ReservationsController, SalesController,
                   CommissionsController, FinancialController, LeadsController,
                   DashboardController, ReportsController, AuditController,
                   StoreController, PublicController, RealtimeController} : name
                   \notin DOMAIN d
  BY <1>2
<1>3. ASSUME NEW name \in DOMAIN EmployeesController
      PROVE  \A d \in {UsersController, PrivacyController, NotificationsController,
                   VehiclesController, VehicleSpecsController, PartsController,
                   MaintenanceController, DocumentsController, AcquisitionsController,
                   ReservationsController, SalesController, CommissionsController,
                   FinancialController, LeadsController, DashboardController,
                   ReportsController, AuditController, StoreController, PublicController,
                   RealtimeController} : name \notin DOMAIN d
  BY <1>3
<1>4. ASSUME NEW name \in DOMAIN UsersController
      PROVE  \A d \in {PrivacyController, NotificationsController, VehiclesController,
                   VehicleSpecsController, PartsController, MaintenanceController,
                   DocumentsController, AcquisitionsController, ReservationsController,
                   SalesController, CommissionsController, FinancialController,
                   LeadsController, DashboardController, ReportsController,
                   AuditController, StoreController, PublicController, RealtimeController}
                   : name \notin DOMAIN d
  BY <1>4
<1>5. ASSUME NEW name \in DOMAIN PrivacyController
      PROVE  \A d \in {NotificationsController, VehiclesController,
                   VehicleSpecsController, PartsController, MaintenanceController,
                   DocumentsController, AcquisitionsController, ReservationsController,
                   SalesController, CommissionsController, FinancialController,
                   LeadsController, DashboardController, ReportsController,
                   AuditController, StoreController, PublicController, RealtimeController}
                   : name \notin DOMAIN d
  BY <1>5
<1>6. ASSUME NEW name \in DOMAIN NotificationsController
      PROVE  \A d \in {VehiclesController, VehicleSpecsController, PartsController,
                   MaintenanceController, DocumentsController, AcquisitionsController,
                   ReservationsController, SalesController, CommissionsController,
                   FinancialController, LeadsController, DashboardController,
                   ReportsController, AuditController, StoreController, PublicController,
                   RealtimeController} : name \notin DOMAIN d
  BY <1>6
<1>7. ASSUME NEW name \in DOMAIN VehiclesController
      PROVE  \A d \in {VehicleSpecsController, PartsController, MaintenanceController,
                   DocumentsController, AcquisitionsController, ReservationsController,
                   SalesController, CommissionsController, FinancialController,
                   LeadsController, DashboardController, ReportsController,
                   AuditController, StoreController, PublicController, RealtimeController}
                   : name \notin DOMAIN d
  BY <1>7
<1>8. ASSUME NEW name \in DOMAIN VehicleSpecsController
      PROVE  \A d \in {PartsController, MaintenanceController, DocumentsController,
                   AcquisitionsController, ReservationsController, SalesController,
                   CommissionsController, FinancialController, LeadsController,
                   DashboardController, ReportsController, AuditController,
                   StoreController, PublicController, RealtimeController} : name
                   \notin DOMAIN d
  BY <1>8
<1>9. ASSUME NEW name \in DOMAIN PartsController
      PROVE  \A d \in {MaintenanceController, DocumentsController, AcquisitionsController,
                   ReservationsController, SalesController, CommissionsController,
                   FinancialController, LeadsController, DashboardController,
                   ReportsController, AuditController, StoreController, PublicController,
                   RealtimeController} : name \notin DOMAIN d
  BY <1>9
<1>10. ASSUME NEW name \in DOMAIN MaintenanceController
      PROVE  \A d \in {DocumentsController, AcquisitionsController,
                   ReservationsController, SalesController, CommissionsController,
                   FinancialController, LeadsController, DashboardController,
                   ReportsController, AuditController, StoreController, PublicController,
                   RealtimeController} : name \notin DOMAIN d
  BY <1>10
<1>11. ASSUME NEW name \in DOMAIN DocumentsController
      PROVE  \A d \in {AcquisitionsController, ReservationsController, SalesController,
                   CommissionsController, FinancialController, LeadsController,
                   DashboardController, ReportsController, AuditController,
                   StoreController, PublicController, RealtimeController} : name
                   \notin DOMAIN d
  BY <1>11
<1>12. ASSUME NEW name \in DOMAIN AcquisitionsController
      PROVE  \A d \in {ReservationsController, SalesController, CommissionsController,
                   FinancialController, LeadsController, DashboardController,
                   ReportsController, AuditController, StoreController, PublicController,
                   RealtimeController} : name \notin DOMAIN d
  BY <1>12
<1>13. ASSUME NEW name \in DOMAIN ReservationsController
      PROVE  \A d \in {SalesController, CommissionsController, FinancialController,
                   LeadsController, DashboardController, ReportsController,
                   AuditController, StoreController, PublicController, RealtimeController}
                   : name \notin DOMAIN d
  BY <1>13
<1>14. ASSUME NEW name \in DOMAIN SalesController
      PROVE  \A d \in {CommissionsController, FinancialController, LeadsController,
                   DashboardController, ReportsController, AuditController,
                   StoreController, PublicController, RealtimeController} : name
                   \notin DOMAIN d
  BY <1>14
<1>15. ASSUME NEW name \in DOMAIN CommissionsController
      PROVE  \A d \in {FinancialController, LeadsController, DashboardController,
                   ReportsController, AuditController, StoreController, PublicController,
                   RealtimeController} : name \notin DOMAIN d
  BY <1>15
<1>16. ASSUME NEW name \in DOMAIN FinancialController
      PROVE  \A d \in {LeadsController, DashboardController, ReportsController,
                   AuditController, StoreController, PublicController, RealtimeController}
                   : name \notin DOMAIN d
  BY <1>16
<1>17. ASSUME NEW name \in DOMAIN LeadsController
      PROVE  \A d \in {DashboardController, ReportsController, AuditController,
                   StoreController, PublicController, RealtimeController} : name
                   \notin DOMAIN d
  BY <1>17
<1>18. ASSUME NEW name \in DOMAIN DashboardController
      PROVE  \A d \in {ReportsController, AuditController, StoreController,
                   PublicController, RealtimeController} : name \notin DOMAIN d
  BY <1>18
<1>19. ASSUME NEW name \in DOMAIN ReportsController
      PROVE  \A d \in {AuditController, StoreController, PublicController,
                   RealtimeController} : name \notin DOMAIN d
  BY <1>19
<1>20. ASSUME NEW name \in DOMAIN AuditController
      PROVE  \A d \in {StoreController, PublicController, RealtimeController} : name
                   \notin DOMAIN d
  BY <1>20
<1>21. ASSUME NEW name \in DOMAIN StoreController
      PROVE  \A d \in {PublicController, RealtimeController} : name \notin DOMAIN d
  BY <1>21
<1>22. ASSUME NEW name \in DOMAIN PublicController
      PROVE  \A d \in {RealtimeController} : name \notin DOMAIN d
  BY <1>22
<1> HIDE DEF AuthController, CustomersController, EmployeesController, UsersController,
             PrivacyController, NotificationsController, VehiclesController,
             VehicleSpecsController, PartsController, MaintenanceController,
             DocumentsController, AcquisitionsController, ReservationsController,
             SalesController, CommissionsController, FinancialController, LeadsController,
             DashboardController, ReportsController, AuditController, StoreController,
             PublicController, RealtimeController
<1> QED BY <1>1, <1>2, <1>3, <1>4, <1>5, <1>6, <1>7, <1>8, <1>9, <1>10, <1>11, <1>12, <1>13,
           <1>14, <1>15, <1>16, <1>17, <1>18, <1>19, <1>20, <1>21, <1>22 DEF Controllers

\* A route of the API is the one its controller names.
LEMMA Routes ==
    /\ \A name \in DOMAIN AuthController : Api[name] = AuthController[name]
    /\ \A name \in DOMAIN CustomersController : Api[name] = CustomersController[name]
    /\ \A name \in DOMAIN EmployeesController : Api[name] = EmployeesController[name]
    /\ \A name \in DOMAIN UsersController : Api[name] = UsersController[name]
    /\ \A name \in DOMAIN PrivacyController : Api[name] = PrivacyController[name]
    /\ \A name \in DOMAIN NotificationsController : Api[name] = NotificationsController[name]
    /\ \A name \in DOMAIN VehiclesController : Api[name] = VehiclesController[name]
    /\ \A name \in DOMAIN VehicleSpecsController : Api[name] = VehicleSpecsController[name]
    /\ \A name \in DOMAIN PartsController : Api[name] = PartsController[name]
    /\ \A name \in DOMAIN MaintenanceController : Api[name] = MaintenanceController[name]
    /\ \A name \in DOMAIN DocumentsController : Api[name] = DocumentsController[name]
    /\ \A name \in DOMAIN AcquisitionsController : Api[name] = AcquisitionsController[name]
    /\ \A name \in DOMAIN ReservationsController : Api[name] = ReservationsController[name]
    /\ \A name \in DOMAIN SalesController : Api[name] = SalesController[name]
    /\ \A name \in DOMAIN CommissionsController : Api[name] = CommissionsController[name]
    /\ \A name \in DOMAIN FinancialController : Api[name] = FinancialController[name]
    /\ \A name \in DOMAIN LeadsController : Api[name] = LeadsController[name]
    /\ \A name \in DOMAIN DashboardController : Api[name] = DashboardController[name]
    /\ \A name \in DOMAIN ReportsController : Api[name] = ReportsController[name]
    /\ \A name \in DOMAIN AuditController : Api[name] = AuditController[name]
    /\ \A name \in DOMAIN StoreController : Api[name] = StoreController[name]
    /\ \A name \in DOMAIN PublicController : Api[name] = PublicController[name]
    /\ \A name \in DOMAIN RealtimeController : Api[name] = RealtimeController[name]
<1>1. \A c \in Controllers : \A name \in DOMAIN c : Api[name] = c[name]
  BY OneController DEF Api
<1> QED BY <1>1 DEF Controllers

\* A key begins with itself, and with its beginnings.
LEMMA BeginsWith ==
    /\ \A a : IsPrefix(<<a>>, <<a>>)
    /\ \A a, b : IsPrefix(<<a>>, <<a, b>>)
    /\ \A a, b : IsPrefix(<<a, b>>, <<a, b>>)
    /\ \A a, b, c : IsPrefix(<<a>>, <<a, b, c>>)
<1>1. ASSUME NEW a PROVE IsPrefix(<<a>>, <<a>>)
  <2>1. Len(<<a>>) = 1
    OBVIOUS
  <2> QED BY <2>1 DEF IsPrefix
<1>2. ASSUME NEW a, NEW b PROVE IsPrefix(<<a>>, <<a, b>>) /\ IsPrefix(<<a, b>>, <<a, b>>)
  <2>1. Len(<<a>>) = 1 /\ Len(<<a, b>>) = 2
    OBVIOUS
  <2>2. SubSeq(<<a>>, 1, 1) = SubSeq(<<a, b>>, 1, 1)
    OBVIOUS
  <2> QED BY <2>1, <2>2 DEF IsPrefix
<1>3. ASSUME NEW a, NEW b, NEW c PROVE IsPrefix(<<a>>, <<a, b, c>>)
  <2>1. Len(<<a>>) = 1 /\ Len(<<a, b, c>>) = 3
    OBVIOUS
  <2>2. SubSeq(<<a>>, 1, 1) = SubSeq(<<a, b, c>>, 1, 1)
    OBVIOUS
  <2> QED BY <2>1, <2>2 DEF IsPrefix
<1> QED BY <1>1, <1>2, <1>3

\* What a page asks of its own accord is given to its reader, but for the choice of parts,
\* which asks for too many rows.
Loadable(load, role) ==
    /\ Admitted(load.route, role)
    /\ PaginationQueryDto(load.limit) <=> load.key # usePartOptions.key

Fields(offer) == offer.always \cup offer.may

\* The form of a supplier sends two fields that its DTO does not know.
Dropped(offer) == IF offer.route = "createSupplier" THEN {"contactName", "city"} ELSE {}

\* What a page lets its reader do is admitted, with all that has to be there and nothing that
\* is taken away.
Acceptable(offer, role) ==
    /\ Admitted(offer.route, role)
    /\ Api[offer.route].body.checked =>
          /\ Api[offer.route].body.needed \subseteq offer.always
          /\ Fields(offer) \subseteq Api[offer.route].body.known \cup Dropped(offer)

\* A load that shows what an act changes is loaded again after it, or left behind.
Refreshes(offer, load) ==
    \/ load.key = usePartOptions.key
    \/ load.shows \cap Api[offer.route].changes = {}
    \/ Invalidates(offer, load.key)
    \/ <<offer.route, Head(load.key)>> \in LeftBehind

Serves(screen, role) ==
    /\ \A load \in screen.loads : Loadable(load, role)
    /\ \A offer \in screen.acts :
          /\ Acceptable(offer, role)
          /\ \A load \in screen.loads \cup {useUnreadCount} : Refreshes(offer, load)

\* The routes that pages call: who may, what they take, and what they change
USE DEF Admitted, JwtAuthGuard, RolesGuard, Route, Open, Member, For, Taking, Roles, Staff

LEMMA AuthRoutes ==
    /\ \A role : Admitted("forgot", role)
    /\ Api.forgot.body = ForgotPasswordDto
    /\ Api.forgot.changes = {}
  BY Routes DEF AuthController

LEMMA CustomersRoutes ==
    /\ \A role \in Staff : \A name \in {"createCustomer", "listCustomers", "findCustomer"} :
           Admitted(name, role)
    /\ \A name \in {"getMe", "updateMe", "addMyAddress"} : Admitted(name, "CUSTOMER")
    /\ Api.updateMe.body = UpdateMyProfileDto
    /\ Api.updateMe.changes = {"customers", "answers"}
    /\ Api.addMyAddress.body = AddressDto
    /\ Api.addMyAddress.changes = {"addresses"}
    /\ Api.createCustomer.body = CreateCustomerDto
    /\ Api.createCustomer.changes = {"customers"}
  BY Routes DEF CustomersController

LEMMA EmployeesRoutes ==
    /\ \A name \in {"createEmployee", "listEmployees"} : Admitted(name, "ADMIN")
    /\ Api.createEmployee.body = CreateEmployeeDto
    /\ Api.createEmployee.changes = {"employees", "users"}
  BY Routes DEF EmployeesController

LEMMA UsersRoutes ==
    /\ \A name \in {"listUsers", "setStatus", "listRoles", "listPermissions"} : Admitted(name,
           "ADMIN")
    /\ Api.setStatus.body = SetStatusDto
    /\ Api.setStatus.changes = {"users"}
  BY Routes DEF UsersController

LEMMA PrivacyRoutes ==
    /\ \A role : Admitted("registerConsent", role)
    /\ \A role \in Roles : \A name \in {"myConsents", "updateConsents"} : Admitted(name, role)
    /\ \A name \in {"removeFavorite", "listFavorites", "viewHistory", "marketing",
           "exportRequest", "deleteRequest"} : Admitted(name, "CUSTOMER")
    /\ Api.registerConsent.body = RegisterConsentDto
    /\ Api.registerConsent.changes = {}
    /\ Api.updateConsents.body = RegisterConsentDto
    /\ Api.updateConsents.changes = {"consents", "answers"}
    /\ Api.removeFavorite.body = Unchecked
    /\ Api.removeFavorite.changes = {"favorites"}
    /\ Api.marketing.body = MarketingPreferenceDto
    /\ Api.marketing.changes = {"answers"}
    /\ Api.exportRequest.body = Unchecked
    /\ Api.exportRequest.changes = {}
    /\ Api.deleteRequest.body = Unchecked
    /\ Api.deleteRequest.changes = {}
  BY Routes DEF PrivacyController

LEMMA NotificationsRoutes ==
    /\ \A role \in Roles : \A name \in {"listNotices", "unreadCount", "markRead", "markAllRead"}
           : Admitted(name, role)
    /\ Api.markRead.body = Unchecked
    /\ Api.markRead.changes = {"notices"}
    /\ Api.markAllRead.body = Unchecked
    /\ Api.markAllRead.changes = {"notices"}
  BY Routes DEF NotificationsController

LEMMA VehiclesRoutes ==
    /\ \A role \in Staff : \A name \in {"createVehicle", "listVehicles", "findVehicle",
           "changeStatus", "listMovements", "applySpecs", "uploadMedia", "removeMedia"} :
           Admitted(name, role)
    /\ Api.createVehicle.body = CreateVehicleDto
    /\ Api.createVehicle.changes = {"vehicles"}
    /\ Api.changeStatus.body = ChangeStatusDto
    /\ Api.changeStatus.changes = {"status", "movements"}
    /\ Api.applySpecs.body = ApplySpecsDto
    /\ Api.applySpecs.changes = {"sheets"}
    /\ Api.uploadMedia.body = Unchecked
    /\ Api.uploadMedia.changes = {"media"}
    /\ Api.removeMedia.body = Unchecked
    /\ Api.removeMedia.changes = {"media"}
  BY Routes DEF VehiclesController

LEMMA PartsRoutes ==
    /\ \A role \in Staff : \A name \in {"listParts", "partMovements", "listSuppliers"} :
           Admitted(name, role)
    /\ \A name \in {"createPart", "movePart", "createSupplier"} : Admitted(name, "ADMIN")
    /\ Api.createPart.body = CreatePartDto
    /\ Api.createPart.changes = {"parts", "quantities", "partMovements"}
    /\ Api.movePart.body = PartMovementDto
    /\ Api.movePart.changes = {"quantities", "partMovements"}
    /\ Api.createSupplier.body = CreateSupplierDto
    /\ Api.createSupplier.changes = {"suppliers"}
  BY Routes DEF PartsController

LEMMA MaintenanceRoutes ==
    /\ \A role \in Staff : \A name \in {"createMaintenance", "listMaintenances",
           "findMaintenance", "addPart", "completeMaintenance", "cancelMaintenance"} :
           Admitted(name, role)
    /\ Api.createMaintenance.body = CreateMaintenanceDto
    /\ Api.createMaintenance.changes = {"maintenances"}
    /\ Api.addPart.body = AddMaintenancePartDto
    /\ Api.addPart.changes = {"items", "quantities", "partMovements", "entries", "dre"}
    /\ Api.completeMaintenance.body = CompleteMaintenanceDto
    /\ Api.completeMaintenance.changes = {"maintenances", "entries", "dre"}
    /\ Api.cancelMaintenance.body = Unchecked
    /\ Api.cancelMaintenance.changes = {"items", "quantities", "partMovements", "entries",
           "dre", "maintenances"}
  BY Routes DEF MaintenanceController

LEMMA DocumentsRoutes ==
    /\ \A role \in Roles : \A name \in {"uploadDocument", "downloadDocument"} : Admitted(name,
           role)
    /\ \A role \in Staff : \A name \in {"listTypes", "listChecklists", "checklistStatus",
           "validateDocument", "listDocuments"} : Admitted(name, role)
    /\ \A name \in {"createType", "upsertChecklist", "removeChecklist"} : Admitted(name,
           "ADMIN")
    /\ \A name \in {"uploadMine", "myDocuments"} : Admitted(name, "CUSTOMER")
    /\ Api.createType.body = CreateDocumentTypeDto
    /\ Api.createType.changes = {"types"}
    /\ Api.upsertChecklist.body = UpsertChecklistDto
    /\ Api.upsertChecklist.changes = {"checklists"}
    /\ Api.removeChecklist.body = Unchecked
    /\ Api.removeChecklist.changes = {"checklists"}
    /\ Api.uploadDocument.body = Unchecked
    /\ Api.uploadDocument.changes = {"documents"}
    /\ Api.validateDocument.body = ValidateDocumentDto
    /\ Api.validateDocument.changes = {"documents"}
    /\ Api.downloadDocument.body = Unchecked
    /\ Api.downloadDocument.changes = {}
    /\ Api.uploadMine.body = Unchecked
    /\ Api.uploadMine.changes = {"documents"}
  BY Routes DEF DocumentsController

LEMMA AcquisitionsRoutes ==
    /\ \A name \in {"createAcquisition", "listAcquisitions"} : Admitted(name, "ADMIN")
    /\ Api.createAcquisition.body = CreateAcquisitionDto
    /\ Api.createAcquisition.changes = {"acquisitions", "entries", "dre"}
  BY Routes DEF AcquisitionsController

LEMMA ReservationsRoutes ==
    /\ \A role \in Staff : \A name \in {"createReservation", "listReservations",
           "cancelReservation"} : Admitted(name, role)
    /\ Api.createReservation.body = CreateReservationDto
    /\ Api.createReservation.changes = {"reservations", "status", "movements"}
    /\ Api.cancelReservation.body = CancelReservationDto
    /\ Api.cancelReservation.changes = {"reservations", "status", "movements"}
  BY Routes DEF ReservationsController

LEMMA SalesRoutes ==
    /\ \A role \in Staff : \A name \in {"createSale", "listSales", "findSale",
           "updateSaleStatus", "deliverSale"} : Admitted(name, role)
    /\ Api.createSale.body = CreateSaleDto
    /\ Api.createSale.changes = {"sales", "status", "movements"}
    /\ Api.updateSaleStatus.body = UpdateSaleStatusDto
    /\ Api.updateSaleStatus.changes = {"sales", "status", "movements", "entries", "commissions",
           "dre"}
    /\ Api.deliverSale.body = Unchecked
    /\ Api.deliverSale.changes = {"sales", "status", "movements"}
  BY Routes DEF SalesController

LEMMA CommissionsRoutes ==
    /\ \A name \in {"createRule", "listRules", "updateRule", "listCommissions",
           "approveCommission", "payCommission", "cancelCommission"} : Admitted(name, "ADMIN")
    /\ Admitted("myCommissions", "SELLER")
    /\ Api.createRule.body = CreateCommissionRuleDto
    /\ Api.createRule.changes = {"rules"}
    /\ Api.updateRule.body = PartialType(CreateCommissionRuleDto)
    /\ Api.updateRule.changes = {"rules"}
    /\ Api.approveCommission.body = Unchecked
    /\ Api.approveCommission.changes = {"commissions"}
    /\ Api.payCommission.body = Unchecked
    /\ Api.payCommission.changes = {"commissions"}
    /\ Api.cancelCommission.body = Unchecked
    /\ Api.cancelCommission.changes = {"commissions", "dre"}
  BY Routes DEF CommissionsController

LEMMA FinancialRoutes ==
    /\ \A name \in {"createEntry", "listEntries", "removeEntry", "consolidatedDre",
           "vehicleDre", "recalculateDre"} : Admitted(name, "ADMIN")
    /\ Api.createEntry.body = CreateFinancialEntryDto
    /\ Api.createEntry.changes = {"entries", "dre"}
    /\ Api.removeEntry.body = Unchecked
    /\ Api.removeEntry.changes = {"entries", "dre"}
    /\ Api.recalculateDre.body = Unchecked
    /\ Api.recalculateDre.changes = {"dre"}
  BY Routes DEF FinancialController

LEMMA LeadsRoutes ==
    /\ \A role \in Staff : \A name \in {"listLeads", "findLead", "updateLeadStatus",
           "addInteraction"} : Admitted(name, role)
    /\ Api.updateLeadStatus.body = UpdateLeadStatusDto
    /\ Api.updateLeadStatus.changes = {"leads", "interactions"}
    /\ Api.addInteraction.body = AddInteractionDto
    /\ Api.addInteraction.changes = {"interactions"}
  BY Routes DEF LeadsController

LEMMA DashboardRoutes ==
    /\ Admitted("adminDashboard", "ADMIN")
    /\ Admitted("sellerDashboard", "SELLER")
  BY Routes DEF DashboardController

LEMMA AuditRoutes ==
    Admitted("auditLogs", "ADMIN")
  BY Routes DEF AuditController

LEMMA StoreRoutes ==
    /\ \A role : Admitted("storeLocation", role)
    /\ \A name \in {"storeConfig", "saveStore"} : Admitted(name, "ADMIN")
    /\ Api.saveStore.body = Unchecked
    /\ Api.saveStore.changes = {"store"}
  BY Routes DEF StoreController

LEMMA PublicRoutes ==
    /\ \A role : \A name \in {"publicVehicles", "vehicleBySlug", "publicLocation",
           "publicContact", "trackView"} : Admitted(name, role)
    /\ Api.publicContact.body = SpecialistContactDto
    /\ Api.publicContact.changes = {"leads"}
    /\ Api.trackView.body = VehicleViewDto
    /\ Api.trackView.changes = {}
  BY Routes DEF PublicController

HIDE DEF Admitted, JwtAuthGuard, RolesGuard, Route, Open, Member, For, Taking, Roles, Staff

\* Every page serves those it is for.
USE DEF Unchecked, Body, PartialType, Roles, Staff, Page, Drawer, Rows, useList, useItem, Act,
        useApiMutation, Needing, Closing, Button, When, PaginationQueryDto, MaxLimit, Loadable,
        Fields, Dropped, Acceptable, Refreshes, Invalidates, useUnreadCount, usePartOptions

LEMMA HomePageServes ==
    ASSUME NEW role, role \in Everybody
    PROVE  Serves(HomePage, role)
  BY BeginsWith DEF Serves, HomePage

LEMMA CatalogPageServes ==
    ASSUME NEW role, role \in Everybody
    PROVE  Serves(CatalogPage, role)
  BY PublicRoutes, BeginsWith DEF Serves, CatalogPage

LEMMA VehicleDetailPageServes ==
    ASSUME NEW role, role \in Everybody
    PROVE  Serves(VehicleDetailPage, role)
  BY PublicRoutes, BeginsWith DEF Serves, VehicleDetailPage, SpecialistContactDto,
     VehicleViewDto

LEMMA LocationPageServes ==
    ASSUME NEW role, role \in Everybody
    PROVE  Serves(LocationPage, role)
  BY PublicRoutes, BeginsWith DEF Serves, LocationPage

LEMMA LoginPageServes ==
    ASSUME NEW role, role \in Everybody
    PROVE  Serves(LoginPage, role)
  BY BeginsWith DEF Serves, LoginPage

LEMMA RegisterPageServes ==
    ASSUME NEW role, role \in Everybody
    PROVE  Serves(RegisterPage, role)
  BY BeginsWith DEF Serves, RegisterPage

LEMMA ForgotPasswordPageServes ==
    ASSUME NEW role, role \in Everybody
    PROVE  Serves(ForgotPasswordPage, role)
  BY AuthRoutes, BeginsWith DEF Serves, ForgotPasswordPage, ForgotPasswordDto

LEMMA AccountPageServes ==
    ASSUME NEW role, role = "CUSTOMER"
    PROVE  Serves(AccountPage, role)
  BY CustomersRoutes, BeginsWith DEF Serves, AccountPage, UpdateMyProfileDto, AddressDto

LEMMA FavoritesPageServes ==
    ASSUME NEW role, role = "CUSTOMER"
    PROVE  Serves(FavoritesPage, role)
  BY PrivacyRoutes, BeginsWith DEF Serves, FavoritesPage

LEMMA ViewHistoryPageServes ==
    ASSUME NEW role, role = "CUSTOMER"
    PROVE  Serves(ViewHistoryPage, role)
  BY PrivacyRoutes, BeginsWith DEF Serves, ViewHistoryPage

LEMMA PurchasesPageServes ==
    ASSUME NEW role, role = "CUSTOMER"
    PROVE  Serves(PurchasesPage, role)
  BY DocumentsRoutes, BeginsWith DEF Serves, PurchasesPage

LEMMA PrivacyPageServes ==
    ASSUME NEW role, role = "CUSTOMER"
    PROVE  Serves(PrivacyPage, role)
<1>1. \A load \in PrivacyPage.loads : Loadable(load, role)
  BY PrivacyRoutes DEF PrivacyPage
<1>2. \A offer \in PrivacyPage.acts : Acceptable(offer, role)
  BY PrivacyRoutes DEF PrivacyPage, RegisterConsentDto, MarketingPreferenceDto
<1>3. \A offer \in PrivacyPage.acts :
         \A load \in PrivacyPage.loads \cup {useUnreadCount} : Refreshes(offer, load)
  BY BeginsWith, PrivacyRoutes DEF PrivacyPage
<1> HIDE DEF Loadable, Acceptable, Refreshes
<1> QED BY <1>1, <1>2, <1>3 DEF Serves

LEMMA DashboardPageServes ==
    ASSUME NEW role, role \in Staff
    PROVE  Serves(DashboardPage(role), role)
  BY DashboardRoutes, BeginsWith DEF Serves, DashboardPage

LEMMA VehiclesAdminPageServes ==
    ASSUME NEW role, role \in Staff
    PROVE  Serves(VehiclesAdminPage, role)
<1>1. \A load \in VehiclesAdminPage.loads : Loadable(load, role)
  BY VehiclesRoutes DEF VehiclesAdminPage
<1>2. \A offer \in VehiclesAdminPage.acts : Acceptable(offer, role)
  BY VehiclesRoutes DEF VehiclesAdminPage, CreateVehicleDto, ChangeStatusDto
<1>3. IsPrefix(<<"adminVehicles">>, <<"adminVehicles", "search">>)
  BY BeginsWith
<1>4. \A offer \in VehiclesAdminPage.acts :
         \A load \in VehiclesAdminPage.loads \cup {useUnreadCount} : Refreshes(offer, load)
  BY <1>3, VehiclesRoutes DEF VehiclesAdminPage
<1> HIDE DEF Loadable, Acceptable, Refreshes
<1> QED BY <1>1, <1>2, <1>4 DEF Serves

LEMMA VehicleDrawerServes ==
    ASSUME NEW role, role \in Staff
    PROVE  Serves(VehicleDrawer, role)
<1>1. \A load \in VehicleDrawer.loads : Loadable(load, role)
  BY VehiclesRoutes DEF VehicleDrawer, VehiclesAdminPage
<1>2. \A offer \in VehicleDrawer.acts : Acceptable(offer, role)
  BY VehiclesRoutes DEF VehicleDrawer, VehiclesAdminPage, ApplySpecsDto, ChangeStatusDto
<1>3. /\ IsPrefix(<<"adminVehicles">>, <<"adminVehicles", "search">>)
      /\ IsPrefix(<<"vehicle", "id">>, <<"vehicle", "id">>)
  BY BeginsWith
<1>4. \A offer \in VehicleDrawer.acts :
         \A load \in VehicleDrawer.loads \cup {useUnreadCount} : Refreshes(offer, load)
  BY <1>3, VehiclesRoutes DEF VehicleDrawer, VehiclesAdminPage, LeftBehind
<1> HIDE DEF Loadable, Acceptable, Refreshes
<1> QED BY <1>1, <1>2, <1>4 DEF Serves

LEMMA PartsPageServes ==
    ASSUME NEW role, role \in Staff
    PROVE  Serves(PartsPage(role), role)
<1>1. \A load \in PartsPage(role).loads : Loadable(load, role)
  BY PartsRoutes DEF PartsPage
<1>2. \A offer \in PartsPage(role).acts : Acceptable(offer, role)
  BY PartsRoutes DEF PartsPage, CreatePartDto, CreateSupplierDto
<1>3. /\ IsPrefix(<<"parts">>, <<"parts", "lowStock">>)
      /\ IsPrefix(<<"suppliers">>, <<"suppliers">>)
  BY BeginsWith
<1>4. \A offer \in PartsPage(role).acts :
         \A load \in PartsPage(role).loads \cup {useUnreadCount} : Refreshes(offer, load)
  BY <1>3, PartsRoutes DEF PartsPage
<1> HIDE DEF Loadable, Acceptable, Refreshes
<1> QED BY <1>1, <1>2, <1>4 DEF Serves

LEMMA MovementDrawerServes ==
    ASSUME NEW role, role = "ADMIN"
    PROVE  Serves(MovementDrawer(role), role)
<1>1. \A load \in MovementDrawer(role).loads : Loadable(load, role)
  BY PartsRoutes DEF MovementDrawer, PartsPage
<1>2. \A offer \in MovementDrawer(role).acts : Acceptable(offer, role)
  BY PartsRoutes DEF MovementDrawer, PartsPage, PartMovementDto
<1>3. /\ IsPrefix(<<"parts">>, <<"parts", "lowStock">>)
      /\ IsPrefix(<<"part-movements", "id">>, <<"part-movements", "id">>)
  BY BeginsWith
<1>4. \A offer \in MovementDrawer(role).acts :
         \A load \in MovementDrawer(role).loads \cup {useUnreadCount} : Refreshes(offer, load)
  BY <1>3, PartsRoutes DEF MovementDrawer, PartsPage
<1> HIDE DEF Loadable, Acceptable, Refreshes
<1> QED BY <1>1, <1>2, <1>4 DEF Serves

LEMMA MaintenancePageServes ==
    ASSUME NEW role, role \in Staff
    PROVE  Serves(MaintenancePage, role)
<1>1. \A load \in MaintenancePage.loads : Loadable(load, role)
  BY VehiclesRoutes, PartsRoutes, MaintenanceRoutes DEF MaintenancePage, useVehicleOptions,
     useSupplierOptions
<1>2. \A offer \in MaintenancePage.acts : Acceptable(offer, role)
  BY MaintenanceRoutes DEF MaintenancePage, useVehicleOptions, useSupplierOptions,
     CreateMaintenanceDto
<1>3. \A offer \in MaintenancePage.acts :
         \A load \in MaintenancePage.loads \cup {useUnreadCount} : Refreshes(offer, load)
  BY BeginsWith, MaintenanceRoutes DEF MaintenancePage, useVehicleOptions, useSupplierOptions
<1> HIDE DEF Loadable, Acceptable, Refreshes
<1> QED BY <1>1, <1>2, <1>3 DEF Serves

LEMMA MaintenanceDrawerServes ==
    ASSUME NEW role, role \in Staff
    PROVE  Serves(MaintenanceDrawer, role)
<1>1. \A load \in MaintenanceDrawer.loads : Loadable(load, role)
  BY VehiclesRoutes, PartsRoutes, MaintenanceRoutes DEF MaintenanceDrawer, MaintenancePage,
     useVehicleOptions, useSupplierOptions
<1>2. \A offer \in MaintenanceDrawer.acts : Acceptable(offer, role)
  BY MaintenanceRoutes DEF MaintenanceDrawer, MaintenancePage, useVehicleOptions,
     useSupplierOptions, AddMaintenancePartDto, CompleteMaintenanceDto
<1>3. /\ IsPrefix(<<"maintenances">>, <<"maintenances">>)
      /\ IsPrefix(<<"maintenance", "id">>, <<"maintenance", "id">>)
  BY BeginsWith
<1>4. \A offer \in MaintenanceDrawer.acts :
         \A load \in MaintenanceDrawer.loads \cup {useUnreadCount} : Refreshes(offer, load)
  BY <1>3, MaintenanceRoutes DEF MaintenanceDrawer, MaintenancePage, useVehicleOptions,
     useSupplierOptions
<1> HIDE DEF Loadable, Acceptable, Refreshes
<1> QED BY <1>1, <1>2, <1>4 DEF Serves

LEMMA DocumentsPageServes ==
    ASSUME NEW role, role \in Staff
    PROVE  Serves(ChecklistStatusCard, role)
<1>1. \A load \in ChecklistStatusCard.loads : Loadable(load, role)
  BY VehiclesRoutes, DocumentsRoutes DEF ChecklistStatusCard, DocumentsPage, useVehicleOptions
<1>2. \A offer \in ChecklistStatusCard.acts : Acceptable(offer, role)
  BY DocumentsRoutes DEF ChecklistStatusCard, DocumentsPage, useVehicleOptions,
     ValidateDocumentDto
<1>3. \A offer \in ChecklistStatusCard.acts :
         \A load \in ChecklistStatusCard.loads \cup {useUnreadCount} : Refreshes(offer, load)
  BY BeginsWith, DocumentsRoutes DEF ChecklistStatusCard, DocumentsPage, useVehicleOptions,
     LeftBehind
<1> HIDE DEF Loadable, Acceptable, Refreshes
<1> QED BY <1>1, <1>2, <1>3 DEF Serves

LEMMA UploadDrawerServes ==
    ASSUME NEW role, role \in Staff
    PROVE  Serves(UploadDrawer, role)
<1>1. \A load \in UploadDrawer.loads : Loadable(load, role)
  BY CustomersRoutes, VehiclesRoutes, DocumentsRoutes DEF UploadDrawer, DocumentsPage,
     ChecklistStatusCard, useVehicleOptions, useCustomerOptions
<1>2. \A offer \in UploadDrawer.acts : Acceptable(offer, role)
  BY DocumentsRoutes DEF UploadDrawer, DocumentsPage, ChecklistStatusCard, useVehicleOptions,
     useCustomerOptions
<1>3. \A offer \in UploadDrawer.acts :
         \A load \in UploadDrawer.loads \cup {useUnreadCount} : Refreshes(offer, load)
  BY BeginsWith, DocumentsRoutes DEF UploadDrawer, DocumentsPage, ChecklistStatusCard,
     useVehicleOptions, useCustomerOptions, LeftBehind
<1> HIDE DEF Loadable, Acceptable, Refreshes
<1> QED BY <1>1, <1>2, <1>3 DEF Serves

LEMMA FunnelPageServes ==
    ASSUME NEW role, role \in Staff
    PROVE  Serves(FunnelPage(role), role)
  BY AcquisitionsRoutes, ReservationsRoutes, SalesRoutes, BeginsWith DEF Serves, FunnelPage

LEMMA ReservationsPageServes ==
    ASSUME NEW role, role \in Staff
    PROVE  Serves(ReservationsPage(role), role)
<1>1. \A load \in ReservationsPage(role).loads : Loadable(load, role)
  BY CustomersRoutes, EmployeesRoutes, VehiclesRoutes, ReservationsRoutes DEF ReservationsPage,
     Choice, useVehicleOptions, useCustomerOptions, useEmployeeOptions, Chosen
<1>2. \A offer \in ReservationsPage(role).acts : Acceptable(offer, role)
  BY ReservationsRoutes DEF ReservationsPage, Choice, useVehicleOptions, useCustomerOptions,
     useEmployeeOptions, Chosen, CreateReservationDto, CancelReservationDto
<1>3. \A offer \in ReservationsPage(role).acts :
         \A load \in ReservationsPage(role).loads \cup {useUnreadCount} : Refreshes(offer, load)
  BY BeginsWith, ReservationsRoutes DEF ReservationsPage, Choice, useVehicleOptions,
     useCustomerOptions, useEmployeeOptions, Chosen
<1> HIDE DEF Loadable, Acceptable, Refreshes
<1> QED BY <1>1, <1>2, <1>3 DEF Serves

LEMMA SalesPageServes ==
    ASSUME NEW role, role \in Staff
    PROVE  Serves(SalesPage(role), role)
<1>1. \A load \in SalesPage(role).loads : Loadable(load, role)
  BY CustomersRoutes, EmployeesRoutes, VehiclesRoutes, SalesRoutes DEF SalesPage, Choice,
     useVehicleOptions, useCustomerOptions, useEmployeeOptions, Chosen
<1>2. \A offer \in SalesPage(role).acts : Acceptable(offer, role)
  BY SalesRoutes DEF SalesPage, Choice, useVehicleOptions, useCustomerOptions,
     useEmployeeOptions, Chosen, CreateSaleDto
<1>3. \A offer \in SalesPage(role).acts :
         \A load \in SalesPage(role).loads \cup {useUnreadCount} : Refreshes(offer, load)
  BY BeginsWith, SalesRoutes DEF SalesPage, Choice, useVehicleOptions, useCustomerOptions,
     useEmployeeOptions, Chosen
<1> HIDE DEF Loadable, Acceptable, Refreshes
<1> QED BY <1>1, <1>2, <1>3 DEF Serves

LEMMA SaleDrawerServes ==
    ASSUME NEW role, role \in Staff
    PROVE  Serves(SaleDrawer(role), role)
<1>1. \A load \in SaleDrawer(role).loads : Loadable(load, role)
  BY CustomersRoutes, EmployeesRoutes, VehiclesRoutes, SalesRoutes DEF SaleDrawer, SalesPage,
     Choice, useVehicleOptions, useCustomerOptions, useEmployeeOptions, Chosen
<1>2. \A offer \in SaleDrawer(role).acts : Acceptable(offer, role)
  BY SalesRoutes DEF SaleDrawer, SalesPage, Choice, useVehicleOptions, useCustomerOptions,
     useEmployeeOptions, Chosen, UpdateSaleStatusDto
<1>3. \A offer \in SaleDrawer(role).acts :
         \A load \in SaleDrawer(role).loads \cup {useUnreadCount} : Refreshes(offer, load)
  BY BeginsWith, SalesRoutes DEF SaleDrawer, SalesPage, Choice, useVehicleOptions,
     useCustomerOptions, useEmployeeOptions, Chosen
<1> HIDE DEF Loadable, Acceptable, Refreshes
<1> QED BY <1>1, <1>2, <1>3 DEF Serves

LEMMA LeadsPageServes ==
    ASSUME NEW role, role \in Staff
    PROVE  Serves(LeadsPage, role)
  BY LeadsRoutes, BeginsWith DEF Serves, LeadsPage

LEMMA LeadDrawerServes ==
    ASSUME NEW role, role \in Staff
    PROVE  Serves(LeadDrawer, role)
  BY LeadsRoutes, BeginsWith DEF Serves, LeadDrawer, LeadsPage, UpdateLeadStatusDto,
     AddInteractionDto

LEMMA CustomersPageServes ==
    ASSUME NEW role, role \in Staff
    PROVE  Serves(CustomersPage, role)
  BY CustomersRoutes, BeginsWith DEF Serves, CustomersPage, CreateCustomerDto

LEMMA CustomerDrawerServes ==
    ASSUME NEW role, role \in Staff
    PROVE  Serves(CustomerDrawer, role)
  BY CustomersRoutes, BeginsWith DEF Serves, CustomerDrawer, CustomersPage, CreateCustomerDto

LEMMA CommissionsPageServes ==
    ASSUME NEW role, role \in Staff
    PROVE  Serves(CommissionsPage(role), role)
  BY CommissionsRoutes, BeginsWith DEF Serves, CommissionsPage

LEMMA NotificationsPageServes ==
    ASSUME NEW role, role \in Staff
    PROVE  Serves(NotificationsPage, role)
  BY NotificationsRoutes, BeginsWith DEF Serves, NotificationsPage

LEMMA AcquisitionsPageServes ==
    ASSUME NEW role, role = "ADMIN"
    PROVE  Serves(AcquisitionsPage, role)
<1>1. \A load \in AcquisitionsPage.loads : Loadable(load, role)
  BY VehiclesRoutes, AcquisitionsRoutes DEF AcquisitionsPage, useVehicleOptions
<1>2. \A offer \in AcquisitionsPage.acts : Acceptable(offer, role)
  BY AcquisitionsRoutes DEF AcquisitionsPage, useVehicleOptions, CreateAcquisitionDto
<1>3. \A offer \in AcquisitionsPage.acts :
         \A load \in AcquisitionsPage.loads \cup {useUnreadCount} : Refreshes(offer, load)
  BY BeginsWith, AcquisitionsRoutes DEF AcquisitionsPage, useVehicleOptions
<1> HIDE DEF Loadable, Acceptable, Refreshes
<1> QED BY <1>1, <1>2, <1>3 DEF Serves

LEMMA DrePageServes ==
    ASSUME NEW role, role = "ADMIN"
    PROVE  Serves(DrePage, role)
<1>1. \A load \in DrePage.loads : Loadable(load, role)
  BY VehiclesRoutes, FinancialRoutes DEF DrePage, useVehicleOptions
<1>2. \A offer \in DrePage.acts : Acceptable(offer, role)
  BY FinancialRoutes DEF DrePage, useVehicleOptions
<1>3. \A offer \in DrePage.acts :
         \A load \in DrePage.loads \cup {useUnreadCount} : Refreshes(offer, load)
  BY BeginsWith, FinancialRoutes DEF DrePage, useVehicleOptions
<1> HIDE DEF Loadable, Acceptable, Refreshes
<1> QED BY <1>1, <1>2, <1>3 DEF Serves

LEMMA FinancialPageServes ==
    ASSUME NEW role, role = "ADMIN"
    PROVE  Serves(FinancialPage, role)
<1>1. \A load \in FinancialPage.loads : Loadable(load, role)
  BY VehiclesRoutes, FinancialRoutes DEF FinancialPage, useVehicleOptions
<1>2. \A offer \in FinancialPage.acts : Acceptable(offer, role)
  BY FinancialRoutes DEF FinancialPage, useVehicleOptions, CreateFinancialEntryDto
<1>3. \A offer \in FinancialPage.acts :
         \A load \in FinancialPage.loads \cup {useUnreadCount} : Refreshes(offer, load)
  BY BeginsWith, FinancialRoutes DEF FinancialPage, useVehicleOptions
<1> HIDE DEF Loadable, Acceptable, Refreshes
<1> QED BY <1>1, <1>2, <1>3 DEF Serves

LEMMA CommissionRulesPageServes ==
    ASSUME NEW role, role = "ADMIN"
    PROVE  Serves(CommissionRulesPage, role)
  BY CommissionsRoutes, BeginsWith DEF Serves, CommissionRulesPage, CreateCommissionRuleDto

LEMMA EmployeesPageServes ==
    ASSUME NEW role, role = "ADMIN"
    PROVE  Serves(EmployeesPage, role)
  BY EmployeesRoutes, BeginsWith DEF Serves, EmployeesPage, CreateEmployeeDto

LEMMA UsersAccessPageServes ==
    ASSUME NEW role, role = "ADMIN"
    PROVE  Serves(UsersAccessPage, role)
  BY UsersRoutes, BeginsWith DEF Serves, UsersAccessPage, SetStatusDto

LEMMA DocumentConfigPageServes ==
    ASSUME NEW role, role = "ADMIN"
    PROVE  Serves(DocumentConfigPage, role)
<1>1. \A load \in DocumentConfigPage.loads : Loadable(load, role)
  BY DocumentsRoutes DEF DocumentConfigPage
<1>2. \A offer \in DocumentConfigPage.acts : Acceptable(offer, role)
  BY DocumentsRoutes DEF DocumentConfigPage, CreateDocumentTypeDto, UpsertChecklistDto
<1>3. \A offer \in DocumentConfigPage.acts :
         \A load \in DocumentConfigPage.loads \cup {useUnreadCount} : Refreshes(offer, load)
  BY BeginsWith, DocumentsRoutes DEF DocumentConfigPage
<1> HIDE DEF Loadable, Acceptable, Refreshes
<1> QED BY <1>1, <1>2, <1>3 DEF Serves

LEMMA StoreConfigPageServes ==
    ASSUME NEW role, role = "ADMIN"
    PROVE  Serves(StoreConfigPage, role)
  BY StoreRoutes, BeginsWith DEF Serves, StoreConfigPage

LEMMA AuditPageServes ==
    ASSUME NEW role, role = "ADMIN"
    PROVE  Serves(AuditPage, role)
  BY AuditRoutes, BeginsWith DEF Serves, AuditPage

\* The reports are routes of one controller, and all alike.
LEMMA ReportsPageServes ==
    ASSUME NEW role, role = "ADMIN"
    PROVE  Serves(ReportsPage, role)
<1>1. ASSUME NEW report \in REPORT_GROUPS
      PROVE  Api[report] = For({"ADMIN"}, {})
  <2>1. \A name \in DOMAIN ReportsController : ReportsController[name] = For({"ADMIN"}, {})
    BY DEF ReportsController
  <2> QED BY <1>1, <2>1, Routes DEF REPORT_GROUPS
<1> QED BY <1>1 DEF Serves, ReportsPage, Admitted, JwtAuthGuard, RolesGuard, Route, For

\* The banner is for everybody and changes nothing that a page shows; the unread count is for
\* the staff.
LEMMA CookieConsentServes ==
    ASSUME NEW role
    PROVE  /\ Acceptable(CookieConsent, role)
           /\ \A load : Refreshes(CookieConsent, load)
  BY PrivacyRoutes DEF CookieConsent, RegisterConsentDto

LEMMA UnreadCountServes ==
    ASSUME NEW role, role \in Staff
    PROVE  Loadable(useUnreadCount, role)
  BY NotificationsRoutes

HIDE DEF Unchecked, Body, PartialType, Roles, Staff, Page, Drawer, Rows, useList, useItem, Act,
         useApiMutation, Needing, Closing, Button, When, PaginationQueryDto, MaxLimit, Loadable,
         Fields, Dropped, Acceptable, Refreshes, Invalidates, useUnreadCount, usePartOptions

\* Every page serves every reader it is for; the rows that open the drawer of movements are
\* those of an administrator.
LEMMA PagesServe ==
    ASSUME NEW role \in Everybody, NEW name \in Names, role \in Audience(name),
           name = "MovementDrawer" => role = "ADMIN"
    PROVE  Serves(Site[role][name], role)
<1>1. Site[role] = PagesOf(role)
  BY DEF Site
<1> SUFFICES Serves(PagesOf(role)[name], role)
  BY <1>1
<1>2. CASE name \in Plain \ (CustomerArea \cup StaffArea \cup AdminArea)
  BY <1>2, HomePageServes, CatalogPageServes, VehicleDetailPageServes, LocationPageServes,
     LoginPageServes, RegisterPageServes, ForgotPasswordPageServes DEF Plain, PagesOf
<1>3. CASE name \in CustomerArea
  <2>1. role = "CUSTOMER"
    BY <1>3, AudienceOf
  <2> QED BY <1>3, <2>1, AccountPageServes, FavoritesPageServes, ViewHistoryPageServes,
             PurchasesPageServes, PrivacyPageServes DEF CustomerArea, PagesOf
<1>4. CASE name \in StaffArea
  <2>1. role \in Staff
    BY <1>4, AudienceOf
  <2> QED BY <1>4, <2>1, DashboardPageServes, VehiclesAdminPageServes, PartsPageServes,
             MaintenancePageServes, DocumentsPageServes, FunnelPageServes,
             ReservationsPageServes, SalesPageServes, LeadsPageServes, CustomersPageServes,
             CommissionsPageServes, NotificationsPageServes DEF StaffArea, PagesOf
<1>5. CASE name \in AdminArea
  <2>1. role = "ADMIN"
    BY <1>5, AudienceOf
  <2> QED BY <1>5, <2>1, AcquisitionsPageServes, DrePageServes, FinancialPageServes,
             CommissionRulesPageServes, EmployeesPageServes, UsersAccessPageServes,
             DocumentConfigPageServes, StoreConfigPageServes, ReportsPageServes,
             AuditPageServes DEF AdminArea, PagesOf
<1>6. CASE name \in DOMAIN Below
  <2>1. role \in Staff
    BY <1>6, AudienceOf
  <2> QED BY <1>6, <2>1, VehicleDrawerServes, MovementDrawerServes, MaintenanceDrawerServes,
             UploadDrawerServes, SaleDrawerServes, LeadDrawerServes, CustomerDrawerServes
          DEF Below, PagesOf
<1> QED BY <1>2, <1>3, <1>4, <1>5, <1>6, Layers

\* Every load has a key.
LEMMA KeysAreNamed ==
    ASSUME NEW role \in Everybody, NEW name \in Names
    PROVE  \A load \in Site[role][name].loads : load.key # NoKey
<1> DEFINE Named(screen) == \A load \in screen.loads : load.key # NoKey
<1>1. /\ \A a, route, shows, limit : Rows(<<a>>, route, shows, limit).key # NoKey
      /\ \A a, b, route, shows, limit : Rows(<<a, b>>, route, shows, limit).key # NoKey
      /\ \A a, b, c, route, shows, limit : Rows(<<a, b, c>>, route, shows, limit).key # NoKey
  <2>1. \A a, b, c : Len(<<a>>) # Len(NoKey) /\ Len(<<a, b>>) # Len(NoKey)
                     /\ Len(<<a, b, c>>) # Len(NoKey)
    BY DEF NoKey
  <2> QED BY <2>1 DEF Rows
<1>2. \A loads, acts : Page(loads, acts).loads = loads
  BY DEF Page
<1>3. ASSUME NEW over, NEW under, NEW loads, NEW acts, Named(under),
             \A load \in loads : load.key # NoKey
      PROVE  Named(Drawer(over, under, loads, acts))
  BY <1>3 DEF Drawer
<1> USE <1>1, <1>2 DEF When, useList, useItem, useVehicleOptions, useCustomerOptions,
        useEmployeeOptions, usePartOptions, useSupplierOptions
<1>4. /\ Named(HomePage) /\ Named(CatalogPage) /\ Named(VehicleDetailPage) /\ Named(LocationPage)
      /\ Named(LoginPage) /\ Named(RegisterPage) /\ Named(ForgotPasswordPage)
  BY DEF HomePage, CatalogPage, VehicleDetailPage, LocationPage, LoginPage, RegisterPage,
         ForgotPasswordPage
<1>5. /\ Named(AccountPage) /\ Named(FavoritesPage) /\ Named(ViewHistoryPage)
      /\ Named(PurchasesPage) /\ Named(PrivacyPage)
  BY DEF AccountPage, FavoritesPage, ViewHistoryPage, PurchasesPage, PrivacyPage
<1>6. /\ Named(DashboardPage(role)) /\ Named(VehiclesAdminPage) /\ Named(PartsPage(role))
      /\ Named(MaintenancePage) /\ Named(DocumentsPage) /\ Named(FunnelPage(role))
      /\ Named(ReservationsPage(role)) /\ Named(SalesPage(role)) /\ Named(LeadsPage)
      /\ Named(CustomersPage) /\ Named(CommissionsPage(role)) /\ Named(NotificationsPage)
  BY DEF DashboardPage, VehiclesAdminPage, PartsPage, MaintenancePage, DocumentsPage, FunnelPage,
         Choice, ReservationsPage, SalesPage, LeadsPage, CustomersPage, CommissionsPage,
         NotificationsPage
<1>7. Named(ChecklistStatusCard)
  BY <1>6 DEF ChecklistStatusCard
<1>8. /\ Named(AcquisitionsPage) /\ Named(DrePage) /\ Named(FinancialPage)
      /\ Named(CommissionRulesPage) /\ Named(EmployeesPage) /\ Named(UsersAccessPage)
      /\ Named(DocumentConfigPage) /\ Named(StoreConfigPage) /\ Named(ReportsPage)
      /\ Named(AuditPage)
  BY DEF AcquisitionsPage, DrePage, FinancialPage, CommissionRulesPage, EmployeesPage,
         UsersAccessPage, DocumentConfigPage, StoreConfigPage, ReportsPage, AuditPage
<1>9. /\ Named(VehicleDrawer) /\ Named(MovementDrawer(role)) /\ Named(MaintenanceDrawer)
      /\ Named(UploadDrawer) /\ Named(SaleDrawer(role)) /\ Named(LeadDrawer)
      /\ Named(CustomerDrawer)
  BY <1>3, <1>6, <1>7 DEF VehicleDrawer, MovementDrawer, MaintenanceDrawer, UploadDrawer,
     SaleDrawer, LeadDrawer, CustomerDrawer
<1> HIDE <1>1, <1>2 DEF When, useList, useItem, useVehicleOptions, useCustomerOptions,
         useEmployeeOptions, usePartOptions, useSupplierOptions, Named
<1>10. \A other \in Plain \cup DOMAIN Below : Named(PagesOf(role)[other])
  BY <1>4, <1>5, <1>6, <1>7, <1>8, <1>9
     DEF PagesOf, Plain, Below, CustomerArea, StaffArea, AdminArea
<1>11. Site[role] = PagesOf(role)
  BY DEF Site
<1> QED BY <1>10, <1>11, Layers DEF Named

-----------------------------------------------------------------------------
(* What is looked at, and the act under way                                *)

\* What is looked at is a load of the page, and only what has been loaded is shown; the choice
\* of parts never is, as it asks for too many rows.  The drawer of movements is an
\* administrator's, and no login leads back to a drawer.
LookInv ==
    /\ query = NoKey \/ \E load \in Loads : load.key = query
    /\ query = NoKey => shown = "nothing" /\ fetch = "idle"
    /\ query = usePartOptions.key => shown = "nothing" /\ fetch \notin {"before", "current"}
    /\ page = "MovementDrawer" => user = "ADMIN"
    /\ from \notin Drawers

\* The act is one that the page offers, until it has succeeded.  Data from before it are those
\* it has changed; once it has succeeded they have been left behind, or are asked for again.
ActInv ==
    /\ stage \in {"sent", "committed"} => act \in Offers
    /\ stage = "sent" => body \in {act.always, act.always \cup act.may}
    /\ stage \in {"idle", "sent"} => "before" \notin {shown, fetch}
    /\ stage = "committed" /\ "before" \in {shown, fetch} =>
          query # NoKey /\ Load(query).shows \cap Api[act.route].changes # {}
    /\ stage = "done" =>
          \/ query # NoKey /\ <<act.route, Head(query)>> \in LeftBehind
          \/ fetch # "before" /\ (shown = "before" => fetch \in {"asked", "current", "refused"})

PageInv == TabInv /\ LookInv /\ ActInv

LEMMA OffersServed ==
    ASSUME TabInv, LookInv
    PROVE  /\ \A load \in Loads : Loadable(load, user) /\ load.key # NoKey
           /\ \A offer \in Offers :
                 Acceptable(offer, user) /\ \A load \in Loads : Refreshes(offer, load)
<1>1. Serves(Site[user][page], user)
  BY PagesServe DEF TabInv, PageFitsUser, LookInv
<1>2. \A load \in Loads :
         load \in Site[user][page].loads \/ (user \in Staff /\ load = useUnreadCount)
  BY DEF Loads, LoadsOf, When
<1>3. useUnreadCount.key # NoKey
  BY DEF useUnreadCount, useItem, Rows, NoKey
<1>4. \A load \in Loads : load.key # NoKey
  BY <1>2, <1>3, KeysAreNamed DEF TabInv
<1> QED BY <1>1, <1>2, <1>4, CookieConsentServes, UnreadCountServes DEF Offers, Serves

\* The load that is looked at
LEMMA LookedAt ==
    ASSUME LookInv, query # NoKey
    PROVE  Load(query) \in Loads /\ Load(query).key = query
  BY DEF LookInv, Load

\* A drawer shows what its page does.
LEMMA DrawerShows ==
    ASSUME NEW reader \in Everybody, NEW name \in DOMAIN Below
    PROVE  Site[reader][Below[name]].loads \subseteq Site[reader][name].loads
<1>1. \A over, under, loads, acts : under.loads \subseteq Drawer(over, under, loads, acts).loads
  BY DEF Drawer
<1>2. Site[reader] = PagesOf(reader)
  BY DEF Site
<1> QED BY <1>1, <1>2 DEF PagesOf, Below, VehicleDrawer, MovementDrawer, MaintenanceDrawer,
           UploadDrawer, SaleDrawer, LeadDrawer, CustomerDrawer

\* Whoever comes to another page looks at nothing yet.
LEMMA ArrivesAnew ==
    ASSUME NEW reader, NEW name \in Names, name \notin Drawers, Enter(reader, name)
    PROVE  LookInv' /\ ActInv'
<1>1. ProtectedRoute(reader, name) \in {name, "LoginPage", "HomePage"}
  BY DEF ProtectedRoute
<1>2. "LoginPage" \notin Drawers /\ "HomePage" \notin Drawers /\ "MovementDrawer" \in Drawers
  BY Layers DEF Plain, Below
<1>3. Nowhere \notin Drawers
  BY Layers
<1>4. page' \notin Drawers /\ from' \notin Drawers
  BY <1>1, <1>2, <1>3 DEF Enter, Arrive
<1>5. stage' = "idle" /\ query' = NoKey /\ shown' = "nothing" /\ fetch' = "idle"
  BY DEF Enter, Arrive, actVars
<1> QED BY <1>2, <1>4, <1>5 DEF LookInv, ActInv, NoKey, usePartOptions, Rows

LEMMA InvsHold ==
    ASSUME LookInv, ActInv, UNCHANGED <<user, page, from, readVars, actVars>>
    PROVE  LookInv' /\ ActInv'
<1>1. Loads' = Loads /\ Offers' = Offers
  BY DEF Loads, LoadsOf, Offers
<1>2. \A key : Load(key)' = Load(key)
  BY <1>1 DEF Load
<1>3. LookInv'
  BY <1>1 DEF LookInv, readVars
<1>4. ActInv'
  BY <1>1, <1>2 DEF ActInv, readVars, actVars
<1> QED BY <1>3, <1>4

LEMMA MovesKeep ==
    ASSUME PageInv, TabMove
    PROVE  LookInv' /\ ActInv'
<1> USE DEF PageInv
<1>1. ASSUME NEW name \in Names, Visit(name) PROVE LookInv' /\ ActInv'
  BY <1>1, ArrivesAnew DEF Visit
<1>2. ASSUME NEW name \in Names, OpenDrawer(name) PROVE LookInv' /\ ActInv'
  <2>1. /\ page' = name /\ stage = "idle" /\ Site[user][name].over = page
        /\ UNCHANGED <<user, from, readVars, actVars>>
        /\ name = "MovementDrawer" => user = "ADMIN"
    BY <1>2 DEF OpenDrawer
  <2>2. name \in DOMAIN Below /\ Below[name] = page
    BY <2>1, Layers DEF TabInv
  <2>3. Loads \subseteq Loads'
    BY <2>1, <2>2, DrawerShows DEF TabInv, Loads, LoadsOf
  <2>4. LookInv'
    BY <2>1, <2>3 DEF LookInv, readVars
  <2>5. ActInv'
    BY <2>1 DEF ActInv, readVars, actVars
  <2> QED BY <2>4, <2>5
<1>3. ASSUME NEW role \in Roles, SignIn(role) PROVE LookInv' /\ ActInv'
  <2>1. "DashboardPage" \in Names \ Drawers
    BY Layers DEF Plain, StaffArea
  <2>2. PICK name \in Names \ Drawers : Enter(role, name)
    BY <1>3, <2>1 DEF SignIn, TabInv, LookInv
  <2> QED BY <2>2, ArrivesAnew
<1>4. CASE SignUp
  <2>1. "AccountPage" \in Names \ Drawers
    BY Layers DEF Plain, CustomerArea
  <2> QED BY <1>4, <2>1, ArrivesAnew DEF SignUp
<1>5. Under(page) \in Names \ Drawers
  BY UnderNames, Layers DEF TabInv
<1>6. CASE SignOut
  <2>1. "HomePage" \in Names \ Drawers
    BY Layers DEF Plain
  <2>2. PICK name \in Names \ Drawers : Enter(Nobody, name)
    BY <1>5, <1>6, <2>1 DEF SignOut
  <2> QED BY <2>2, ArrivesAnew
<1>7. CASE RefreshMe
  BY <1>5, <1>7, ArrivesAnew DEF RefreshMe
<1>8. CASE CloseDrawer
  <2>1. /\ stage = "idle" /\ UNCHANGED <<user, from, actVars>>
        /\ page' = Under(page)
        /\ query' = query \/ query' = NoKey
        /\ query' # NoKey => \E load \in LoadsOf(Under(page)) : load.key = query
        /\ IF query' = query THEN UNCHANGED <<shown, fetch>>
                             ELSE shown' = "nothing" /\ fetch' = "idle"
    BY <1>8 DEF CloseDrawer, Uncover
  <2>2. Loads' = LoadsOf(Under(page))
    BY <2>1 DEF Loads, LoadsOf
  <2>3. page' # "MovementDrawer"
    BY <1>5, <2>1, Layers DEF Below
  <2>4. LookInv'
    BY <2>1, <2>2, <2>3 DEF LookInv
  <2>5. ActInv'
    BY <2>1 DEF ActInv, actVars
  <2> QED BY <2>4, <2>5
<1>9. CASE ChangeRole
  <2>1. UNCHANGED <<user, page, from, readVars, actVars>>
    BY <1>9 DEF ChangeRole, placeVars
  <2> QED BY <2>1, InvsHold
<1> QED BY <1>1, <1>2, <1>3, <1>4, <1>6, <1>7, <1>8, <1>9 DEF TabMove

LEMMA ReadsKeep ==
    ASSUME PageInv, TabRead
    PROVE  LookInv' /\ ActInv'
<1> USE DEF PageInv
<1>1. UNCHANGED <<user, page, from, act, body, stage>> /\ Loads' = Loads
  BY DEF TabRead, Look, Refetch, Answer, Receive, placeVars, actVars, Loads, LoadsOf
<1>2. ASSUME NEW load \in Loads, Look(load) PROVE LookInv' /\ ActInv'
  <2>1. query = NoKey /\ query' = load.key /\ shown = "nothing" /\ shown' = shown
        /\ fetch = "idle" /\ fetch' = "asked"
    BY <1>2 DEF Look, LookInv
  <2>2. query' # NoKey
    BY <2>1, OffersServed
  <2>3. LookInv'
    BY <1>1, <2>1, <2>2 DEF LookInv
  <2>4. ActInv'
    BY <1>1, <2>1, OffersServed DEF ActInv, Offers
  <2> QED BY <2>3, <2>4
<1>3. CASE Refetch
  <2>1. query # NoKey /\ query' = query /\ shown' = shown
        /\ fetch \in {"idle", "refused"} /\ fetch' = "asked"
    BY <1>3 DEF Refetch
  <2>2. LookInv'
    BY <1>1, <2>1 DEF LookInv
  <2>3. ActInv'
    BY <1>1, <2>1 DEF ActInv, Offers, Load
  <2> QED BY <2>2, <2>3
<1>4. CASE Answer
  <2>1. query # NoKey /\ query' = query /\ shown' = shown
        /\ fetch = "asked" /\ fetch' = IF Given(Load(query)) THEN "current" ELSE "refused"
    BY <1>4 DEF Answer, LookInv
  <2>2. query = usePartOptions.key => fetch' = "refused"
    BY <2>1, LookedAt, OffersServed DEF Given, Loadable
  <2>3. LookInv'
    BY <1>1, <2>1, <2>2 DEF LookInv
  <2>4. ActInv'
    BY <1>1, <2>1 DEF ActInv, Offers, Load
  <2> QED BY <2>3, <2>4
<1>5. CASE Receive
  <2>1. query # NoKey /\ query' = query /\ fetch \in {"current", "before"} /\ shown' = fetch
        /\ fetch' = "idle"
    BY <1>5 DEF Receive, LookInv
  <2>2. LookInv'
    BY <1>1, <2>1 DEF LookInv
  <2>3. ActInv'
    BY <1>1, <2>1 DEF ActInv, Offers, Load
  <2> QED BY <2>2, <2>3
<1> QED BY <1>2, <1>3, <1>4, <1>5 DEF TabRead

LEMMA ActsKeep ==
    ASSUME PageInv, TabAct
    PROVE  LookInv' /\ ActInv'
<1> USE DEF PageInv
<1>1. ASSUME NEW offer \in Offers, Send(offer) PROVE LookInv' /\ ActInv'
  <2>1. /\ stage = "idle" /\ stage' = "sent" /\ act' = offer
        /\ body' \in {offer.always, offer.always \cup offer.may}
        /\ UNCHANGED <<user, page, from, query, shown, fetch>>
    BY <1>1 DEF Send, placeVars, readVars
  <2>2. Loads' = Loads /\ Offers' = Offers
    BY <2>1 DEF Loads, LoadsOf, Offers
  <2>3. LookInv'
    BY <2>1, <2>2 DEF LookInv
  <2>4. ActInv'
    BY <2>1, <2>2 DEF ActInv
  <2> QED BY <2>3, <2>4
<1>2. CASE Commit
  <2>1. /\ stage = "sent" /\ stage' \in {"committed", "refused"}
        /\ UNCHANGED <<user, page, from, query, act, body>>
        /\ \/ shown' = Stale(shown) /\ fetch' = Stale(fetch)
           \/ stage' = "refused" /\ UNCHANGED <<shown, fetch>>
    BY <1>2 DEF Commit, placeVars
  <2>2. Loads' = Loads /\ Offers' = Offers /\ Load(query)' = Load(query)
    BY <2>1 DEF Loads, LoadsOf, Offers, Load
  <2>3. \A copy : \/ Stale(copy) = copy
                  \/ /\ copy = "current" /\ query # NoKey
                     /\ Load(query).shows \cap Api[act.route].changes # {}
    BY DEF Stale
  <2>4. LookInv'
    BY <2>1, <2>2, <2>3 DEF LookInv
  <2>5. "before" \in {shown', fetch'} =>
           query # NoKey /\ Load(query).shows \cap Api[act.route].changes # {}
    BY <2>1, <2>3 DEF ActInv
  <2>6. ActInv'
    BY <2>1, <2>2, <2>5 DEF ActInv
  <2> QED BY <2>4, <2>6
<1>3. CASE Fail
  <2>1. stage' = "failed" /\ UNCHANGED <<user, page, from, query, shown, fetch>>
    BY <1>3 DEF Fail, placeVars, readVars
  <2>2. Loads' = Loads
    BY <2>1 DEF Loads, LoadsOf
  <2>3. LookInv'
    BY <2>1, <2>2 DEF LookInv
  <2>4. ActInv'
    BY <2>1 DEF ActInv
  <2> QED BY <2>3, <2>4
<1>4. CASE Succeed
  <2> DEFINE again == query # NoKey /\ Invalidates(act, query)
             first == shown = "nothing" /\ fetch \notin {"idle", "refused"}
  <2>1. /\ stage = "committed" /\ stage' = IF again /\ first THEN "joined" ELSE "done"
        /\ UNCHANGED <<user, from, act>>
    BY <1>4 DEF Succeed
  <2>2. /\ page' \in {page, Under(page)}
        /\ query' \in {query, NoKey}
        /\ query' # NoKey => \E load \in LoadsOf(page') : load.key = query'
    BY <1>4 DEF Succeed, Uncover, LookInv, Loads
  <2>3. IF query' = query
           THEN shown' = shown /\ fetch' = IF again /\ ~first THEN "asked" ELSE fetch
           ELSE shown' = "nothing" /\ fetch' = "idle"
    BY <1>4 DEF Succeed
  <2>4. LookInv'
    <3>1. Loads' = LoadsOf(page')
      BY <2>1 DEF Loads, LoadsOf
    <3>2. page' = "MovementDrawer" => page = "MovementDrawer"
      BY <2>2, UnderNames, Layers DEF TabInv, Below
    <3>3. query = usePartOptions.key => query # NoKey
      BY DEF usePartOptions, Rows, NoKey
    <3> QED BY <2>1, <2>2, <2>3, <3>1, <3>2, <3>3 DEF LookInv
  <2>5. ASSUME "before" \in {shown, fetch}
        PROVE  again \/ <<act.route, Head(query)>> \in LeftBehind
    <3>1. query # NoKey /\ Load(query).shows \cap Api[act.route].changes # {} /\ act \in Offers
      BY <2>1, <2>5 DEF ActInv
    <3>2. query # usePartOptions.key
      BY <2>5 DEF LookInv
    <3> QED BY <3>1, <3>2, LookedAt, OffersServed DEF Refreshes
  <2>6. ActInv'
    BY <2>1, <2>2, <2>3, <2>5 DEF ActInv, LookInv
  <2> QED BY <2>4, <2>6
<1>5. CASE Settle
  <2>1. /\ stage' = "idle" /\ UNCHANGED <<user, page, from, query>>
        /\ shown' = IF shown = "before" THEN "current" ELSE shown
        /\ fetch' = IF fetch = "before" THEN "current" ELSE fetch
    BY <1>5 DEF Settle, placeVars
  <2>2. Loads' = Loads
    BY <2>1 DEF Loads, LoadsOf
  <2>3. LookInv'
    BY <2>1, <2>2 DEF LookInv
  <2>4. ActInv'
    BY <2>1 DEF ActInv
  <2> QED BY <2>3, <2>4
<1> QED BY <1>1, <1>2, <1>3, <1>4, <1>5 DEF TabAct

LEMMA PagesInductive ==
    /\ PortalInit => PageInv
    /\ PageInv /\ [PortalNext]_portalVars => PageInv'
<1>1. PortalInit => PageInv
  <2>1. "MovementDrawer" # "HomePage" /\ Nowhere \notin Drawers
    BY Layers
  <2>2. PortalInit => LookInv /\ ActInv
    BY <2>1 DEF PortalInit, TabInit, LookInv, ActInv, NoKey, usePartOptions, Rows
  <2> QED BY <2>2, TabInductive DEF PageInv
<1>2. ASSUME PageInv, [PortalNext]_portalVars PROVE PageInv'
  <2>1. TabInv'
    BY <1>2, TabInductive DEF PageInv
  <2>2. CASE TabNext
    BY <1>2, <2>1, <2>2, MovesKeep, ReadsKeep, ActsKeep DEF TabNext, PageInv
  <2>3. CASE UNCHANGED tabVars
    BY <1>2, <2>1, <2>3, InvsHold DEF PageInv, tabVars, placeVars
  <2> QED BY <1>2, <2>2, <2>3 DEF PortalNext, portalVars
<1> QED BY <1>1, <1>2

\* No field that a form fills in is dropped by the whitelist (main.ts:37), but for the contact
\* and the city of a supplier (Inventory.tsx:132): the DTO of every route that a page calls
\* knows what the page sends.
THEOREM FieldsAreKept == PortalFairSpec => []FilledFieldsAreKept
<1>1. PageInv => FilledFieldsAreKept
  <2> SUFFICES ASSUME PageInv, stage = "sent"
               PROVE  body \ Whitelist(Api[act.route].body, body) \subseteq Dropped(act)
    BY DEF FilledFieldsAreKept, Dropped
  <2>1. Acceptable(act, user) /\ body \subseteq Fields(act)
    BY OffersServed DEF PageInv, ActInv, Fields
  <2> QED BY <2>1 DEF Acceptable, Whitelist
<1> QED BY <1>1, PagesInductive, PTL DEF PortalFairSpec

\* The server refuses nothing that a page does of its own accord or lets its reader do, as long
\* as the tab takes the reader for what he is, but for one load that asks for too many rows
\* (roles.guard.ts:15, main.ts:35, shared.tsx:24).
THEOREM OffersPass == PortalFairSpec => OtherOffersAreAccepted
<1>1. ASSUME PageInv, [PortalNext]_portalVars
      PROVE  [(LoadRefused /\ query # usePartOptions.key) \/ ActRefused => Caller # user]_tabVars
  <2>1. ASSUME Caller = user, LoadRefused PROVE query = usePartOptions.key
    <3>1. Answer /\ ~Given(Load(query))
      BY <1>1, <2>1 DEF LoadRefused, PortalNext, portalVars, tabVars, readVars, TabNext, TabMove,
         TabRead, TabAct, Visit, OpenDrawer, SignIn, SignUp, SignOut, RefreshMe, Enter, Arrive,
         CloseDrawer, ChangeRole, Look, Refetch, Answer, Receive, Send, Commit, Stale, Fail,
         Succeed, Settle
    <3>2. query # NoKey
      BY <1>1, <2>1 DEF LoadRefused, PageInv, LookInv
    <3> QED BY <1>1, <2>1, <3>1, <3>2, LookedAt, OffersServed DEF PageInv, Given, Loadable
  <2>2. ASSUME Caller = user, ActRefused PROVE FALSE
    <3>1. ~(Admitted(act.route, Caller) /\ Valid(Api[act.route].body, body))
      BY <1>1, <2>2 DEF ActRefused, PortalNext, portalVars, tabVars, actVars, TabNext, TabMove,
         TabRead, TabAct, Visit, OpenDrawer, SignIn, SignUp, SignOut, RefreshMe, Enter, Arrive,
         CloseDrawer, ChangeRole, Look, Refetch, Answer, Receive, Send, Commit, Fail,
         Succeed, Settle
    <3>2. Acceptable(act, user) /\ act.always \subseteq body
      BY <1>1, <2>2, OffersServed DEF ActRefused, PageInv, ActInv
    <3> QED BY <2>2, <3>1, <3>2 DEF Acceptable, Valid
  <2> QED BY <2>1, <2>2
<1> QED BY <1>1, PagesInductive, PTL DEF PortalFairSpec, OtherOffersAreAccepted

\* Once an act has succeeded and its page is at rest again, the page shows what was done, but
\* for what is left behind (data.ts:51): what an act invalidates is all that it has changed.
THEOREM WorkShows == PortalFairSpec => []OwnWorkShows
<1>1. PageInv => OwnWorkShows
  BY DEF PageInv, ActInv, OwnWorkShows
<1> QED BY <1>1, PagesInductive, PTL DEF PortalFairSpec

-----------------------------------------------------------------------------
(* The shape of tab, sockets and dashboards                                *)

\* What a handler of the dashboards holds
DashboardLocals == [reader : Readers, fresh : Versions \cup {NULL}]

\* A page that waits for a handler waits for one that is at work for it: whatever else it is
\* told meanwhile, and wherever that handler stops (redis.service.ts:59, Dashboard.tsx:49).
AwaitedAtWork ==
    \A c \in Readers, w \in Workers : awaits[c] = w => pc[w] # "idle" /\ ctx[w].reader = c

OverviewInv ==
    /\ OverviewTypeOK
    /\ AwaitedAtWork
    /\ pc \in [Workers -> {"idle", "cached", "compute", "set"}]
    /\ ctx \in [Workers -> DashboardLocals \cup {NULL}]
    /\ \A w \in Workers : pc[w] # "idle" => ctx[w] \in DashboardLocals

TabShape ==
    /\ promotions \in 0 .. MaxPromotions
    /\ shown \in {"nothing", "before", "current"}
    /\ fetch \in {"idle", "asked", "refused", "before", "current"}
    /\ stage \in {"idle", "sent", "committed", "refused", "failed", "done", "joined"}

LEMMA TabShaped ==
    ASSUME TabShape, [PortalNext]_portalVars
    PROVE  TabShape'
<1>1. CASE UNCHANGED tabVars
  BY <1>1 DEF TabShape, tabVars, readVars, actVars
<1>2. CASE TabMove
  <2>1. CASE ChangeRole
    BY <2>1, TabAssumption DEF ChangeRole, TabShape, readVars, actVars
  <2>2. CASE CloseDrawer
    BY <2>2 DEF CloseDrawer, TabShape, actVars
  <2>3. ASSUME NEW reader, NEW name, Enter(reader, name), UNCHANGED promotions
        PROVE  TabShape'
    BY <2>3 DEF Enter, Arrive, TabShape, actVars
  <2>4. ASSUME NEW name, OpenDrawer(name)
        PROVE  TabShape'
    BY <2>4 DEF OpenDrawer, TabShape, readVars, actVars
  <2> QED BY <1>2, <2>1, <2>2, <2>3, <2>4 DEF TabMove, Visit, SignIn, SignUp, SignOut, RefreshMe
<1>3. CASE TabRead
  BY <1>3 DEF TabRead, Look, Refetch, Answer, Receive, TabShape, actVars
<1>4. CASE TabAct
  <2>1. \A copy : Stale(copy) \in {copy, "before"}
    BY DEF Stale
  <2>2. CASE Commit
    BY <2>1, <2>2 DEF Commit, TabShape
  <2>3. CASE Succeed
    BY <2>3 DEF Succeed, TabShape
  <2>4. CASE (\E offer \in Offers : Send(offer)) \/ Fail \/ Settle
    BY <2>4 DEF Send, Fail, Settle, TabShape, readVars
  <2> QED BY <1>4, <2>2, <2>3, <2>4 DEF TabAct
<1> QED BY <1>1, <1>2, <1>3, <1>4 DEF PortalNext, portalVars, TabNext

LEMMA AnswersTyped ==
    ASSUME OverviewInv, NEW w \in Workers, pc[w] # "idle",
           NEW value \in Versions \cup {NULL}, Respond(w, value),
           cached' \in Versions \cup {NULL}
    PROVE  OverviewInv'
<1>1. ctx[w].reader \in Readers
  BY DEF OverviewInv, DashboardLocals
<1>2. pc' = [pc EXCEPT ![w] = "idle"] /\ ctx' = [ctx EXCEPT ![w] = NULL] /\ failures' = failures
  BY DEF Respond, Return
<1>3. /\ display' \in [Readers -> Versions \cup {NULL}]
      /\ awaits' \in [Readers -> Workers \cup {"closed", "idle", "asked"}]
      /\ told' \in [Readers -> BOOLEAN]
      /\ UNCHANGED <<figures, recalc, news, connected>>
  <2>1. CASE awaits[ctx[w].reader] = w
    <3>1. /\ display' = [display EXCEPT ![ctx[w].reader] = value]
          /\ awaits' = [awaits EXCEPT ![ctx[w].reader] = "idle"]
          /\ told' = [told EXCEPT ![ctx[w].reader] = FALSE]
      BY <2>1 DEF Respond
    <3> QED BY <1>1, <3>1 DEF Respond, OverviewInv, OverviewTypeOK
  <2>2. CASE awaits[ctx[w].reader] # w
    BY <2>2 DEF Respond, OverviewInv, OverviewTypeOK
  <2> QED BY <2>1, <2>2
<1>4. AwaitedAtWork'
  <2> SUFFICES ASSUME NEW c \in Readers, NEW x \in Workers, awaits'[c] = x
               PROVE  pc'[x] # "idle" /\ ctx'[x].reader = c
    BY DEF AwaitedAtWork
  <2>1. awaits[c] = x /\ x # w
    BY <1>1, OverviewAssumption DEF Respond, OverviewInv, OverviewTypeOK, AwaitedAtWork
  <2> QED BY <1>2, <2>1 DEF OverviewInv, AwaitedAtWork
<1> QED BY <1>2, <1>3, <1>4 DEF OverviewInv, OverviewTypeOK, Versions, DashboardLocals

LEMMA OverviewKeeps ==
    ASSUME OverviewInv, [PortalNext]_portalVars
    PROVE  OverviewInv'
<1> USE OverviewAssumption DEF OverviewInv, OverviewTypeOK, AwaitedAtWork
<1>1. CASE UNCHANGED overviewVars
  BY <1>1 DEF overviewVars, handlerVars, Versions, DashboardLocals
<1>2. ASSUME UNCHANGED handlerVars,
             FiguresChange \/ CacheExpires \/ DropCache \/ EmitUpdated
      PROVE  OverviewInv'
  BY <1>2, OverviewAssumption DEF FiguresChange, CacheExpires, DropCache, EmitUpdated,
     handlerVars, Versions, DashboardLocals
<1>3. CASE RecalcDies
  BY <1>3, HandlersAssumption DEF RecalcDies, Versions, DashboardLocals
<1>4. ASSUME NEW w \in Workers, DashboardStep(w)
      PROVE  OverviewInv'
  <2>1. CASE RememberGet(w)
    <3>1. CASE Respond(w, cached)
      BY <2>1, <3>1, AnswersTyped DEF RememberGet, At
    <3>2. CASE /\ Goto(w, "compute")
               /\ UNCHANGED <<figures, recalc, display, awaits, news, told, connected>>
      BY <2>1, <3>2 DEF RememberGet, At, Goto, Versions, DashboardLocals
    <3> QED BY <2>1, <3>1, <3>2 DEF RememberGet
  <2>2. CASE computeAdmin(w)
    <3>1. [ctx[w] EXCEPT !.fresh = figures] \in DashboardLocals
      BY <2>2 DEF computeAdmin, At, DashboardLocals
    <3> QED BY <2>2, <3>1 DEF computeAdmin, GotoWith, At, Versions, DashboardLocals
  <2>3. CASE sellerDashboard(w)
    BY <2>3, AnswersTyped DEF sellerDashboard, At
  <2>4. CASE RememberSet(w)
    <3>1. ctx[w].fresh \in Versions \cup {NULL}
      BY <2>4 DEF RememberSet, At, DashboardLocals
    <3> QED BY <2>4, <3>1, AnswersTyped DEF RememberSet, At
  <2> QED BY <1>4, <2>1, <2>2, <2>3, <2>4 DEF DashboardStep
<1>5. ASSUME NEW w \in Workers, DashboardFails(w)
      PROVE  OverviewInv'
  <2>1. ctx[w].reader \in Readers
    BY <1>5 DEF DashboardFails, Die, DashboardLocals
  <2>2. /\ pc' = [pc EXCEPT ![w] = "idle"] /\ ctx' = [ctx EXCEPT ![w] = NULL]
        /\ failures' \in 0 .. MaxFailures
    BY <1>5, HandlersAssumption DEF DashboardFails, Die
  <2>3. AwaitedAtWork'
    <3> SUFFICES ASSUME NEW c \in Readers, NEW x \in Workers, awaits'[c] = x
                 PROVE  pc'[x] # "idle" /\ ctx'[x].reader = c
      BY DEF AwaitedAtWork
    <3>1. awaits[c] = x /\ x # w
      BY <1>5, <2>1 DEF DashboardFails
    <3> QED BY <2>2, <3>1
  <2> HIDE DEF AwaitedAtWork
  <2> QED BY <1>5, <2>1, <2>2, <2>3 DEF DashboardFails, Versions, DashboardLocals
<1>6. ASSUME NEW c \in Readers, Serve(c)
      PROVE  OverviewInv'
  <2>1. PICK w \in Workers : StartDashboard(w, c)
    BY <1>6 DEF Serve
  <2>2. [reader |-> c, fresh |-> NULL] \in DashboardLocals
    BY DEF DashboardLocals
  <2> QED BY <2>1, <2>2 DEF StartDashboard, Begin, Versions, DashboardLocals
<1>7. ASSUME NEW c \in Readers, UNCHANGED handlerVars,
             InvalidateDashboard(c) \/ Refocus(c) \/ Connect(c) \/ Disconnect(c)
      PROVE  OverviewInv'
  <2>1. AwaitedAtWork'
    <3> SUFFICES ASSUME NEW d \in Readers, NEW x \in Workers, awaits'[d] = x
                 PROVE  pc'[x] # "idle" /\ ctx'[x].reader = d
      BY DEF AwaitedAtWork
    <3>1. awaits[d] = x
      BY <1>7 DEF InvalidateDashboard, Refocus, Connect, Disconnect
    <3> QED BY <1>7, <3>1 DEF handlerVars
  <2> HIDE DEF AwaitedAtWork
  <2>2. /\ awaits' \in [Readers -> Workers \cup {"closed", "idle", "asked"}]
        /\ news' \in [Readers -> BOOLEAN]
        /\ told' \in [Readers -> BOOLEAN]
        /\ connected' \in [Readers -> BOOLEAN]
        /\ UNCHANGED <<figures, cached, recalc, display>>
    <3>1. CASE InvalidateDashboard(c)
      <4>1. CASE awaits' = [awaits EXCEPT ![c] = "asked"] /\ told' = [told EXCEPT ![c] = TRUE]
        BY <3>1, <4>1 DEF InvalidateDashboard
      <4>2. CASE UNCHANGED <<awaits, told>>
        BY <3>1, <4>2 DEF InvalidateDashboard
      <4> QED BY <3>1, <4>1, <4>2 DEF InvalidateDashboard
    <3>2. CASE Refocus(c)
      BY <3>2 DEF Refocus
    <3>3. CASE Connect(c) \/ Disconnect(c)
      BY <3>3 DEF Connect, Disconnect
    <3> QED BY <1>7, <3>1, <3>2, <3>3
  <2> QED BY <1>7, <2>1, <2>2 DEF handlerVars, Versions, DashboardLocals
<1>8. CASE OverviewNext
  BY <1>2, <1>3, <1>4, <1>5, <1>6, <1>7, <1>8 DEF OverviewNext, FiguresChange, CacheExpires,
     DropCache, EmitUpdated, InvalidateDashboard, Refocus, Connect, Disconnect
<1> QED BY <1>1, <1>8 DEF PortalNext, portalVars

LEMMA OverviewInductive ==
    /\ PortalInit => OverviewInv
    /\ OverviewInv /\ [PortalNext]_portalVars => OverviewInv'
<1>1. PortalInit => OverviewInv
  BY OverviewAssumption, HandlersAssumption DEF PortalInit, HandlersInit, OverviewInit,
     OverviewInv, OverviewTypeOK, AwaitedAtWork, Versions
<1> QED BY <1>1, OverviewKeeps

\* Tab, sockets and dashboards keep their shape, and what is looked at is a load of the page
\* (App.tsx, services/data.ts, dashboard.service.ts).
THEOREM PortalTypeCorrect == PortalFairSpec => []PortalTypeOK
<1>1. PortalInit => TabShape /\ RealtimeTypeOK
  BY TabAssumption, RealtimeAssumption DEF PortalInit, TabInit, TabShape, RealtimeInit,
     RealtimeTypeOK
<1>2. TabShape /\ RealtimeTypeOK /\ [PortalNext]_portalVars => TabShape' /\ RealtimeTypeOK'
  BY TabShaped, RealtimeTyped
<1>3. PageInv /\ TabShape /\ RealtimeTypeOK /\ OverviewInv => PortalTypeOK
  BY DEF PageInv, TabInv, LookInv, TabShape, OverviewInv, PortalTypeOK, TabTypeOK
<1> QED BY <1>1, <1>2, <1>3, PagesInductive, OverviewInductive, PTL DEF PortalFairSpec

\* No dashboard waits for a handler that has returned, has failed, or answers somebody else
\* (redis.service.ts:59, Dashboard.tsx:49): what an event or a failure leaves it waiting for
\* still comes, or can be asked for again.
THEOREM DashboardsAreServed == PortalFairSpec => []AwaitedAtWork
<1> QED BY OverviewInductive, PTL DEF PortalFairSpec, OverviewInv
=============================================================================
