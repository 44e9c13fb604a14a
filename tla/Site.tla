-------------------------------- MODULE Site --------------------------------
(***************************************************************************)
(* The routes of the application: which pages there are for each role,     *)
(* whom a page lets in, what the menus link to, and where a reader who     *)
(* opens an address ends up.                                               *)
(***************************************************************************)
EXTENDS Pages

Everybody == Roles \cup {Nobody}

\* The pages a reader of this role can be on, by name
PagesOf(role) ==
    [HomePage |-> HomePage, CatalogPage |-> CatalogPage,
     VehicleDetailPage |-> VehicleDetailPage, LocationPage |-> LocationPage,
     LoginPage |-> LoginPage, RegisterPage |-> RegisterPage,
     ForgotPasswordPage |-> ForgotPasswordPage,
     AccountPage |-> AccountPage, FavoritesPage |-> FavoritesPage,
     ViewHistoryPage |-> ViewHistoryPage, PurchasesPage |-> PurchasesPage,
     PrivacyPage |-> PrivacyPage,
     DashboardPage |-> DashboardPage(role), VehiclesAdminPage |-> VehiclesAdminPage,
     VehicleDrawer |-> VehicleDrawer, PartsPage |-> PartsPage(role),
     MovementDrawer |-> MovementDrawer(role), MaintenancePage |-> MaintenancePage,
     MaintenanceDrawer |-> MaintenanceDrawer, DocumentsPage |-> ChecklistStatusCard,
     UploadDrawer |-> UploadDrawer, FunnelPage |-> FunnelPage(role),
     ReservationsPage |-> ReservationsPage(role), SalesPage |-> SalesPage(role),
     SaleDrawer |-> SaleDrawer(role), LeadsPage |-> LeadsPage, LeadDrawer |-> LeadDrawer,
     CustomersPage |-> CustomersPage, CustomerDrawer |-> CustomerDrawer,
     CommissionsPage |-> CommissionsPage(role), NotificationsPage |-> NotificationsPage,
     AcquisitionsPage |-> AcquisitionsPage, DrePage |-> DrePage,
     FinancialPage |-> FinancialPage, CommissionRulesPage |-> CommissionRulesPage,
     EmployeesPage |-> EmployeesPage, UsersAccessPage |-> UsersAccessPage,
     DocumentConfigPage |-> DocumentConfigPage, StoreConfigPage |-> StoreConfigPage,
     ReportsPage |-> ReportsPage, AuditPage |-> AuditPage]

Site == [role \in Everybody |-> PagesOf(role)]

Names   == DOMAIN Site[Nobody]
Drawers == {name \in Names : Site[Nobody][name].over # Nowhere}

-----------------------------------------------------------------------------
CustomerArea ==
    {"AccountPage", "FavoritesPage", "ViewHistoryPage", "PurchasesPage", "PrivacyPage"}

StaffArea ==
    {"DashboardPage", "VehiclesAdminPage", "PartsPage", "MaintenancePage", "DocumentsPage",
     "FunnelPage", "ReservationsPage", "SalesPage", "LeadsPage", "CustomersPage",
     "CommissionsPage", "NotificationsPage"}

AdminArea ==
    {"AcquisitionsPage", "DrePage", "FinancialPage", "CommissionRulesPage", "EmployeesPage",
     "UsersAccessPage", "DocumentConfigPage", "StoreConfigPage", "ReportsPage", "AuditPage"}

Under(name) == IF name \in Drawers THEN Site[Nobody][name].over ELSE name

\* The ProtectedRoute around a page; a drawer is part of the page it lies over.
Audience(name) ==
    CASE Under(name) \in CustomerArea -> {"CUSTOMER"}
      [] Under(name) \in StaffArea    -> Staff
      [] Under(name) \in AdminArea    -> {"ADMIN"}
      [] OTHER                        -> Everybody

\* Who is not signed in is sent to the login, and whoever has another role to the home page.
ProtectedRoute(reader, name) ==
    CASE reader \in Audience(name)                     -> name
      [] reader = Nobody /\ Audience(name) # Everybody -> "LoginPage"
      [] OTHER                                         -> "HomePage"

-----------------------------------------------------------------------------
publicNav   == {"HomePage", "CatalogPage", "LocationPage"}
customerNav == CustomerArea \cup publicNav

\* Each entry of the menu of the staff names the roles that see it.
staffNav(role) ==
    {"DashboardPage", "VehiclesAdminPage", "PartsPage", "MaintenancePage", "DocumentsPage",
     "FunnelPage", "ReservationsPage", "SalesPage", "LeadsPage", "CustomersPage",
     "CommissionsPage", "NotificationsPage"} \cup
    When(role = "ADMIN",
         {"AcquisitionsPage", "DrePage", "FinancialPage", "CommissionRulesPage",
          "EmployeesPage", "UsersAccessPage", "DocumentConfigPage", "StoreConfigPage",
          "ReportsPage", "AuditPage"})

visibleGroups(reader) ==
    CASE reader = "CUSTOMER" -> customerNav
      [] reader \in Staff    -> staffNav(reader)
      [] OTHER               -> publicNav

\* invalidateQueries takes every key that begins with the one it is given.
Invalidates(mutation, key) == \E prefix \in mutation.invalidate : IsPrefix(prefix, key)
=============================================================================
