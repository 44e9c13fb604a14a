------------------------------- MODULE Pages -------------------------------
(***************************************************************************)
(* The pages of the single-page application.  A page is what it loads and  *)
(* what it lets its reader do.  A load has a key in the query cache, the   *)
(* route it calls, which of the data that handlers change it shows, and    *)
(* how many rows it asks for.  An act calls a route with the fields of a   *)
(* form, and names the keys that are loaded again once it has succeeded    *)
(* (every key that begins with one of them).  A drawer is a page that      *)
(* opens over another one.                                                 *)
(***************************************************************************)
EXTENDS Access, Sequences, SequencesExt

\* What a page that is no drawer lies over
Nowhere == "nowhere"

Rows(key, route, shows, limit) == [key |-> key, route |-> route, shows |-> shows, limit |-> limit]
useList(key, route, shows)     == Rows(key, route, shows, 50)
useItem(key, route, shows)     == Rows(key, route, shows, 1)

\* A form sends some fields always and others when they are filled in.
Act(route, needs, always, may, invalidate, onClose) ==
    [route |-> route, needs |-> needs, always |-> always, may |-> may,
     invalidate |-> invalidate, onClose |-> onClose]

useApiMutation(route, always, may, invalidate) ==
    Act(route, {}, always, may, invalidate, FALSE)

\* An act that is offered only once something is loaded: the row it belongs to, the choices of
\* a field that must be filled in
Needing(keys, mutation) ==
    Act(mutation.route, keys, mutation.always, mutation.may, mutation.invalidate,
        mutation.onClose)

Button(route, key, always, invalidate) ==
    Needing({key}, useApiMutation(route, always, {}, invalidate))

\* onSuccess closes the drawer
Closing(mutation) ==
    Act(mutation.route, mutation.needs, mutation.always, mutation.may, mutation.invalidate, TRUE)

Page(loads, acts) == [loads |-> loads, acts |-> acts, over |-> Nowhere]

\* A drawer adds its loads to those of its page, and covers what the page offers.
Drawer(over, under, loads, acts) == [loads |-> under.loads \cup loads, acts |-> acts, over |-> over]

When(condition, set) == IF condition THEN set ELSE {}

-----------------------------------------------------------------------------
(* The choices that forms offer                                            *)

useVehicleOptions  == Rows(<<"opt", "vehicles">>,  "listVehicles",  {"vehicles"}, 100)
useCustomerOptions == Rows(<<"opt", "customers">>, "listCustomers", {"customers"}, 100)
useEmployeeOptions == Rows(<<"opt", "employees">>, "listEmployees", {"employees"}, 100)
usePartOptions     == Rows(<<"opt", "parts">>,     "listParts",     {"parts", "quantities"}, 200)
useSupplierOptions == Rows(<<"opt", "suppliers">>, "listSuppliers", {"suppliers"}, 100)

-----------------------------------------------------------------------------
(* Pages for everybody                                                     *)

HomePage    == Page({}, {})
CatalogPage == Page({Rows(<<"publicVehicles">>, "publicVehicles", {"vehicles", "status"}, 60)}, {})

VehicleDetailPage ==
    LET vehicle == <<"vehicle", "slug">> IN
    Page({useItem(vehicle, "vehicleBySlug", {"vehicles", "status", "sheets", "media"})},
         {Needing({vehicle}, useApiMutation("publicContact",
                          {"name", "phone", "sourcePage", "message"}, {"vehicleId"}, {})),
          Button("trackView", vehicle, {"vehicleId"}, {})})

LocationPage       == Page({useItem(<<"storeLocation">>, "publicLocation", {"store"})}, {})
LoginPage          == Page({}, {})
RegisterPage       == Page({}, {})
ForgotPasswordPage == Page({}, {useApiMutation("forgot", {"email"}, {}, {})})

\* The banner asks on every page.
CookieConsent ==
    useApiMutation("registerConsent", {"sessionId", "termsVersion", "consents"}, {}, {})

-----------------------------------------------------------------------------
(* Pages of customers                                                      *)

AccountPage ==
    LET me == <<"customerMe">> IN
    Page({useItem(me, "getMe", {"customers", "addresses"})},
         {Needing({me}, useApiMutation("updateMe", {"marketingConsent"},
                                      {"fullName", "email", "phone", "whatsapp"}, {me})),
          Needing({me}, useApiMutation("addMyAddress", {},
                                      {"label", "zipCode", "street", "number", "complement",
                                       "district", "city", "state"}, {me}))})

FavoritesPage ==
    LET list == <<"favorites">> IN
    Page({useList(list, "listFavorites", {"favorites"})},
         {Button("removeFavorite", list, {}, {list})})

ViewHistoryPage == Page({useList(<<"viewHistory">>, "viewHistory", {"views"})}, {})

PurchasesPage ==
    LET docs == <<"myDocuments">> IN
    Page({useList(docs, "myDocuments", {"documents"})},
         {Button("uploadMine", docs, {"file", "documentId"}, {docs})})

PrivacyPage ==
    LET consents == <<"myConsents">> IN
    Page({useItem(consents, "myConsents", {"consents"})},
         {useApiMutation("exportRequest", {}, {}, {}), useApiMutation("deleteRequest", {}, {}, {}),
          useApiMutation("updateConsents", {"termsVersion", "consents"}, {}, {consents}),
          useApiMutation("marketing", {"emailOptIn", "whatsappOptIn", "interestBrands"},
               {"priceMin", "priceMax"}, {})})

-----------------------------------------------------------------------------
(* Stock and workshop                                                      *)

VehiclesAdminPage ==
    LET list == <<"adminVehicles", "search">>
        all  == <<"adminVehicles">>
    IN  Page({useList(list, "listVehicles", {"vehicles", "status"})},
             {useApiMutation("createVehicle",
                   {"brand", "model", "manufactureYear", "modelYear", "mileage"},
                   {"version", "category", "color", "fuel", "transmission", "purchasePrice",
                    "announcedPrice", "condition", "publicDescription"}, {all}),
              Button("changeStatus", list, {"status"}, {all})})

VehicleDrawer ==
    LET vehicle == <<"vehicle", "id">> IN
    Drawer("VehiclesAdminPage", VehiclesAdminPage,
           {useItem(vehicle, "findVehicle", {"vehicles", "status", "sheets", "media"}),
            useItem(<<"vehicleStock", "id">>, "listMovements", {"movements"})},
           {Needing({vehicle}, useApiMutation("applySpecs", {"brand", "model", "year"},
                                             {"version"}, {vehicle})),
            useApiMutation("changeStatus", {"status"}, {}, {vehicle, <<"adminVehicles">>}),
            Button("uploadMedia", vehicle, {"file"}, {vehicle}),
            Button("removeMedia", vehicle, {}, {vehicle})})

PartsPage(role) ==
    Page({useList(<<"parts", "lowStock">>, "listParts", {"parts", "quantities"}),
          useList(<<"suppliers">>, "listSuppliers", {"suppliers"})},
         When(role = "ADMIN",
              {useApiMutation("createPart", {"internalCode", "name", "quantity", "minQuantity"},
                    {"sku", "category", "brand", "unit", "costPrice", "location"}, {<<"parts">>}),
               useApiMutation("createSupplier", {"name"},
                    {"document", "phone", "email", "contactName", "city"}, {<<"suppliers">>})}))

\* Only the rows of an administrator open it.
MovementDrawer(role) ==
    LET movements == <<"part-movements", "id">> IN
    Drawer("PartsPage", PartsPage(role), {useItem(movements, "partMovements", {"partMovements"})},
           {useApiMutation("movePart", {"type", "quantity"}, {"unitCost", "reason"},
                 {movements, <<"parts">>})})

MaintenancePage ==
    LET list == <<"maintenances">> IN
    Page({useList(list, "listMaintenances", {"maintenances"}), useVehicleOptions,
          useSupplierOptions},
         {Needing({useVehicleOptions.key},
                  useApiMutation("createMaintenance", {"vehicleId"},
                                 {"type", "description", "workshop", "supplierId",
                                  "forecastDate", "laborCost"}, {list}))})

MaintenanceDrawer ==
    LET list == <<"maintenances">>
        one  == <<"maintenance", "id">>
    IN  Drawer("MaintenancePage", MaintenancePage,
               {useItem(one, "findMaintenance", {"maintenances", "items"}), usePartOptions},
               {Needing({one, usePartOptions.key},
                        useApiMutation("addPart", {"partId", "quantity"}, {}, {one})),
                Closing(Needing({one}, useApiMutation("completeMaintenance", {},
                                       {"laborCost", "nextRevisionDate"}, {one, list}))),
                Closing(useApiMutation("cancelMaintenance", {"reason"}, {}, {one, list}))})

\* Every row can be validated; a row that has a file can be downloaded.
DocumentsPage ==
    LET list == <<"documents">> IN
    Page({useList(list, "listDocuments", {"documents"})},
         {Button("validateDocument", list, {"status"}, {list}),
          Needing({list}, useApiMutation("validateDocument", {"status", "rejectionReason"}, {},
                                         {list})),
          Button("downloadDocument", list, {}, {})})

\* A card of the same page
ChecklistStatusCard ==
    Page(DocumentsPage.loads \cup
             {useVehicleOptions, useItem(<<"checklist-status", "stage", "vehicle">>,
                                         "checklistStatus", {"documents", "checklists"})},
         DocumentsPage.acts)

\* The type is chosen among those of the list.
UploadDrawer ==
    LET types == <<"document-types">> IN
    Drawer("DocumentsPage", ChecklistStatusCard,
           {useList(types, "listTypes", {"types"}), useVehicleOptions, useCustomerOptions},
           {Closing(Needing({types}, useApiMutation("uploadDocument",
                                {"documentTypeId", "ownerType", "file"},
                                {"vehicleId", "customerId"}, {<<"documents">>})))})

DocumentConfigPage ==
    LET types == <<"document-types">>
        items == <<"document-checklists">>
    IN  Page({useList(types, "listTypes", {"types"}),
              useList(items, "listChecklists", {"checklists"})},
             {useApiMutation("createType", {"code", "name", "ownerType", "hasExpiry"},
                             {"description"}, {types}),
              Needing({types}, useApiMutation("upsertChecklist",
                  {"stage", "documentTypeId", "required", "position"}, {}, {items})),
              Button("removeChecklist", items, {}, {items})})

-----------------------------------------------------------------------------
(* Sales                                                                   *)

\* Mutant: the page of a seller asks for the acquisitions, too.
FunnelForAll(role) ==
    Page({useList(<<"acquisitions">>, "listAcquisitions", {"acquisitions"})}, {})

FunnelPage(role) ==
    Page({useList(<<"reservations">>, "listReservations", {"reservations"}),
          useList(<<"sales">>, "listSales", {"sales"})} \cup
         When(role = "ADMIN",
              {useList(<<"acquisitions">>, "listAcquisitions", {"acquisitions"})}), {})

AcquisitionsPage ==
    LET list == <<"acquisitions">> IN
    Page({useList(list, "listAcquisitions", {"acquisitions"}), useVehicleOptions},
         {Needing({useVehicleOptions.key},
                  useApiMutation("createAcquisition",
                                 {"vehicleId", "purchasePrice", "purchaseDate", "confirm"},
                                 {"type", "sellerName", "additionalCosts"}, {list}))})

\* What both forms choose from; the seller only by an administrator
Choice(role) ==
    {useVehicleOptions, useCustomerOptions} \cup When(role = "ADMIN", {useEmployeeOptions})

Chosen == {useVehicleOptions.key, useCustomerOptions.key}

ReservationsPage(role) ==
    LET list == <<"reservations">> IN
    Page({useList(list, "listReservations", {"reservations"})} \cup Choice(role),
         {Needing(Chosen, useApiMutation("createReservation", {"vehicleId", "customerId"},
              {"durationDays", "depositAmount"} \cup When(role = "ADMIN", {"sellerId"}), {list})),
          Button("cancelReservation", list, {"reason"}, {list})})

SalesPage(role) ==
    LET list == <<"sales">> IN
    Page({useList(list, "listSales", {"sales"})} \cup Choice(role),
         {Needing(Chosen, useApiMutation("createSale", {"vehicleId", "customerId", "financing"},
              {"negotiatedPrice", "discount", "paymentMethod"}
                  \cup When(role = "ADMIN", {"sellerId"}), {list}))})

SaleDrawer(role) ==
    LET sale == <<"sale", "id">>
        list == <<"sales">>
    IN  Drawer("SalesPage", SalesPage(role), {useItem(sale, "findSale", {"sales"})},
               {useApiMutation("updateSaleStatus", {"status"}, {"finalPrice"}, {sale, list}),
                useApiMutation("deliverSale", {}, {}, {sale, list})})

LeadsPage == Page({useList(<<"leads">>, "listLeads", {"leads"})}, {})

LeadDrawer ==
    LET lead == <<"lead", "id">> IN
    Drawer("LeadsPage", LeadsPage, {useItem(lead, "findLead", {"leads", "interactions"})},
           {useApiMutation("updateLeadStatus", {"status"}, {}, {lead, <<"leads">>}),
            Button("addInteraction", lead, {"type", "content"}, {lead})})

CustomersPage ==
    LET list == <<"customers">> IN
    Page({useList(list, "listCustomers", {"customers"})},
         {useApiMutation("createCustomer", {"fullName", "document"},
                         {"personType", "email", "phone", "whatsapp"}, {list})})

CustomerDrawer ==
    Drawer("CustomersPage", CustomersPage,
           {useItem(<<"customer", "id">>, "findCustomer", {"customers", "addresses"})}, {})

-----------------------------------------------------------------------------
(* Money                                                                   *)

CommissionsPage(role) ==
    LET isAdmin  == role = "ADMIN"
        endpoint == IF isAdmin THEN "listCommissions" ELSE "myCommissions"
        list     == <<"commissions", endpoint>>
    IN  Page({useList(list, endpoint, {"commissions"})},
             When(isAdmin, {Button("approveCommission", list, {}, {list}),
                            Button("payCommission", list, {}, {list}),
                            Button("cancelCommission", list, {"reason"}, {list})}))

DrePage ==
    LET one == <<"dre", "vehicle">>
        all == <<"dre">>
    IN  Page({useItem(all, "consolidatedDre", {"dre"}), useVehicleOptions,
              useItem(one, "vehicleDre", {"dre"})},
             {Button("recalculateDre", useVehicleOptions.key, {}, {one, all})})

FinancialPage ==
    LET entries == <<"financial-entries", "vehicle">> IN
    Page({useVehicleOptions, useList(entries, "listEntries", {"entries"})},
         {Needing({useVehicleOptions.key},
                  useApiMutation("createEntry", {"vehicleId", "nature", "category", "amount"},
                                 {"description", "date"}, {entries})),
          Button("removeEntry", entries, {}, {entries})})

CommissionRulesPage ==
    LET list == <<"commission-rules">> IN
    Page({useList(list, "listRules", {"rules"})},
         {useApiMutation("createRule", {"name", "type", "isDefault"},
                         {"percentage", "fixedAmount", "description"}, {list}),
          Button("updateRule", list, {"isDefault"}, {list})})

-----------------------------------------------------------------------------
(* Administration                                                          *)

DashboardPage(role) ==
    LET endpoint == IF role = "ADMIN" THEN "adminDashboard" ELSE "sellerDashboard" IN
    Page({useItem(<<"dashboard", role>>, endpoint, {"figures"})}, {})

NotificationsPage ==
    LET list  == <<"notifications", "list">>
        count == <<"notifications", "unread-count">>
    IN  Page({useList(list, "listNotices", {"notices"})},
             {useApiMutation("markAllRead", {}, {}, {list, count}),
              Button("markRead", list, {}, {list, count})})

\* In the frame of every page of the staff
useUnreadCount == useItem(<<"notifications", "unread-count">>, "unreadCount", {"notices"})

EmployeesPage ==
    LET list == <<"employees">> IN
    Page({useList(list, "listEmployees", {"employees"})},
         {useApiMutation("createEmployee", {"fullName", "cpf", "email", "password", "role"},
                         {"phone", "position", "pixKey"}, {list})})

UsersAccessPage ==
    LET list == <<"users">> IN
    Page({useList(list, "listUsers", {"users"}), useList(<<"roles">>, "listRoles", {"profiles"}),
          useList(<<"permissions">>, "listPermissions", {"permissions"})},
         {Button("setStatus", list, {"status"}, {list})})

StoreConfigPage ==
    LET config == <<"storeConfig">> IN
    Page({useItem(config, "storeConfig", {"store"})},
         {Needing({config},
                  useApiMutation("saveStore", {"name", "openingHours", "socialLinks"},
                                 {"cnpj", "phone", "whatsapp", "email", "street", "number",
                                  "district", "city", "state", "zipCode", "latitude",
                                  "longitude"}, {config, <<"storeLocation">>}))})

\* Every report but that of one vehicle
REPORT_GROUPS == DOMAIN ReportsController \ {"dreByVehicle"}

ReportsPage == Page({}, {useApiMutation(report, {}, {}, {}) : report \in REPORT_GROUPS})
AuditPage   == Page({useList(<<"audit">>, "auditLogs", {"logs"})}, {})
=============================================================================
