------------------------------- MODULE Access -------------------------------
(***************************************************************************)
(* Who may call which route of the API.  A controller is a record of its   *)
(* routes; a route says whether it is marked @Public, which roles @Roles   *)
(* names on the method or else on its class, which of the data that the    *)
(* pages show its handler changes (a public route knows no user: what it   *)
(* records of a visitor shows on no page), and the body it takes.  Two     *)
(* global guards decide on every request, then the ValidationPipe.         *)
(***************************************************************************)
EXTENDS Forms

Roles == {"ADMIN", "SELLER", "CUSTOMER"}
Staff == {"ADMIN", "SELLER"}
Nobody == "NOBODY"   \* the request carries no token

Route(public, roles, changes) ==
    [public |-> public, roles |-> roles, changes |-> changes, body |-> Unchecked]

\* A route for everybody, for whoever is signed in, for some roles
Open(changes)       == Route(TRUE, {}, changes)
Member(changes)     == Route(FALSE, {}, changes)
For(roles, changes) == Route(FALSE, roles, changes)

\* The DTO is named where a page calls the route.
Taking(dto, route) == [route EXCEPT !.body = dto]

\* Every route needs a signed-in user unless it is marked as public ...
JwtAuthGuard(route, role) == route.public \/ role \in Roles

\* ... and whoever has none of the roles it names is refused.
RolesGuard(route, role) == route.roles = {} \/ role \in route.roles

-----------------------------------------------------------------------------
(* People and sessions                                                     *)

AuthController ==
    [register |-> Taking(RegisterDto, Open({"users", "customers"})),
     login |-> Taking(LoginDto, Open({})),
     refresh |-> Taking(RefreshTokenDto, Open({})),
     logout |-> Taking(RefreshTokenDto, Member({})), logoutAll |-> Member({}),
     forgot |-> Taking(ForgotPasswordDto, Open({})),
     reset |-> Open({}),
     changePassword |-> Member({}), me |-> Member({})]

CustomersController ==
    LET self == {"CUSTOMER"} IN
    [getMe |-> For(self, {}),
     updateMe |-> Taking(UpdateMyProfileDto, For(self, {"customers", "answers"})),
     addMyAddress |-> Taking(AddressDto, For(self, {"addresses"})),
     createCustomer |-> Taking(CreateCustomerDto, For(Staff, {"customers"})),
     listCustomers |-> For(Staff, {}),
     findCustomer |-> For(Staff, {}), updateCustomer |-> For(Staff, {"customers", "answers"}),
     addAddress |-> For(Staff, {"addresses"}), updateAddress |-> For(Staff, {"addresses"}),
     removeAddress |-> For(Staff, {"addresses"})]

EmployeesController ==
    LET admin == {"ADMIN"} IN
    [createEmployee |-> Taking(CreateEmployeeDto, For(admin, {"employees", "users"})),
     listEmployees |-> For(admin, {}),
     findEmployee |-> For(admin, {}), updateEmployee |-> For(admin, {"employees", "users"}),
     deactivateEmployee |-> For(admin, {"employees", "users"})]

UsersController ==
    LET admin == {"ADMIN"} IN
    [listUsers |-> For(admin, {}), setStatus |-> Taking(SetStatusDto, For(admin, {"users"})),
     loginHistory |-> For(admin, {}), assignRoleProfile |-> For(admin, {}),
     listRoles |-> For(admin, {}), createRole |-> For(admin, {"profiles"}),
     setPermissions |-> For(admin, {}), deleteRole |-> For(admin, {"profiles"}),
     listPermissions |-> For(admin, {}), createPermission |-> For(admin, {"permissions"})]

PrivacyController ==
    LET self == {"CUSTOMER"} IN
    [registerConsent |-> Taking(RegisterConsentDto, Open({})), myConsents |-> Member({}),
     updateConsents |-> Taking(RegisterConsentDto, Member({"consents", "answers"})),
     vehicleView |-> Open({}), location |-> Member({}),
     addFavorite |-> For(self, {"favorites"}), removeFavorite |-> For(self, {"favorites"}),
     listFavorites |-> For(self, {}), viewHistory |-> For(self, {}),
     marketing |-> Taking(MarketingPreferenceDto, For(self, {"answers"})),
     exportRequest |-> For(self, {}),
     deleteRequest |-> For(self, {})]

NotificationsController ==
    [listNotices |-> Member({}), unreadCount |-> Member({}), markRead |-> Member({"notices"}),
     markAllRead |-> Member({"notices"})]

-----------------------------------------------------------------------------
(* Stock and workshop                                                      *)

VehiclesController ==
    [createVehicle |-> Taking(CreateVehicleDto, For(Staff, {"vehicles"})),
     listVehicles |-> For(Staff, {}),
     findVehicle |-> For(Staff, {}), updateVehicle |-> For(Staff, {"vehicles"}),
     archiveVehicle |-> For({"ADMIN"}, {"status"}),
     changeStatus |-> Taking(ChangeStatusDto, For(Staff, {"status", "movements"})),
     listMovements |-> For(Staff, {}),
     applySpecs |-> Taking(ApplySpecsDto, For(Staff, {"sheets"})),
     upsertSpec |-> For(Staff, {"sheets"}),
     addMedia |-> For(Staff, {"media"}), uploadMedia |-> For(Staff, {"media"}),
     reorderMedia |-> For(Staff, {"media"}), removeMedia |-> For(Staff, {"media"})]

VehicleSpecsController ==
    [brands |-> Open({}), models |-> Open({}), years |-> Open({}), versions |-> Open({}),
     searchSpecs |-> Open({})]

PartsController ==
    LET admin == {"ADMIN"} IN
    [createPart |-> Taking(CreatePartDto, For(admin, {"parts", "quantities", "partMovements"})),
     listParts |-> For(Staff, {}),
     findPart |-> For(Staff, {}), updatePart |-> For(admin, {"parts", "quantities"}),
     movePart |-> Taking(PartMovementDto, For(admin, {"quantities", "partMovements"})),
     partMovements |-> For(Staff, {}),
     createSupplier |-> Taking(CreateSupplierDto, For(admin, {"suppliers"})),
     listSuppliers |-> For(Staff, {}),
     updateSupplier |-> For(admin, {"suppliers"}), removeSupplier |-> For(admin, {"suppliers"})]

MaintenanceController ==
    LET fits == {"items", "quantities", "partMovements", "entries", "dre"} IN
    [createMaintenance |-> Taking(CreateMaintenanceDto, For(Staff, {"maintenances"})),
     listMaintenances |-> For(Staff, {}),
     findMaintenance |-> For(Staff, {}), updateMaintenance |-> For(Staff, {"maintenances"}),
     addPart |-> Taking(AddMaintenancePartDto, For(Staff, fits)), removePart |-> For(Staff, fits),
     completeMaintenance |->
         Taking(CompleteMaintenanceDto, For(Staff, {"maintenances", "entries", "dre"})),
     cancelMaintenance |-> For(Staff, fits \cup {"maintenances"})]

DocumentsController ==
    LET admin == {"ADMIN"}
        self  == {"CUSTOMER"}
    IN  [listTypes |-> For(Staff, {}),
         createType |-> Taking(CreateDocumentTypeDto, For(admin, {"types"})),
         updateType |-> For(admin, {"types"}), listChecklists |-> For(Staff, {}),
         upsertChecklist |-> Taking(UpsertChecklistDto, For(admin, {"checklists"})),
         removeChecklist |-> For(admin, {"checklists"}), checklistStatus |-> For(Staff, {}),
         createDocument |-> For(Staff, {"documents"}), uploadDocument |-> Member({"documents"}),
         validateDocument |-> Taking(ValidateDocumentDto, For(Staff, {"documents"})),
         listDocuments |-> For(Staff, {}),
         findDocument |-> Member({}), downloadDocument |-> Member({}),
         uploadMine |-> For(self, {"documents"}), myDocuments |-> For(self, {})]

-----------------------------------------------------------------------------
(* Sales and money                                                         *)

AcquisitionsController ==
    LET admin == {"ADMIN"} IN
    [createAcquisition |->
         Taking(CreateAcquisitionDto, For(admin, {"acquisitions", "entries", "dre"})),
     listAcquisitions |-> For(admin, {}), findAcquisition |-> For(admin, {})]

ReservationsController ==
    LET reserves == {"reservations", "status", "movements"} IN
    [createReservation |-> Taking(CreateReservationDto, For(Staff, reserves)),
     listReservations |-> For(Staff, {}),
     cancelReservation |-> Taking(CancelReservationDto, For(Staff, reserves))]

SalesController ==
    LET sells == {"sales", "status", "movements"} IN
    [createSale |-> Taking(CreateSaleDto, For(Staff, sells)), listSales |-> For(Staff, {}),
     findSale |-> For(Staff, {}),
     updateSale |-> For(Staff, {"sales"}),
     updateSaleStatus |->
         Taking(UpdateSaleStatusDto, For(Staff, sells \cup {"entries", "commissions", "dre"})),
     deliverSale |-> For(Staff, sells)]

CommissionsController ==
    LET admin == {"ADMIN"} IN
    [createRule |-> Taking(CreateCommissionRuleDto, For(admin, {"rules"})),
     listRules |-> For(admin, {}),
     updateRule |-> Taking(PartialType(CreateCommissionRuleDto), For(admin, {"rules"})),
     myCommissions |-> For({"SELLER"}, {}),
     listCommissions |-> For(admin, {}), approveCommission |-> For(admin, {"commissions"}),
     payCommission |-> For(admin, {"commissions"}),
     cancelCommission |-> For(admin, {"commissions", "dre"}),
     adjustCommission |-> For(admin, {"commissions", "dre"})]

FinancialController ==
    LET admin == {"ADMIN"} IN
    [createEntry |-> Taking(CreateFinancialEntryDto, For(admin, {"entries", "dre"})),
     listEntries |-> For(admin, {}),
     removeEntry |-> For(admin, {"entries", "dre"}), consolidatedDre |-> For(admin, {}),
     vehicleDre |-> For(admin, {}), detailedDre |-> For(admin, {}),
     recalculateDre |-> For(admin, {"dre"})]

LeadsController ==
    [specialistContact |-> Open({"leads"}), listLeads |-> For(Staff, {}),
     findLead |-> For(Staff, {}),
     updateLeadStatus |-> Taking(UpdateLeadStatusDto, For(Staff, {"leads", "interactions"})),
     addInteraction |-> Taking(AddInteractionDto, For(Staff, {"interactions"}))]

-----------------------------------------------------------------------------
(* Overview and shop window                                                *)

DashboardController ==
    [adminDashboard |-> For({"ADMIN"}, {}), sellerDashboard |-> For({"SELLER"}, {})]

ReportsController ==
    LET admin == {"ADMIN"} IN
    [vehiclesStock |-> For(admin, {}), vehiclesSold |-> For(admin, {}),
     vehiclesAvailable |-> For(admin, {}), vehiclesStale |-> For(admin, {}),
     dreConsolidated |-> For(admin, {}), dreByVehicle |-> For(admin, {}),
     salesByPeriod |-> For(admin, {}), salesBySeller |-> For(admin, {}),
     commissionsReport |-> For(admin, {}), documentsPending |-> For(admin, {}),
     documentsExpiring |-> For(admin, {}), maintenancesReport |-> For(admin, {}),
     futureRevisions |-> For(admin, {}), partsStock |-> For(admin, {}),
     partsLowStock |-> For(admin, {}), leadsReport |-> For(admin, {}),
     conversions |-> For(admin, {}), marketingInterested |-> For(admin, {})]

AuditController == [auditLogs |-> For({"ADMIN"}, {})]

StoreController ==
    [storeLocation |-> Open({}), storeConfig |-> For({"ADMIN"}, {}),
     saveStore |-> For({"ADMIN"}, {"store"})]

PublicController ==
    [featured |-> Open({}), mostViewed |-> Open({}), publicVehicles |-> Open({}),
     vehicleBySlug |-> Open({}), filters |-> Open({}), publicLocation |-> Open({}),
     publicContact |-> Taking(SpecialistContactDto, Open({"leads"})),
     trackView |-> Taking(VehicleViewDto, Open({})), publicConsents |-> Open({}),
     publicMarketing |-> Open({"answers"})]

RealtimeController == [stream |-> For(Staff, {})]

-----------------------------------------------------------------------------
Controllers ==
    {AuthController, CustomersController, EmployeesController, UsersController,
     PrivacyController, NotificationsController, VehiclesController, VehicleSpecsController,
     PartsController, MaintenanceController, DocumentsController, AcquisitionsController,
     ReservationsController, SalesController, CommissionsController, FinancialController,
     LeadsController, DashboardController, ReportsController, AuditController,
     StoreController, PublicController, RealtimeController}

\* Every route is one of one controller.
Api ==
    [name \in UNION {DOMAIN controller : controller \in Controllers} |->
        (CHOOSE controller \in Controllers : name \in DOMAIN controller)[name]]

\* The guards run in this order, before every handler.
Admitted(name, role) == JwtAuthGuard(Api[name], role) /\ RolesGuard(Api[name], role)
=============================================================================
