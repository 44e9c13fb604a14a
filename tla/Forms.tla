------------------------------- MODULE Forms -------------------------------
(***************************************************************************)
(* What a request carries.  A DTO names the fields that a handler needs    *)
(* and those it knows besides.  The global ValidationPipe runs before the  *)
(* handler: it refuses a body in which a needed field is missing, and      *)
(* (whitelist: true) takes every field away that the DTO does not know.    *)
(* The types of the values are left out.                                   *)
(***************************************************************************)
EXTENDS Integers, FiniteSets

Body(needed, known) == [needed |-> needed, known |-> needed \cup known, checked |-> TRUE]

\* PartialType makes every field optional.
PartialType(dto) == Body({}, dto.known)

\* @Body() with a type of which nothing is left at run time: "any", an intersection
Unchecked == [needed |-> {}, known |-> {}, checked |-> FALSE]

Valid(dto, sent) == dto.checked => dto.needed \subseteq sent
Whitelist(dto, sent) == IF dto.checked THEN sent \cap dto.known ELSE sent

\* The pages ask for at most this many rows (@Max of PaginationQueryDto).
MaxLimit == 100
PaginationQueryDto(limit) == limit \in 1 .. MaxLimit

-----------------------------------------------------------------------------
(* People and sessions                                                     *)

LoginDto          == Body({"email", "password"}, {})
RegisterDto       == Body({"fullName", "email", "password", "document"}, {"phone", "whatsapp"})
RefreshTokenDto   == Body({"refreshToken"}, {})
ForgotPasswordDto == Body({"email"}, {})
SetStatusDto      == Body({"status"}, {})

CreateEmployeeDto ==
    Body({"fullName", "cpf", "email", "password", "role"},
         {"phone", "whatsapp", "position", "admissionDate", "pixKey", "internalNotes",
          "defaultCommissionRuleId"})

AddressDto ==
    Body({}, {"label", "zipCode", "street", "number", "complement", "district", "city", "state"})

CreateCustomerDto ==
    Body({"fullName", "document"},
         {"personType", "email", "phone", "whatsapp", "birthDate", "marketingConsent",
          "cookieConsent", "address"})

UpdateMyProfileDto == Body({}, {"fullName", "phone", "whatsapp", "email", "marketingConsent"})

RegisterConsentDto == Body({"consents"}, {"termsVersion", "sessionId"})
VehicleViewDto     == Body({"vehicleId"}, {"sessionId", "sourcePage"})

MarketingPreferenceDto ==
    Body({}, {"emailOptIn", "whatsappOptIn", "interestBrands", "interestModels", "priceMin",
              "priceMax", "customerId"})

-----------------------------------------------------------------------------
(* Stock and workshop                                                      *)

CreateVehicleDto ==
    Body({"brand", "model", "manufactureYear", "modelYear"},
         {"version", "plate", "renavam", "chassis", "engineNumber", "category", "bodyType",
          "color", "fuel", "transmission", "doors", "mileage", "seats", "condition", "origin",
          "purchasePrice", "suggestedPrice", "announcedPrice", "minPrice", "featured",
          "availableForAd", "internalNotes", "publicDescription"})

ChangeStatusDto == Body({"status"}, {"reason", "notes"})
ApplySpecsDto   == Body({"brand", "model", "year"}, {"version", "manualOverrides"})

CreatePartDto ==
    Body({"internalCode", "name"},
         {"sku", "barcode", "category", "brand", "compatibleModel", "description", "quantity",
          "minQuantity", "unit", "costPrice", "location", "supplierId", "notes"})

PartMovementDto   == Body({"type", "quantity"}, {"unitCost", "vehicleId", "reason", "notes"})
CreateSupplierDto == Body({"name"}, {"document", "email", "phone", "whatsapp", "notes"})

CreateMaintenanceDto ==
    Body({"vehicleId"}, {"type", "description", "workshop", "supplierId", "forecastDate",
                         "mileage", "laborCost", "invoiceNumber", "warranty", "notes"})

AddMaintenancePartDto == Body({"partId", "quantity"}, {})
CompleteMaintenanceDto ==
    Body({}, {"laborCost", "nextRevisionDate", "nextRevisionMileage", "notes"})

CreateDocumentTypeDto == Body({"code", "name", "ownerType"}, {"description", "hasExpiry"})
UpsertChecklistDto    == Body({"stage", "documentTypeId"}, {"required", "position"})
ValidateDocumentDto   == Body({"status"}, {"rejectionReason"})

-----------------------------------------------------------------------------
(* Sales and money                                                         *)

CreateAcquisitionDto ==
    Body({"vehicleId", "purchasePrice", "purchaseDate"},
         {"type", "sellerName", "sellerDocument", "paymentMethod", "installments",
          "additionalCosts", "notes", "confirm"})

CreateReservationDto ==
    Body({"vehicleId", "customerId"},
         {"sellerId", "durationDays", "depositAmount", "paymentMethod", "notes"})

CancelReservationDto == Body({}, {"reason"})

\* Mutant: the DTO does not know how the sale is paid.
CreateSaleDtoOlder ==
    Body({"vehicleId", "customerId"},
         {"sellerId", "announcedPrice", "negotiatedPrice", "discount", "financing", "notes"})

CreateSaleDto ==
    Body({"vehicleId", "customerId"},
         {"sellerId", "announcedPrice", "negotiatedPrice", "discount", "paymentMethod",
          "downPayment", "installments", "financing", "financialInstitution",
          "tradeInVehicleId", "deliveryForecast", "notes"})

UpdateSaleStatusDto == Body({"status"}, {"finalPrice", "notes"})

CreateFinancialEntryDto ==
    Body({"nature", "category", "amount"},
         {"vehicleId", "description", "date", "notes", "documentId"})

CreateCommissionRuleDto ==
    Body({"name", "type"}, {"percentage", "fixedAmount", "tiers", "isDefault", "description"})

SpecialistContactDto ==
    Body({"name", "phone"}, {"vehicleId", "customerId", "email", "origin", "sourcePage", "message"})

UpdateLeadStatusDto == Body({"status"}, {"notes"})
AddInteractionDto   == Body({"type"}, {"content"})
=============================================================================
