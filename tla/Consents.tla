------------------------------ MODULE Consents ------------------------------
(***************************************************************************)
(* Consents and marketing preferences: the log of a customer's answers,    *)
(* the snapshot on his row that three endpoints write, and the banner of   *)
(* the site, which stores a visitor's choice before it posts it.           *)
(***************************************************************************)
EXTENDS Handlers

CONSTANT MaxAnswers  \* bound: answers of the customer, and of the visitor

ASSUME ConsentsAssumption == MaxAnswers \in Nat /\ NULL \notin BOOLEAN

Categories == {"MARKETING", "LOCATION"}

VARIABLES
    answers,    \* answers the customer has given so far
    log,        \* log[k]: what the customer's CookieConsent rows of category k granted, as a
                \* record of the latest answer and of all the answers given
    snapshot,   \* Customer.marketingConsent
    preference, \* MarketingPreference.emailOptIn, NULL before the row is created
    said,       \* the last thing the customer has said about marketing
    located,    \* the customer's location was stored while his latest answer was no
    banner,     \* the visitor's browser: the choice stored, and the choice being posted
    recorded,   \* the latest choice the server has of the visitor's session
    lost        \* a post of the banner was lost

consentVars == <<answers, log, snapshot, preference, said, located, banner, recorded, lost>>

Answers == BOOLEAN \cup {NULL}

ConsentsTypeOK ==
    /\ answers \in 0 .. MaxAnswers
    /\ log \in [Categories -> [latest : Answers, ever : SUBSET BOOLEAN]]
    /\ snapshot \in BOOLEAN
    /\ preference \in Answers
    /\ said \in BOOLEAN
    /\ located \in BOOLEAN
    /\ banner \in [stored : Answers, posting : Answers, choices : 0 .. MaxAnswers]
    /\ recorded \in Answers
    /\ lost \in BOOLEAN

ConsentsInit ==
    /\ answers = 0
    /\ log = [k \in Categories |-> [latest |-> NULL, ever |-> {}]]
    /\ snapshot = FALSE
    /\ preference = NULL
    /\ said = FALSE
    /\ located = FALSE
    /\ banner = [stored |-> NULL, posting |-> NULL, choices |-> 0]
    /\ recorded = NULL
    /\ lost = FALSE

bannerVars   == <<banner, recorded, lost>>
customerVars == <<answers, log, snapshot, preference, said, located>>

-----------------------------------------------------------------------------
(* The customer                                                            *)

\* registerConsent (PUT /consents/me): the rows first, then the snapshot
LogConsent(w, consents) ==
    /\ answers < MaxAnswers
    /\ answers' = answers + 1
    /\ log' = [k \in Categories |->
                 IF k \in DOMAIN consents
                 THEN [latest |-> consents[k], ever |-> log[k].ever \cup {consents[k]}]
                 ELSE log[k]]
    /\ said' = IF "MARKETING" \in DOMAIN consents THEN consents["MARKETING"] ELSE said
    /\ Begin(w, "consent.snapshot", [consents |-> consents])
    /\ UNCHANGED <<snapshot, preference, located, bannerVars>>

\* Mutant: only a consent is copied to the snapshot.
SnapshotConsentGranted(w) ==
    LET consents == ctx[w].consents IN
    /\ At(w, "consent.snapshot")
    /\ snapshot' = (snapshot \/ ("MARKETING" \in DOMAIN consents /\ consents["MARKETING"]))
    /\ Return(w)
    /\ UNCHANGED <<answers, log, preference, said, located, bannerVars>>

SnapshotConsent(w) ==
    LET consents == ctx[w].consents IN
    /\ At(w, "consent.snapshot")
    /\ snapshot' = IF "MARKETING" \in DOMAIN consents THEN consents["MARKETING"] ELSE snapshot
    /\ Return(w)
    /\ UNCHANGED <<answers, log, preference, said, located, bannerVars>>

\* setMarketingPreferences (PUT /marketing/preferences): the preference, then the snapshot
StorePreference(w, optIn) ==
    /\ answers < MaxAnswers
    /\ answers' = answers + 1
    /\ preference' = optIn
    /\ said' = optIn
    /\ Begin(w, "preference.snapshot", [optIn |-> optIn])
    /\ UNCHANGED <<log, snapshot, located, bannerVars>>

SnapshotPreference(w) ==
    /\ At(w, "preference.snapshot")
    /\ snapshot' = ctx[w].optIn
    /\ Return(w)
    /\ UNCHANGED <<answers, log, preference, said, located, bannerVars>>

\* updateMe (PATCH /customers/me) writes the snapshot and nothing else.
UpdateMyConsent(consent) ==
    /\ answers < MaxAnswers
    /\ answers' = answers + 1
    /\ snapshot' = consent
    /\ said' = consent
    /\ UNCHANGED <<log, preference, located, bannerVars, handlerVars>>

\* trackLocation asks for any row that grants, however old, and adds one that grants.
TrackLocation ==
    /\ TRUE \in log["LOCATION"].ever
    /\ located' = (located \/ log["LOCATION"].latest = FALSE)
    /\ log' = [log EXCEPT !["LOCATION"].latest = TRUE]
    /\ UNCHANGED <<answers, snapshot, preference, said, bannerVars, handlerVars>>

-----------------------------------------------------------------------------
(* The visitor: CookieConsent.persist and POST /consents                   *)

\* The choice is stored before it is posted, and the buttons wait for the answer.
Persist(choice) ==
    /\ banner.posting = NULL
    /\ banner.choices < MaxAnswers
    /\ banner' = [stored |-> choice, posting |-> choice, choices |-> banner.choices + 1]
    /\ UNCHANGED <<recorded, lost, customerVars, handlerVars>>

\* The rows of a session have no customer, whoever is signed in: the route is public.
RegisterVisitor ==
    /\ banner.posting # NULL
    /\ recorded' = banner.posting
    /\ banner' = [banner EXCEPT !.posting = NULL]
    /\ UNCHANGED <<lost, customerVars, handlerVars>>

\* A post that fails is logged to the console, and not tried again.
PostIsLost ==
    /\ banner.posting # NULL
    /\ lost' = TRUE
    /\ banner' = [banner EXCEPT !.posting = NULL]
    /\ UNCHANGED <<recorded, customerVars, handlerVars>>

ConsentsStep(w) == SnapshotConsent(w) \/ SnapshotPreference(w)

ConsentsRequest(w) ==
    \/ \E asked \in {Categories, {"LOCATION"}} : \E consents \in [asked -> BOOLEAN] :
          LogConsent(w, consents)
    \/ \E answer \in BOOLEAN : StorePreference(w, answer) \/ UpdateMyConsent(answer)
    \/ TrackLocation

BannerStep == (\E choice \in BOOLEAN : Persist(choice)) \/ RegisterVisitor \/ PostIsLost

-----------------------------------------------------------------------------
\* One request at a time, and none that dies half-way, marketing goes by the last answer the
\* customer gave, through whichever of the three endpoints (privacy.service.ts:50, :229,
\* customers.service.ts:140).  The log and the preference row do not follow one another.
LastAnswerCounts == Quiet => snapshot = said

\* Unless a post was lost, the server and the browser agree on the visitor's choice
\* whenever no post is on its way (CookieConsent.tsx:97-108).
BannerIsRecorded == ~lost /\ banner.posting = NULL => recorded = banner.stored

\* "Localizacao so e gravada com consentimento LOCATION" (docs/BUSINESS_RULES.md:106).
LocationNeedsConsent == ~located
=============================================================================
