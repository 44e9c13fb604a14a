------------------------------- MODULE Portal -------------------------------
(***************************************************************************)
(* The browser side of the shop: the pages of a tab and what the server    *)
(* admits of them, the events that reach connected readers, and the        *)
(* dashboards that are refreshed by them.  A behaviour is one of these     *)
(* parts at work: they share nothing but what each of them abstracts.      *)
(***************************************************************************)
EXTENDS Tab, Realtime, Overview

CONSTANT Parts   \* the parts that are looked at

ASSUME PortalAssumption == Parts \subseteq {"pages", "events", "dashboard"}

VARIABLE part

portalVars == <<tabVars, realtimeVars, overviewVars, part>>

PortalInit ==
    /\ part \in Parts
    /\ TabInit /\ RealtimeInit /\ HandlersInit /\ OverviewInit
    /\ part = "pages"  \/ account = "CUSTOMER"
    /\ part = "events" \/ onFile = [u \in Members |-> "CUSTOMER"]

PortalNext ==
    /\ UNCHANGED part
    /\ \/ part = "pages"  /\ TabNext /\ UNCHANGED <<realtimeVars, overviewVars>>
       \/ part = "events" /\ RealtimeNext /\ UNCHANGED <<tabVars, overviewVars>>
       \/ part = "dashboard" /\ OverviewNext /\ UNCHANGED <<tabVars, realtimeVars>>

\* The event loop resumes every handler, the network delivers requests and events, and the
\* clock starts the job again and again.
Going(step) == part = "dashboard" /\ step /\ UNCHANGED <<part, tabVars, realtimeVars>>

PortalFairSpec ==
    /\ PortalInit /\ [][PortalNext]_portalVars
    /\ \A w \in Workers : WF_portalVars(Going(DashboardStep(w)))
    /\ \A c \in Readers : WF_portalVars(Going(Serve(c)))
                          /\ WF_portalVars(Going(InvalidateDashboard(c)))
    /\ WF_portalVars(Going(DropCache)) /\ WF_portalVars(Going(EmitUpdated))

-----------------------------------------------------------------------------
\* Tab, sockets and dashboards keep their shape; what is looked at is a load of the page
\* (App.tsx, services/data.ts).
PortalTypeOK == TabTypeOK /\ RealtimeTypeOK /\ OverviewTypeOK

\* A page is never shown to a reader it is not for, however he came there, and every entry of
\* his menu opens what it names (ProtectedRoute.tsx:5, nav.ts:74, App.tsx:54).
PagesFitUser == PageFitsUser /\ MenuOpens

\* Over the sockets an event reaches whom it is for and nobody else, and the stream, which
\* filters by a rule of its own, delivers nothing that the sockets would keep from the same
\* reader (realtime.gateway.ts:71, realtime.controller.ts:45).
EventsReachTheAudience == SocketsReachTheAudience /\ StreamIsNarrower

\* An open dashboard whose socket stays connected shows the figures there are in the end,
\* whatever handler with older ones writes the cache after it was dropped (jobs.service.ts:66,
\* redis.service.ts:59, Dashboard.tsx:49).
DashboardCatchesUp ==
    \A c \in Readers :
        <>[](part = "dashboard" /\ connected[c]) => <>[](display[c] = figures)
=============================================================================
