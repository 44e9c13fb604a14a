CONSTANTS
    Parts = {"pages", "events", "dashboard"}
    Workers = {w1, w2}
    MaxFailures = 1
    NULL = NULL
    MaxPromotions = 2
    Members = {u1, u2, u3}
    Unknown = Unknown
    MaxMoves = 2
    Admins = {a1, a2}
    Readers = {a1, a2, s1}
    Listeners = {a1, s1}
    Openings = {{a1, a2}, {s1}}
    MaxFigures = 2
SPECIFICATION PortalFairSpec
INVARIANTS
    PagesFitUser
    FilledFieldsAreKept
    OwnWorkShows
    EventsReachTheAudience
PROPERTIES
    
    DashboardCatchesUp
