CONSTANTS
    Parts = {"contacts", "followup", "mail", "documents", "visitors", "consents", "banner", 
             "erasure", "creation", "media", "sheet"}
    Schedules = {"alone", "overlap"}
    Workers = {w1, w2}
    MaxFailures = 1
    NULL = NULL
    Subjects = {1, 2}
    MailAttempts = 2
    Batch = 2
    Sellers = {s1, s2}
    Strategies = {"round_robin", "least_busy"}
    MaxChanges = 2
    Docs = {d1}
    MaxFiles = 3
    Customers = {c1, c2}
    Vehicles = {v1}
    MaxViews = 1
    MaxAnswers = 2
    Clients = {p1}
    Requests = {r1, r2}
    Cars = {k1, k2, k3}
    Media = {m1, m2}
    Fields = {f1, f2}
    MaxEdits = 3
SPECIFICATION OfficeFairSpec
INVARIANTS
    MailIsKept
    LeadsAreShared
    LeadsAreFollowed
    FilesFollowVersions
    FavoritesAreCounted
    
    ShowroomIsClear
PROPERTIES
    
    JobsComplete
    MailSettles
CHECK_DEADLOCK FALSE
