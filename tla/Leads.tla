------------------------------- MODULE Leads --------------------------------
(***************************************************************************)
(* LeadsService: a visitor asks for a specialist, a seller is picked by    *)
(* what the leads read so far say, and is notified.  Between the reads and *)
(* the insert other requests do the same.                                  *)
(*                                                                         *)
(* A lead is the subject of its notification; leads are numbered in the    *)
(* order they are created, which is what orderBy createdAt sees.           *)
(***************************************************************************)
EXTENDS Mailbox, Sequences

CONSTANTS
    Sellers,     \* employees with an active SELLER account at first
    Strategies,  \* business.leadAssignmentStrategy: "round_robin", "least_busy"
    MaxChanges   \* bound: changes of the status of a lead

ASSUME LeadsAssumption ==
    /\ Strategies \subseteq {"round_robin", "least_busy"}
    /\ MaxChanges \in Nat
    /\ Subjects \subseteq Nat \ {0}

VARIABLES
    strategy,  \* the strategy of the installation
    seller,    \* seller[s]: the employee and the account are active
    lead,      \* lead[l]: the Lead row, NULL before it is created
    contacts   \* Vehicle.contactCount

leadVars  == <<strategy, seller, lead, contacts>>
leadsVars == <<leadVars, mailboxVars, handlerVars>>

LeadStatuses == {"NEW", "ASSIGNED", "CONTACTED", "NEGOTIATING", "CONVERTED", "LOST"}
OpenStatuses == {"NEW", "ASSIGNED", "CONTACTED", "NEGOTIATING"}

\* firstContact is the number of the change that dated it (0: no firstContactAt), and
\* interactions the changes recorded so far.
LeadRows ==
    [seller : Sellers \cup {NULL}, status : LeadStatuses, firstContact : Nat,
     interactions : Seq(LeadStatuses)]

\* No row is the value that stands for the absence of one.
ASSUME LeadsNull == NULL \notin LeadRows \cup Sellers

LeadsTypeOK ==
    /\ MailboxTypeOK
    /\ strategy \in Strategies
    /\ seller \in [Sellers -> BOOLEAN]
    /\ \A l \in Subjects : lead[l] # NULL => lead[l] \in LeadRows
    /\ contacts \in Nat

LeadsInit ==
    /\ MailboxInit
    /\ strategy \in Strategies
    /\ seller = [s \in Sellers |-> TRUE]
    /\ lead = [l \in Subjects |-> NULL]
    /\ contacts = 0

Created == {l \in Subjects : lead[l] # NULL}

LeadsOf(s) == {l \in Created : lead[l].seller = s}

OpenLeads(s) == {l \in LeadsOf(s) : lead[l].status \in OpenStatuses}

\* Mutant: the seller with the most recent lead is picked.
RankOldest(s) ==
    IF strategy = "least_busy" THEN Cardinality(OpenLeads(s))
    ELSE IF LeadsOf(s) = {} THEN 0 ELSE 0 - Max(LeadsOf(s))

\* What pickSeller sorts by: the seller with the least rank is first.
Rank(s) ==
    IF strategy = "least_busy" THEN Cardinality(OpenLeads(s))
    ELSE IF LeadsOf(s) = {} THEN 0 ELSE Max(LeadsOf(s))

-----------------------------------------------------------------------------
(* specialistContact                                                       *)

\* pickSeller reads the active sellers first
RequestContact(w) ==
    /\ Begin(w, "contact.rank", [unread |-> {s \in Sellers : seller[s]},
                                 seller |-> NULL, rank |-> 0])
    /\ UNCHANGED <<leadVars, mailboxVars>>

\* and then, for each of them in whatever order the answers come, his leads.
ContactRank(w) ==
    LET c == ctx[w] IN
    /\ At(w, "contact.rank")
    /\ \E s \in c.unread :
       /\ \E first \in IF c.seller = NULL THEN {TRUE}
                       ELSE IF Rank(s) = c.rank THEN BOOLEAN ELSE {Rank(s) < c.rank} :
             GotoWith(w, "contact.rank",
                IF first THEN [unread |-> c.unread \ {s}, seller |-> s, rank |-> Rank(s)]
                ELSE [c EXCEPT !.unread = @ \ {s}])
       /\ UNCHANGED <<leadVars, mailboxVars>>

ContactCreate(w) ==
    LET c == ctx[w] IN
    \E l \in Subjects \ Created :
       /\ At(w, "contact.rank")
       /\ c.unread = {}
       /\ \A k \in Subjects \ Created : l <= k
       /\ lead' = [lead EXCEPT ![l] =
             [seller |-> c.seller, status |-> IF c.seller = NULL THEN "NEW" ELSE "ASSIGNED",
              firstContact |-> 0, interactions |-> <<>>]]
       /\ GotoWith(w, "contact.count", [subject |-> l])
       /\ UNCHANGED <<strategy, seller, contacts, mailboxVars>>

ContactCount(w) ==
    /\ At(w, "contact.count")
    /\ contacts' = contacts + 1
    /\ IF lead[ctx[w].subject].seller = NULL THEN Return(w) ELSE Goto(w, "notify.create")
    /\ UNCHANGED <<strategy, seller, lead, mailboxVars>>

-----------------------------------------------------------------------------
(* updateStatus, and a seller who leaves                                   *)

\* Mutant: the first contact is dated again by every contact.
RequestLeadStatusAgain(w, l, status) ==
    /\ lead[l] # NULL
    /\ Len(lead[l].interactions) < MaxChanges
    /\ Begin(w, "lead.write", [lead |-> l, status |-> status, dates |-> status = "CONTACTED"])
    /\ UNCHANGED <<leadVars, mailboxVars>>

RequestLeadStatus(w, l, status) ==
    /\ lead[l] # NULL
    /\ Len(lead[l].interactions) < MaxChanges
    /\ Begin(w, "lead.write",
          [lead |-> l, status |-> status,
           dates |-> status = "CONTACTED" /\ lead[l].firstContact = 0])
    /\ UNCHANGED <<leadVars, mailboxVars>>

LeadWrite(w) ==
    LET l == ctx[w].lead IN
    /\ At(w, "lead.write")
    /\ lead' = [lead EXCEPT ![l].status = ctx[w].status,
          ![l].firstContact = IF ctx[w].dates THEN Len(lead[l].interactions) + 1 ELSE @]
    /\ Goto(w, "lead.log")
    /\ UNCHANGED <<strategy, seller, contacts, mailboxVars>>

LeadLog(w) ==
    /\ At(w, "lead.log")
    /\ lead' = [lead EXCEPT ![ctx[w].lead].interactions = Append(@, ctx[w].status)]
    /\ Return(w)
    /\ UNCHANGED <<strategy, seller, contacts, mailboxVars>>

SellerLeaves(s) ==
    /\ seller[s]
    /\ seller' = [seller EXCEPT ![s] = FALSE]
    /\ UNCHANGED <<strategy, lead, contacts, mailboxVars, handlerVars>>

LeadsStep(w) ==
    \/ ContactRank(w) \/ ContactCreate(w) \/ ContactCount(w)
    \/ LeadWrite(w) \/ LeadLog(w)
    \/ MailboxStep(w) /\ UNCHANGED leadVars

FollowUp(w) ==
    \E l \in Subjects, status \in {"CONTACTED", "CONVERTED"} : RequestLeadStatus(w, l, status)

-----------------------------------------------------------------------------
\* Round robin, one request at a time: between two leads of a seller every other seller who
\* is still there gets one (leads.service.ts:66-70).
SellersTakeTurns ==
    strategy = "round_robin" =>
        \A i, j \in Created :
           i < j /\ lead[i].seller = lead[j].seller /\ lead[i].seller # NULL =>
              \A s \in Sellers :
                 seller[s] => \E k \in LeadsOf(s) : i <= k /\ k <= j

\* Least busy: the open leads of two sellers who are there differ by no more than n, the
\* requests that may have read the same counts (leads.service.ts:63), as long as no lead has
\* moved.
LoadIsSpread(n) ==
    strategy = "least_busy" /\ (\A l \in Created : lead[l].status \in {"NEW", "ASSIGNED"}) =>
        \A s, t \in Sellers :
           seller[s] /\ seller[t] =>
              Cardinality(OpenLeads(s)) <= Cardinality(OpenLeads(t)) + n

\* One request at a time, firstContactAt is the date of the first change to CONTACTED the
\* history shows, whatever statuses the lead had before and has had since
\* (leads.service.ts:232).
FirstContactIsFirst ==
    Quiet => \A l \in Created :
        LET calls == {i \in DOMAIN lead[l].interactions : lead[l].interactions[i] = "CONTACTED"}
        IN  lead[l].firstContact = IF calls = {} THEN 0 ELSE Min(calls)

\* Nobody is notified of a lead that is not his, and the e-mail follows the notification
\* (leads.service.ts:155, notifications.service.ts:37); contactCount runs behind the leads.
NoticesFollowLeads ==
    /\ \A l \in Subjects : Queued(l) => notice[l] # NULL
    /\ \A l \in Subjects : notice[l] # NULL => lead[l] # NULL /\ lead[l].seller # NULL
    /\ contacts <= Cardinality(Created)
=============================================================================
