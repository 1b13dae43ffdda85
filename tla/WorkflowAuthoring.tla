------------------------- MODULE WorkflowAuthoring -------------------------
(***************************************************************************)
(* The workflows of categories, as administrators author them: drafts      *)
(* saved from builder pages that may be stale, publication of immutable    *)
(* versions, cloning, the tickets that pin a version, and the desks and    *)
(* desk members that drafts and versions rely on (workflow_service.go,     *)
(* workflow_store.go, desk_service.go, desk_store.go).                     *)
(***************************************************************************)
EXTENDS Naturals, FiniteSetsExt

CONSTANTS
    Categories, Desks, Persons,
    Tabs,          \* browser tabs: an open builder page or a request each
    None,
    MaxRevision,   \* bound on the revision of a draft
    MaxVersions    \* bound on the versions ever published

ASSUME BoundsAssumption == MaxRevision \in Nat /\ MaxVersions \in Nat
ASSUME NoneAssumption ==
    /\ None \notin Categories \cup Desks \cup Persons \cup Nat
    /\ None \notin [desks : SUBSET Desks, valid : BOOLEAN]

\* A definition: the desks its assign_to_desk steps select, and whether
\* WorkflowDefinition.Validate accepts it.  Drafts need not be valid.
Definitions == [desks : SUBSET Desks, valid : BOOLEAN]

\* The '[]' every row starts with.
Blank == [desks |-> {}, valid |-> FALSE]

VARIABLES
    category,    \* per category: live, or deleted
    workflow,    \* per category: its category_workflows row
    versions,    \* the rows of workflow_versions
    lastVersion, \* its AUTOINCREMENT counter
    tickets,     \* the category and pinned version of tickets
    desk,        \* per desk: new, live or deleted; ids are never reused
    members,     \* desk_members
    person,      \* per person: user, agent (or above), or inactive agent
    audited,     \* desks the audit trail names
    tab          \* per tab: what it has read and is about to do

vars == <<category, workflow, versions, lastVersion, tickets, desk, members,
          person, audited, tab>>

\* How a missing category_workflows row reads (GetDraftWithRevision).
NoRow == [draft |-> None, revision |-> 0, current |-> None]

Idle == [at |-> "idle"]
Builder(c, revision, saw) ==
    [at |-> "builder", category |-> c, revision |-> revision, saw |-> saw]

TabStates ==
    {Idle}
    \cup [at : {"builder"}, category : Categories, revision : Nat,
          saw : Definitions \cup {None}]
    \cup [at : {"clone"}, category : Categories, copy : Definitions]
    \cup [at : {"clone_write"}, category : Categories, copy : Definitions,
          revision : Nat, saw : {None}]
    \cup [at : {"create_ticket"}, category : Categories, version : Nat]
    \cup [at : {"add_member"}, desk : Desks, person : Persons]

WorkflowRow == [draft : Definitions \cup {None}, revision : Nat, current : Nat \cup {None}]
VersionRow(id) == [id : id, category : Categories, no : Nat \ {0}, steps : Definitions]

AuthoringTypeOK ==
    /\ category \in [Categories -> {"live", "deleted"}]
    /\ workflow \in [Categories -> WorkflowRow]
    /\ versions \subseteq VersionRow(1..lastVersion)
    /\ lastVersion \in Nat
    /\ tickets \subseteq [category : Categories, version : Nat]
    /\ desk \in [Desks -> {"new", "live", "deleted"}]
    /\ members \subseteq Desks \X Persons
    /\ person \in [Persons -> {"user", "agent", "inactive"}]
    /\ audited \subseteq Desks
    /\ tab \in [Tabs -> TabStates]

Live(c) == category[c] = "live"
LiveDesks == {d \in Desks : desk[d] = "live"}
HasRow(c) == workflow[c].draft # None
VersionsOf(c) == {v \in versions : v.category = c}

\* deskActiveAgentCount of a desk is positive (readDeskFacts).
Staffed(d) == \E p \in Persons : <<d, p>> \in members /\ person[p] = "agent"

\* AssessRunnable has no blockers.
Runnable(def) == \A d \in def.desks : d \in LiveDesks /\ Staffed(d)

\* A category is new, or older than drafts with revisions (migration 0019).
Init ==
    /\ category = [c \in Categories |-> "live"]
    /\ workflow \in [Categories -> {NoRow, [NoRow EXCEPT !.draft = Blank]}]
    /\ versions = {} /\ lastVersion = 0
    /\ tickets = {} /\ audited = {} /\ members = {}
    /\ desk = [d \in Desks |-> "new"]
    /\ person \in [Persons -> {"user", "agent"}]
    /\ tab = [t \in Tabs |-> Idle]

Serve(t, state) == tab' = [tab EXCEPT ![t] = state]
AuthoringUnchanged == UNCHANGED <<category, workflow, versions, lastVersion, tickets>>
DesksUnchanged == UNCHANGED <<desk, members, person, audited>>
-----------------------------------------------------------------------------
\* GET of the builder: bytes and revision come from one statement
\* (GetForBuilder, GetDraftWithRevision), whatever the tab showed before.  A
\* refused write shows the builder this way too (renderDraftConflict).
OpenBuilder(t, c) ==
    /\ tab[t].at \in {"idle", "builder"}
    /\ Live(c)
    /\ Serve(t, Builder(c, workflow[c].revision, workflow[c].draft))
    /\ AuthoringUnchanged /\ DesksUnchanged

CloseBuilder(t) ==
    /\ tab[t].at = "builder"
    /\ Serve(t, Idle)
    /\ AuthoringUnchanged /\ DesksUnchanged

\* The compare-and-swap on draft_revision that saves, clones and publications
\* share.  The row is inserted first if it is missing, so the category must
\* exist.
Matches(t, c) == Live(c) /\ workflow[c].revision = tab[t].revision
Stale(t, c) == Live(c) /\ workflow[c].revision # tab[t].revision
Swapped(c, def, current) ==
    [draft |-> def, revision |-> workflow[c].revision + 1, current |-> current]

\* validateDraftDeskReferences, in the transaction of the write.
DesksExist(def) == def.desks \subseteq LiveDesks

\* SaveDraftIfRevision for every editing action of the builder: the page goes
\* on with the draft and the revision it wrote, a conflict is refused, and a
\* missing desk rolls the write back and leaves the page as it was.  A page
\* names the revision it was rendered with; a select_step request that names
\* none, which no page of the builder sends, is left out.
SaveDraft(t, def) ==
    /\ tab[t].at = "builder"
    /\ LET c == tab[t].category IN
       \/ /\ Matches(t, c) /\ DesksExist(def) /\ workflow[c].revision < MaxRevision
          /\ workflow' = [workflow EXCEPT ![c] = Swapped(c, def, workflow[c].current)]
          /\ Serve(t, Builder(c, tab[t].revision + 1, def))
          /\ UNCHANGED <<category, versions, lastVersion, tickets>>
       \/ /\ Stale(t, c)
          /\ Serve(t, Idle)
          /\ AuthoringUnchanged
    /\ DesksUnchanged

\* Faults: numbering that starts at zero, and over all categories.
NextNumberFromZero(c) == Cardinality(VersionsOf(c))
NextNumberOfAll(c) == Cardinality(versions) + 1

NextNumber(c) == Max({0} \cup {v.no : v \in VersionsOf(c)}) + 1

\* PublishAtRevision: validity and runnability are assessed first, the latter
\* in the transaction; then the swap, the immutable version and the current
\* pointer.
Publish(t, def) ==
    /\ tab[t].at = "builder"
    /\ def.valid /\ Runnable(def)
    /\ LET c == tab[t].category IN
       \/ /\ Matches(t, c)
          /\ workflow[c].revision < MaxRevision /\ lastVersion < MaxVersions
          /\ lastVersion' = lastVersion + 1
          /\ versions' = versions \cup {[id |-> lastVersion + 1, category |-> c,
                                         no |-> NextNumber(c), steps |-> def]}
          /\ workflow' = [workflow EXCEPT ![c] = Swapped(c, def, lastVersion + 1)]
          /\ Serve(t, Builder(c, tab[t].revision + 1, def))
          /\ UNCHANGED <<category, tickets>>
       \/ /\ Stale(t, c)
          /\ Serve(t, Idle)
          /\ AuthoringUnchanged
    /\ DesksUnchanged

\* Clone, first read: the source's current version (GetCurrentVersion).
StartClone(t, source, target) ==
    /\ tab[t].at \in {"idle", "builder"}
    /\ \E v \in VersionsOf(source) :
          /\ v.id = workflow[source].current
          /\ Serve(t, [at |-> "clone", category |-> target, copy |-> v.steps])
    /\ AuthoringUnchanged /\ DesksUnchanged

\* Clone, second read: any draft of the target refuses the clone.
ReadCloneTarget(t) ==
    /\ tab[t].at = "clone"
    /\ LET c == tab[t].category IN
       Serve(t, IF HasRow(c) THEN Idle
                ELSE [at |-> "clone_write", category |-> c, copy |-> tab[t].copy,
                      revision |-> workflow[c].revision, saw |-> None])
    /\ AuthoringUnchanged /\ DesksUnchanged

\* Fault: the emptiness check of the second read is all the protection.
WriteCloneUnguarded(t) ==
    /\ tab[t].at = "clone_write"
    /\ Serve(t, Idle)
    /\ LET c == tab[t].category IN
       /\ Live(c) /\ DesksExist(tab[t].copy) /\ workflow[c].revision < MaxRevision
       /\ workflow' = [workflow EXCEPT ![c] = Swapped(c, tab[t].copy, workflow[c].current)]
       /\ UNCHANGED <<category, versions, lastVersion, tickets>>
    /\ DesksUnchanged

\* Clone, the guarded write, which lands or is refused.
WriteClone(t) ==
    /\ tab[t].at = "clone_write"
    /\ Serve(t, Idle)
    /\ LET c == tab[t].category IN
       IF Matches(t, c) /\ DesksExist(tab[t].copy)
       THEN /\ workflow[c].revision < MaxRevision
            /\ workflow' = [workflow EXCEPT ![c] = Swapped(c, tab[t].copy, workflow[c].current)]
            /\ UNCHANGED <<category, versions, lastVersion, tickets>>
       ELSE AuthoringUnchanged
    /\ DesksUnchanged
-----------------------------------------------------------------------------
\* createWithWorkflow reads the current version before its transaction.
StartTicket(t, c) ==
    /\ tab[t].at = "idle"
    /\ workflow[c].current # None
    /\ Serve(t, [at |-> "create_ticket", category |-> c,
                 version |-> workflow[c].current])
    /\ AuthoringUnchanged /\ DesksUnchanged

\* CreateTicketWithRun: the version must still be the current one; the desks
\* the ticket is routed to at once must be staffed, or nothing is written.
CreateTicket(t, routed) ==
    /\ tab[t].at = "create_ticket"
    /\ Serve(t, Idle)
    /\ LET c == tab[t].category IN
       IF workflow[c].current = tab[t].version
       THEN /\ \E v \in versions : v.id = tab[t].version /\ routed \subseteq v.steps.desks
            /\ \A d \in routed : Staffed(d)
            /\ tickets' = tickets \cup {[category |-> c, version |-> tab[t].version]}
            /\ audited' = audited \cup routed
       ELSE UNCHANGED <<tickets, audited>>
    /\ UNCHANGED <<category, workflow, versions, lastVersion, desk, members, person>>

\* A pinned workflow routes its ticket to a desk later (applyWorkflowOperations),
\* whatever the category publishes in the meantime.
RouteTicket(d) ==
    /\ \E k \in tickets, v \in versions : v.id = k.version /\ d \in v.steps.desks
    /\ Staffed(d)
    /\ audited' = audited \cup {d}
    /\ AuthoringUnchanged /\ UNCHANGED <<desk, members, person, tab>>

\* categoryStore.Delete: refused by the foreign key of tickets; the workflow
\* row and the versions go with the category.
DeleteCategory(c) ==
    /\ Live(c) /\ \A k \in tickets : k.category # c
    /\ category' = [category EXCEPT ![c] = "deleted"]
    /\ workflow' = [workflow EXCEPT ![c] = NoRow]
    /\ versions' = versions \ VersionsOf(c)
    /\ UNCHANGED <<lastVersion, tickets, tab>> /\ DesksUnchanged
-----------------------------------------------------------------------------
CreateDesk(d) ==
    /\ desk[d] = "new"
    /\ desk' = [desk EXCEPT ![d] = "live"]
    /\ AuthoringUnchanged /\ UNCHANGED <<members, person, audited, tab>>

\* Fault: versions that are no longer current do not count.
ReferencedByCurrent(d) ==
    \/ \E c \in Categories : HasRow(c) /\ d \in workflow[c].draft.desks
    \/ \E v \in versions : v.id = workflow[v.category].current /\ d \in v.steps.desks

\* workflowReferencesDesk: every draft and every version ever published.
Referenced(d) ==
    \/ \E c \in Categories : HasRow(c) /\ d \in workflow[c].draft.desks
    \/ \E v \in versions : d \in v.steps.desks

\* deskStore.Delete, one transaction; memberships cascade.
DeleteDesk(d) ==
    /\ desk[d] = "live"
    /\ d \notin audited /\ ~Referenced(d)
    /\ desk' = [desk EXCEPT ![d] = "deleted"]
    /\ members' = {m \in members : m[1] # d}
    /\ AuthoringUnchanged /\ UNCHANGED <<person, audited, tab>>

\* DeskService.AddMember reads the role before its insert.
StartMember(t, d, p) ==
    /\ tab[t].at = "idle"
    /\ person[p] # "user"
    /\ Serve(t, [at |-> "add_member", desk |-> d, person |-> p])
    /\ AuthoringUnchanged /\ DesksUnchanged

\* Fault: no trigger looks at the role again.
InsertMemberUnchecked(t) ==
    /\ tab[t].at = "add_member"
    /\ Serve(t, Idle)
    /\ LET m == <<tab[t].desk, tab[t].person>> IN
       members' = IF desk[m[1]] = "live" THEN members \cup {m} ELSE members
    /\ AuthoringUnchanged /\ UNCHANGED <<desk, person, audited>>

\* The insert: the desk's foreign key and trg_desk_members_no_user.
InsertMember(t) ==
    /\ tab[t].at = "add_member"
    /\ Serve(t, Idle)
    /\ LET m == <<tab[t].desk, tab[t].person>> IN
       members' = IF desk[m[1]] = "live" /\ person[m[2]] # "user"
                  THEN members \cup {m} ELSE members
    /\ AuthoringUnchanged /\ UNCHANGED <<desk, person, audited>>

RemoveMember(d, p) ==
    /\ <<d, p>> \in members
    /\ members' = members \ {<<d, p>>}
    /\ AuthoringUnchanged /\ UNCHANGED <<desk, person, audited, tab>>

\* DowngradeToUser leaves the desks and the role in one transaction.
Downgrade(p) ==
    /\ person[p] # "user"
    /\ person' = [person EXCEPT ![p] = "user"]
    /\ members' = {m \in members : m[2] # p}
    /\ AuthoringUnchanged /\ UNCHANGED <<desk, audited, tab>>

Promote(p) ==
    /\ person[p] = "user"
    /\ person' = [person EXCEPT ![p] = "agent"]
    /\ AuthoringUnchanged /\ UNCHANGED <<desk, members, audited, tab>>

\* Deactivation keeps desk memberships; the counts leave the person out.
SwitchActive(p) ==
    /\ person[p] # "user"
    /\ person' = [person EXCEPT ![p] = IF @ = "agent" THEN "inactive" ELSE "agent"]
    /\ AuthoringUnchanged /\ UNCHANGED <<desk, members, audited, tab>>
-----------------------------------------------------------------------------
Next ==
    \/ \E t \in Tabs, c \in Categories : OpenBuilder(t, c) \/ StartTicket(t, c)
    \/ \E t \in Tabs, def \in Definitions : SaveDraft(t, def) \/ Publish(t, def)
    \/ \E t \in Tabs :
          CloseBuilder(t) \/ ReadCloneTarget(t) \/ WriteClone(t) \/ InsertMember(t)
    \/ \E t \in Tabs, source, target \in Categories : StartClone(t, source, target)
    \/ \E t \in Tabs, routed \in SUBSET Desks : CreateTicket(t, routed)
    \/ \E c \in Categories : DeleteCategory(c)
    \/ \E d \in Desks : CreateDesk(d) \/ DeleteDesk(d) \/ RouteTicket(d)
    \/ \E t \in Tabs, d \in Desks, p \in Persons : StartMember(t, d, p)
    \/ \E d \in Desks, p \in Persons : RemoveMember(d, p)
    \/ \E p \in Persons : Downgrade(p) \/ Promote(p) \/ SwitchActive(p)

Spec == Init /\ [][Next]_vars
-----------------------------------------------------------------------------
\* No draft and no published version, the superseded ones included, names a
\* desk that does not exist, whatever overlaps the deletion of a desk
\* (deskStore.Delete against saves, clones and publications).
DesksNamedExist ==
    /\ \A c \in Categories : HasRow(c) => workflow[c].draft.desks \subseteq LiveDesks
    /\ \A v \in versions : v.steps.desks \subseteq LiveDesks

\* The versions of category c are those numbered 1 to n, the last one current.
NumberedTo(c, n) ==
    /\ {v.no : v \in VersionsOf(c)} = 1..n
    /\ workflow[c].current = None <=> n = 0
    /\ \A v \in VersionsOf(c) : v.id = workflow[c].current <=> v.no = n

\* The versions of a category are numbered 1, 2, 3 and so on without gaps, and
\* its current version is the one published last (workflowStore.publish).
VersionsNumbered == \A c \in Categories : \E n \in 0..lastVersion : NumberedTo(c, n)

\* The version a ticket pins exists, and so do the desks it will be routed to,
\* however often the category is published again or deleted, and whatever
\* desks are deleted (CreateTicketWithRun, categoryStore.Delete).
PinnedVersionsComplete ==
    \A k \in tickets :
        \E v \in VersionsOf(k.category) :
            v.id = k.version /\ v.steps.desks \subseteq LiveDesks

\* Nothing refers to what was deleted: drafts and versions to their desks,
\* tickets to their version (deskStore.Delete, categoryStore.Delete).
ReferencesHold == DesksNamedExist /\ PinnedVersionsComplete

\* Nobody without an agent role is on a desk, though the role is read before
\* the insert (DeskService.AddMember, DowngradeToUser).
MembersOnStaff == \A m \in members : desk[m[1]] = "live" /\ person[m[2]] # "user"

\* What VersionedDraft sees: the stored drafts, the numbered texts published
\* from them, the categories gone, and the drafts that tabs are looking at.
Text == [c \in Categories |-> workflow[c].draft]
Texts == [c \in Categories |-> {<<v.no, v.steps>> : v \in VersionsOf(c)}]
Gone == {c \in Categories : ~Live(c)}
Carries(t) == tab[t].at \in {"builder", "clone_write"}
Looking == [t \in Tabs |-> IF Carries(t) THEN [of |-> tab[t].category, saw |-> tab[t].saw]
                                         ELSE None]

Draft == INSTANCE VersionedDraft WITH
    Documents <- Categories, Editors <- Tabs, Absent <- None,
    text <- Text, published <- Texts, removed <- Gone, looking <- Looking

\* Stale pages, overlapping clones and publications implement VersionedDraft:
\* nobody overwrites a draft they were not looking at.
DraftsImplemented == Draft!DraftSpec
=============================================================================
