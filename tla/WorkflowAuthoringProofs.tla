---------------------- MODULE WorkflowAuthoringProofs ----------------------
(***************************************************************************)
(* Theorems about WorkflowAuthoring, for every number of categories,       *)
(* desks, people and tabs.                                                 *)
(*                                                                         *)
(* The inductive invariant adds PagesInv to the safety properties: a page  *)
(* that still carries the stored revision shows the stored draft.  It is   *)
(* what makes a comparison of numbers a comparison of texts, and so what   *)
(* the refinement of VersionedDraft rests on.                              *)
(***************************************************************************)
EXTENDS WorkflowAuthoring, TLAPS

\* What a tab carries is a stored revision, with the draft it had, or old.
PagesInv ==
    \A t \in Tabs : Carries(t) /\ Live(tab[t].category) =>
        /\ tab[t].revision <= workflow[tab[t].category].revision
        /\ tab[t].revision = workflow[tab[t].category].revision
              => tab[t].saw = workflow[tab[t].category].draft

IdsInv == \A v, u \in versions : v.id = u.id => v = u

AuthInv ==
    /\ AuthoringTypeOK /\ PagesInv /\ IdsInv
    /\ DesksNamedExist /\ VersionsNumbered /\ PinnedVersionsComplete /\ MembersOnStaff

(***************************************************************************)
(* Lemmas about the operators.                                             *)
(***************************************************************************)

\* The fields of a tab that carries a draft.
LEMMA CarriedTypes ==
    ASSUME AuthoringTypeOK, NEW t \in Tabs, Carries(t)
    PROVE  /\ tab[t].category \in Categories
           /\ tab[t].revision \in Nat
           /\ tab[t].saw \in Definitions \cup {None}
BY DEF AuthoringTypeOK, Carries, TabStates, Idle

\* The row a write leaves: the new draft, one revision on.
LEMMA SwappedRow ==
    ASSUME AuthoringTypeOK, NEW c \in Categories, NEW def \in Definitions,
           NEW current \in Nat \cup {None}
    PROVE  /\ Swapped(c, def, current) \in WorkflowRow
           /\ Swapped(c, def, current).draft = def
           /\ Swapped(c, def, current).revision = workflow[c].revision + 1
           /\ Swapped(c, def, current).current = current
BY DEF AuthoringTypeOK, WorkflowRow, Swapped

\* Versions are numbered one after another.
LEMMA NextNumberIs ==
    ASSUME NEW c \in Categories, NEW n \in Nat, {v.no : v \in VersionsOf(c)} = 1..n
    PROVE  NextNumber(c) = n + 1
<1>1. {0} \cup (1..n) = 0..n OBVIOUS
<1>2. Max(0..n) = n
  <2>1. n \in 0..n /\ \A y \in 0..n : n >= y OBVIOUS
  <2>2. \A x \in 0..n : (\A y \in 0..n : x >= y) => x = n BY <2>1
  <2> QED BY <2>1, <2>2 DEF Max
<1> QED BY <1>1, <1>2 DEF NextNumber

\* What a write by tab t does: nothing, or one row whose new draft names
\* desks that exist, perhaps with a version of it.
Landed(t, c) ==
    /\ Matches(t, c)
    /\ workflow' \in [Categories -> WorkflowRow]
    /\ workflow'[c].draft \in Definitions
    /\ workflow'[c].draft.desks \subseteq LiveDesks
    /\ workflow'[c].revision = workflow[c].revision + 1
    /\ \A b \in Categories \ {c} : workflow'[b] = workflow[b]

Published(c) ==
    /\ lastVersion' = lastVersion + 1
    /\ workflow'[c].current = lastVersion + 1
    /\ versions' = versions \cup
         {[id |-> lastVersion + 1, category |-> c,
           no |-> NextNumber(c), steps |-> workflow'[c].draft]}

NotPublished(c) ==
    /\ UNCHANGED <<versions, lastVersion>>
    /\ workflow'[c].current = workflow[c].current

Written(t) ==
    /\ Carries(t) /\ UNCHANGED <<category, desk, members, person, audited, tickets>>
    /\ \/ UNCHANGED <<workflow, versions, lastVersion>> /\ Serve(t, Idle)
       \/ /\ Landed(t, tab[t].category)
          /\ Published(tab[t].category) \/ NotPublished(tab[t].category)
          /\ \/ Serve(t, Idle)
             \/ Serve(t, Builder(tab[t].category, tab[t].revision + 1,
                                 workflow'[tab[t].category].draft))

\* Saving from a builder page is such a write.
LEMMA SaveWrites ==
    ASSUME AuthoringTypeOK, NEW t \in Tabs, NEW def \in Definitions, SaveDraft(t, def)
    PROVE  Written(t)
<1> DEFINE c == tab[t].category
<1>1. /\ workflow \in [Categories -> WorkflowRow] /\ lastVersion \in Nat
      /\ \A b \in Categories : workflow[b].current \in Nat \cup {None}
  BY DEF AuthoringTypeOK, WorkflowRow
<1>2. Carries(t) BY DEF SaveDraft, Carries
<1>3. c \in Categories BY <1>2, CarriedTypes
<1>4. CASE AuthoringUnchanged /\ Serve(t, Idle)
  BY <1>2, <1>4 DEF Written, SaveDraft, AuthoringUnchanged, DesksUnchanged
<1>5. CASE /\ Matches(t, c) /\ DesksExist(def)
           /\ workflow' = [workflow EXCEPT ![c] = Swapped(c, def, workflow[c].current)]
           /\ Serve(t, Builder(c, tab[t].revision + 1, def))
           /\ UNCHANGED <<category, versions, lastVersion, tickets>>
  <2>1. workflow'[c] = Swapped(c, def, workflow[c].current) BY <1>1, <1>3, <1>5
  <2>4. workflow[c].current \in Nat \cup {None} BY <1>1, <1>3
  <2>7. /\ Swapped(c, def, workflow[c].current) \in WorkflowRow
        /\ Swapped(c, def, workflow[c].current).draft = def
        /\ Swapped(c, def, workflow[c].current).revision = workflow[c].revision + 1
        /\ Swapped(c, def, workflow[c].current).current = workflow[c].current
    BY <1>3, <2>4, SwappedRow, ZenonT(60)
  <2>5. /\ workflow'[c] \in WorkflowRow /\ workflow'[c].draft = def
        /\ workflow'[c].revision = workflow[c].revision + 1
        /\ workflow'[c].current = workflow[c].current
    BY <2>1, <2>7
  <2>6. workflow' \in [Categories -> WorkflowRow]
    BY <1>1, <1>3, <1>5, <2>1, <2>5
  <2>2. Landed(t, c) BY <1>1, <1>3, <1>5, <2>5, <2>6 DEF Landed, DesksExist
  <2>3. NotPublished(c) BY <1>5, <2>5 DEF NotPublished
  <2> QED BY <1>2, <1>5, <2>2, <2>3, <2>5 DEF Written, SaveDraft, DesksUnchanged
<1> QED BY <1>4, <1>5 DEF SaveDraft

\* So is a publication,
LEMMA PublishWrites ==
    ASSUME AuthoringTypeOK, NEW t \in Tabs, NEW def \in Definitions, Publish(t, def)
    PROVE  Written(t)
<1> DEFINE c == tab[t].category
           row == Swapped(c, def, lastVersion + 1)
<1>1. /\ workflow \in [Categories -> WorkflowRow] /\ lastVersion \in Nat
      /\ \A b \in Categories : workflow[b].current \in Nat \cup {None}
  BY DEF AuthoringTypeOK, WorkflowRow
<1>2. Carries(t) BY DEF Publish, Carries
<1>3. c \in Categories BY <1>2, CarriedTypes
<1>4. CASE AuthoringUnchanged /\ Serve(t, Idle)
  BY <1>2, <1>4 DEF Written, Publish, AuthoringUnchanged, DesksUnchanged
<1>5. CASE /\ Matches(t, c)
           /\ lastVersion' = lastVersion + 1
           /\ versions' = versions \cup {[id |-> lastVersion + 1, category |-> c,
                                          no |-> NextNumber(c), steps |-> def]}
           /\ workflow' = [workflow EXCEPT ![c] = row]
           /\ Serve(t, Builder(c, tab[t].revision + 1, def))
           /\ UNCHANGED <<category, tickets>>
  <2>1. workflow'[c] = row BY <1>1, <1>3, <1>5
  <2>2. /\ row \in WorkflowRow /\ row.draft = def
        /\ row.revision = workflow[c].revision + 1 /\ row.current = lastVersion + 1
    BY <1>1, <1>3, SwappedRow
  <2>3. def.desks \subseteq LiveDesks BY DEF Publish, Runnable, Definitions
  <2>4. Landed(t, c) BY <1>1, <1>3, <1>5, <2>1, <2>2, <2>3 DEF Landed
  <2>5. Published(c) BY <1>5, <2>1, <2>2 DEF Published
  <2> QED BY <1>2, <1>5, <2>1, <2>2, <2>4, <2>5 DEF Written, Publish, DesksUnchanged
<1> QED BY <1>4, <1>5 DEF Publish

\* and the last step of a clone.
LEMMA CloneWrites ==
    ASSUME AuthoringTypeOK, NEW t \in Tabs, WriteClone(t)
    PROVE  Written(t)
<1> DEFINE c == tab[t].category
           def == tab[t].copy
<1>1. /\ workflow \in [Categories -> WorkflowRow] /\ lastVersion \in Nat
      /\ \A b \in Categories : workflow[b].current \in Nat \cup {None}
  BY DEF AuthoringTypeOK, WorkflowRow
<1>2. Carries(t) BY DEF WriteClone, Carries
<1>3. c \in Categories BY <1>2, CarriedTypes
<1>4. def \in Definitions BY DEF WriteClone, AuthoringTypeOK, TabStates, Idle
<1>5. CASE AuthoringUnchanged
  BY <1>2, <1>5 DEF Written, WriteClone, AuthoringUnchanged, DesksUnchanged
<1>6. CASE /\ Matches(t, c) /\ DesksExist(def)
           /\ workflow' = [workflow EXCEPT ![c] = Swapped(c, def, workflow[c].current)]
           /\ UNCHANGED <<category, versions, lastVersion, tickets>>
  <2>1. workflow'[c] = Swapped(c, def, workflow[c].current) BY <1>1, <1>3, <1>6
  <2>4. workflow[c].current \in Nat \cup {None} BY <1>1, <1>3
  <2>7. /\ Swapped(c, def, workflow[c].current) \in WorkflowRow
        /\ Swapped(c, def, workflow[c].current).draft = def
        /\ Swapped(c, def, workflow[c].current).revision = workflow[c].revision + 1
        /\ Swapped(c, def, workflow[c].current).current = workflow[c].current
    BY <1>3, <1>4, <2>4, SwappedRow, ZenonT(60)
  <2>5. /\ workflow'[c] \in WorkflowRow /\ workflow'[c].draft = def
        /\ workflow'[c].revision = workflow[c].revision + 1
        /\ workflow'[c].current = workflow[c].current
    BY <2>1, <2>7
  <2>6. workflow' \in [Categories -> WorkflowRow]
    BY <1>1, <1>3, <1>6, <2>1, <2>5
  <2>2. Landed(t, c) BY <1>1, <1>3, <1>4, <1>6, <2>5, <2>6 DEF Landed, DesksExist
  <2>3. NotPublished(c) BY <1>6, <2>5 DEF NotPublished
  <2> QED BY <1>2, <1>6, <2>2, <2>3 DEF Written, WriteClone, DesksUnchanged
<1> QED BY <1>5, <1>6 DEF WriteClone

\* A step is a write by a tab, deletes a category, changes the desks, or
\* leaves the workflows and the desks as they are.
LEMMA Kinds ==
    ASSUME AuthoringTypeOK, [Next]_vars
    PROVE  \/ \E t \in Tabs : Written(t)
           \/ \E c \in Categories : DeleteCategory(c)
           \/ \E d \in Desks : CreateDesk(d) \/ DeleteDesk(d)
           \/ UNCHANGED <<category, workflow, versions, lastVersion, desk>>
BY SaveWrites, PublishWrites, CloneWrites
DEF Next, vars, AuthoringUnchanged, DesksUnchanged, OpenBuilder, StartTicket,
    CloseBuilder, ReadCloneTarget, InsertMember, StartClone, CreateTicket,
    RouteTicket, StartMember, RemoveMember, Downgrade, Promote, SwitchActive

(***************************************************************************)
(* Types.                                                                  *)
(***************************************************************************)

\* The tables of workflows keep their types.
LEMMA TablesTyped ==
    ASSUME AuthInv, [Next]_vars
    PROVE  /\ category' \in [Categories -> {"live", "deleted"}]
           /\ workflow' \in [Categories -> WorkflowRow]
           /\ lastVersion' \in Nat
           /\ versions' \subseteq VersionRow(1..lastVersion')
           /\ desk' \in [Desks -> {"new", "live", "deleted"}]
<1>1. /\ AuthoringTypeOK
      /\ category \in [Categories -> {"live", "deleted"}]
      /\ workflow \in [Categories -> WorkflowRow] /\ lastVersion \in Nat
      /\ versions \subseteq VersionRow(1..lastVersion)
      /\ desk \in [Desks -> {"new", "live", "deleted"}]
  BY DEF AuthInv, AuthoringTypeOK
<1>2. ASSUME NEW t \in Tabs, Written(t)
      PROVE  /\ UNCHANGED <<category, desk>>
             /\ workflow' \in [Categories -> WorkflowRow]
             /\ lastVersion' \in Nat
             /\ versions' \subseteq VersionRow(1..lastVersion')
  <2> DEFINE c == tab[t].category
  <2>1. UNCHANGED <<category, desk>> BY <1>2 DEF Written
  <2>2. CASE UNCHANGED <<workflow, versions, lastVersion>> BY <1>1, <2>1, <2>2
  <2>3. CASE Landed(t, c) /\ NotPublished(c) BY <1>1, <2>1, <2>3 DEF Landed, NotPublished
  <2>4. CASE Landed(t, c) /\ Published(c)
    <3>1. c \in Categories BY <1>1, <1>2, CarriedTypes DEF Written
    <3>2. PICK n \in 0..lastVersion : {v.no : v \in VersionsOf(c)} = 1..n
      BY <3>1 DEF AuthInv, VersionsNumbered, NumberedTo
    <3>3. NextNumber(c) \in Nat \ {0} BY <1>1, <3>1, <3>2, NextNumberIs
    <3>4. workflow'[c].draft \in Definitions BY <2>4 DEF Landed
    <3>5. /\ [id |-> lastVersion + 1, category |-> c, no |-> NextNumber(c),
              steps |-> workflow'[c].draft] \in VersionRow(1..lastVersion')
          /\ VersionRow(1..lastVersion) \subseteq VersionRow(1..lastVersion')
      BY <1>1, <2>4, <3>1, <3>3, <3>4 DEF VersionRow, Published
    <3> QED BY <1>1, <2>1, <2>4, <3>5 DEF Landed, Published
  <2> QED BY <1>2, <2>2, <2>3, <2>4 DEF Written
<1>3. ASSUME NEW c \in Categories, DeleteCategory(c)
      PROVE  /\ UNCHANGED <<lastVersion, desk>> /\ versions' \subseteq versions
             /\ category' \in [Categories -> {"live", "deleted"}]
             /\ workflow' \in [Categories -> WorkflowRow]
  BY <1>1, <1>3 DEF DeleteCategory, DesksUnchanged, NoRow, WorkflowRow
<1>4. ASSUME NEW d \in Desks, CreateDesk(d) \/ DeleteDesk(d)
      PROVE  /\ UNCHANGED <<category, workflow, versions, lastVersion>>
             /\ desk' \in [Desks -> {"new", "live", "deleted"}]
  BY <1>1, <1>4 DEF CreateDesk, DeleteDesk, AuthoringUnchanged
<1> QED BY <1>1, <1>2, <1>3, <1>4, Kinds

\* Every tab keeps its type.
LEMMA TabsTyped ==
    ASSUME AuthoringTypeOK, [Next]_vars
    PROVE  tab' \in [Tabs -> TabStates]
<1>1. /\ tab \in [Tabs -> TabStates]
      /\ \A c \in Categories : /\ workflow[c].revision \in Nat
                               /\ workflow[c].draft \in Definitions \cup {None}
                               /\ workflow[c].current \in Nat \cup {None}
      /\ \A v \in versions : v.steps \in Definitions
  BY DEF AuthoringTypeOK, WorkflowRow, VersionRow
<1> DEFINE Tabbed(t) == \E state \in TabStates : Serve(t, state)
<1>2. ASSUME NEW t \in Tabs, Tabbed(t) PROVE tab' \in [Tabs -> TabStates]
  BY <1>1, <1>2 DEF Serve
<1>3. Idle \in TabStates BY DEF TabStates
<1>4. ASSUME NEW c \in Categories, NEW n \in Nat, NEW def \in Definitions \cup {None}
      PROVE  Builder(c, n, def) \in TabStates
  BY DEF TabStates, Builder
<1>5. ASSUME NEW t \in Tabs, NEW c \in Categories, OpenBuilder(t, c) PROVE Tabbed(t)
  BY <1>1, <1>4, <1>5 DEF OpenBuilder
<1>6. ASSUME NEW t \in Tabs, NEW c \in Categories, StartTicket(t, c) PROVE Tabbed(t)
  <2>1. [at |-> "create_ticket", category |-> c, version |-> workflow[c].current] \in TabStates
    BY <1>1, <1>6 DEF StartTicket, TabStates
  <2> QED BY <1>6, <2>1 DEF StartTicket
<1>7. ASSUME NEW t \in Tabs, NEW def \in Definitions, SaveDraft(t, def) \/ Publish(t, def)
      PROVE  Tabbed(t)
  <2>1. Carries(t) BY <1>7 DEF SaveDraft, Publish, Carries
  <2>2. Builder(tab[t].category, tab[t].revision + 1, def) \in TabStates
    BY <1>4, <2>1, CarriedTypes
  <2> QED BY <1>3, <1>7, <2>2 DEF SaveDraft, Publish
<1>8. ASSUME NEW t \in Tabs, CloseBuilder(t) \/ WriteClone(t) \/ InsertMember(t) PROVE Tabbed(t)
  BY <1>3, <1>8 DEF CloseBuilder, WriteClone, InsertMember
<1>9. ASSUME NEW t \in Tabs, ReadCloneTarget(t) PROVE Tabbed(t)
  <2>1. tab[t].category \in Categories /\ tab[t].copy \in Definitions
    BY <1>1, <1>9 DEF ReadCloneTarget, TabStates, Idle
  <2>2. [at |-> "clone_write", category |-> tab[t].category, copy |-> tab[t].copy,
         revision |-> workflow[tab[t].category].revision, saw |-> None] \in TabStates
    BY <1>1, <2>1 DEF TabStates
  <2> QED BY <1>3, <1>9, <2>2 DEF ReadCloneTarget
<1>10. ASSUME NEW t \in Tabs, NEW source \in Categories, NEW target \in Categories,
              StartClone(t, source, target)
       PROVE  Tabbed(t)
  <2>1. PICK v \in VersionsOf(source) :
             Serve(t, [at |-> "clone", category |-> target, copy |-> v.steps])
    BY <1>10 DEF StartClone
  <2>2. [at |-> "clone", category |-> target, copy |-> v.steps] \in TabStates
    BY <1>1 DEF TabStates, VersionsOf
  <2> QED BY <2>1, <2>2
<1>11. ASSUME NEW t \in Tabs, NEW routed \in SUBSET Desks, CreateTicket(t, routed)
       PROVE  Tabbed(t)
  BY <1>3, <1>11 DEF CreateTicket
<1>12. ASSUME NEW t \in Tabs, NEW d \in Desks, NEW p \in Persons, StartMember(t, d, p)
       PROVE  Tabbed(t)
  <2>1. [at |-> "add_member", desk |-> d, person |-> p] \in TabStates BY DEF TabStates
  <2> QED BY <1>12, <2>1 DEF StartMember
<1>13. CASE UNCHANGED tab BY <1>1, <1>13
<1> QED
  BY <1>2, <1>5, <1>6, <1>7, <1>8, <1>9, <1>10, <1>11, <1>12, <1>13
  DEF Next, vars, DeleteCategory, CreateDesk, DeleteDesk, RouteTicket, RemoveMember,
      Downgrade, Promote, SwitchActive

\* The tickets, the people and what the trail names keep their types.
LEMMA OthersTyped ==
    ASSUME AuthoringTypeOK, [Next]_vars
    PROVE  /\ tickets' \subseteq [category : Categories, version : Nat]
           /\ members' \subseteq Desks \X Persons
           /\ person' \in [Persons -> {"user", "agent", "inactive"}]
           /\ audited' \subseteq Desks
<1>1. /\ tickets \subseteq [category : Categories, version : Nat]
      /\ members \subseteq Desks \X Persons
      /\ person \in [Persons -> {"user", "agent", "inactive"}]
      /\ audited \subseteq Desks
      /\ tab \in [Tabs -> TabStates]
  BY DEF AuthoringTypeOK
<1>2. CASE UNCHANGED <<tickets, members, person, audited>> BY <1>1, <1>2
<1>3. ASSUME NEW t \in Tabs, NEW routed \in SUBSET Desks, CreateTicket(t, routed)
      PROVE  /\ tickets' \subseteq [category : Categories, version : Nat]
             /\ audited' \subseteq Desks
             /\ UNCHANGED <<members, person>>
  <2>1. tab[t].category \in Categories /\ tab[t].version \in Nat
    BY <1>1, <1>3 DEF CreateTicket, TabStates, Idle
  <2> QED BY <1>1, <1>3, <2>1 DEF CreateTicket
<1>4. ASSUME NEW t \in Tabs, InsertMember(t)
      PROVE  members' \subseteq Desks \X Persons /\ UNCHANGED <<tickets, person, audited>>
  <2>1. tab[t].desk \in Desks /\ tab[t].person \in Persons
    BY <1>1, <1>4 DEF InsertMember, TabStates, Idle
  <2> QED BY <1>1, <1>4, <2>1 DEF InsertMember, AuthoringUnchanged
<1>5. ASSUME NEW d \in Desks, CreateDesk(d) \/ DeleteDesk(d) \/ RouteTicket(d)
      PROVE  /\ members' \subseteq members /\ audited' \subseteq audited \cup {d}
             /\ UNCHANGED <<tickets, person>>
  BY <1>5 DEF CreateDesk, DeleteDesk, RouteTicket, AuthoringUnchanged
<1>6. ASSUME NEW d \in Desks, NEW p \in Persons, RemoveMember(d, p)
      PROVE  members' \subseteq members /\ UNCHANGED <<tickets, person, audited>>
  BY <1>6 DEF RemoveMember, AuthoringUnchanged
<1>7. ASSUME NEW p \in Persons, Downgrade(p) \/ Promote(p) \/ SwitchActive(p)
      PROVE  /\ members' \subseteq members /\ UNCHANGED <<tickets, audited>>
             /\ person' \in [Persons -> {"user", "agent", "inactive"}]
  BY <1>1, <1>7 DEF Downgrade, Promote, SwitchActive, AuthoringUnchanged
<1> QED
  BY <1>1, <1>2, <1>3, <1>4, <1>5, <1>6, <1>7
  DEF Next, vars, OpenBuilder, StartTicket, SaveDraft, Publish, CloseBuilder, StartMember,
      ReadCloneTarget, WriteClone, StartClone, DeleteCategory, AuthoringUnchanged, DesksUnchanged

LEMMA TypeStep ==
    ASSUME AuthInv, [Next]_vars
    PROVE  AuthoringTypeOK'
BY TablesTyped, TabsTyped, OthersTyped DEF AuthInv, AuthoringTypeOK

(***************************************************************************)
(* The safety properties, one lemma each.                                  *)
(***************************************************************************)

\* Every write looks at the desks it names, and no desk goes while named.
LEMMA DesksStep ==
    ASSUME AuthInv, [Next]_vars
    PROVE  DesksNamedExist'
<1>1. /\ AuthoringTypeOK /\ DesksNamedExist
      /\ workflow \in [Categories -> WorkflowRow] /\ desk \in [Desks -> {"new", "live", "deleted"}]
  BY DEF AuthInv, AuthoringTypeOK
<1>2. ASSUME NEW t \in Tabs, Written(t) PROVE DesksNamedExist'
  <2> DEFINE c == tab[t].category
  <2>1. desk' = desk /\ LiveDesks' = LiveDesks BY <1>2 DEF Written, LiveDesks
  <2>2. CASE UNCHANGED <<workflow, versions, lastVersion>>
    BY <1>1, <2>1, <2>2 DEF DesksNamedExist, HasRow
  <2>3. CASE Landed(t, c) /\ (Published(c) \/ NotPublished(c))
    <3>1. ASSUME NEW b \in Categories, HasRow(b)'
          PROVE  workflow'[b].draft.desks \subseteq LiveDesks
      BY <1>1, <2>3, <3>1 DEF Landed, DesksNamedExist, HasRow
    <3>2. ASSUME NEW v \in versions' PROVE v.steps.desks \subseteq LiveDesks
      BY <1>1, <2>3, <3>2 DEF Landed, DesksNamedExist, Published, NotPublished
    <3> QED BY <2>1, <3>1, <3>2 DEF DesksNamedExist
  <2> QED BY <1>2, <2>2, <2>3 DEF Written
<1>3. ASSUME NEW c \in Categories, DeleteCategory(c) PROVE DesksNamedExist'
  BY <1>1, <1>3 DEF DeleteCategory, DesksUnchanged, DesksNamedExist, HasRow, NoRow, LiveDesks
<1>4. ASSUME NEW d \in Desks, CreateDesk(d) PROVE DesksNamedExist'
  <2>1. LiveDesks \subseteq LiveDesks' BY <1>1, <1>4 DEF CreateDesk, LiveDesks
  <2> QED BY <1>1, <1>4, <2>1 DEF CreateDesk, AuthoringUnchanged, DesksNamedExist, HasRow
<1>5. ASSUME NEW d \in Desks, DeleteDesk(d) PROVE DesksNamedExist'
  <2>1. LiveDesks \ {d} \subseteq LiveDesks' BY <1>1, <1>5 DEF DeleteDesk, LiveDesks
  <2> QED
    BY <1>1, <1>5, <2>1 DEF DeleteDesk, Referenced, AuthoringUnchanged, DesksNamedExist, HasRow
<1>6. CASE UNCHANGED <<category, workflow, versions, lastVersion, desk>>
  BY <1>1, <1>6 DEF DesksNamedExist, HasRow, LiveDesks
<1> QED BY <1>1, <1>2, <1>3, <1>4, <1>5, <1>6, Kinds

\* A category whose versions and current version stay keeps its numbering.
LEMMA NumberingKept ==
    ASSUME NEW b \in Categories, VersionsOf(b)' = VersionsOf(b),
           workflow'[b].current = workflow[b].current,
           lastVersion \in Nat, lastVersion' \in Nat, lastVersion <= lastVersion',
           \E n \in 0..lastVersion : NumberedTo(b, n)
    PROVE  \E n \in 0..lastVersion' : NumberedTo(b, n)'
<1>1. PICK n \in 0..lastVersion : NumberedTo(b, n) OBVIOUS
<1>2. NumberedTo(b, n)' BY <1>1 DEF NumberedTo
<1>3. n \in 0..lastVersion' OBVIOUS
<1> QED BY <1>2, <1>3

\* A version takes the next number and id of its category and becomes current.
LEMMA VersionsStep ==
    ASSUME AuthInv, [Next]_vars
    PROVE  VersionsNumbered' /\ IdsInv'
<1>1. /\ AuthoringTypeOK /\ IdsInv
      /\ workflow \in [Categories -> WorkflowRow] /\ lastVersion \in Nat
      /\ versions \subseteq VersionRow(1..lastVersion)
      /\ \A b \in Categories : \E n \in 0..lastVersion : NumberedTo(b, n)
  BY DEF AuthInv, AuthoringTypeOK, VersionsNumbered
<1>0. ASSUME versions' = versions, lastVersion' = lastVersion,
             \A b \in Categories : workflow'[b].current = workflow[b].current
      PROVE  VersionsNumbered' /\ IdsInv'
  <2>1. \A b \in Categories : VersionsOf(b)' = VersionsOf(b) BY <1>0 DEF VersionsOf
  <2>2. \A b \in Categories : \E n \in 0..lastVersion' : NumberedTo(b, n)'
    BY <1>0, <1>1, <2>1, NumberingKept
  <2>3. IdsInv' BY <1>0, <1>1 DEF IdsInv
  <2> QED BY <2>2, <2>3 DEF VersionsNumbered
<1>2. ASSUME NEW t \in Tabs, Written(t) PROVE VersionsNumbered' /\ IdsInv'
  <2> DEFINE c == tab[t].category
             row == [id |-> lastVersion + 1, category |-> c, no |-> NextNumber(c),
                     steps |-> workflow'[c].draft]
  <2>1. c \in Categories BY <1>1, <1>2, CarriedTypes DEF Written
  <2>2. CASE UNCHANGED <<workflow, versions, lastVersion>> BY <1>0, <2>2
  <2>3. CASE Landed(t, c) /\ NotPublished(c)
    BY <1>0, <2>1, <2>3 DEF Landed, NotPublished
  <2>4. CASE Landed(t, c) /\ Published(c)
    <3>1. /\ lastVersion' = lastVersion + 1 /\ versions' = versions \cup {row}
          /\ workflow'[c].current = lastVersion + 1
          /\ \A b \in Categories \ {c} : workflow'[b] = workflow[b]
      BY <2>4 DEF Landed, Published
    <3>2. \A v \in versions : v.id \in 1..lastVersion /\ v.id # row.id
      BY <1>1 DEF VersionRow
    <3>3. IdsInv' BY <1>1, <3>1, <3>2 DEF IdsInv
    <3>4. ASSUME NEW b \in Categories PROVE \E n \in 0..lastVersion' : NumberedTo(b, n)'
      <4>1. PICK n \in 0..lastVersion : NumberedTo(b, n) BY <1>1
      <4>2. CASE b # c
        <5>1. VersionsOf(b)' = VersionsOf(b) BY <3>1, <4>2 DEF VersionsOf
        <5>2. workflow'[b] = workflow[b] BY <3>1, <4>2
        <5>3. lastVersion' \in Nat /\ lastVersion <= lastVersion' BY <1>1, <3>1
        <5> QED BY <1>1, <5>1, <5>2, <5>3, NumberingKept
      <4>3. CASE b = c
        <5>1. VersionsOf(b)' = VersionsOf(b) \cup {row} BY <3>1, <4>3 DEF VersionsOf
        <5>2. NextNumber(b) = n + 1 BY <4>1, NextNumberIs DEF NumberedTo
        <5>3. {v.no : v \in VersionsOf(b)'} = (1..n) \cup {n + 1}
          <6>1. row.no = n + 1 BY <4>3, <5>2
          <6>2. {v.no : v \in VersionsOf(b)} = 1..n BY <4>1 DEF NumberedTo
          <6>3. \A S, x : {v.no : v \in S \cup {x}} = {v.no : v \in S} \cup {x.no}
            OBVIOUS
          <6>4. {v.no : v \in VersionsOf(b)'} = {v.no : v \in VersionsOf(b)} \cup {row.no}
            BY ONLY <5>1, <6>3
          <6> QED BY ONLY <6>1, <6>2, <6>4
        <5>4. (1..n) \cup {n + 1} = 1..(n + 1) /\ n + 1 \in 0..lastVersion' /\ n + 1 # 0
          BY <1>1, <3>1
        <5>5. workflow'[b].current = lastVersion + 1 /\ lastVersion + 1 # None
          BY <1>1, <3>1, <4>3, NoneAssumption DEF NoneAssumption
        <5>6. ASSUME NEW v \in VersionsOf(b)'
              PROVE  v.id = workflow'[b].current <=> v.no = n + 1
          <6>1. CASE v \in VersionsOf(b)
            <7>1. v.no \in 1..n BY <4>1, <6>1 DEF NumberedTo
            <7>2. v.id # lastVersion + 1 BY <3>2, <6>1 DEF VersionsOf
            <7> QED BY <5>5, <7>1, <7>2
          <6>2. CASE v = row BY <4>3, <5>2, <5>5, <6>2
          <6> QED BY <5>1, <5>6, <6>1, <6>2
        <5>7. NumberedTo(b, n + 1)' BY <5>3, <5>4, <5>5, <5>6 DEF NumberedTo
        <5> QED BY <5>4, <5>7
      <4> QED BY <4>2, <4>3
    <3> QED BY <3>3, <3>4 DEF VersionsNumbered
  <2> QED BY <1>2, <2>2, <2>3, <2>4 DEF Written
<1>3. ASSUME NEW c \in Categories, DeleteCategory(c) PROVE VersionsNumbered' /\ IdsInv'
  <2>1. /\ lastVersion' = lastVersion /\ versions' = versions \ VersionsOf(c)
        /\ workflow' = [workflow EXCEPT ![c] = NoRow]
    BY <1>3 DEF DeleteCategory
  <2>2. ASSUME NEW b \in Categories PROVE \E n \in 0..lastVersion' : NumberedTo(b, n)'
    <3>1. CASE b = c
      <4>1. VersionsOf(b)' = {} BY <2>1, <3>1 DEF VersionsOf
      <4>2. workflow'[b].current = None BY <1>1, <2>1, <3>1 DEF NoRow
      <4>3. 1..0 = {} /\ 0 \in 0..lastVersion' BY <1>1, <2>1
      <4>4. NumberedTo(b, 0)' BY <4>1, <4>2, <4>3 DEF NumberedTo
      <4> QED BY <4>3, <4>4
    <3>2. CASE b # c
      <4>1. VersionsOf(b)' = VersionsOf(b) BY <2>1, <3>2 DEF VersionsOf
      <4>2. workflow'[b] = workflow[b] BY <1>1, <2>1, <3>2
      <4> QED BY <1>1, <2>1, <4>1, <4>2, NumberingKept
    <3> QED BY <3>1, <3>2
  <2>3. IdsInv' BY <1>1, <2>1 DEF IdsInv
  <2> QED BY <2>2, <2>3 DEF VersionsNumbered
<1>4. CASE UNCHANGED <<workflow, versions, lastVersion>> BY <1>0, <1>4
<1> QED
  BY <1>1, <1>2, <1>3, <1>4, Kinds DEF CreateDesk, DeleteDesk, AuthoringUnchanged

\* The version a ticket pins stays, and its desks stay.
LEMMA PinnedStep ==
    ASSUME AuthInv, [Next]_vars
    PROVE  PinnedVersionsComplete'
<1>1. /\ AuthoringTypeOK /\ PinnedVersionsComplete /\ DesksNamedExist
      /\ workflow \in [Categories -> WorkflowRow]
      /\ tickets \subseteq [category : Categories, version : Nat]
      /\ tab \in [Tabs -> TabStates] /\ desk \in [Desks -> {"new", "live", "deleted"}]
  BY DEF AuthInv, AuthoringTypeOK
<1>2. ASSUME tickets' = tickets, versions \subseteq versions', LiveDesks \subseteq LiveDesks'
      PROVE  PinnedVersionsComplete'
  BY <1>1, <1>2 DEF PinnedVersionsComplete, VersionsOf
<1>3. ASSUME NEW t \in Tabs, Written(t) PROVE PinnedVersionsComplete'
  <2>1. versions \subseteq versions' BY <1>3 DEF Written, Published, NotPublished
  <2> QED BY <1>2, <1>3, <2>1 DEF Written, LiveDesks
<1>4. ASSUME NEW t \in Tabs, NEW routed \in SUBSET Desks, CreateTicket(t, routed)
      PROVE  PinnedVersionsComplete'
  <2> DEFINE c == tab[t].category
             k == [category |-> c, version |-> tab[t].version]
  <2>1. c \in Categories /\ tab[t].version \in Nat
    BY <1>1, <1>4 DEF CreateTicket, TabStates, Idle
  <2>2. UNCHANGED <<versions, desk>> BY <1>4 DEF CreateTicket
  <2>3. CASE workflow[c].current = tab[t].version
    <3>1. tickets' = tickets \cup {k} BY <1>4, <2>3 DEF CreateTicket
    <3>2. PICK n \in 0..lastVersion : NumberedTo(c, n)
      BY <2>1 DEF AuthInv, VersionsNumbered
    <3>3. workflow[c].current # None BY <2>1, <2>3, NoneAssumption DEF NoneAssumption
    <3>4. n \in 1..n BY <3>2, <3>3 DEF NumberedTo
    <3>5. PICK v \in VersionsOf(c) : v.no = n BY <3>2, <3>4 DEF NumberedTo
    <3>6. v.id = k.version BY <2>3, <3>2, <3>5 DEF NumberedTo
    <3>7. v.steps.desks \subseteq LiveDesks BY <1>1 DEF DesksNamedExist, VersionsOf
    <3> QED
      BY <1>1, <2>2, <3>1, <3>6, <3>7 DEF PinnedVersionsComplete, VersionsOf, LiveDesks
  <2>4. CASE workflow[c].current # tab[t].version
    BY <1>2, <1>4, <2>2, <2>4 DEF CreateTicket, LiveDesks
  <2> QED BY <2>3, <2>4
<1>5. ASSUME NEW c \in Categories, DeleteCategory(c) PROVE PinnedVersionsComplete'
  BY <1>1, <1>5 DEF DeleteCategory, DesksUnchanged, PinnedVersionsComplete, VersionsOf, LiveDesks
<1>6. ASSUME NEW d \in Desks, CreateDesk(d) PROVE PinnedVersionsComplete'
  BY <1>1, <1>2, <1>6 DEF CreateDesk, AuthoringUnchanged, LiveDesks
<1>7. ASSUME NEW d \in Desks, DeleteDesk(d) PROVE PinnedVersionsComplete'
  <2>1. LiveDesks \ {d} \subseteq LiveDesks' BY <1>1, <1>7 DEF DeleteDesk, LiveDesks
  <2> QED
    BY <1>1, <1>7, <2>1 DEF DeleteDesk, Referenced, AuthoringUnchanged,
      PinnedVersionsComplete, VersionsOf
<1>8. CASE UNCHANGED <<tickets, versions, desk>> BY <1>2, <1>8 DEF LiveDesks
<1> QED
  BY <1>1, <1>3, <1>4, <1>5, <1>6, <1>7, <1>8, SaveWrites, PublishWrites, CloneWrites
  DEF Next, vars, AuthoringUnchanged, DesksUnchanged, OpenBuilder, StartTicket,
      CloseBuilder, ReadCloneTarget, InsertMember, StartClone,
      RouteTicket, StartMember, RemoveMember, Downgrade, Promote, SwitchActive

\* Nobody joins a desk without the role, and the role goes with the desks.
LEMMA MembersStep ==
    ASSUME AuthInv, [Next]_vars
    PROVE  MembersOnStaff'
<1>1. /\ MembersOnStaff /\ members \subseteq Desks \X Persons
      /\ desk \in [Desks -> {"new", "live", "deleted"}]
      /\ person \in [Persons -> {"user", "agent", "inactive"}]
  BY DEF AuthInv, AuthoringTypeOK
<1>2. CASE UNCHANGED <<desk, members, person>> BY <1>1, <1>2 DEF MembersOnStaff
<1>3. ASSUME NEW t \in Tabs, InsertMember(t) PROVE MembersOnStaff'
  BY <1>1, <1>3 DEF InsertMember, MembersOnStaff
<1>4. ASSUME NEW d \in Desks, CreateDesk(d) \/ DeleteDesk(d) PROVE MembersOnStaff'
  BY <1>1, <1>4 DEF CreateDesk, DeleteDesk, MembersOnStaff
<1>5. ASSUME NEW d \in Desks, NEW p \in Persons, RemoveMember(d, p) PROVE MembersOnStaff'
  BY <1>1, <1>5 DEF RemoveMember, MembersOnStaff
<1>6. ASSUME NEW p \in Persons, Downgrade(p) PROVE MembersOnStaff'
  BY <1>1, <1>6 DEF Downgrade, MembersOnStaff
<1>7. ASSUME NEW p \in Persons, Promote(p) \/ SwitchActive(p) PROVE MembersOnStaff'
  BY <1>1, <1>7 DEF Promote, SwitchActive, MembersOnStaff
<1> QED
  BY <1>2, <1>3, <1>4, <1>5, <1>6, <1>7
  DEF Next, vars, DesksUnchanged, OpenBuilder, StartTicket, SaveDraft, Publish, CloseBuilder,
      ReadCloneTarget, WriteClone, StartClone, StartMember, CreateTicket, RouteTicket,
      DeleteCategory

\* A tab that turns to something else carries nothing, or what is stored.
Turns(t) ==
    /\ UNCHANGED <<category, workflow, versions>>
    /\ \E s : /\ Serve(t, s)
              /\ s.at \in {"builder", "clone_write"} =>
                   /\ s.category \in Categories
                   /\ s.revision = workflow[s.category].revision
                   /\ s.saw = workflow[s.category].draft

\* What a step is to the pages: a write, a turn, a deletion or nothing.
LEMMA PageKinds ==
    ASSUME AuthoringTypeOK, [Next]_vars
    PROVE  \/ \E t \in Tabs : Written(t) \/ Turns(t)
           \/ \E c \in Categories : DeleteCategory(c)
           \/ UNCHANGED <<category, workflow, versions, tab>>
<1>1. ASSUME NEW t \in Tabs, NEW c \in Categories, OpenBuilder(t, c) \/ StartTicket(t, c)
      PROVE  Turns(t)
  BY <1>1 DEF OpenBuilder, StartTicket, Turns, AuthoringUnchanged, Builder
<1>2. ASSUME NEW t \in Tabs, CloseBuilder(t) \/ InsertMember(t) PROVE Turns(t)
  BY <1>2 DEF CloseBuilder, InsertMember, Turns, AuthoringUnchanged, Idle
<1>3. ASSUME NEW t \in Tabs, ReadCloneTarget(t) PROVE Turns(t)
  <2>1. tab[t].category \in Categories
    BY <1>3 DEF ReadCloneTarget, AuthoringTypeOK, TabStates, Idle
  <2> QED BY <1>3, <2>1 DEF ReadCloneTarget, Turns, AuthoringUnchanged, Idle, HasRow
<1>4. ASSUME NEW t \in Tabs, NEW source \in Categories, NEW target \in Categories,
             StartClone(t, source, target)
      PROVE  Turns(t)
  BY <1>4 DEF StartClone, Turns, AuthoringUnchanged
<1>5. ASSUME NEW t \in Tabs, NEW routed \in SUBSET Desks, CreateTicket(t, routed)
      PROVE  Turns(t)
  BY <1>5 DEF CreateTicket, Turns, Idle
<1>6. ASSUME NEW t \in Tabs, NEW d \in Desks, NEW p \in Persons, StartMember(t, d, p)
      PROVE  Turns(t)
  BY <1>6 DEF StartMember, Turns, AuthoringUnchanged
<1> QED
  BY <1>1, <1>2, <1>3, <1>4, <1>5, <1>6, SaveWrites, PublishWrites, CloneWrites
  DEF Next, vars, AuthoringUnchanged, CreateDesk, DeleteDesk, RouteTicket, RemoveMember,
      Downgrade, Promote, SwitchActive

\* A write moves the revision past every page but the writer's own.
LEMMA PagesStep ==
    ASSUME AuthInv, [Next]_vars
    PROVE  PagesInv'
<1>1. /\ AuthoringTypeOK /\ PagesInv /\ tab \in [Tabs -> TabStates]
      /\ workflow \in [Categories -> WorkflowRow]
      /\ category \in [Categories -> {"live", "deleted"}]
      /\ \A c \in Categories : workflow[c].revision \in Nat
  BY DEF AuthInv, AuthoringTypeOK, WorkflowRow
<1> DEFINE Good(u) ==
      Carries(u) /\ Live(tab[u].category) =>
        /\ tab[u].revision <= workflow[tab[u].category].revision
        /\ tab[u].revision = workflow[tab[u].category].revision
              => tab[u].saw = workflow[tab[u].category].draft
<1>2. \A u \in Tabs : Good(u) BY <1>1 DEF PagesInv
<1>3. \A u \in Tabs : Carries(u) => tab[u].category \in Categories /\ tab[u].revision \in Nat
  BY <1>1, CarriedTypes
<1>4. ASSUME NEW t \in Tabs, Written(t), NEW u \in Tabs PROVE Good(u)'
  <2> DEFINE c == tab[t].category
  <2>1. c \in Categories /\ tab[t].revision \in Nat BY <1>3, <1>4 DEF Written
  <2>2. category' = category BY <1>4 DEF Written
  <2>3. CASE UNCHANGED workflow /\ Serve(t, Idle)
    BY <1>1, <1>2, <2>2, <2>3 DEF Serve, Idle, Carries, Live
  <2>4. CASE Landed(t, c)
    <3>1. /\ workflow[c].revision = tab[t].revision
          /\ workflow'[c].revision = workflow[c].revision + 1
          /\ \A b \in Categories \ {c} : workflow'[b] = workflow[b]
      BY <2>4 DEF Landed, Matches
    <3>2. CASE u # t
      <4>1. tab'[u] = tab[u] BY <1>1, <1>4, <2>3, <3>2 DEF Written, Serve
      <4>2. CASE tab[u].category = c
        BY <1>1, <1>2, <1>3, <2>1, <2>2, <3>1, <4>1, <4>2 DEF Carries, Live
      <4>3. CASE tab[u].category # c
        BY <1>1, <1>2, <1>3, <2>1, <2>2, <3>1, <4>1, <4>3 DEF Carries, Live
      <4> QED BY <4>2, <4>3
    <3>3. CASE u = t /\ Serve(t, Idle) BY <1>1, <3>3 DEF Serve, Idle, Carries
    <3>4. CASE u = t /\ Serve(t, Builder(c, tab[t].revision + 1, workflow'[c].draft))
      BY <1>1, <2>1, <3>1, <3>4 DEF Serve, Builder, Carries
    <3>5. CASE u = t /\ UNCHANGED workflow BY <1>1, <2>1, <3>1, <3>5
    <3> QED BY <1>4, <3>2, <3>3, <3>4, <3>5 DEF Written
  <2> QED BY <1>4, <2>3, <2>4 DEF Written
<1>5. ASSUME NEW t \in Tabs, Turns(t), NEW u \in Tabs PROVE Good(u)'
  <2>1. workflow' = workflow /\ category' = category BY <1>5 DEF Turns
  <2>2. CASE u # t
    <3>1. tab'[u] = tab[u] BY <1>1, <1>5, <2>2 DEF Turns, Serve
    <3> QED BY <1>2, <2>1, <3>1 DEF Carries, Live
  <2>3. CASE u = t
    <3>1. PICK s : /\ Serve(t, s)
                   /\ s.at \in {"builder", "clone_write"} =>
                        /\ s.category \in Categories
                        /\ s.revision = workflow[s.category].revision
                        /\ s.saw = workflow[s.category].draft
      BY <1>5 DEF Turns
    <3>2. tab'[u] = s BY <1>1, <2>3, <3>1 DEF Serve
    <3> QED BY <1>1, <2>1, <3>1, <3>2 DEF Carries, Live
  <2> QED BY <2>2, <2>3
<1>6. ASSUME NEW c \in Categories, DeleteCategory(c), NEW u \in Tabs PROVE Good(u)'
  <2>1. /\ tab' = tab /\ category' = [category EXCEPT ![c] = "deleted"]
        /\ workflow' = [workflow EXCEPT ![c] = NoRow]
    BY <1>6 DEF DeleteCategory
  <2>2. CASE Carries(u) /\ tab[u].category = c
    BY <1>1, <2>1, <2>2 DEF Carries, Live
  <2>3. CASE Carries(u) /\ tab[u].category # c
    <3>1. /\ workflow'[tab[u].category] = workflow[tab[u].category]
          /\ category'[tab[u].category] = category[tab[u].category]
      BY <1>1, <1>3, <2>1, <2>3
    <3> QED BY <1>2, <2>1, <3>1 DEF Carries, Live
  <2>4. CASE ~Carries(u) BY <2>1, <2>4 DEF Carries
  <2> QED BY <2>2, <2>3, <2>4
<1>7. CASE UNCHANGED <<category, workflow, versions, tab>>
  BY <1>1, <1>7 DEF PagesInv, Carries, Live
<1> QED BY <1>1, <1>4, <1>5, <1>6, <1>7, PageKinds DEF PagesInv

\* The empty system satisfies it.
LEMMA AuthInit == Init => AuthInv
<1> SUFFICES ASSUME Init PROVE AuthInv OBVIOUS
<1>1. NoRow \in WorkflowRow /\ [NoRow EXCEPT !.draft = Blank] \in WorkflowRow
  BY DEF NoRow, Blank, WorkflowRow, Definitions
<1>2. \A c \in Categories :
        /\ workflow[c] \in {NoRow, [NoRow EXCEPT !.draft = Blank]}
        /\ workflow[c].current = None
        /\ workflow[c].draft \in {None, Blank}
  BY DEF Init, NoRow
<1>3. AuthoringTypeOK
  BY <1>1 DEF Init, AuthoringTypeOK, TabStates, Idle
<1>4. PagesInv BY DEF Init, PagesInv, Carries, Idle
<1>5. IdsInv BY DEF Init, IdsInv
<1>6. DesksNamedExist BY <1>2 DEF Init, DesksNamedExist, HasRow, Blank
<1>7. VersionsNumbered
  <2>1. \A c \in Categories : VersionsOf(c) = {} BY DEF Init, VersionsOf
  <2>2. 1..0 = {} /\ 0 \in 0..lastVersion BY DEF Init
  <2>3. \A c \in Categories : NumberedTo(c, 0) BY <1>2, <2>1, <2>2 DEF NumberedTo
  <2> QED BY <2>2, <2>3 DEF VersionsNumbered
<1>8. PinnedVersionsComplete /\ MembersOnStaff
  BY DEF Init, PinnedVersionsComplete, MembersOnStaff
<1> QED BY <1>3, <1>4, <1>5, <1>6, <1>7, <1>8 DEF AuthInv

(***************************************************************************)
(* The theorems.                                                           *)
(***************************************************************************)

\* Every reachable state satisfies the inductive invariant.
THEOREM AuthInvHolds == Spec => []AuthInv
<1>1. AuthInv /\ [Next]_vars => AuthInv'
  BY TypeStep, PagesStep, DesksStep, VersionsStep, PinnedStep, MembersStep DEF AuthInv
<1> QED BY AuthInit, <1>1, PTL DEF Spec

\* Every state is well typed.
THEOREM AuthoringTyped == Spec => []AuthoringTypeOK
<1>1. AuthInv => AuthoringTypeOK BY DEF AuthInv
<1> QED BY AuthInvHolds, <1>1, PTL

\* What drafts, versions and tickets refer to exists, for any desks and
\* categories: the deletions and the writes check each other in time.
THEOREM ReferencesAlwaysHold == Spec => []ReferencesHold
<1>1. AuthInv => ReferencesHold BY DEF AuthInv, ReferencesHold
<1> QED BY AuthInvHolds, <1>1, PTL

\* Versions are numbered without gaps and the last one is current, however
\* publications overlap.
THEOREM NumberingHolds == Spec => []VersionsNumbered
<1>1. AuthInv => VersionsNumbered BY DEF AuthInv
<1> QED BY AuthInvHolds, <1>1, PTL

\* A desk has no member without the role, despite the check made too early.
THEOREM MembersStayStaff == Spec => []MembersOnStaff
<1>1. AuthInv => MembersOnStaff BY DEF AuthInv
<1> QED BY AuthInvHolds, <1>1, PTL

(***************************************************************************)
(* The refinement of VersionedDraft.                                       *)
(***************************************************************************)

\* The drafts, as they are mapped, after a step that touches one category.
LEMMA TextAfter ==
    ASSUME AuthoringTypeOK, NEW c \in Categories,
           \A b \in Categories \ {c} : workflow'[b] = workflow[b]
    PROVE  Text' = [Text EXCEPT ![c] = workflow'[c].draft]
BY DEF Text

\* What is looked at after tab t turned to s.
LEMMA LookingAfter ==
    ASSUME AuthoringTypeOK, NEW t \in Tabs, NEW s, Serve(t, s)
    PROVE  Looking' =
             [Looking EXCEPT ![t] = IF s.at \in {"builder", "clone_write"}
                                    THEN [of |-> s.category, saw |-> s.saw] ELSE None]
<1>1. tab' = [tab EXCEPT ![t] = s] /\ tab \in [Tabs -> TabStates]
  BY DEF AuthoringTypeOK, Serve
<1>2. tab'[t] = s /\ \A u \in Tabs \ {t} : tab'[u] = tab[u] BY <1>1
<1>3. ASSUME NEW u \in Tabs, u # t PROVE Carries(u)' <=> Carries(u)
  BY <1>2, <1>3 DEF Carries
<1>4. Carries(t)' <=> s.at \in {"builder", "clone_write"} BY <1>2 DEF Carries
<1> QED BY <1>2, <1>3, <1>4 DEF Looking

\* A write is an edit or a publication by somebody looking at the draft.
LEMMA WritesRefine ==
    ASSUME AuthInv, NEW t \in Tabs, Written(t)
    PROVE  Draft!DraftNext
<1>0. PICK c \in Categories : c = tab[t].category
  BY CarriedTypes DEF Written, AuthInv
<1> DEFINE new == Text'[c]
<1>1. /\ AuthoringTypeOK /\ PagesInv /\ lastVersion \in Nat
      /\ versions \subseteq VersionRow(1..lastVersion)
      /\ workflow \in [Categories -> WorkflowRow]
  BY DEF AuthInv, AuthoringTypeOK
<1>2. c \in Categories /\ Carries(t) BY DEF Written
<1>3. Gone' = Gone BY DEF Written, Gone, Live
<1>4. CASE UNCHANGED <<workflow, versions, lastVersion>> /\ Serve(t, Idle)
  <2>1. Looking' = [Looking EXCEPT ![t] = None] BY <1>1, <1>4, LookingAfter DEF Idle
  <2>2. Text' = Text /\ Texts' = Texts BY <1>4 DEF Text, Texts, VersionsOf
  <2>3. Draft!LooksAway(t) BY <1>3, <2>1, <2>2 DEF Draft!LooksAway
  <2> QED BY <2>3 DEF Draft!DraftNext
<1>5. CASE /\ Landed(t, c)
           /\ Published(c) \/ NotPublished(c)
           /\ \/ Serve(t, Idle)
              \/ Serve(t, Builder(c, tab[t].revision + 1, workflow'[c].draft))
  <2>1. new = workflow'[c].draft BY <1>2 DEF Text
  <2>2. Draft!Writes(t, c, new)
    <3>1. c \notin Gone BY <1>5 DEF Landed, Matches, Gone
    <3>2. Looking[t] = [of |-> c, saw |-> Text[c]]
      <4>1. tab[t].saw = workflow[c].draft
        BY <1>0, <1>1, <1>2, <1>5 DEF PagesInv, Landed, Matches, Live
      <4> QED BY <1>0, <1>2, <4>1 DEF Looking, Text
    <3>3. Text' = [Text EXCEPT ![c] = new]
      BY <1>1, <1>2, <1>5, <2>1, TextAfter DEF Landed
    <3>4. CASE Serve(t, Idle)
      <4>1. Looking' = [Looking EXCEPT ![t] = None] BY <1>1, <3>4, LookingAfter DEF Idle
      <4> QED BY <1>3, <3>1, <3>2, <3>3, <4>1 DEF Draft!Writes
    <3>5. CASE Serve(t, Builder(c, tab[t].revision + 1, workflow'[c].draft))
      <4>1. Looking' = [Looking EXCEPT ![t] = [of |-> c, saw |-> new]]
        BY <1>1, <2>1, <3>5, LookingAfter DEF Builder
      <4> QED BY <1>3, <3>1, <3>2, <3>3, <4>1 DEF Draft!Writes
    <3> QED BY <1>5, <3>4, <3>5
  <2>3. CASE NotPublished(c)
    <3>1. Texts' = Texts BY <2>3 DEF NotPublished, Texts, VersionsOf
    <3>2. Draft!Edits(t, c, new) BY <2>2, <3>1 DEF Draft!Edits
    <3> QED BY <1>2, <3>2 DEF Draft!DraftNext
  <2>4. CASE Published(c)
    <3> DEFINE row == [id |-> lastVersion + 1, category |-> c, no |-> NextNumber(c),
                       steps |-> workflow'[c].draft]
               p == <<NextNumber(c), new>>
    <3>0. versions' = versions \cup {row} /\ row.category = c
      BY <2>4 DEF Published
    <3>1. /\ VersionsOf(c)' = VersionsOf(c) \cup {row}
          /\ \A b \in Categories \ {c} : VersionsOf(b)' = VersionsOf(b)
      <4> HIDE DEF row
      <4>1. VersionsOf(c)' = VersionsOf(c) \cup {row} BY <3>0 DEF VersionsOf
      <4>2. ASSUME NEW b \in Categories \ {c} PROVE VersionsOf(b)' = VersionsOf(b)
        BY <3>0, <4>2 DEF VersionsOf
      <4> QED BY <4>1, <4>2
    <3>2. Texts' = [Texts EXCEPT ![c] = @ \cup {p}]
      <4>1. Texts'[c] = Texts[c] \cup {p}
        <5>1. p = <<row.no, row.steps>> BY <2>1
        <5>2. \A S, x : {<<v.no, v.steps>> : v \in S \cup {x}}
                       = {<<v.no, v.steps>> : v \in S} \cup {<<x.no, x.steps>>}
          OBVIOUS
        <5>3. {<<v.no, v.steps>> : v \in VersionsOf(c)'}
                = {<<v.no, v.steps>> : v \in VersionsOf(c)} \cup {<<row.no, row.steps>>}
          BY ONLY <3>1, <5>2
        <5>4. Texts'[c] = {<<v.no, v.steps>> : v \in VersionsOf(c)'} BY <1>2 DEF Texts
        <5>5. Texts[c] = {<<v.no, v.steps>> : v \in VersionsOf(c)} BY <1>2 DEF Texts
        <5> QED BY ONLY <5>1, <5>3, <5>4, <5>5
      <4>2. \A b \in Categories \ {c} : Texts'[b] = Texts[b] BY <3>1 DEF Texts
      <4> QED BY <4>1, <4>2 DEF Texts
    <3>3. p \in Texts'[c] /\ p[2] = new BY <1>2, <3>2 DEF Texts
    <3>4. \A q \in Texts[c] : q[1] < p[1]
      <4>1. PICK n \in 0..lastVersion : NumberedTo(c, n)
        BY <1>2 DEF AuthInv, VersionsNumbered
      <4>2. NextNumber(c) = n + 1 BY <1>1, <1>2, <4>1, NextNumberIs DEF NumberedTo
      <4>3. \A v \in VersionsOf(c) : v.no \in 1..n BY <4>1 DEF NumberedTo
      <4> QED BY <1>2, <4>2, <4>3 DEF Texts
    <3>5. Draft!Publishes(t, c, new) BY <2>2, <3>2, <3>3, <3>4 DEF Draft!Publishes
    <3> QED BY <1>2, <3>5 DEF Draft!DraftNext
  <2> QED BY <1>5, <2>3, <2>4
<1> QED BY <1>0, <1>4, <1>5 DEF Written

\* A turn is a look at the stored draft, or a look away.
LEMMA TurnsRefine ==
    ASSUME AuthInv, NEW t \in Tabs, Turns(t)
    PROVE  Draft!DraftNext
<1>1. AuthoringTypeOK BY DEF AuthInv
<1>2. UNCHANGED <<category, workflow, versions>> BY DEF Turns
<1>3. Text' = Text /\ Texts' = Texts /\ Gone' = Gone
  BY <1>2 DEF Text, Texts, Gone, VersionsOf, Live
<1>4. PICK s : /\ Serve(t, s)
               /\ s.at \in {"builder", "clone_write"} =>
                    /\ s.category \in Categories
                    /\ s.revision = workflow[s.category].revision
                    /\ s.saw = workflow[s.category].draft
  BY DEF Turns
<1>5. CASE s.at \in {"builder", "clone_write"}
  <2>1. s.saw = Text[s.category] BY <1>4, <1>5 DEF Text
  <2>2. Looking' = [Looking EXCEPT ![t] = [of |-> s.category, saw |-> Text[s.category]]]
    BY <1>1, <1>4, <1>5, <2>1, LookingAfter
  <2>3. Draft!Looks(t) BY <1>3, <1>4, <1>5, <2>2 DEF Draft!Looks
  <2> QED BY <2>3 DEF Draft!DraftNext
<1>6. CASE s.at \notin {"builder", "clone_write"}
  <2>1. Looking' = [Looking EXCEPT ![t] = None] BY <1>1, <1>4, <1>6, LookingAfter
  <2>2. Draft!LooksAway(t) BY <1>3, <2>1 DEF Draft!LooksAway
  <2> QED BY <2>2 DEF Draft!DraftNext
<1> QED BY <1>5, <1>6

\* The deletion of a category removes its draft and its published texts.
LEMMA DeletionRefines ==
    ASSUME AuthInv, NEW c \in Categories, DeleteCategory(c)
    PROVE  Draft!DraftNext
<1>1. /\ AuthoringTypeOK /\ workflow \in [Categories -> WorkflowRow]
      /\ category \in [Categories -> {"live", "deleted"}]
  BY DEF AuthInv, AuthoringTypeOK
<1>2. /\ tab' = tab /\ category' = [category EXCEPT ![c] = "deleted"]
      /\ workflow' = [workflow EXCEPT ![c] = NoRow]
      /\ versions' = versions \ VersionsOf(c)
  BY DEF DeleteCategory
<1>3. Looking' = Looking BY <1>2 DEF Looking, Carries
<1>4. Gone' = Gone \cup {c} BY <1>1, <1>2 DEF Gone, Live
<1>5. Text' = [Text EXCEPT ![c] = None]
  <2>1. workflow'[c].draft = None /\ \A b \in Categories \ {c} : workflow'[b] = workflow[b]
    BY <1>1, <1>2 DEF NoRow
  <2> QED BY <1>1, <2>1, TextAfter
<1>6. Texts' = [Texts EXCEPT ![c] = {}]
  <2>1. VersionsOf(c)' = {} /\ \A b \in Categories \ {c} : VersionsOf(b)' = VersionsOf(b)
    BY <1>2 DEF VersionsOf
  <2>2. Texts'[c] = {} BY <2>1 DEF Texts
  <2>3. \A b \in Categories \ {c} : Texts'[b] = Texts[b] BY <2>1 DEF Texts
  <2> QED BY <2>2, <2>3 DEF Texts
<1>7. Draft!Removes(c) BY <1>3, <1>4, <1>5, <1>6 DEF Draft!Removes
<1> QED BY <1>7 DEF Draft!DraftNext

\* Authoring implements VersionedDraft: whoever replaces a draft was looking
\* at the draft they replace, in every interleaving of any number of tabs.
THEOREM AuthoringImplementsDrafts == Spec => DraftsImplemented
<1>1. Init => Draft!DraftInit
  BY DEF Init, Draft!DraftInit, Texts, VersionsOf, Gone, Live, Looking, Carries, Idle
<1>2. AuthInv /\ [Next]_vars => [Draft!DraftNext]_(Draft!draftVars)
  <2> SUFFICES ASSUME AuthInv, [Next]_vars PROVE [Draft!DraftNext]_(Draft!draftVars)
    OBVIOUS
  <2>1. AuthoringTypeOK BY DEF AuthInv
  <2>2. CASE UNCHANGED <<category, workflow, versions, tab>>
    BY <2>2 DEF Draft!draftVars, Text, Texts, Gone, Looking, VersionsOf, Live, Carries
  <2> QED BY <2>1, <2>2, PageKinds, WritesRefine, TurnsRefine, DeletionRefines
<1> QED BY <1>1, <1>2, AuthInvHolds, PTL DEF Spec, DraftsImplemented, Draft!DraftSpec
=============================================================================
