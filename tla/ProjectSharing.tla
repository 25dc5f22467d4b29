--------------------------- MODULE ProjectSharing ---------------------------
(***************************************************************************)
(* Who may do what with one project: the team tree, who belongs to and who *)
(* owns a team, the grants on the project and its visibility flag, under   *)
(* the API requests that change them.                                      *)
(*                                                                         *)
(* A request reads what it decides upon (who asks, and what the change is  *)
(* about to break), then writes; only the creation of a team is one        *)
(* transaction.  The reads are a step here and each write is one, so that  *)
(* other requests come in between.  A request refused is no step.          *)
(***************************************************************************)
EXTENDS Integers, Sequences, FiniteSets

CONSTANTS
    Teams, Users,
    Admins,             \* they manage every team
    Founder,            \* who created the project
    Handlers,           \* API requests that may be in progress at once
    Grants,             \* ProjectAcl rows that may be granted
    InitialRoles, InitialAcls,  \* a team's memberships, the project's grants, at the start
    MaxRequests,        \* bound: API requests
    Org, None           \* the grantee of an ORG grant; null

Levels == {"READ", "EDIT"}
Rows == [grantee : Users \cup Teams \cup {Org}, level : Levels]
Roles == {"none", "member", "owner"}

ASSUME SharingAssumption ==
    /\ IsFiniteSet(Teams) /\ IsFiniteSet(Users)
    /\ Admins \subseteq Users /\ Founder \in Users
    /\ InitialRoles \subseteq [Users -> Roles]
    /\ Users \cap Teams = {} /\ {Org, None} \cap (Users \cup Teams) = {} /\ None \notin Rows
    /\ Grants \subseteq Rows /\ InitialAcls \subseteq Seq(Rows)
    /\ MaxRequests \in Nat

VARIABLES
    life, parent, role, \* Postgres: teams, their parentTeamId, memberships
    owner, visibility,  \* Postgres: the project
    acls,               \* Postgres: its ACL rows in the order of creation, None once deleted
    request,            \* handler -> the request in progress
    crossed,            \* history: a grant and a revocation were in progress together
    requests

tree == <<life, parent, role>>
project == <<owner, visibility, acls>>
sharingVars == <<tree, project, request, crossed, requests>>

live(t) == t \in Teams /\ life[t] = "live"
Owners(t) == {u \in Users : role[t][u] = "owner"}
Granted == {a \in DOMAIN acls : acls[a] # None}
GrantsTo(g) == {a \in Granted : acls[a].grantee = g}
SubTeams(t) == {s \in Teams : live(s) /\ parent[s] = t}

-----------------------------------------------------------------------------
(* Access: access.ts *)

\* The queue with its visited set: all that is reached from the given teams
\* downwards.  It ends on a cycle too.
Below(start) ==
    LET reached[n \in Nat] ==
            IF n = 0 THEN start
            ELSE LET r == reached[n - 1] IN r \cup {t \in Teams : live(t) /\ parent[t] \in r}
    IN  reached[Cardinality(Teams)]

ChildrenOnly(t) == SubTeams(t)
GetDescendantTeamIds(t) == Below({t}) \ {t}

Acyclic == \A t \in Teams : parent[t] \notin Below({t})

GetEffectiveTeamIds(u) == Below({t \in Teams : role[t][u] # "none"})

\* The chain of parents, up to the root or round the cycle once.
AncestorChain(t) ==
    LET climbed[n \in Nat] ==
            IF n = 0 THEN {t}
            ELSE LET c == climbed[n - 1] IN c \cup ({parent[s] : s \in c} \ {None})
    IN  climbed[Cardinality(Teams)]

OwnMembersOnly(t) == {u \in Users : role[t][u] # "none"}
GetTeamMemberUserIds(t) == {u \in Users : \E s \in AncestorChain(t) : role[s][u] # "none"}

GetProjectAccess(u) ==
    LET matching == {acls[a] : a \in GrantsTo(u) \cup GrantsTo(Org)
                                  \cup UNION {GrantsTo(t) : t \in GetEffectiveTeamIds(u)}}
    IN  CASE u = owner -> "OWNER"
          [] u # owner /\ \E g \in matching : g.level = "EDIT" -> "EDIT"
          [] u # owner /\ matching # {} /\ \A g \in matching : g.level = "READ" -> "READ"
          [] OTHER -> "none"

EditGrants(g) == {a \in GrantsTo(g) : acls[a].level = "EDIT"}

GetEligibleApprovers ==
    [userIds |-> {owner} \cup {u \in Users : EditGrants(u) # {}}
                 \cup UNION {GetTeamMemberUserIds(t) : t \in {s \in Teams : EditGrants(s) # {}}},
     orgWideEdit |-> EditGrants(Org) # {}]

-----------------------------------------------------------------------------
(* Requests *)

Idle == [op |-> "idle"]

Placings == [Teams -> Teams \cup {None}]

\* seen: what the request found before it writes.
Pending ==
    [op : {"create"}, team : Teams, user : Users, to : Teams \cup {None}]
    \cup [op : {"reparent"}, team : Teams, to : Teams \cup {None}, seen : Placings]
    \cup [op : {"delete"}, team : Teams, seen : (SUBSET Teams) \X (SUBSET Nat)]
    \cup [op : {"owner", "member", "none"}, team : Teams, user : Users, seen : SUBSET Users]
    \cup [op : {"grant"}, grant : Grants, todo : (SUBSET {"row", "flag"}) \ {{}}]
    \cup [op : {"revoke"}, step : {"count", "flag"}]

InProgress(op) == \E h \in Handlers : request[h].op = op

Put(h, q) ==
    /\ request' = [request EXCEPT ![h] = q]
    /\ crossed' = (crossed \/ (InProgress("grant") /\ InProgress("revoke"))')

Spend == requests < MaxRequests /\ requests' = requests + 1

\* A request has read, and is still to write.
Ask(h, q) ==
    /\ request[h] = Idle /\ Put(h, q) /\ Spend
    /\ UNCHANGED <<tree, project>>

Done(h) == Put(h, Idle) /\ UNCHANGED requests

-----------------------------------------------------------------------------
(* The team routes: teams.ts *)

\* requireTeamAccess("OWNER"): an owner of the team, or an admin.
MayManage(t) == live(t) /\ (Admins # {} \/ Owners(t) # {})

MayBeParent(to) == to = None \/ live(to)

AskCreate(h, t, u, to) ==
    /\ life[t] = "unborn"
    /\ \A g \in Handlers : request[g].op = "create" => request[g].team # t
    /\ MayBeParent(to)
    /\ Ask(h, [op |-> "create", team |-> t, user |-> u, to |-> to])

\* One transaction; it fails when the parent has gone since.
Create(h) ==
    /\ request[h].op = "create"
    /\ LET q == request[h] IN
       \/ /\ MayBeParent(q.to)
          /\ life' = [life EXCEPT ![q.team] = "live"]
          /\ parent' = [parent EXCEPT ![q.team] = q.to]
          /\ role' = [role EXCEPT ![q.team][q.user] = "owner"]
       \/ ~MayBeParent(q.to) /\ UNCHANGED tree
    /\ Done(h) /\ UNCHANGED project

\* The new parent is neither the team nor below it; that it exists is not checked.
AskReparent(h, t, to) ==
    /\ MayManage(t)
    /\ to # t /\ to \notin GetDescendantTeamIds(t)
    /\ Ask(h, [op |-> "reparent", team |-> t, to |-> to, seen |-> parent])

\* The row may be gone by now, and so may the parent it is to refer to.
Reparent(h) ==
    /\ request[h].op = "reparent"
    /\ LET q == request[h]
       IN  parent' = IF live(q.team) /\ MayBeParent(q.to)
                     THEN [parent EXCEPT ![q.team] = q.to] ELSE parent
    /\ Done(h) /\ UNCHANGED <<life, role, project>>

References(t) == <<SubTeams(t), GrantsTo(t)>>

\* 409 while a sub-team or a grant refers to the team.
AskDeleteUnseen(h, t) ==
    /\ MayManage(t) /\ SubTeams(t) = {}
    /\ Ask(h, [op |-> "delete", team |-> t, seen |-> References(t)])
AskDelete(h, t) ==
    /\ MayManage(t) /\ References(t) = <<{}, {}>>
    /\ Ask(h, [op |-> "delete", team |-> t, seen |-> References(t)])

\* Memberships cascade, sub-teams lose their parent, grants keep a dead id.
Delete(h) ==
    /\ request[h].op = "delete"
    /\ LET t == request[h].team IN
       /\ life' = [life EXCEPT ![t] = "gone"]
       /\ parent' = [s \in Teams |-> IF s = t \/ parent[s] = t THEN None ELSE parent[s]]
       /\ role' = [role EXCEPT ![t] = [u \in Users |-> "none"]]
    /\ Done(h) /\ UNCHANGED project

\* An upsert: somebody who is in the team already keeps their role.
Add(t, u) ==
    /\ MayManage(t) /\ role[t][u] = "none" /\ Spend
    /\ role' = [role EXCEPT ![t][u] = "member"]
    /\ UNCHANGED <<life, parent, project, request, crossed>>

IsMember(t, u) == role[t][u] # "none"

\* Not the last owner; the owners are counted only if one of them steps down.
MayStepDownByOne(t, u) == u \in Owners(t) => Cardinality(Owners(t)) >= 1
MayStepDown(t, u) == u \in Owners(t) => Cardinality(Owners(t)) > 1

\* PATCH isOwner true or false, DELETE: what the user is to become.
AskMembership(h, t, u, to) ==
    /\ MayManage(t) /\ IsMember(t, u)
    /\ to # "owner" => MayStepDown(t, u)
    /\ Ask(h, [op |-> to, team |-> t, user |-> u, seen |-> Owners(t)])

\* It fails when the membership has gone since.
ChangeMembership(h) ==
    /\ request[h].op \in Roles
    /\ LET q == request[h] IN
       role' = IF IsMember(q.team, q.user)
               THEN [role EXCEPT ![q.team][q.user] = q.op] ELSE role
    /\ Done(h) /\ UNCHANGED <<life, parent, project>>

-----------------------------------------------------------------------------
(* The project's routes: projects.ts *)

\* A team must exist to be granted access; users always do here.
AskGrant(h, g) ==
    /\ g.grantee \in Teams => live(g.grantee)
    /\ Ask(h, [op |-> "grant", grant |-> g, todo |-> {"row", "flag"}])

ToDo(h, part) == request[h].op = "grant" /\ part \in request[h].todo
Wrote(h, part) ==
    /\ Put(h, IF request[h].todo = {part} THEN Idle ELSE [request[h] EXCEPT !.todo = @ \ {part}])
    /\ UNCHANGED requests

\* Promise.all: the row and the flag in either order.
CreateAcl(h) ==
    /\ ToDo(h, "row") /\ Wrote(h, "row")
    /\ acls' = Append(acls, request[h].grant)
    /\ UNCHANGED <<tree, owner, visibility>>

MarkShared(h) ==
    /\ ToDo(h, "flag") /\ Wrote(h, "flag")
    /\ visibility' = "SHARED"
    /\ UNCHANGED <<tree, owner, acls>>

Relevel(a, l) ==
    /\ a \in Granted /\ acls[a].level # l /\ Spend
    /\ acls' = [acls EXCEPT ![a].level = l]
    /\ UNCHANGED <<tree, owner, visibility, request, crossed>>

\* Revocation: delete, then count what is left, then perhaps the flag.
DeleteAcl(h, a) ==
    /\ request[h] = Idle /\ a \in Granted /\ Spend
    /\ acls' = [acls EXCEPT ![a] = None]
    /\ Put(h, [op |-> "revoke", step |-> "count"])
    /\ UNCHANGED <<tree, owner, visibility>>

Revoking(h, step) == request[h].op = "revoke" /\ request[h].step = step

CountNothing(h) ==
    /\ Revoking(h, "count")
    /\ Put(h, [request[h] EXCEPT !.step = "flag"])
    /\ UNCHANGED <<tree, project, requests>>
CountAcls(h) ==
    /\ Revoking(h, "count")
    /\ Put(h, IF Granted = {} THEN [request[h] EXCEPT !.step = "flag"] ELSE Idle)
    /\ UNCHANGED <<tree, project, requests>>

MarkPrivate(h) ==
    /\ Revoking(h, "flag") /\ Done(h)
    /\ visibility' = "PRIVATE"
    /\ UNCHANGED <<tree, owner, acls>>

\* transfer-ownership: reads that decide nothing, then one update.
TransferOwnership(u) ==
    /\ u # owner /\ Spend
    /\ owner' = u
    /\ UNCHANGED <<tree, visibility, acls, request, crossed>>

-----------------------------------------------------------------------------
SharingInit ==
    /\ life \in [Teams -> {"unborn", "live"}]
    /\ parent \in Placings
    /\ \A t \in Teams : parent[t] # None => live(t) /\ live(parent[t])
    /\ Acyclic
    /\ role \in [Teams -> InitialRoles \cup {[u \in Users |-> "none"]}]
    /\ \A t \in Teams : Owners(t) # {} <=> life[t] = "live"
    /\ owner = Founder /\ acls \in InitialAcls
    /\ \A a \in Granted : acls[a].grantee \in Teams => live(acls[a].grantee)
    /\ visibility = IF Granted = {} THEN "PRIVATE" ELSE "SHARED"
    /\ request = [h \in Handlers |-> Idle]
    /\ crossed = FALSE /\ requests = 0

ManageTeam(h, t) ==
    \/ \E to \in Teams \cup {None} : AskReparent(h, t, to)
    \/ \E u \in Users, to \in Teams \cup {None} : AskCreate(h, t, u, to)
    \/ AskDelete(h, t)
    \/ \E u \in Users, to \in Roles : AskMembership(h, t, u, to)

Serve(h) ==
    \/ \E t \in Teams : ManageTeam(h, t)
    \/ \E g \in Grants : AskGrant(h, g)
    \/ \E a \in DOMAIN acls : DeleteAcl(h, a)
    \/ Create(h) \/ Reparent(h) \/ Delete(h) \/ ChangeMembership(h)
    \/ CreateAcl(h) \/ MarkShared(h)
    \/ CountAcls(h) \/ MarkPrivate(h)

SharingNext ==
    \/ \E h \in Handlers : Serve(h)
    \/ \E t \in Teams, u \in Users : Add(t, u)
    \/ \E a \in DOMAIN acls, l \in Levels : Relevel(a, l)
    \/ \E u \in Users : TransferOwnership(u)

SharingSpec == SharingInit /\ [][SharingNext]_sharingVars

-----------------------------------------------------------------------------
(* Properties *)

SharingTypeOK ==
    /\ life \in [Teams -> {"unborn", "live", "gone"}]
    /\ parent \in Placings /\ role \in [Teams -> [Users -> Roles]]
    /\ owner \in Users /\ visibility \in {"PRIVATE", "SHARED"}
    /\ acls \in Seq(Rows \cup {None})
    /\ request \in [Handlers -> {Idle} \cup Pending]
    /\ crossed \in BOOLEAN /\ requests \in 0..MaxRequests

\* The list of who can approve a change, made by climbing from each grant's team
\* to its ancestors, is the list of who has EDIT or OWNER access, found by
\* descending from each user's teams: on any tree, on a cycle, and with grants
\* to teams that are gone.  access.ts, getEligibleApprovers, getProjectAccess.
ApproversAreEditors ==
    LET approvers == GetEligibleApprovers
    IN  \A u \in Users : GetProjectAccess(u) \in {"OWNER", "EDIT"}
                         <=> u \in approvers.userIds \/ approvers.orgWideEdit

OwnerlessOnlyToRace ==
    \A t \in Teams : live(t) /\ Owners(t) # {} /\ life'[t] = "live" /\ Owners(t)' = {}
        => \E h \in Handlers : /\ request[h].op \in {"member", "none"} /\ request[h].team = t
                               /\ request'[h] = Idle /\ request[h].seen # Owners(t)

\* A team loses its last owner only to a request whose count of the owners was
\* out of date when it wrote.  teams.ts, PATCH and DELETE members.
LastOwnerLostOnlyToRace == [][OwnerlessOnlyToRace]_role

CycleByRace ==
    Acyclic /\ ~Acyclic'
        => \E h \in Handlers : /\ request[h].op = "reparent"
                              /\ request'[h] = Idle
                              /\ request[h].seen # parent

\* A cycle is closed only by a request that looked at a tree which has changed
\* since.  teams.ts, PATCH.
CycleOnlyByRace == [][CycleByRace]_parent

\* The deletion of a team takes the parent from a sub-team, or leaves a grant
\* to nobody, only when that came about after the check.  teams.ts, DELETE.
NothingReferredToIsDeleted ==
    [][\A t \in Teams : live(t) /\ life'[t] = "gone" /\ References(t) # <<{}, {}>>
          => \E h \in Handlers : /\ request[h].op = "delete" /\ request[h].team = t
                                 /\ request'[h] = Idle /\ request[h].seen # References(t)]_life

Sharing == \E h \in Handlers : request[h].op \in {"grant", "revoke"}

\* Once nobody is sharing, the project is SHARED exactly if somebody has been
\* given access, unless a grant and a revocation ran together: grants among
\* themselves, or revocations, cannot mislead.  projects.ts, POST and DELETE acl.
VisibilityFollows == ~Sharing /\ ~crossed => (visibility = "SHARED" <=> Granted # {})

\* What the comment in POST acl says: the visibility is derived from the grants.
VisibilityDerived == ~Sharing => (visibility = "SHARED" <=> Granted # {})
=============================================================================
