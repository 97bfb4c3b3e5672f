----------------------------- MODULE ProjectAccess -----------------------------
(* Who may change a project: sessions, memberships of one workspace and of   *)
(* its projects, shares, and the transaction that writes source              *)
(* (engine/runtime/postgresStores.ts and the shares of                       *)
(* postgresProductDomain.ts). Looking up an authority locks its rows FOR     *)
(* SHARE until the transaction ends; a change of such a row waits.           *)
EXTENDS Naturals, FiniteSets

CONSTANTS
    Users,
    Founder,        \* the user that owns the workspace
    Sessions,
    UserOf,         \* session -> its user
    Projects,
    Reserved,       \* projects whose ids are reserved for working copies
    Requests,       \* requests for a write that run at the same time
    None,
    Capacity,       \* live projects of the workspace
    MaxEpoch,       \* bound: changes of one membership
    Provisionable,  \* bound: users whose memberships an operator sets
    MaxProvisioned, \* bound: memberships that an operator has set
    MaxWrites       \* bound: source epoch of a project

ASSUME AccessAssumption ==
    /\ Founder \in Users /\ UserOf \in [Sessions -> Users]
    /\ Reserved \subseteq Projects /\ Capacity \in Nat \ {0}

VARIABLES
    session,     \* "unissued", "live", "expired" or "revoked"
    workspace,   \* user -> membership in the workspace
    provisioned, \* how often an operator set a membership
    project,     \* project -> state and source epoch
    member,      \* project -> user -> membership
    share,       \* project -> user -> share
    request      \* requests, by where they are

roleVars == <<workspace, provisioned, member, share>>
accessVars == <<session, roleVars, project, request>>

Role == {"owner", "editor", "viewer"}
NoMembership == [role |-> None, epoch |-> 0, active |-> FALSE]
NoRequest == [step |-> "idle", session |-> None, project |-> None, role |-> None,
              epoch |-> 0, workspaceEpoch |-> 0, base |-> 0]

AccessInit ==
    /\ session = [s \in Sessions |-> "unissued"]
    /\ workspace = [u \in Users |-> IF u = Founder
                        THEN [role |-> "owner", epoch |-> 1, active |-> TRUE] ELSE NoMembership]
    /\ provisioned = 0
    /\ project = [p \in Projects |-> [state |-> "absent", epoch |-> 0]]
    /\ member = [p \in Projects |-> [u \in Users |-> NoMembership]]
    /\ share = [p \in Projects |-> [u \in Users |-> None]]
    /\ request = [r \in Requests |-> NoRequest]
-----------------------------------------------------------------------------
(* What the rows say, and who holds them.                                    *)

Works(s) == session[s] = "live"

\* A membership of the workspace that may create projects there.
Builder(u) == workspace[u].active /\ workspace[u].role \in {"owner", "editor"}

\* The lookup of a grant: project and workspace membership of a live project.
Reaches(s, p) ==
    /\ Works(s)
    /\ project[p].state = "live"
    /\ member[p][UserOf[s]].active /\ workspace[UserOf[s]].active

\* The request's tenure in project and workspace still lasts.
SameGrant(q) ==
    LET u == UserOf[q.session] IN
    /\ member[q.project][u].role = q.role
    /\ member[q.project][u].epoch = q.epoch
    /\ workspace[u].epoch = q.workspaceEpoch
    /\ member[q.project][u].active /\ workspace[u].active

Authorized(q) == Reaches(q.session, q.project) /\ SameGrant(q)

\* Mutant: the locks of the lookup end with the statement, before the commit.
LockingLate == {r \in Requests : request[r].step = "checked"}

Locking == {r \in Requests : request[r].step \in {"checked", "written"}}
SessionLocked(s) == \E r \in Locking : request[r].session = s
WorkspaceLocked(u) == \E r \in Locking : UserOf[request[r].session] = u
MemberLocked(p, u) == \E r \in Locking : request[r].project = p /\ UserOf[request[r].session] = u
ProjectLocked(p) == \E r \in Locking : request[r].project = p

\* The next value of a membership; its epoch tells one tenure from the next.
Renewed(row, role) == [role |-> role, epoch |-> row.epoch + 1, active |-> TRUE]

\* Mutant: a membership that ends keeps its epoch.
EndedInPlace(row) == [row EXCEPT !.active = FALSE]

Ended(row) == [row EXCEPT !.active = FALSE, !.epoch = @ + 1]
-----------------------------------------------------------------------------
(* Sessions.                                                                 *)

IssueSession(s) ==
    /\ session[s] = "unissued"
    /\ session' = [session EXCEPT ![s] = "live"]
    /\ UNCHANGED <<roleVars, project, request>>

SessionExpires(s) ==
    /\ session[s] = "live"
    /\ session' = [session EXCEPT ![s] = "expired"]
    /\ UNCHANGED <<roleVars, project, request>>

RevokeSession(s) ==
    /\ session[s] = "live" /\ ~SessionLocked(s)
    /\ session' = [session EXCEPT ![s] = "revoked"]
    /\ UNCHANGED <<roleVars, project, request>>

\* Ends the user's sessions and lets none be issued again.
RevokeUser(u) ==
    /\ \E s \in Sessions : UserOf[s] = u /\ session[s] # "revoked"
    /\ \A s \in Sessions : UserOf[s] = u => ~SessionLocked(s)
    /\ session' = [s \in Sessions |-> IF UserOf[s] = u THEN "revoked" ELSE session[s]]
    /\ UNCHANGED <<roleVars, project, request>>
-----------------------------------------------------------------------------
(* Memberships, projects and shares.                                         *)

\* An operator provisions a membership, or ends it (role = None).
Provisioned(row, role) ==
    IF role = None THEN [Ended(row) EXCEPT !.role = "viewer"] ELSE Renewed(row, role)

SetWorkspaceMember(u, role) ==
    /\ u \in Provisionable /\ provisioned < MaxProvisioned /\ workspace[u].epoch < MaxEpoch
    /\ ~WorkspaceLocked(u)
    /\ provisioned' = provisioned + 1
    /\ workspace' = [workspace EXCEPT ![u] = Provisioned(@, role)]
    /\ UNCHANGED <<session, member, share, project, request>>

SetMember(p, u, role) ==
    /\ u \in Provisionable /\ provisioned < MaxProvisioned /\ member[p][u].epoch < MaxEpoch
    /\ project[p].state # "absent" /\ ~MemberLocked(p, u)
    /\ provisioned' = provisioned + 1
    /\ member' = [member EXCEPT ![p][u] = Provisioned(@, role)]
    /\ UNCHANGED <<session, workspace, share, project, request>>

LiveProjects == {p \in Projects : project[p].state = "live"}

\* The rows of a new project, owned by u.
Founded(p, u) ==
    /\ project' = [project EXCEPT ![p] = [state |-> "live", epoch |-> 1]]
    /\ member' = [member EXCEPT ![p][u] = [role |-> "owner", epoch |-> 1, active |-> TRUE]]

CreateProject(s, p) ==
    /\ Works(s) /\ Builder(UserOf[s])
    /\ project[p].state = "absent" /\ p \notin Reserved
    /\ Cardinality(LiveProjects) < Capacity
    /\ Founded(p, UserOf[s])
    /\ UNCHANGED <<session, workspace, provisioned, share, request>>

OwnsProject(s, p) == Reaches(s, p) /\ member[p][UserOf[s]].role = "owner"

\* Deleting needs the row for itself; what remains is a tombstone.
RemoveProject(s, p) ==
    /\ OwnsProject(s, p) /\ ~ProjectLocked(p)
    /\ project' = [project EXCEPT ![p].state = "deleted"]
    /\ UNCHANGED <<session, roleVars, request>>

\* Sharing makes the recipient a viewer of the workspace as well; whoever is
\* a member already cannot be shared with. A pair is shared once for ever.
CreateShare(s, p, u, role) ==
    /\ OwnsProject(s, p) /\ UserOf[s] # u
    /\ share[p][u] = None /\ ~workspace[u].active /\ ~member[p][u].active
    /\ workspace[u].epoch < MaxEpoch
    /\ workspace' = [workspace EXCEPT ![u] = Renewed(@, "viewer")]
    /\ member' = [member EXCEPT ![p][u] = Renewed(@, role)]
    /\ share' = [share EXCEPT ![p][u] = [role |-> role, epoch |-> member'[p][u].epoch, revoked |-> FALSE,
                                         workspaceEpoch |-> workspace'[u].epoch]]
    /\ UNCHANGED <<session, provisioned, project, request>>

\* Mutant: whatever tenure the recipient has ends with the share.
EndsAnyTenure(row, role, epoch) == IF row.active THEN Ended(row) ELSE row

\* The share's own tenure, not a later one that an operator gave.
EndsTenure(row, role, epoch) ==
    IF row.active /\ row.role = role /\ row.epoch = epoch THEN Ended(row) ELSE row

\* Mutant: the recipient stays a viewer of the workspace.
RevokeProjectOnly(s, p, u) ==
    /\ OwnsProject(s, p)
    /\ share[p][u] # None /\ ~share[p][u].revoked
    /\ ~MemberLocked(p, u)
    /\ member' = [member EXCEPT ![p][u] = EndsTenure(@, share[p][u].role, share[p][u].epoch)]
    /\ share' = [share EXCEPT ![p][u].revoked = TRUE]
    /\ UNCHANGED <<session, workspace, provisioned, project, request>>

RevokeShare(s, p, u) ==
    /\ OwnsProject(s, p)
    /\ share[p][u] # None /\ ~share[p][u].revoked
    /\ ~MemberLocked(p, u) /\ ~WorkspaceLocked(u)
    /\ member' = [member EXCEPT ![p][u] = EndsTenure(@, share[p][u].role, share[p][u].epoch)]
    /\ workspace' = [workspace EXCEPT ![u] = EndsTenure(@, "viewer", share[p][u].workspaceEpoch)]
    /\ share' = [share EXCEPT ![p][u].revoked = TRUE]
    /\ UNCHANGED <<session, provisioned, project, request>>
-----------------------------------------------------------------------------
(* A write: grant and read in transactions of their own, then one            *)
(* transaction that checks the grant, takes the project, and checks again.   *)

RequestOnly == UNCHANGED <<session, roleVars, project>>
Becomes(r, q) == request' = [request EXCEPT ![r] = q]

Grant(r, s, p) ==
    /\ request[r].step = "idle"
    /\ Reaches(s, p) /\ member[p][UserOf[s]].role \in {"owner", "editor"}
    /\ Becomes(r, [step |-> "granted", session |-> s, project |-> p,
                   role |-> member[p][UserOf[s]].role, epoch |-> member[p][UserOf[s]].epoch,
                   workspaceEpoch |-> workspace[UserOf[s]].epoch, base |-> 0])
    /\ RequestOnly

Read(r) ==
    /\ request[r].step = "granted" /\ Authorized(request[r])
    /\ Becomes(r, [request[r] EXCEPT !.step = "read", !.base = project[request[r].project].epoch])
    /\ RequestOnly

BeginWrite(r) ==
    /\ request[r].step = "read" /\ Authorized(request[r])
    /\ Becomes(r, [request[r] EXCEPT !.step = "checked"])
    /\ RequestOnly

\* FOR UPDATE: two writers that both hold the row FOR SHARE wait for each
\* other until the database ends one of them.
Write(r) ==
    /\ request[r].step = "checked"
    /\ \A other \in Locking \ {r} : request[other].project # request[r].project
    /\ request[r].base = project[request[r].project].epoch
    /\ project[request[r].project].epoch < MaxWrites
    /\ Authorized(request[r])
    /\ Becomes(r, [request[r] EXCEPT !.step = "written"])
    /\ RequestOnly

Commit(r) ==
    /\ request[r].step = "written"
    /\ project' = [project EXCEPT ![request[r].project].epoch = @ + 1]
    /\ Becomes(r, NoRequest)
    /\ UNCHANGED <<session, roleVars>>

\* A refusal, a conflict, a lock timeout, a deadlock victim, a lost process.
Abort(r) ==
    /\ request[r].step # "idle"
    /\ Becomes(r, NoRequest)
    /\ RequestOnly

AccessNext ==
    \/ \E s \in Sessions :
          \/ IssueSession(s) \/ SessionExpires(s) \/ RevokeSession(s)
          \/ \E p \in Projects :
                \/ CreateProject(s, p) \/ RemoveProject(s, p)
                \/ \E u \in Users :
                      RevokeShare(s, p, u) \/ \E role \in {"editor", "viewer"} : CreateShare(s, p, u, role)
    \/ \E u \in Users :
          \/ RevokeUser(u)
          \/ \E role \in Role \cup {None} :
                SetWorkspaceMember(u, role) \/ \E p \in Projects : SetMember(p, u, role)
    \/ \E r \in Requests :
          \/ \E s \in Sessions, p \in Projects : Grant(r, s, p)
          \/ Read(r) \/ BeginWrite(r) \/ Write(r) \/ Commit(r) \/ Abort(r)
-----------------------------------------------------------------------------
(* What must hold.                                                           *)

Membership == [role : Role \cup {None}, epoch : 0..MaxEpoch + 1, active : BOOLEAN]

AccessTypeOK ==
    /\ session \in [Sessions -> {"unissued", "live", "expired", "revoked"}]
    /\ workspace \in [Users -> Membership]
    /\ provisioned \in 0..MaxProvisioned
    /\ project \in [Projects -> [state : {"absent", "live", "deleted"}, epoch : 0..MaxWrites]]
    /\ member \in [Projects -> [Users -> Membership]]
    /\ share \in [Projects -> [Users -> {None} \cup
          [role : {"editor", "viewer"}, epoch : 1..MaxEpoch, workspaceEpoch : 1..MaxEpoch, revoked : BOOLEAN]]]
    /\ request \in [Requests ->
          [step : {"idle", "granted", "read", "checked", "written"},
           session : Sessions \cup {None}, project : Projects \cup {None}, role : Role \cup {None},
           epoch : 0..MaxEpoch, workspaceEpoch : 0..MaxEpoch, base : 0..MaxWrites]]

\* At the moment a write becomes durable, its writer's tenure in project and
\* workspace is the one it began with, nobody was told that its session or its
\* user was revoked, the project is not deleted and nobody else wrote since it
\* was read: a revocation that was answered leaves no write behind it. Only the
\* clock may pass the session's end while the transaction commits (accept and
\* authorize of postgresStores.ts).
WritesAreAuthorized ==
    [][\A p \in Projects :
          project[p].epoch > 0 /\ project'[p].epoch # project[p].epoch =>
             \E r \in Requests :
                LET q == request[r]  u == UserOf[q.session] IN
                /\ q.step = "written" /\ q.project = p /\ q.base = project[p].epoch
                /\ project[p].state = "live"
                /\ session[q.session] # "revoked"
                /\ member[p][u].role \in {"owner", "editor"} /\ SameGrant(q)]_accessVars

\* Once a request's tenure is over, an epoch has moved past the one that its
\* grant carries; as epochs only grow, the grant is never good again, whoever
\* is made a member anew while the request is under way.
GrantsAreFenced ==
    \A r \in Requests :
       LET q == request[r]  u == UserOf[q.session] IN
       q.step # "idle" /\ ~SameGrant(q) =>
          member[q.project][u].epoch > q.epoch \/ workspace[u].epoch > q.workspaceEpoch

\* Nothing of a revoked share is left, in the project or in the workspace.
RevokedShareGrantsNothing ==
    \A p \in Projects, u \in Users :
       share[p][u] # None /\ share[p][u].revoked =>
          /\ ~(member[p][u].active /\ member[p][u].epoch = share[p][u].epoch)
          /\ ~(workspace[u].active /\ workspace[u].epoch = share[p][u].workspaceEpoch)

\* The share of p with u is revoked in this step.
Revoking(p, u) == share[p][u] # None /\ ~share[p][u].revoked /\ share'[p][u].revoked

\* But for an operator, who is a member stays one, in the same role, until the
\* very share is revoked that gave this tenure: a revocation spares what an
\* operator gave the recipient since, what another share gave, and what
\* whoever made the project has of it (revokeProjectShare).
OnlyOwnTenureEnds ==
    [][provisioned' = provisioned =>
          \A u \in Users :
             /\ workspace[u].active /\ workspace'[u] # workspace[u] =>
                   \E p \in Projects :
                      Revoking(p, u) /\ share[p][u].workspaceEpoch = workspace[u].epoch
             /\ \A p \in Projects : member[p][u].active /\ member'[p][u] # member[p][u] =>
                   Revoking(p, u) /\ share[p][u].epoch = member[p][u].epoch]_accessVars
=============================================================================
