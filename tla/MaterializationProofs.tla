------------------------- MODULE MaterializationProofs -------------------------
(* Proofs about Materialization and the ProjectAccess it runs with, for any   *)
(* users, sessions, projects, requests, entitlements and bounds.              *)
EXTENDS Materialization, TLAPS

Row == [role : Role \cup {None}, epoch : Nat, active : BOOLEAN]
ShareRow == [role : {"editor", "viewer"}, epoch : Nat, workspaceEpoch : Nat, revoked : BOOLEAN]
ProjectRow == [state : {"absent", "live", "deleted"}, epoch : Nat]
Request == [step : {"idle", "granted", "read", "checked", "written"},
            session : Sessions \cup {None}, project : Projects \cup {None}, role : Role \cup {None},
            epoch : Nat, workspaceEpoch : Nat, base : Nat]

Typed ==
    /\ session \in [Sessions -> {"unissued", "live", "expired", "revoked"}]
    /\ workspace \in [Users -> Row]
    /\ provisioned \in Nat
    /\ project \in [Projects -> ProjectRow]
    /\ member \in [Projects -> [Users -> Row]]
    /\ share \in [Projects -> [Users -> {None} \cup ShareRow]]
    /\ request \in [Requests -> Request]

\* Nobody has anything of a project that was not made.
AbsentInv ==
    \A p \in Projects : project[p].state = "absent" =>
        /\ project[p].epoch = 0
        /\ \A u \in Users :
              member[p][u].epoch = 0 /\ ~member[p][u].active /\ share[p][u] = None

\* A request under way has a session, a project that was made and a role.
Named ==
    \A r \in Requests : request[r].step # "idle" =>
        /\ request[r].session \in Sessions /\ request[r].project \in Projects
        /\ request[r].role \in {"owner", "editor"}
        /\ project[request[r].project].state # "absent"

Known == Typed /\ AbsentInv /\ Named
-----------------------------------------------------------------------------
(* A membership changes only together with its epoch.                        *)

Moves(old, new) == new = old \/ new.epoch > old.epoch

LEMMA RenewedMoves ==
    ASSUME NEW row \in Row, NEW role \in Role \cup {None}
    PROVE  Renewed(row, role) \in Row /\ Renewed(row, role).epoch > row.epoch
           /\ Renewed(row, role).role = role
  BY DEF Renewed, Row

LEMMA EndedMoves ==
    ASSUME NEW row \in Row
    PROVE  Ended(row) \in Row /\ Ended(row).epoch = row.epoch + 1 /\ ~Ended(row).active
  <1> DEFINE x == [row EXCEPT !.active = FALSE]
             y == [x EXCEPT !.epoch = row.epoch + 1]
  <1>1. row.epoch \in Nat /\ row.epoch + 1 \in Nat  BY DEF Row
  <1>2. x \in Row /\ x.epoch = row.epoch /\ ~x.active  BY DEF Row
  <1>3. Ended(row) = y  BY DEF Ended, Row
  <1> HIDE DEF x
  <1>4. y \in Row /\ y.epoch = row.epoch + 1 /\ y.active = x.active
    BY <1>1, <1>2 DEF Row
  <1> HIDE DEF y
  <1> QED  BY <1>2, <1>3, <1>4

LEMMA ProvisionedMoves ==
    ASSUME NEW row \in Row, NEW role \in Role \cup {None}
    PROVE  Provisioned(row, role) \in Row /\ Provisioned(row, role).epoch > row.epoch
  <1>1. CASE role = None
    <2> DEFINE e == Ended(row)
    <2>1. e \in Row /\ e.epoch = row.epoch + 1  BY EndedMoves
    <2> HIDE DEF e
    <2>2. [e EXCEPT !.role = "viewer"] \in Row /\ [e EXCEPT !.role = "viewer"].epoch = e.epoch
      BY <2>1 DEF Row, Role
    <2>3. row.epoch \in Nat  BY DEF Row
    <2> QED  BY <1>1, <2>1, <2>2, <2>3 DEF Provisioned, e
  <1>2. CASE role # None  BY <1>2, RenewedMoves DEF Provisioned
  <1> QED  BY <1>1, <1>2

LEMMA EndsTenureMoves ==
    ASSUME NEW row \in Row, NEW role, NEW epoch
    PROVE  /\ EndsTenure(row, role, epoch) \in Row
           /\ Moves(row, EndsTenure(row, role, epoch))
           /\ IF row.active /\ row.role = role /\ row.epoch = epoch
              THEN ~EndsTenure(row, role, epoch).active
              ELSE EndsTenure(row, role, epoch) = row
  <1>1. row.epoch \in Nat  BY DEF Row
  <1> QED  BY <1>1, EndedMoves DEF EndsTenure, Moves

\* What a change of one membership of the workspace leaves.
LEMMA WorkspaceUpdate ==
    ASSUME workspace \in [Users -> Row], NEW u \in Users, NEW row \in Row,
           workspace' = [workspace EXCEPT ![u] = row], Moves(workspace[u], row)
    PROVE  /\ workspace' \in [Users -> Row] /\ workspace'[u] = row
           /\ \A v \in Users : Moves(workspace[v], workspace'[v])
           /\ \A v \in Users \ {u} : workspace'[v] = workspace[v]
  BY DEF Moves

RowsMove ==
    /\ \A p \in Projects, u \in Users : Moves(member[p][u], member'[p][u])
    /\ \A u \in Users : Moves(workspace[u], workspace'[u])

\* A project is made once, and whoever makes it is its first member.
ProjectsMove ==
    \A p \in Projects :
        /\ project'[p].state = "absent" => project'[p] = project[p] /\ member'[p] = member[p]
        /\ project[p].state = "absent" => share'[p] = share[p]
        /\ project[p].state # "absent" => project'[p].state # "absent"

\* How a share may change: not at all, by being made, or by being revoked.
ShareMoves(p, u) ==
    \/ share'[p][u] = share[p][u]
    \/ /\ share'[p][u] = [role |-> member'[p][u].role, epoch |-> member'[p][u].epoch, revoked |-> FALSE,
                          workspaceEpoch |-> workspace'[u].epoch]
       /\ workspace'[u].role = "viewer"
    \/ /\ share[p][u] # None
       /\ share'[p][u] = [share[p][u] EXCEPT !.revoked = TRUE]
       /\ member'[p][u] = EndsTenure(member[p][u], share[p][u].role, share[p][u].epoch)
       /\ workspace'[u] = EndsTenure(workspace[u], "viewer", share[p][u].workspaceEpoch)

SharesMove == \A p \in Projects, u \in Users : ShareMoves(p, u)

RowStep == RowsMove /\ ProjectsMove /\ SharesMove

\* What a request that has written holds does not change under it.
LocksHold ==
    \A r \in Requests : request[r].step = "written" =>
        LET q == request[r]  u == UserOf[q.session] IN
        /\ session[q.session] # "revoked" => session'[q.session] # "revoked"
        /\ project[q.project].state = "live" => project'[q.project] = project[q.project]
        /\ SameGrant(q) => member'[q.project][u] = member[q.project][u] /\ workspace'[u] = workspace[u]

RowsOnly == Typed' /\ RowStep /\ LocksHold /\ UNCHANGED request
-----------------------------------------------------------------------------
(* The steps that change sessions, memberships, projects and shares.         *)

LEMMA NothingMoves ==
    ASSUME UNCHANGED <<workspace, member, share, project>>
    PROVE  RowStep
  BY DEF RowStep, RowsMove, ProjectsMove, SharesMove, ShareMoves, Moves

LEMMA FoundedStep ==
    ASSUME Known, NEW p \in Projects, NEW u \in Users, project[p].state = "absent",
           Founded(p, u), UNCHANGED <<session, workspace, provisioned, share, request>>
    PROVE  RowsOnly /\ \A q \in Projects \ {p} : project'[q] = project[q]
  <1> DEFINE row == [role |-> "owner", epoch |-> 1, active |-> TRUE]
  <1>1. row \in Row /\ Moves(member[p][u], row)  BY DEF Row, Role, Moves, AbsentInv, Known
  <1>2. member' = [member EXCEPT ![p][u] = row]  BY DEF Founded
  <1>3. /\ member' \in [Projects -> [Users -> Row]]
        /\ \A q \in Projects, v \in Users : Moves(member[q][v], member'[q][v])
    BY <1>1, <1>2 DEF Typed, Known, Moves
  <1>4. /\ project' \in [Projects -> ProjectRow] /\ project'[p].state = "live"
        /\ \A q \in Projects \ {p} : project'[q] = project[q]
    BY DEF Founded, Typed, ProjectRow, Known
  <1>5. \A q \in Projects \ {p} : member'[q] = member[q]  BY <1>2 DEF Typed, Known
  <1>6. Typed'  BY <1>3, <1>4 DEF Typed, Known
  <1>7. RowStep
    <2>1. RowsMove  BY <1>3 DEF RowsMove, Moves
    <2>2. ProjectsMove  BY <1>4, <1>5 DEF ProjectsMove
    <2>3. SharesMove  BY DEF SharesMove, ShareMoves
    <2> QED  BY <2>1, <2>2, <2>3 DEF RowStep
  <1>8. \A r \in Requests : request[r].step = "written" =>
            request[r].project \in Projects \ {p}
    BY DEF Known, Named
  <1>9. LocksHold  BY <1>4, <1>5, <1>8 DEF LocksHold
  <1> QED  BY <1>4, <1>6, <1>7, <1>9 DEF RowsOnly

LEMMA SetWorkspaceMemberStep ==
    ASSUME Known, NEW u \in Users, NEW role \in Role \cup {None}, SetWorkspaceMember(u, role)
    PROVE  RowsOnly
  <1> DEFINE row == Provisioned(workspace[u], role)
  <1>1. row \in Row /\ Moves(workspace[u], row)  BY ProvisionedMoves DEF Known, Typed, Moves
  <1>2. workspace' = [workspace EXCEPT ![u] = row]  BY DEF SetWorkspaceMember, Known, Typed
  <1> HIDE DEF row
  <1>3. /\ workspace' \in [Users -> Row]
        /\ \A v \in Users : Moves(workspace[v], workspace'[v])
        /\ \A v \in Users \ {u} : workspace'[v] = workspace[v]
    BY <1>1, <1>2, WorkspaceUpdate DEF Known, Typed
  <1>4. Typed'  BY <1>3 DEF SetWorkspaceMember, Known, Typed
  <1>5. RowStep
    BY <1>3 DEF SetWorkspaceMember, RowStep, RowsMove, ProjectsMove, SharesMove, ShareMoves, Moves
  <1>6. \A r \in Requests : request[r].step = "written" => UserOf[request[r].session] \in Users \ {u}
    BY AccessAssumption DEF SetWorkspaceMember, WorkspaceLocked, Locking, Known, Named
  <1>7. LocksHold  BY <1>3, <1>6 DEF LocksHold, SetWorkspaceMember
  <1> QED  BY <1>4, <1>5, <1>7 DEF RowsOnly, SetWorkspaceMember

LEMMA SetMemberStep ==
    ASSUME Known, NEW p \in Projects, NEW u \in Users, NEW role \in Role \cup {None}, SetMember(p, u, role)
    PROVE  RowsOnly
  <1> DEFINE row == Provisioned(member[p][u], role)
  <1>1. row \in Row /\ Moves(member[p][u], row)  BY ProvisionedMoves DEF Known, Typed, Moves
  <1>2. member' = [member EXCEPT ![p][u] = row]  BY DEF SetMember, Known, Typed
  <1> HIDE DEF row
  <1>3. /\ member' \in [Projects -> [Users -> Row]]
        /\ \A q \in Projects, v \in Users : Moves(member[q][v], member'[q][v])
        /\ \A q \in Projects, v \in Users : (q # p \/ v # u) => member'[q][v] = member[q][v]
    <2>1. member \in [Projects -> [Users -> Row]]  BY DEF Known, Typed
    <2> QED  BY <2>1, <1>1, <1>2 DEF Moves
  <1>4. Typed'  BY <1>3 DEF SetMember, Known, Typed
  <1>5. \A q \in Projects \ {p} : member'[q] = member[q]  BY <1>2 DEF Known, Typed
  <1>6. RowStep
    BY <1>3, <1>4, <1>5 DEF SetMember, RowStep, RowsMove, ProjectsMove, SharesMove, ShareMoves, Moves
  <1>7. \A r \in Requests : request[r].step = "written" =>
            /\ request[r].project \in Projects /\ UserOf[request[r].session] \in Users
            /\ request[r].project # p \/ UserOf[request[r].session] # u
    BY AccessAssumption DEF SetMember, MemberLocked, Locking, Known, Named
  <1>8. LocksHold  BY <1>3, <1>7 DEF LocksHold, SetMember
  <1> QED  BY <1>4, <1>6, <1>8 DEF RowsOnly, SetMember

LEMMA CreateShareStep ==
    ASSUME Known, NEW s \in Sessions, NEW p \in Projects, NEW u \in Users,
           NEW role \in {"editor", "viewer"}, CreateShare(s, p, u, role)
    PROVE  RowsOnly
  <1> DEFINE row == Renewed(member[p][u], role)
             wrow == Renewed(workspace[u], "viewer")
             h == [role |-> role, epoch |-> row.epoch, revoked |-> FALSE, workspaceEpoch |-> wrow.epoch]
  <1>1. /\ row \in Row /\ Moves(member[p][u], row) /\ row.role = role
        /\ wrow \in Row /\ Moves(workspace[u], wrow) /\ wrow.role = "viewer"
    BY RenewedMoves DEF Known, Typed, Moves, Role
  <1>2. member' = [member EXCEPT ![p][u] = row] /\ workspace' = [workspace EXCEPT ![u] = wrow]
    BY DEF CreateShare, Known, Typed
  <1>3. /\ member' \in [Projects -> [Users -> Row]] /\ member'[p][u] = row
        /\ \A q \in Projects, v \in Users : Moves(member[q][v], member'[q][v])
        /\ \A q \in Projects, v \in Users : (q # p \/ v # u) => member'[q][v] = member[q][v]
    <2>1. member \in [Projects -> [Users -> Row]]  BY DEF Known, Typed
    <2> HIDE DEF row
    <2> QED  BY <2>1, <1>1, <1>2 DEF Moves
  <1>4. /\ workspace' \in [Users -> Row] /\ workspace'[u] = wrow
        /\ \A v \in Users : Moves(workspace[v], workspace'[v])
        /\ \A v \in Users \ {u} : workspace'[v] = workspace[v]
    <2> HIDE DEF wrow
    <2> QED  BY <1>1, <1>2, WorkspaceUpdate DEF Known, Typed
  <1>5. share' = [share EXCEPT ![p][u] = h]  BY <1>3, <1>4 DEF CreateShare
  <1>6. h \in ShareRow  BY <1>1 DEF ShareRow, Row
  <1>7. /\ share' \in [Projects -> [Users -> {None} \cup ShareRow]] /\ share'[p][u] = h
        /\ \A q \in Projects, v \in Users : (q # p \/ v # u) => share'[q][v] = share[q][v]
        /\ \A q \in Projects \ {p} : share'[q] = share[q] /\ member'[q] = member[q]
    <2> HIDE DEF h, row
    <2> QED  BY <1>2, <1>5, <1>6 DEF Known, Typed
  <1>8. Typed'  BY <1>3, <1>4, <1>7 DEF CreateShare, Known, Typed
  <1>9. project[p].state = "live"  BY DEF CreateShare, OwnsProject, Reaches
  <1>10. SharesMove
    <2> SUFFICES ASSUME NEW q \in Projects, NEW v \in Users  PROVE ShareMoves(q, v)
      BY DEF SharesMove
    <2>1. CASE q # p \/ v # u  BY <2>1, <1>7 DEF ShareMoves
    <2>2. CASE q = p /\ v = u
      BY <2>2, <1>1, <1>3, <1>4, <1>7 DEF ShareMoves
    <2> QED  BY <2>1, <2>2
  <1>11. RowStep  BY <1>3, <1>4, <1>7, <1>9, <1>10 DEF CreateShare, RowStep, RowsMove, ProjectsMove
  <1>12. \A r \in Requests : request[r].step = "written" =>
            /\ request[r].project \in Projects /\ UserOf[request[r].session] \in Users
            /\ SameGrant(request[r]) => UserOf[request[r].session] # u
    BY AccessAssumption DEF CreateShare, SameGrant, Known, Named
  <1>13. LocksHold  BY <1>3, <1>4, <1>12 DEF LocksHold, CreateShare
  <1> QED  BY <1>8, <1>11, <1>13 DEF RowsOnly, CreateShare

LEMMA RevokeShareStep ==
    ASSUME Known, NEW s \in Sessions, NEW p \in Projects, NEW u \in Users, RevokeShare(s, p, u)
    PROVE  RowsOnly
  <1> DEFINE row == EndsTenure(member[p][u], share[p][u].role, share[p][u].epoch)
             wrow == EndsTenure(workspace[u], "viewer", share[p][u].workspaceEpoch)
             h == [share[p][u] EXCEPT !.revoked = TRUE]
  <1>1. /\ row \in Row /\ Moves(member[p][u], row)
        /\ wrow \in Row /\ Moves(workspace[u], wrow)
    BY EndsTenureMoves DEF Known, Typed
  <1>2. member' = [member EXCEPT ![p][u] = row] /\ workspace' = [workspace EXCEPT ![u] = wrow]
    BY DEF RevokeShare, Known, Typed
  <1>3. /\ member' \in [Projects -> [Users -> Row]] /\ member'[p][u] = row
        /\ \A q \in Projects, v \in Users : Moves(member[q][v], member'[q][v])
        /\ \A q \in Projects, v \in Users : (q # p \/ v # u) => member'[q][v] = member[q][v]
    <2>1. member \in [Projects -> [Users -> Row]]  BY DEF Known, Typed
    <2> HIDE DEF row
    <2> QED  BY <2>1, <1>1, <1>2 DEF Moves
  <1>4. /\ workspace' \in [Users -> Row] /\ workspace'[u] = wrow
        /\ \A v \in Users : Moves(workspace[v], workspace'[v])
        /\ \A v \in Users \ {u} : workspace'[v] = workspace[v]
    <2> HIDE DEF wrow
    <2> QED  BY <1>1, <1>2, WorkspaceUpdate DEF Known, Typed
  <1>5. share[p][u] \in ShareRow  BY DEF RevokeShare, Known, Typed
  <1>6. h \in ShareRow  BY <1>5 DEF ShareRow
  <1>7. share' = [share EXCEPT ![p][u] = h]  BY DEF RevokeShare
  <1>8. /\ share' \in [Projects -> [Users -> {None} \cup ShareRow]] /\ share'[p][u] = h
        /\ \A q \in Projects, v \in Users : (q # p \/ v # u) => share'[q][v] = share[q][v]
        /\ \A q \in Projects \ {p} : share'[q] = share[q] /\ member'[q] = member[q]
    <2> HIDE DEF h, row
    <2> QED  BY <1>2, <1>6, <1>7 DEF Known, Typed
  <1>9. Typed'  BY <1>3, <1>4, <1>8 DEF RevokeShare, Known, Typed
  <1>10. project[p].state = "live"  BY DEF RevokeShare, OwnsProject, Reaches
  <1>11. SharesMove
    <2> SUFFICES ASSUME NEW q \in Projects, NEW v \in Users  PROVE ShareMoves(q, v)
      BY DEF SharesMove
    <2>1. CASE q # p \/ v # u  BY <2>1, <1>8 DEF ShareMoves
    <2>2. CASE q = p /\ v = u
      BY <2>2, <1>3, <1>4, <1>8 DEF ShareMoves, RevokeShare
    <2> QED  BY <2>1, <2>2
  <1>12. RowStep  BY <1>3, <1>4, <1>8, <1>10, <1>11 DEF RevokeShare, RowStep, RowsMove, ProjectsMove
  <1>13. \A r \in Requests : request[r].step = "written" =>
            /\ request[r].project \in Projects /\ UserOf[request[r].session] \in Users \ {u}
    BY AccessAssumption DEF RevokeShare, WorkspaceLocked, Locking, Known, Named
  <1>14. LocksHold  BY <1>3, <1>4, <1>13 DEF LocksHold, RevokeShare
  <1> QED  BY <1>9, <1>12, <1>14 DEF RowsOnly, RevokeShare

LEMMA RemoveProjectStep ==
    ASSUME Known, NEW s \in Sessions, NEW p \in Projects, RemoveProject(s, p)
    PROVE  RowsOnly
  <1>1. project[p].state = "live"  BY DEF RemoveProject, OwnsProject, Reaches
  <1>2. /\ project' \in [Projects -> ProjectRow] /\ project'[p].state = "deleted"
        /\ \A q \in Projects \ {p} : project'[q] = project[q]
    BY DEF RemoveProject, Known, Typed, ProjectRow
  <1>3. Typed'  BY <1>2 DEF RemoveProject, Known, Typed, roleVars
  <1>4. RowStep
    BY <1>1, <1>2 DEF RemoveProject, roleVars, RowStep, RowsMove, ProjectsMove, SharesMove, ShareMoves, Moves
  <1>5. \A r \in Requests : request[r].step = "written" => request[r].project \in Projects \ {p}
    BY DEF RemoveProject, ProjectLocked, Locking, Known, Named
  <1>6. LocksHold  BY <1>2, <1>5 DEF LocksHold, RemoveProject, roleVars
  <1> QED  BY <1>3, <1>4, <1>6 DEF RowsOnly, RemoveProject

Sessional ==
    \/ \E s \in Sessions : IssueSession(s) \/ SessionExpires(s) \/ RevokeSession(s)
    \/ \E u \in Users : RevokeUser(u)

LEMMA SessionStep ==
    ASSUME Known, Sessional
    PROVE  RowsOnly /\ UNCHANGED project
  <1>1. UNCHANGED <<workspace, provisioned, member, share, project, request>>
    BY DEF Sessional, IssueSession, SessionExpires, RevokeSession, RevokeUser, roleVars
  <1>2. session' \in [Sessions -> {"unissued", "live", "expired", "revoked"}]
    BY DEF Sessional, IssueSession, SessionExpires, RevokeSession, RevokeUser, Known, Typed
  <1>3. Typed'  BY <1>1, <1>2 DEF Known, Typed
  <1>4. \A t \in Sessions : session[t] # "revoked" /\ session'[t] = "revoked" => ~SessionLocked(t)
    BY DEF Sessional, IssueSession, SessionExpires, RevokeSession, RevokeUser, Known, Typed
  <1>5. \A r \in Requests : request[r].step = "written" =>
           request[r].session \in Sessions /\ SessionLocked(request[r].session)
    BY DEF Known, Named, SessionLocked, Locking
  <1>6. LocksHold  BY <1>1, <1>4, <1>5 DEF LocksHold
  <1> QED  BY <1>1, <1>3, <1>6, NothingMoves DEF RowsOnly
-----------------------------------------------------------------------------
(* The steps of requests.                                                    *)

\* A request that takes a step changes no row, and Commit only its project.
Requested(r) ==
    \/ \E s \in Sessions, p \in Projects : Grant(r, s, p)
    \/ Read(r) \/ BeginWrite(r) \/ Write(r) \/ Abort(r)

\* The grant of a request stays what it was from its first step to its last.
KeepsGrant(r) ==
    \A a \in Requests :
        \/ request'[a] = request[a]
        \/ a = r /\ request'[a].step = "idle"
        \/ /\ a = r /\ request[a].step # "idle" /\ Authorized(request[a])
           /\ \E step \in {"read", "checked", "written"}, base \in Nat :
                 request'[a] = [request[a] EXCEPT !.step = step, !.base = base]
        \/ /\ a = r /\ request'[a].step = "granted"
           /\ request'[a].session \in Sessions /\ request'[a].project \in Projects
           /\ request'[a].role \in {"owner", "editor"}
           /\ Authorized(request'[a])

LEMMA RequestedStep ==
    ASSUME Known, NEW r \in Requests, Requested(r)
    PROVE  request' \in [Requests -> Request] /\ KeepsGrant(r) /\ RequestOnly
  <1>1. request \in [Requests -> Request] /\ request[r] \in Request  BY DEF Known, Typed
  <1>2. CASE \E s \in Sessions, p \in Projects : Grant(r, s, p)
    <2> PICK s \in Sessions, p \in Projects : Grant(r, s, p)  BY <1>2
    <2> DEFINE u == UserOf[s]
               q == [step |-> "granted", session |-> s, project |-> p,
                     role |-> member[p][u].role, epoch |-> member[p][u].epoch,
                     workspaceEpoch |-> workspace[u].epoch, base |-> 0]
    <2>1. u \in Users /\ member[p][u] \in Row /\ workspace[u] \in Row
      BY AccessAssumption DEF Known, Typed
    <2>2. q \in Request /\ q.role \in {"owner", "editor"}  BY <2>1 DEF Grant, Request, Row
    <2>3. Authorized(q)  BY <2>1 DEF Grant, Authorized, SameGrant, Reaches
    <2>4. request' = [request EXCEPT ![r] = q] /\ RequestOnly  BY DEF Grant, Becomes
    <2>5. q.step = "granted" /\ q.session = s /\ q.project = p  OBVIOUS
    <2> HIDE DEF q
    <2>6. request' \in [Requests -> Request] /\ request'[r] = q
          /\ \A a \in Requests \ {r} : request'[a] = request[a]
      BY <2>2, <2>4, <1>1
    <2> QED  BY <2>2, <2>3, <2>4, <2>5, <2>6 DEF KeepsGrant
  <1>3. CASE Abort(r)
    <2>1. NoRequest \in Request /\ NoRequest.step = "idle"  BY DEF NoRequest, Request
    <2> QED  BY <1>3, <2>1, <1>1 DEF Abort, Becomes, KeepsGrant
  <1>4. CASE Read(r) \/ BeginWrite(r) \/ Write(r)
    <2>1. request[r].step # "idle" /\ Authorized(request[r]) /\ RequestOnly
      BY <1>4 DEF Read, BeginWrite, Write
    <2>2. \E step \in {"read", "checked", "written"}, base \in Nat :
              request' = [request EXCEPT ![r] = [request[r] EXCEPT !.step = step, !.base = base]]
      <3>1. CASE Read(r)
        <4>1. request[r].project \in Projects  BY <2>1 DEF Known, Named
        <4>2. project[request[r].project].epoch \in Nat  BY <4>1 DEF Known, Typed, ProjectRow
        <4> QED  BY <3>1, <4>2 DEF Read, Becomes
      <3>2. CASE BeginWrite(r) \/ Write(r)
        <4>1. request[r].base \in Nat  BY <1>1 DEF Request
        <4>2. \A step : [request[r] EXCEPT !.step = step]
                          = [request[r] EXCEPT !.step = step, !.base = request[r].base]
          BY <1>1 DEF Request
        <4> QED  BY <3>2, <4>1, <4>2 DEF BeginWrite, Write, Becomes
      <3> QED  BY <3>1, <3>2, <1>4
    <2> PICK step \in {"read", "checked", "written"}, base \in Nat :
              request' = [request EXCEPT ![r] = [request[r] EXCEPT !.step = step, !.base = base]]
      BY <2>2
    <2> DEFINE q == [request[r] EXCEPT !.step = step, !.base = base]
    <2>3. q \in Request  BY <1>1 DEF Request
    <2>4. request'[r] = q /\ request' \in [Requests -> Request]
          /\ \A a \in Requests \ {r} : request'[a] = request[a]
      BY <2>3, <1>1
    <2> QED  BY <2>1, <2>4 DEF KeepsGrant
  <1> QED  BY <1>2, <1>3, <1>4 DEF Requested

LEMMA CommitStep ==
    ASSUME Known, NEW r \in Requests, Commit(r)
    PROVE  /\ Typed' /\ RowStep /\ UNCHANGED <<session, workspace, member, share>>
           /\ \A a \in Requests \ {r} : request'[a] = request[a]
           /\ request'[r].step = "idle"
           /\ \A p \in Projects : /\ project'[p].state = project[p].state
                                  /\ p # request[r].project => project'[p] = project[p]
  <1>1. request[r].project \in Projects /\ project[request[r].project].state # "absent"
    BY DEF Commit, Known, Named
  <1> DEFINE p == request[r].project
             row == [project[p] EXCEPT !.epoch = @ + 1]
  <1>2. project[p] \in ProjectRow  BY <1>1 DEF Known, Typed
  <1>3. row \in ProjectRow /\ row.state = project[p].state  BY <1>2 DEF ProjectRow
  <1>4. project' = [project EXCEPT ![p] = row]  BY <1>1 DEF Commit, Known, Typed
  <1> HIDE DEF row
  <1>5. /\ project' \in [Projects -> ProjectRow] /\ project'[p].state = project[p].state
        /\ \A o \in Projects \ {p} : project'[o] = project[o]
    BY <1>1, <1>3, <1>4 DEF Known, Typed
  <1>6. NoRequest \in Request /\ NoRequest.step = "idle"  BY DEF NoRequest, Request
  <1>7. /\ request' \in [Requests -> Request] /\ request'[r].step = "idle"
        /\ \A a \in Requests \ {r} : request'[a] = request[a]
    BY <1>6 DEF Commit, Becomes, Known, Typed
  <1>8. Typed'  BY <1>5, <1>7 DEF Commit, Known, Typed, roleVars
  <1>9. RowStep
    <2>1. RowsMove /\ SharesMove  BY DEF Commit, roleVars, RowsMove, Moves, SharesMove, ShareMoves
    <2>2. ProjectsMove  BY <1>1, <1>5 DEF Commit, roleVars, ProjectsMove
    <2> QED  BY <2>1, <2>2 DEF RowStep
  <1> QED  BY <1>5, <1>7, <1>8, <1>9 DEF Commit, roleVars
-----------------------------------------------------------------------------
(* Every step of the module is one of these.                                 *)

\* Projects whose ids are reserved are made by no step of ProjectAccess.
ReservedStay == \A p \in Reserved : (project'[p].state = "absent") = (project[p].state = "absent")

LEMMA AccessStep ==
    ASSUME Known, AccessNext
    PROVE  /\ RowsOnly \/ \E r \in Requests : Requested(r) \/ Commit(r)
           /\ ReservedStay
  <1>1. CASE \E s \in Sessions : IssueSession(s) \/ SessionExpires(s) \/ RevokeSession(s)
    BY <1>1, SessionStep DEF Sessional, ReservedStay
  <1>2. CASE \E u \in Users : RevokeUser(u)
    BY <1>2, SessionStep DEF Sessional, ReservedStay
  <1>3. ASSUME NEW s \in Sessions, NEW p \in Projects, CreateProject(s, p)
        PROVE  RowsOnly /\ ReservedStay
    <2>1. UserOf[s] \in Users  BY AccessAssumption
    <2>2. RowsOnly /\ \A q \in Projects \ {p} : project'[q] = project[q]
      BY <1>3, <2>1, FoundedStep DEF CreateProject
    <2> QED  BY <2>2, <1>3, AccessAssumption DEF CreateProject, ReservedStay
  <1>4. ASSUME NEW s \in Sessions, NEW p \in Projects, RemoveProject(s, p)
        PROVE  RowsOnly /\ ReservedStay
    <2>1. RowsOnly  BY <1>4, RemoveProjectStep
    <2>2. project[p].state = "live" /\ project'[p].state = "deleted"
          /\ \A q \in Projects \ {p} : project'[q] = project[q]
      BY <1>4 DEF RemoveProject, OwnsProject, Reaches, Known, Typed, ProjectRow
    <2> QED  BY <2>1, <2>2, AccessAssumption DEF ReservedStay
  <1>5. ASSUME NEW s \in Sessions, NEW p \in Projects, NEW u \in Users, RevokeShare(s, p, u)
        PROVE  RowsOnly /\ ReservedStay
    BY <1>5, RevokeShareStep DEF RevokeShare, ReservedStay
  <1>6. ASSUME NEW s \in Sessions, NEW p \in Projects, NEW u \in Users,
               NEW role \in {"editor", "viewer"}, CreateShare(s, p, u, role)
        PROVE  RowsOnly /\ ReservedStay
    BY <1>6, CreateShareStep DEF CreateShare, ReservedStay
  <1>7. ASSUME NEW u \in Users, NEW role \in Role \cup {None}, SetWorkspaceMember(u, role)
        PROVE  RowsOnly /\ ReservedStay
    BY <1>7, SetWorkspaceMemberStep DEF SetWorkspaceMember, ReservedStay
  <1>8. ASSUME NEW u \in Users, NEW role \in Role \cup {None}, NEW p \in Projects, SetMember(p, u, role)
        PROVE  RowsOnly /\ ReservedStay
    BY <1>8, SetMemberStep DEF SetMember, ReservedStay
  <1>9. ASSUME NEW r \in Requests, Requested(r)  PROVE ReservedStay
    BY <1>9, RequestedStep DEF RequestOnly, ReservedStay
  <1>10. ASSUME NEW r \in Requests, Commit(r)  PROVE ReservedStay
    BY <1>10, CommitStep, AccessAssumption DEF ReservedStay
  <1> QED
    BY <1>1, <1>2, <1>3, <1>4, <1>5, <1>6, <1>7, <1>8, <1>9, <1>10 DEF AccessNext, Requested

\* What the steps about copies do to a project.
LEMMA MakesStep ==
    ASSUME Known, NEW e \in Entitlements, Makes(e)
    PROVE  /\ RowsOnly /\ project[CopyOf[e]].state = "absent" /\ project'[CopyOf[e]].state = "live"
           /\ \A q \in Projects \ {CopyOf[e]} : project'[q] = project[q]
  <1>1. CopyOf[e] \in Projects /\ BuyerOf[e] \in Users  BY AccessAssumption, CopyAssumption
  <1>2. project'[CopyOf[e]].state = "live"  BY <1>1 DEF Makes, Founded, Known, Typed
  <1> QED  BY <1>1, <1>2, FoundedStep DEF Makes

LEMMA CopyStep ==
    ASSUME CopyNext
    PROVE  CopyOnly \/ \E e \in Entitlements : Makes(e)
  <1>1. ASSUME NEW e \in Entitlements, Reconciled(e)  PROVE CopyOnly \/ Makes(e)
    BY <1>1 DEF Reconciled
  <1> QED
    BY <1>1 DEF CopyNext, Sweep, SweepBegins, SweepMarksFailed, SweepReconciles, SweepStumbles,
                GrantEntitlement, EndEntitlement, ReserveReconciles, ReserveStops, Reserve, MakeAtOnce
-----------------------------------------------------------------------------
(* The inductive invariant, part by part.                                    *)

\* A share carries the epochs of the memberships it gave; who still has one of
\* them has it in the share's role.
Shares ==
    \A p \in Projects, u \in Users : share[p][u] # None =>
        /\ share[p][u].epoch <= member[p][u].epoch
        /\ share[p][u].workspaceEpoch <= workspace[u].epoch
        /\ share[p][u].epoch = member[p][u].epoch => member[p][u].role = share[p][u].role
        /\ share[p][u].workspaceEpoch = workspace[u].epoch => workspace[u].role = "viewer"

\* A request that has written holds all its grant says, and its project alone.
Written ==
    \A r \in Requests : request[r].step = "written" =>
        /\ project[request[r].project].state = "live"
        /\ request[r].base = project[request[r].project].epoch
        /\ session[request[r].session] # "revoked"
        /\ SameGrant(request[r])
        /\ \A o \in Requests \ {r} :
              request[o].step = "written" => request[o].project # request[r].project

Copies ==
    /\ copy \in [Entitlements -> {"none", "pending", "ready", "failed"}]
    /\ ReadyMeansMade

LEMMA KnownKept ==
    ASSUME Known, Typed', RowStep, UNCHANGED request
    PROVE  Known'
  <1>1. AbsentInv'  BY DEF Known, AbsentInv, RowStep, ProjectsMove
  <1>2. Named'  BY DEF Known, Named, RowStep, ProjectsMove
  <1> QED  BY <1>1, <1>2 DEF Known

LEMMA SharesKept ==
    ASSUME Typed, Typed', RowStep, Shares, RevokedShareGrantsNothing
    PROVE  Shares' /\ RevokedShareGrantsNothing'
  <1> SUFFICES ASSUME NEW p \in Projects, NEW u \in Users, share'[p][u] # None
               PROVE  /\ share'[p][u].epoch <= member'[p][u].epoch
                      /\ share'[p][u].workspaceEpoch <= workspace'[u].epoch
                      /\ share'[p][u].epoch = member'[p][u].epoch => member'[p][u].role = share'[p][u].role
                      /\ share'[p][u].workspaceEpoch = workspace'[u].epoch => workspace'[u].role = "viewer"
                      /\ share'[p][u].revoked =>
                            /\ ~(member'[p][u].active /\ member'[p][u].epoch = share'[p][u].epoch)
                            /\ ~(workspace'[u].active /\ workspace'[u].epoch = share'[p][u].workspaceEpoch)
    BY DEF Shares, RevokedShareGrantsNothing
  <1>1. /\ member[p][u] \in Row /\ member'[p][u] \in Row
        /\ workspace[u] \in Row /\ workspace'[u] \in Row
        /\ share'[p][u] \in ShareRow /\ (share[p][u] # None => share[p][u] \in ShareRow)
    BY DEF Typed
  <1>2. /\ member[p][u].epoch \in Nat /\ member'[p][u].epoch \in Nat
        /\ workspace[u].epoch \in Nat /\ workspace'[u].epoch \in Nat
        /\ share'[p][u].epoch \in Nat /\ share'[p][u].workspaceEpoch \in Nat
    BY <1>1 DEF Row, ShareRow
  <1>3. Moves(member[p][u], member'[p][u]) /\ Moves(workspace[u], workspace'[u]) /\ ShareMoves(p, u)
    BY DEF RowStep, RowsMove, SharesMove
  <1>4. CASE share'[p][u] = share[p][u]
    BY <1>2, <1>3, <1>4 DEF Moves, Shares, RevokedShareGrantsNothing
  <1>5. CASE /\ share'[p][u] = [role |-> member'[p][u].role, epoch |-> member'[p][u].epoch, revoked |-> FALSE,
                                workspaceEpoch |-> workspace'[u].epoch]
             /\ workspace'[u].role = "viewer"
    BY <1>2, <1>5
  <1>6. CASE /\ share[p][u] # None
             /\ share'[p][u] = [share[p][u] EXCEPT !.revoked = TRUE]
             /\ member'[p][u] = EndsTenure(member[p][u], share[p][u].role, share[p][u].epoch)
             /\ workspace'[u] = EndsTenure(workspace[u], "viewer", share[p][u].workspaceEpoch)
    <2>1. /\ share'[p][u].epoch = share[p][u].epoch /\ share'[p][u].role = share[p][u].role
          /\ share'[p][u].workspaceEpoch = share[p][u].workspaceEpoch
      BY <1>1, <1>6 DEF ShareRow
    <2>2. IF /\ member[p][u].active /\ member[p][u].role = share[p][u].role
             /\ member[p][u].epoch = share[p][u].epoch
          THEN ~member'[p][u].active ELSE member'[p][u] = member[p][u]
      BY <1>1, <1>6, EndsTenureMoves
    <2>3. IF /\ workspace[u].active /\ workspace[u].role = "viewer"
             /\ workspace[u].epoch = share[p][u].workspaceEpoch
          THEN ~workspace'[u].active ELSE workspace'[u] = workspace[u]
      BY <1>1, <1>6, EndsTenureMoves
    <2>4. /\ share[p][u].epoch <= member[p][u].epoch
          /\ share[p][u].workspaceEpoch <= workspace[u].epoch
          /\ share[p][u].epoch = member[p][u].epoch => member[p][u].role = share[p][u].role
          /\ share[p][u].workspaceEpoch = workspace[u].epoch => workspace[u].role = "viewer"
      BY <1>6 DEF Shares
    <2> QED  BY <1>2, <1>3, <2>1, <2>2, <2>3, <2>4 DEF Moves
  <1> QED  BY <1>3, <1>4, <1>5, <1>6 DEF ShareMoves

LEMMA FencedKept ==
    ASSUME Known, Typed', RowStep, UNCHANGED request, GrantsAreFenced
    PROVE  GrantsAreFenced'
  <1> SUFFICES ASSUME NEW r \in Requests, request[r].step # "idle"
               PROVE  ~SameGrant(request[r])' =>
                         \/ member'[request[r].project][UserOf[request[r].session]].epoch > request[r].epoch
                         \/ workspace'[UserOf[request[r].session]].epoch > request[r].workspaceEpoch
    BY DEF GrantsAreFenced
  <1> DEFINE q == request[r]
             u == UserOf[q.session]
  <1>1. q.project \in Projects /\ u \in Users  BY AccessAssumption DEF Known, Named
  <1>2. /\ member[q.project][u].epoch \in Nat /\ member'[q.project][u].epoch \in Nat
        /\ workspace[u].epoch \in Nat /\ workspace'[u].epoch \in Nat
        /\ q.epoch \in Nat /\ q.workspaceEpoch \in Nat
    BY <1>1 DEF Known, Typed, Row, Request
  <1>3. Moves(member[q.project][u], member'[q.project][u]) /\ Moves(workspace[u], workspace'[u])
    BY <1>1 DEF RowStep, RowsMove
  <1>4. \/ SameGrant(q) \/ member[q.project][u].epoch > q.epoch \/ workspace[u].epoch > q.workspaceEpoch
    BY DEF GrantsAreFenced
  <1>5. CASE member[q.project][u].epoch > q.epoch \/ workspace[u].epoch > q.workspaceEpoch
    BY <1>2, <1>3, <1>5 DEF Moves
  <1>6. CASE SameGrant(q)
    <2>1. member[q.project][u].epoch = q.epoch /\ workspace[u].epoch = q.workspaceEpoch
      BY <1>6 DEF SameGrant
    <2>2. CASE member'[q.project][u] = member[q.project][u] /\ workspace'[u] = workspace[u]
      BY <1>6, <2>2 DEF SameGrant
    <2> QED  BY <1>3, <2>1, <2>2 DEF Moves
  <1> QED  BY <1>4, <1>5, <1>6

LEMMA WrittenKept ==
    ASSUME LocksHold, UNCHANGED request, Written
    PROVE  Written'
  <1> SUFFICES ASSUME NEW r \in Requests, request[r].step = "written"
               PROVE  /\ project'[request[r].project].state = "live"
                      /\ request[r].base = project'[request[r].project].epoch
                      /\ session'[request[r].session] # "revoked"
                      /\ SameGrant(request[r])'
                      /\ \A o \in Requests \ {r} :
                            request[o].step = "written" => request[o].project # request[r].project
    BY DEF Written
  <1> DEFINE q == request[r]
             u == UserOf[q.session]
  <1>1. /\ project[q.project].state = "live" /\ q.base = project[q.project].epoch
        /\ session[q.session] # "revoked" /\ SameGrant(q)
        /\ \A o \in Requests \ {r} : request[o].step = "written" => request[o].project # q.project
    BY DEF Written
  <1>2. /\ session'[q.session] # "revoked" /\ project'[q.project] = project[q.project]
        /\ member'[q.project][u] = member[q.project][u] /\ workspace'[u] = workspace[u]
    BY <1>1 DEF LocksHold
  <1>3. SameGrant(q)'  BY <1>1, <1>2 DEF SameGrant
  <1> QED  BY <1>1, <1>2, <1>3

LEMMA RequestedKeeps ==
    ASSUME Known, GrantsAreFenced, Written, NEW r \in Requests, Requested(r)
    PROVE  Known' /\ GrantsAreFenced' /\ Written'
  <1>1. request' \in [Requests -> Request] /\ KeepsGrant(r)  BY RequestedStep
  <1>2. UNCHANGED <<session, workspace, provisioned, member, share, project>>
    BY RequestedStep DEF RequestOnly, roleVars
  <1>3. \A a \in Requests : request[a] \in Request  BY DEF Known, Typed
  <1>4. \A a \in Requests : request'[a].step = "idle"
           \/ request'[a] = request[a]
           \/ /\ Authorized(request'[a])
              /\ request'[a].session \in Sessions /\ request'[a].project \in Projects
              /\ request'[a].role \in {"owner", "editor"}
    <2> SUFFICES ASSUME NEW a \in Requests, request'[a].step # "idle", request'[a] # request[a]
                 PROVE  /\ Authorized(request'[a])
                        /\ request'[a].session \in Sessions /\ request'[a].project \in Projects
                        /\ request'[a].role \in {"owner", "editor"}
      OBVIOUS
    <2>1. CASE request'[a].step = "granted" /\ Authorized(request'[a])
               /\ request'[a].session \in Sessions /\ request'[a].project \in Projects
               /\ request'[a].role \in {"owner", "editor"}
      BY <2>1
    <2>2. CASE /\ request[a].step # "idle" /\ Authorized(request[a])
               /\ \E step \in {"read", "checked", "written"}, base \in Nat :
                     request'[a] = [request[a] EXCEPT !.step = step, !.base = base]
      <3>1. /\ request'[a].session = request[a].session /\ request'[a].project = request[a].project
            /\ request'[a].role = request[a].role /\ request'[a].epoch = request[a].epoch
            /\ request'[a].workspaceEpoch = request[a].workspaceEpoch
        BY <1>3, <2>2 DEF Request
      <3>2. /\ request[a].session \in Sessions /\ request[a].project \in Projects
            /\ request[a].role \in {"owner", "editor"}
        BY <2>2 DEF Known, Named
      <3> QED  BY <2>2, <3>1, <3>2 DEF Authorized, SameGrant
    <2> QED  BY <1>1, <2>1, <2>2 DEF KeepsGrant
  <1>5. Typed'  BY <1>1, <1>2 DEF Known, Typed
  <1>6. AbsentInv'  BY <1>2 DEF Known, AbsentInv
  <1>7. Named'
    BY <1>2, <1>4 DEF Known, Named, Authorized, Reaches
  <1>8. GrantsAreFenced'
    BY <1>2, <1>4 DEF GrantsAreFenced, Authorized, SameGrant
  <1>9. Written'
    <2>1. CASE Write(r)
      <3>1. request' = [request EXCEPT ![r] = [request[r] EXCEPT !.step = "written"]]
        BY <2>1 DEF Write, Becomes
      <3>2. /\ \A a \in Requests \ {r} : request'[a] = request[a]
            /\ request'[r].session = request[r].session /\ request'[r].project = request[r].project
            /\ request'[r].role = request[r].role /\ request'[r].epoch = request[r].epoch
            /\ request'[r].workspaceEpoch = request[r].workspaceEpoch /\ request'[r].base = request[r].base
        BY <1>3, <3>1 DEF Known, Typed, Request
      <3>3. /\ \A a \in Requests \ {r} :
                  request[a].step = "written" => request[a].project # request[r].project
            /\ request[r].base = project[request[r].project].epoch
            /\ Authorized(request[r])
        BY <2>1 DEF Write, Locking
      <3>4. /\ project[request[r].project].state = "live"
            /\ session[request[r].session] # "revoked" /\ SameGrant(request[r])
        BY <3>3 DEF Authorized, Reaches, Works
      <3>5. SameGrant(request[r])'
        BY <1>2, <3>2, <3>4 DEF SameGrant
      <3> SUFFICES ASSUME NEW a \in Requests, request'[a].step = "written"
                   PROVE  /\ project'[request'[a].project].state = "live"
                          /\ request'[a].base = project'[request'[a].project].epoch
                          /\ session'[request'[a].session] # "revoked"
                          /\ SameGrant(request[a])'
                          /\ \A o \in Requests \ {a} :
                                request'[o].step = "written" => request'[o].project # request'[a].project
        BY DEF Written
      <3>6. CASE a = r  BY <1>2, <3>2, <3>3, <3>4, <3>5, <3>6
      <3>7. CASE a # r
        <4>1. request'[a] = request[a]  BY <3>2, <3>7
        <4>2. /\ project[request[a].project].state = "live"
              /\ request[a].base = project[request[a].project].epoch
              /\ session[request[a].session] # "revoked"
              /\ SameGrant(request[a])
              /\ \A o \in Requests \ {a} :
                    request[o].step = "written" => request[o].project # request[a].project
              /\ request[a].project # request[r].project
          BY <4>1, <3>3, <3>7 DEF Written
        <4>3. SameGrant(request[a])'  BY <1>2, <4>1, <4>2 DEF SameGrant
        <4> QED  BY <1>2, <3>2, <4>1, <4>2, <4>3
      <3> QED  BY <3>6, <3>7
    <2>2. CASE ~Write(r)
      <3>1. \A a \in Requests : request'[a].step = "written" => request'[a] = request[a]
        <4>1. PICK q : request' = [request EXCEPT ![r] = q] /\ q.step # "written"
          <5>1. CASE Read(r) \/ BeginWrite(r)
            <6>1. CASE Read(r)
              <7> DEFINE q == [request[r] EXCEPT !.step = "read", !.base = project[request[r].project].epoch]
              <7>1. q.step = "read"  BY <1>3 DEF Request
              <7>2. request' = [request EXCEPT ![r] = q]  BY <6>1 DEF Read, Becomes
              <7> HIDE DEF q
              <7> QED  BY <7>1, <7>2
            <6>2. CASE BeginWrite(r)
              <7> DEFINE q == [request[r] EXCEPT !.step = "checked"]
              <7>1. q.step = "checked"  BY <1>3 DEF Request
              <7>2. request' = [request EXCEPT ![r] = q]  BY <6>2 DEF BeginWrite, Becomes
              <7> HIDE DEF q
              <7> QED  BY <7>1, <7>2
            <6> QED  BY <5>1, <6>1, <6>2
          <5>2. CASE Abort(r)
            <6>1. NoRequest.step = "idle"  BY DEF NoRequest
            <6>2. request' = [request EXCEPT ![r] = NoRequest]  BY <5>2 DEF Abort, Becomes
            <6> QED  BY <6>1, <6>2
          <5>3. CASE \E s \in Sessions, p \in Projects : Grant(r, s, p)
            BY <5>3 DEF Grant, Becomes
          <5> QED  BY <2>2, <5>1, <5>2, <5>3 DEF Requested
        <4> QED  BY <4>1 DEF Known, Typed
      <3> QED  BY <1>2, <3>1 DEF Written, SameGrant
    <2> QED  BY <2>1, <2>2
  <1> QED  BY <1>5, <1>6, <1>7, <1>8, <1>9 DEF Known

LEMMA CommitKeeps ==
    ASSUME Known, GrantsAreFenced, Written, NEW r \in Requests, Commit(r)
    PROVE  Known' /\ GrantsAreFenced' /\ Written'
  <1>1. /\ Typed' /\ RowStep /\ UNCHANGED <<session, workspace, member, share>>
        /\ \A a \in Requests \ {r} : request'[a] = request[a]
        /\ request'[r].step = "idle"
        /\ \A p \in Projects : /\ project'[p].state = project[p].state
                               /\ p # request[r].project => project'[p] = project[p]
    BY CommitStep
  <1>2. AbsentInv'
    <2>1. request[r].project \in Projects /\ project[request[r].project].state # "absent"
      BY DEF Commit, Known, Named
    <2> QED  BY <1>1, <2>1 DEF Known, AbsentInv
  <1>3. Named'  BY <1>1 DEF Known, Named
  <1>4. GrantsAreFenced'  BY <1>1 DEF GrantsAreFenced, SameGrant
  <1>5. Written'
    <2>1. \A a \in Requests \ {r} : request[a].step = "written" =>
              request[a].project \in Projects /\ request[a].project # request[r].project
      BY DEF Known, Named, Commit, Written
    <2> QED  BY <1>1, <2>1 DEF Written, SameGrant
  <1> QED  BY <1>1, <1>2, <1>3, <1>4, <1>5 DEF Known
-----------------------------------------------------------------------------
(* The theorems.                                                             *)

Inv == Known /\ Shares /\ RevokedShareGrantsNothing /\ GrantsAreFenced /\ Written /\ Copies

LEMMA InitInv ==
    ASSUME Init  PROVE Inv
  <1>1. Typed
    BY DEF Init, AccessInit, Typed, Row, Role, ProjectRow, ShareRow, Request, NoMembership, NoRequest
  <1>2. AbsentInv  BY DEF Init, AccessInit, AbsentInv, NoMembership
  <1>3. /\ Named /\ GrantsAreFenced /\ Written
    BY DEF Init, AccessInit, Named, GrantsAreFenced, Written, NoRequest
  <1>4. Shares /\ RevokedShareGrantsNothing
    BY DEF Init, AccessInit, Shares, RevokedShareGrantsNothing
  <1>5. Copies
    BY AccessAssumption, CopyAssumption DEF Init, AccessInit, Copies, ReadyMeansMade
  <1> QED  BY <1>1, <1>2, <1>3, <1>4, <1>5 DEF Inv, Known

LEMMA RowsKeep ==
    ASSUME Inv, RowsOnly
    PROVE  Known' /\ Shares' /\ RevokedShareGrantsNothing' /\ GrantsAreFenced' /\ Written'
  <1>1. Known'  BY KnownKept DEF Inv, RowsOnly
  <1>2. Shares' /\ RevokedShareGrantsNothing'  BY SharesKept DEF Inv, RowsOnly, Known
  <1>3. GrantsAreFenced'  BY FencedKept DEF Inv, RowsOnly
  <1>4. Written'  BY WrittenKept DEF Inv, RowsOnly
  <1> QED  BY <1>1, <1>2, <1>3, <1>4

LEMMA CopiesKept ==
    ASSUME Inv, CopyNext
    PROVE  Copies'
  <1>1. copy' \in [Entitlements -> {"none", "pending", "ready", "failed"}]
    BY DEF Inv, Copies, CopyNext, Sweep, SweepBegins, SweepMarksFailed, MarksFailed, SweepReconciles,
           SweepStumbles, Reconciled, Makes, GrantEntitlement, EndEntitlement, ReserveReconciles,
           ReserveStops, Reserve, MakeAtOnce
  <1>2. CASE \E e \in Entitlements : Makes(e)
    <2> PICK e \in Entitlements : Makes(e)  BY <1>2
    <2>1. /\ project'[CopyOf[e]].state = "live"
          /\ \A q \in Projects \ {CopyOf[e]} : project'[q] = project[q]
      BY MakesStep DEF Inv
    <2>2. copy'[e] = "ready" /\ \A f \in Entitlements \ {e} : copy'[f] = copy[f]
      BY DEF Makes, Inv, Copies
    <2>3. \A f \in Entitlements \ {e} : CopyOf[f] \in Projects \ {CopyOf[e]}
      BY AccessAssumption, CopyAssumption
    <2> QED  BY <1>1, <2>1, <2>2, <2>3 DEF Inv, Copies, ReadyMeansMade
  <1>3. CASE CopyOnly /\ \A e \in Entitlements : ~Makes(e)
    <2>1. \A e \in Entitlements : (copy'[e] = "ready") = (copy[e] = "ready")
      BY <1>3 DEF Inv, Copies, CopyNext, Sweep, SweepBegins, SweepMarksFailed, MarksFailed, SweepReconciles,
           SweepStumbles, Reconciled, GrantEntitlement, EndEntitlement, ReserveReconciles,
           ReserveStops, Reserve, MakeAtOnce
    <2> QED  BY <1>1, <1>3, <2>1 DEF Inv, Copies, ReadyMeansMade, CopyOnly, accessVars
  <1> QED  BY <1>2, <1>3, CopyStep

LEMMA NextInv ==
    ASSUME Inv, [Next]_vars  PROVE Inv'
  <1>1. CASE UNCHANGED accessVars /\ Copies'
    <2>1. UNCHANGED <<session, workspace, provisioned, member, share, project, request>>
      BY <1>1 DEF accessVars, roleVars
    <2>2. Known'
      <3>1. Typed' /\ AbsentInv'  BY <2>1 DEF Inv, Known, Typed, AbsentInv
      <3>2. Named'  BY <2>1 DEF Inv, Known, Named
      <3> QED  BY <3>1, <3>2 DEF Known
    <2>3. Shares' /\ RevokedShareGrantsNothing'  BY <2>1 DEF Inv, Shares, RevokedShareGrantsNothing
    <2>4. GrantsAreFenced'  BY <2>1 DEF Inv, GrantsAreFenced, SameGrant
    <2>5. Written'  BY <2>1 DEF Inv, Written, SameGrant
    <2> QED  BY <1>1, <2>2, <2>3, <2>4, <2>5 DEF Inv
  <1>2. CASE UNCHANGED vars
    <2>1. UNCHANGED accessVars /\ Copies'
      BY <1>2 DEF Inv, vars, copyVars, accessVars, Copies, ReadyMeansMade
    <2> QED  BY <1>1, <2>1
  <1>3. CASE CopyNext
    <2>1. Copies'  BY <1>3, CopiesKept
    <2>2. ASSUME NEW e \in Entitlements, Makes(e)  PROVE Inv'
      <3>1. RowsOnly  BY <2>2, MakesStep DEF Inv
      <3> QED  BY <2>1, <3>1, RowsKeep DEF Inv
    <2> QED  BY <1>1, <1>3, <2>1, <2>2, CopyStep DEF CopyOnly
  <1>4. CASE AccessNext /\ AccessOnly
    <2>1. Copies'
      <3>1. ReservedStay  BY <1>4, AccessStep DEF Inv
      <3> QED  BY <1>4, <3>1, CopyAssumption DEF Inv, Copies, ReadyMeansMade, ReservedStay, AccessOnly, copyVars
    <2>2. CASE RowsOnly  BY <2>1, <2>2, RowsKeep DEF Inv
    <2>3. ASSUME NEW r \in Requests, Requested(r)  PROVE Inv'
      <3>1. Known' /\ GrantsAreFenced' /\ Written'  BY <2>3, RequestedKeeps DEF Inv
      <3>2. UNCHANGED <<workspace, member, share>>
        BY <2>3, RequestedStep DEF Inv, RequestOnly, roleVars
      <3> QED  BY <2>1, <3>1, <3>2 DEF Inv, Shares, RevokedShareGrantsNothing
    <2>4. ASSUME NEW r \in Requests, Commit(r)  PROVE Inv'
      <3>1. Known' /\ GrantsAreFenced' /\ Written'  BY <2>4, CommitKeeps DEF Inv
      <3>2. UNCHANGED <<workspace, member, share>>  BY <2>4, CommitStep DEF Inv
      <3> QED  BY <2>1, <3>1, <3>2 DEF Inv, Shares, RevokedShareGrantsNothing
    <2> QED  BY <1>4, <2>2, <2>3, <2>4, AccessStep DEF Inv
  <1> QED  BY <1>2, <1>3, <1>4 DEF Next

\* The inductive invariant: what the rows and requests are, what a share says of
\* the memberships it gave, what a request that has written holds.
LEMMA Invariance == Spec => []Inv
  <1> QED  BY InitInv, NextInv, PTL DEF Spec

\* Whoever had a share and lost it keeps nothing that the share gave, in the
\* project or in the workspace (revokeProjectShare of postgresProductDomain.ts),
\* for any number of users, projects and memberships.
THEOREM RevokedSharesAreEmpty == Spec => []RevokedShareGrantsNothing
  BY Invariance, PTL DEF Inv

\* A grant whose tenure is over is told apart by its epochs, however often the
\* memberships are given and taken while the request is under way (lookup and
\* authorize of postgresStores.ts).
THEOREM StaleGrantsAreFenced == Spec => []GrantsAreFenced
  BY Invariance, PTL DEF Inv

\* A working copy is called ready exactly when its project was made, whatever
\* the sweeper, the requests and the Worker do to it together (reconcileOne and
\* markFailed of postgresProductDomain.ts).
THEOREM ReadyCopiesAreMade == Spec => []ReadyMeansMade
  BY Invariance, PTL DEF Inv, Copies

LEMMA EpochStep ==
    ASSUME Inv, [Next]_vars, NEW p \in Projects, project[p].epoch > 0,
           project'[p].epoch # project[p].epoch
    PROVE  \E r \in Requests : Commit(r) /\ request[r].project = p
  <1>1. project[p].epoch \in Nat /\ project[p].state # "absent"
    BY DEF Inv, Known, Typed, ProjectRow, AbsentInv
  <1>2. CASE UNCHANGED project  BY <1>2
  <1>3. ASSUME NEW e \in Entitlements, Makes(e)  PROVE FALSE
    BY <1>1, <1>3, MakesStep DEF Inv
  <1>4. ASSUME NEW s \in Sessions, NEW q \in Projects, CreateProject(s, q)  PROVE FALSE
    <2>1. UserOf[s] \in Users  BY AccessAssumption
    <2> QED  BY <1>1, <1>4, <2>1, FoundedStep DEF CreateProject, Inv
  <1>5. ASSUME NEW s \in Sessions, NEW q \in Projects, RemoveProject(s, q)  PROVE FALSE
    BY <1>5 DEF RemoveProject, Inv, Known, Typed, ProjectRow
  <1>6. ASSUME NEW r \in Requests, Commit(r)  PROVE request[r].project = p
    BY <1>6, CommitStep DEF Inv
  <1>7. CASE CopyNext  BY <1>2, <1>3, <1>7, CopyStep DEF CopyOnly, accessVars
  <1>8. CASE AccessNext
    <2>1. CASE \E s \in Sessions : IssueSession(s) \/ SessionExpires(s) \/ RevokeSession(s)
      BY <1>2, <2>1 DEF IssueSession, SessionExpires, RevokeSession
    <2>2. CASE \E s \in Sessions, q \in Projects, u \in Users :
                  RevokeShare(s, q, u) \/ \E role \in {"editor", "viewer"} : CreateShare(s, q, u, role)
      BY <1>2, <2>2 DEF RevokeShare, CreateShare
    <2>3. CASE \E u \in Users :
                  \/ RevokeUser(u)
                  \/ \E role \in Role \cup {None} :
                        SetWorkspaceMember(u, role) \/ \E q \in Projects : SetMember(q, u, role)
      BY <1>2, <2>3 DEF RevokeUser, SetWorkspaceMember, SetMember
    <2>4. CASE \E r \in Requests : Requested(r)
      BY <1>2, <2>4 DEF Requested, Grant, Read, BeginWrite, Write, Abort, RequestOnly
    <2> QED  BY <1>4, <1>5, <1>6, <1>8, <2>1, <2>2, <2>3, <2>4 DEF AccessNext, Requested
  <1> QED  BY <1>2, <1>7, <1>8 DEF Next, vars, accessVars

\* A write that becomes durable is its writer's by the very tenure it began
\* with, in project and workspace, and on the source it read: a revocation that
\* was answered leaves no write behind it (authorize and accept of
\* postgresStores.ts), whatever the number of requests.
THEOREM OnlyAuthorizedWrites == Spec => WritesAreAuthorized
  <1>1. ASSUME Inv, [Next]_vars
        PROVE  [\A p \in Projects :
                   project[p].epoch > 0 /\ project'[p].epoch # project[p].epoch =>
                      \E r \in Requests :
                         LET q == request[r]  u == UserOf[q.session] IN
                         /\ q.step = "written" /\ q.project = p /\ q.base = project[p].epoch
                         /\ project[p].state = "live"
                         /\ session[q.session] # "revoked"
                         /\ member[p][u].role \in {"owner", "editor"} /\ SameGrant(q)]_accessVars
    <2> SUFFICES ASSUME NEW p \in Projects, project[p].epoch > 0, project'[p].epoch # project[p].epoch
                 PROVE  \E r \in Requests :
                           LET q == request[r]  u == UserOf[q.session] IN
                           /\ q.step = "written" /\ q.project = p /\ q.base = project[p].epoch
                           /\ project[p].state = "live"
                           /\ session[q.session] # "revoked"
                           /\ member[p][u].role \in {"owner", "editor"} /\ SameGrant(q)
      OBVIOUS
    <2>1. PICK r \in Requests : Commit(r) /\ request[r].project = p  BY <1>1, EpochStep
    <2>2. request[r].step = "written" /\ request[r].role \in {"owner", "editor"}
      BY <2>1, <1>1 DEF Commit, Inv, Known, Named
    <2> QED  BY <1>1, <2>1, <2>2 DEF Inv, Written, SameGrant
  <1> QED  BY <1>1, Invariance, PTL DEF Spec, WritesAreAuthorized

\* One membership of one user changes, and the others do not.
LEMMA MemberChange ==
    ASSUME Inv, NEW p \in Projects, NEW u \in Users, NEW row,
           member' = [member EXCEPT ![p][u] = row]
    PROVE  /\ member'[p][u] = row
           /\ \A q \in Projects, v \in Users : q # p \/ v # u => member'[q][v] = member[q][v]
  <1>1. member \in [Projects -> [Users -> Row]]  BY DEF Inv, Known, Typed
  <1> QED  BY <1>1

\* What a step may do to a membership that is active.
TenuresStand ==
    \A u \in Users :
       /\ workspace[u].active /\ workspace'[u] # workspace[u] =>
             \E p \in Projects :
                Revoking(p, u) /\ share[p][u].workspaceEpoch = workspace[u].epoch
       /\ \A p \in Projects : member[p][u].active /\ member'[p][u] # member[p][u] =>
             Revoking(p, u) /\ share[p][u].epoch = member[p][u].epoch

LEMMA FoundedTenures ==
    ASSUME Inv, NEW p \in Projects, NEW u \in Users, project[p].state = "absent",
           Founded(p, u), UNCHANGED workspace
    PROVE  TenuresStand
  <1>1. ~member[p][u].active  BY DEF Inv, Known, AbsentInv
  <1>2. \A q \in Projects, v \in Users : q # p \/ v # u => member'[q][v] = member[q][v]
    BY MemberChange DEF Founded
  <1> QED  BY <1>1, <1>2 DEF TenuresStand

LEMMA CreateShareTenures ==
    ASSUME Inv, NEW s \in Sessions, NEW p \in Projects, NEW u \in Users, NEW role,
           CreateShare(s, p, u, role)
    PROVE  TenuresStand
  <1>1. ~member[p][u].active /\ ~workspace[u].active  BY DEF CreateShare
  <1>2. \A q \in Projects, v \in Users : q # p \/ v # u => member'[q][v] = member[q][v]
    BY MemberChange DEF CreateShare
  <1>3. \A v \in Users \ {u} : workspace'[v] = workspace[v]
    BY DEF CreateShare, Inv, Known, Typed
  <1> QED  BY <1>1, <1>2, <1>3 DEF TenuresStand

LEMMA RevokeShareTenures ==
    ASSUME Inv, NEW s \in Sessions, NEW p \in Projects, NEW u \in Users, RevokeShare(s, p, u)
    PROVE  TenuresStand
  <1>1. share[p][u] \in ShareRow /\ share[p][u] # None /\ ~share[p][u].revoked
    BY DEF RevokeShare, Inv, Known, Typed
  <1>2. share'[p][u] = [share[p][u] EXCEPT !.revoked = TRUE]
    BY DEF RevokeShare, Inv, Known, Typed
  <1>3. Revoking(p, u)  BY <1>1, <1>2 DEF Revoking, ShareRow
  <1>4. /\ member'[p][u] = EndsTenure(member[p][u], share[p][u].role, share[p][u].epoch)
        /\ \A q \in Projects, v \in Users : q # p \/ v # u => member'[q][v] = member[q][v]
    <2> DEFINE row == EndsTenure(member[p][u], share[p][u].role, share[p][u].epoch)
    <2>1. member' = [member EXCEPT ![p][u] = row]  BY DEF RevokeShare, Inv, Known, Typed
    <2> HIDE DEF row
    <2>2. /\ member'[p][u] = row
          /\ \A q \in Projects, v \in Users : q # p \/ v # u => member'[q][v] = member[q][v]
      BY <2>1 DEF Inv, Known, Typed
    <2> QED  BY <2>2 DEF row
  <1>5. /\ workspace'[u] = EndsTenure(workspace[u], "viewer", share[p][u].workspaceEpoch)
        /\ \A v \in Users \ {u} : workspace'[v] = workspace[v]
    BY DEF RevokeShare, Inv, Known, Typed
  <1>6. member[p][u] \in Row /\ workspace[u] \in Row  BY DEF Inv, Known, Typed
  <1>7. member'[p][u] # member[p][u] => share[p][u].epoch = member[p][u].epoch
    BY <1>4, <1>6, EndsTenureMoves
  <1>8. workspace'[u] # workspace[u] => share[p][u].workspaceEpoch = workspace[u].epoch
    BY <1>5, <1>6, EndsTenureMoves
  <1> QED  BY <1>3, <1>4, <1>5, <1>7, <1>8 DEF TenuresStand

\* Whatever happens to shares and projects, a membership that is active stays as
\* it is until the share is revoked that gave it, or an operator sets it
\* (revokeProjectShare of postgresProductDomain.ts).
THEOREM TenuresEndWithTheirShare == Spec => OnlyOwnTenureEnds
  <1>1. ASSUME Inv, [Next]_vars, provisioned' = provisioned  PROVE TenuresStand
    <2>1. CASE UNCHANGED <<workspace, member>>  BY <2>1 DEF TenuresStand
    <2>2. ASSUME NEW e \in Entitlements, Makes(e)  PROVE TenuresStand
      <3>1. CopyOf[e] \in Projects /\ BuyerOf[e] \in Users  BY AccessAssumption, CopyAssumption
      <3> QED  BY <1>1, <2>2, <3>1, FoundedTenures DEF Makes
    <2>3. ASSUME NEW s \in Sessions, NEW p \in Projects, CreateProject(s, p)  PROVE TenuresStand
      <3>1. UserOf[s] \in Users  BY AccessAssumption
      <3> QED  BY <1>1, <2>3, <3>1, FoundedTenures DEF CreateProject
    <2>4. ASSUME NEW s \in Sessions, NEW p \in Projects, NEW u \in Users,
                 \/ RevokeShare(s, p, u)
                 \/ \E role \in {"editor", "viewer"} : CreateShare(s, p, u, role)
          PROVE  TenuresStand
      BY <1>1, <2>4, RevokeShareTenures, CreateShareTenures
    <2>5. ASSUME NEW u \in Users, NEW role,
                 SetWorkspaceMember(u, role) \/ \E p \in Projects : SetMember(p, u, role)
          PROVE  FALSE
      <3>1. provisioned \in Nat  BY <1>1 DEF Inv, Known, Typed
      <3>2. provisioned' = provisioned + 1  BY <2>5 DEF SetWorkspaceMember, SetMember
      <3> QED  BY <1>1, <3>1, <3>2
    <2>6. CASE AccessNext
      <3>1. CASE \/ \E s \in Sessions :
                      \/ IssueSession(s) \/ SessionExpires(s) \/ RevokeSession(s)
                      \/ \E p \in Projects : RemoveProject(s, p)
                 \/ \E u \in Users : RevokeUser(u)
                 \/ \E r \in Requests :
                      \/ \E s \in Sessions, p \in Projects : Grant(r, s, p)
                      \/ Read(r) \/ BeginWrite(r) \/ Write(r) \/ Commit(r) \/ Abort(r)
        BY <2>1, <3>1
        DEF IssueSession, SessionExpires, RevokeSession, RevokeUser, RemoveProject, roleVars,
            Grant, Read, BeginWrite, Write, Commit, Abort, RequestOnly
      <3> QED  BY <2>6, <2>3, <2>4, <2>5, <3>1 DEF AccessNext
    <2>7. CASE CopyNext  BY <2>7, <2>1, <2>2, CopyStep DEF CopyOnly, accessVars, roleVars
    <2> QED  BY <1>1, <2>1, <2>6, <2>7 DEF Next, vars, accessVars, roleVars
  <1>2. ASSUME Inv, [Next]_vars
        PROVE  [provisioned' = provisioned =>
                  \A u \in Users :
                     /\ workspace[u].active /\ workspace'[u] # workspace[u] =>
                           \E p \in Projects :
                              Revoking(p, u) /\ share[p][u].workspaceEpoch = workspace[u].epoch
                     /\ \A p \in Projects : member[p][u].active /\ member'[p][u] # member[p][u] =>
                           Revoking(p, u) /\ share[p][u].epoch = member[p][u].epoch]_accessVars
    BY <1>1, <1>2 DEF TenuresStand
  <1> QED  BY <1>2, Invariance, PTL DEF Spec, OnlyOwnTenureEnds
=============================================================================
