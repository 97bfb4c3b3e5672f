---------------------------- MODULE Materialization ----------------------------
(* Working copies of bought releases: a buyer's request reserves a copy and   *)
(* makes it, at once or in a second transaction, and a sweeper takes up what  *)
(* was left pending (materialize, reconcilePending, reconcileOne and          *)
(* markFailed of engine/runtime/postgresProductDomain.ts,                     *)
(* worker/materialization.js). The copy is a project like every other, so     *)
(* this module runs together with ProjectAccess.                              *)
EXTENDS ProjectAccess

CONSTANTS
    Entitlements,
    BuyerOf,        \* entitlement -> the user it belongs to
    CopyOf          \* entitlement -> the project reserved for it

ASSUME CopyAssumption ==
    /\ BuyerOf \in [Entitlements -> Users]
    /\ CopyOf \in [Entitlements -> Reserved]
    /\ \A e, f \in Entitlements : CopyOf[e] = CopyOf[f] => e = f

VARIABLES
    entitlement, \* "none", "active" or "ended"
    copy,        \* "none", "pending", "ready" or "failed"
    reserving,   \* entitlements whose request is between its two transactions
    sweep,       \* pending entitlements that the sweeper has still to take up
    stumbled     \* the one that the sweeper failed on, or None

copyVars == <<entitlement, copy, reserving, sweep, stumbled>>
vars == <<accessVars, copyVars>>

Init ==
    /\ AccessInit
    /\ entitlement = [e \in Entitlements |-> "none"]
    /\ copy = [e \in Entitlements |-> "none"]
    /\ reserving = {}
    /\ sweep = {}
    /\ stumbled = None
-----------------------------------------------------------------------------
AccessOnly == UNCHANGED copyVars
CopyOnly == UNCHANGED accessVars

GrantEntitlement(e) ==
    /\ entitlement[e] = "none"
    /\ entitlement' = [entitlement EXCEPT ![e] = "active"]
    /\ CopyOnly /\ UNCHANGED <<copy, reserving, sweep, stumbled>>

\* Revoked, invalid or refunded: for good.
EndEntitlement(e) ==
    /\ entitlement[e] = "active"
    /\ entitlement' = [entitlement EXCEPT ![e] = "ended"]
    /\ CopyOnly /\ UNCHANGED <<copy, reserving, sweep, stumbled>>

\* What both paths ask before they reserve.
MayReserve(s, e) ==
    /\ Works(s) /\ UserOf[s] = BuyerOf[e] /\ Builder(BuyerOf[e])
    /\ entitlement[e] = "active"

\* The first transaction; a failed copy is tried again under the same id.
Reserve(s, e) ==
    /\ MayReserve(s, e) /\ copy[e] # "ready"
    /\ copy' = [copy EXCEPT ![e] = "pending"]
    /\ reserving' = reserving \cup {e}
    /\ CopyOnly /\ UNCHANGED <<entitlement, sweep, stumbled>>

\* The transaction that makes a pending copy: source, owner and state at once.
Makes(e) ==
    /\ project[CopyOf[e]].state = "absent" /\ Cardinality(LiveProjects) < Capacity
    /\ Founded(CopyOf[e], BuyerOf[e])
    /\ copy' = [copy EXCEPT ![e] = "ready"]
    /\ UNCHANGED <<session, workspace, provisioned, share, request>>

Entitled(e) == entitlement[e] = "active" /\ Builder(BuyerOf[e])

\* reconcileOne, when it does not throw.
Reconciled(e) ==
    \/ copy[e] # "pending" /\ CopyOnly /\ UNCHANGED copy
    \/ copy[e] = "pending" /\ ~Entitled(e)
       /\ copy' = [copy EXCEPT ![e] = "failed"] /\ CopyOnly
    \/ copy[e] = "pending" /\ Entitled(e) /\ Makes(e)

ReserveReconciles(e) ==
    /\ e \in reserving
    /\ Reconciled(e)
    /\ reserving' = reserving \ {e}
    /\ UNCHANGED <<entitlement, sweep, stumbled>>

\* No room, a snapshot that does not verify, a database error or a dead
\* process: the copy stays pending.
ReserveStops(e) ==
    /\ e \in reserving
    /\ reserving' = reserving \ {e}
    /\ CopyOnly /\ UNCHANGED <<entitlement, copy, sweep, stumbled>>

\* The Worker's way: one transaction, nothing is left when it fails.
MakeAtOnce(s, e) ==
    /\ MayReserve(s, e) /\ copy[e] # "ready"
    /\ Makes(e)
    /\ UNCHANGED <<entitlement, reserving, sweep, stumbled>>

SweepBegins ==
    /\ sweep = {} /\ stumbled = None
    /\ \E e \in Entitlements : copy[e] = "pending"
    /\ sweep' = {e \in Entitlements : copy[e] = "pending"}
    /\ CopyOnly /\ UNCHANGED <<entitlement, copy, reserving, stumbled>>

SweepReconciles(e) ==
    /\ stumbled = None /\ e \in sweep
    /\ Reconciled(e)
    /\ sweep' = sweep \ {e}
    /\ UNCHANGED <<entitlement, reserving, stumbled>>

SweepStumbles(e) ==
    /\ stumbled = None /\ e \in sweep /\ copy[e] = "pending"
    /\ stumbled' = e
    /\ sweep' = sweep \ {e}
    /\ CopyOnly /\ UNCHANGED <<entitlement, copy, reserving>>

\* Mutant: the state is not compared.
MarksFailedBlindly(e) == copy' = [copy EXCEPT ![e] = "failed"]

\* The row may have moved on since the sweeper stumbled.
MarksFailed(e) == copy' = [copy EXCEPT ![e] = IF @ = "pending" THEN "failed" ELSE @]

SweepMarksFailed ==
    /\ stumbled # None
    /\ MarksFailed(stumbled)
    /\ stumbled' = None
    /\ CopyOnly /\ UNCHANGED <<entitlement, reserving, sweep>>

Sweep == SweepBegins \/ SweepMarksFailed \/ \E e \in Entitlements : SweepReconciles(e) \/ SweepStumbles(e)

CopyNext ==
    \/ Sweep
    \/ \E e \in Entitlements :
          \/ GrantEntitlement(e) \/ EndEntitlement(e)
          \/ ReserveReconciles(e) \/ ReserveStops(e)
          \/ \E s \in Sessions : Reserve(s, e) \/ MakeAtOnce(s, e)

Next == CopyNext \/ (AccessNext /\ AccessOnly)

Spec == Init /\ [][Next]_vars
-----------------------------------------------------------------------------
CopyTypeOK ==
    /\ AccessTypeOK
    /\ entitlement \in [Entitlements -> {"none", "active", "ended"}]
    /\ copy \in [Entitlements -> {"none", "pending", "ready", "failed"}]
    /\ reserving \subseteq Entitlements
    /\ sweep \subseteq Entitlements
    /\ stumbled \in Entitlements \cup {None}

\* A copy is called ready exactly when its project was made, also when the
\* sweeper, a second request and the Worker work on it together; a project
\* that was made is never called failed, and so never made a second time.
ReadyMeansMade ==
    \A e \in Entitlements : (copy[e] = "ready") = (project[CopyOf[e]].state # "absent")
=============================================================================
