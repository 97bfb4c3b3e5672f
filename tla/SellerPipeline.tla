---------------------------- MODULE SellerPipeline ----------------------------
(* From a seller's application to a listing: submissions of one project,     *)
(* their review, the leased assessment by worker processes, promotion,       *)
(* rights and publication (engine/runtime/postgresProductDomain.ts,          *)
(* isolatedAssessmentWorker.ts and worker/control-mutations.js). A step is   *)
(* one database transaction; each takes the lock of its row first. What an   *)
(* idempotency key adds is that a repeated call changes nothing.             *)
EXTENDS Naturals, FiniteSets

CONSTANTS
    Sound,          \* revisions that pass the type check
    Workers,        \* assessment workers
    Runs,           \* processes of workers that assess at the same time
    Versions,       \* version names of releases
    None,
    MaxRevision,    \* bound: revisions of the project
    MaxRequests,    \* bound: admitted assessments
    MaxGeneration,  \* bound: claims of one assessment
    MaxLease,       \* bound: spans of a lease that renewals have added up
    MaxOwnerReleases, \* bound: releases without an assessment
    MaxRotations    \* bound: credentials issued again, until one worker's reaches it

Revisions == 1..MaxRevision

Verdict == {"passed", "failed", "errored"}
Result == [worker : Workers, generation : Nat, verdict : Verdict]

\* None is NULL, which no column takes for a value.
ASSUME NoneAssumption ==
    /\ None \notin Revisions \cup Workers \cup Versions
    /\ None \notin {"approved", "rejected"} /\ None \notin Result

\* The project has a source.
ASSUME RevisionAssumption == MaxRevision \in Nat \ {0}

VARIABLES
    application, \* the seller's application
    head,        \* the project's current revision
    submission,  \* revision -> what its submission holds
    decision,    \* revision -> the review of its submission
    requests,    \* revisions whose assessment was admitted
    lease,       \* revision -> the lease of its assessment
    credential,  \* worker -> number of its credential
    run,         \* processes, by where they are
    result,      \* revision -> the recorded result
    release,     \* version -> release
    promotion,   \* revision -> version it was promoted to
    rights,      \* versions whose rights were verified
    qualified,   \* versions with a Ready qualification
    listing      \* the catalog project's listing

sellerVars == <<application, head, submission, decision, requests>>
workerVars == <<lease, credential, run, result>>
marketVars == <<release, promotion, rights, qualified, listing>>
vars == <<sellerVars, workerVars, marketVars>>

NoLease == [worker |-> None, generation |-> 0, state |-> "none", left |-> 0]
Idle == [step |-> "idle", worker |-> None, credential |-> 0, of |-> None, generation |-> 0,
         snapshot |-> None, verdict |-> None]
NoListing == [version |-> None, status |-> "none", available |-> FALSE]

Init ==
    /\ application = "none"
    /\ head = 1
    /\ submission = [s \in Revisions |-> None]
    /\ decision = [s \in Revisions |-> None]
    /\ requests = {}
    /\ lease = [s \in Revisions |-> NoLease]
    /\ credential = [w \in Workers |-> 0]
    /\ run = [r \in Runs |-> Idle]
    /\ result = [s \in Revisions |-> None]
    /\ release = [v \in Versions |-> None]
    /\ promotion = [s \in Revisions |-> None]
    /\ rights = {}
    /\ qualified = {}
    /\ listing = NoListing
-----------------------------------------------------------------------------
(* The seller and the reviewers.                                             *)

Apply ==
    /\ application = "none"
    /\ application' = "pending"
    /\ UNCHANGED <<head, submission, decision, requests, workerVars, marketVars>>

\* An approved seller may still be rejected, a rejected one stays rejected.
DecideApplication(status) ==
    /\ application \in {"pending", "approved"} /\ application # status
    /\ application' = status
    /\ UNCHANGED <<head, submission, decision, requests, workerVars, marketVars>>

EditSource ==
    /\ head < MaxRevision
    /\ head' = head + 1
    /\ UNCHANGED <<application, submission, decision, requests, workerVars, marketVars>>

\* Mutant: the project's current source instead of the submitted bytes.
SnapshotOfHead(s) == head

\* A submission keeps the bytes of the revision that was current.
Snapshot(s) == submission[s]

Submit ==
    /\ application = "approved"
    /\ submission[head] = None
    /\ submission' = [submission EXCEPT ![head] = head]
    /\ UNCHANGED <<application, head, decision, requests, workerVars, marketVars>>

Review(s, verdict) ==
    /\ submission[s] # None /\ decision[s] = None
    /\ decision' = [decision EXCEPT ![s] = verdict]
    /\ UNCHANGED <<application, head, submission, requests, workerVars, marketVars>>

AdmitAssessment(s) ==
    /\ decision[s] = "approved" /\ s \notin requests
    /\ Cardinality(requests) < MaxRequests
    /\ requests' = requests \cup {s}
    /\ UNCHANGED <<application, head, submission, decision, workerVars, marketVars>>
-----------------------------------------------------------------------------
(* The assessment worker.                                                    *)

Goes(r, row) == run' = [run EXCEPT ![r] = row]
WorkerOnly == UNCHANGED <<sellerVars, marketVars>>

\* Issued again, a credential makes the calls of older processes fail.
RotateCredential(w) ==
    /\ \A u \in Workers : credential[u] < MaxRotations
    /\ credential' = [credential EXCEPT ![w] = @ + 1]
    /\ WorkerOnly /\ UNCHANGED <<lease, run, result>>

Authentic(r) == credential[run[r].worker] = run[r].credential

Live(s) == lease[s].state = "leased" /\ lease[s].left > 0

\* The lease that a claim by w would return, if it is not refused: the live
\* lease of w itself, or the next generation when nobody's lease is live.
ClaimedLease(w, s) ==
    IF Live(s) THEN lease[s]
    ELSE [worker |-> w, generation |-> lease[s].generation + 1, state |-> "leased", left |-> 1]

Claim(r, w, s) ==
    /\ run[r] = Idle
    /\ s \in requests /\ lease[s].state \in {"none", "leased"}
    /\ ClaimedLease(w, s).worker = w
    /\ ClaimedLease(w, s).generation <= MaxGeneration
    /\ lease' = [lease EXCEPT ![s] = ClaimedLease(w, s)]
    /\ Goes(r, [Idle EXCEPT !.step = "claimed", !.worker = w, !.credential = credential[w],
                            !.of = s, !.generation = lease'[s].generation])
    /\ WorkerOnly /\ UNCHANGED <<credential, result>>

\* Mutant: the generation of the lease is not compared.
HoldsByWorker(r) == Authentic(r) /\ lease[run[r].of].worker = run[r].worker

\* The lease is still the one that the process was given.
Holds(r) ==
    /\ Authentic(r)
    /\ lease[run[r].of].worker = run[r].worker
    /\ lease[run[r].of].generation = run[r].generation

Fenced(r) == Holds(r) /\ Live(run[r].of)

\* The check runs on the submitted bytes, whatever the project is by now.
TakeSnapshot(r) ==
    /\ run[r].step = "claimed" /\ Fenced(r)
    /\ Goes(r, [run[r] EXCEPT !.step = "checking", !.snapshot = Snapshot(run[r].of)])
    /\ WorkerOnly /\ UNCHANGED <<lease, credential, result>>

\* Each second while the check runs.
Renew(r) ==
    /\ run[r].step = "checking" /\ Fenced(r) /\ lease[run[r].of].left < MaxLease
    /\ lease' = [lease EXCEPT ![run[r].of].left = @ + 1]
    /\ WorkerOnly /\ UNCHANGED <<credential, run, result>>

\* A timeout, a compiler that fails to start and a broken answer end as "errored".
Verdicts(r) == {"errored", IF run[r].snapshot \in Sound THEN "passed" ELSE "failed"}

Check(r, verdict) ==
    /\ run[r].step = "checking" /\ verdict \in Verdicts(r)
    /\ Goes(r, [run[r] EXCEPT !.step = "checked", !.verdict = verdict])
    /\ WorkerOnly /\ UNCHANGED <<lease, credential, result>>

\* assertAssessmentLease and acceptAssessmentResult, which checks the lease again.
Accept(r) ==
    LET s == run[r].of IN
    /\ run[r].step = "checked" /\ Fenced(r)
    /\ result' = [result EXCEPT ![s] = [worker |-> run[r].worker, generation |-> run[r].generation,
                                        verdict |-> run[r].verdict]]
    /\ lease' = [lease EXCEPT ![s].state = "completed"]
    /\ Goes(r, Idle)
    /\ WorkerOnly /\ UNCHANGED credential

\* The holder gives the assessment up; it can be claimed no more.
Cancel(r) ==
    /\ run[r].step # "idle" /\ Fenced(r)
    /\ lease' = [lease EXCEPT ![run[r].of].state = "cancelled"]
    /\ WorkerOnly /\ UNCHANGED <<credential, run, result>>

\* A call is refused, a renewal fails, the process dies, or a result of this
\* generation is final already: the process leaves nothing.
RunEnds(r) ==
    /\ run[r].step # "idle"
    /\ Goes(r, Idle)
    /\ WorkerOnly /\ UNCHANGED <<lease, credential, result>>

LeaseRunsDown(s) ==
    /\ Live(s)
    /\ lease' = [lease EXCEPT ![s].left = @ - 1]
    /\ WorkerOnly /\ UNCHANGED <<credential, run, result>>
-----------------------------------------------------------------------------
(* Releases and listings.                                                    *)

MarketOnly == UNCHANGED <<sellerVars, workerVars>>

OwnersRelease(v) == release[v] # None /\ \A s \in Revisions : promotion[s] # v

\* The owner releases the current source without an assessment.
PublishRelease(v) ==
    /\ release[v] = None
    /\ Cardinality({u \in Versions : OwnersRelease(u)}) < MaxOwnerReleases
    /\ release' = [release EXCEPT ![v] = head]
    /\ MarketOnly /\ UNCHANGED <<promotion, rights, qualified, listing>>

\* One passed result of the lease's last holder.
Promotable(s) ==
    /\ result[s] # None /\ result[s].verdict = "passed"
    /\ lease[s].state = "completed"
    /\ lease[s].worker = result[s].worker /\ lease[s].generation = result[s].generation

Promote(s, v) ==
    /\ Promotable(s) /\ promotion[s] = None /\ release[v] = None
    /\ release' = [release EXCEPT ![v] = Snapshot(s)]
    /\ promotion' = [promotion EXCEPT ![s] = v]
    /\ MarketOnly /\ UNCHANGED <<rights, qualified, listing>>

VerifyRights(v) ==
    /\ release[v] # None /\ v \notin rights
    /\ rights' = rights \cup {v}
    /\ MarketOnly /\ UNCHANGED <<release, promotion, qualified, listing>>

QualifyReady(v) ==
    /\ v \notin qualified
    /\ \E s \in Revisions : promotion[s] = v /\ result[s].verdict = "passed"
    /\ qualified' = qualified \cup {v}
    /\ MarketOnly /\ UNCHANGED <<release, promotion, rights, listing>>

\* The owner keeps a draft or archives it, and offers or withdraws a published
\* listing; only an operator publishes.
OwnerMaySave(v, published) ==
    /\ release[v] # None
    /\ \/ listing.status = "none" /\ ~published
       \/ listing.version = v /\ published = (listing.status = "published")

SaveListing(v, published, available) ==
    /\ OwnerMaySave(v, published)
    /\ listing' = [version |-> v, status |-> IF published THEN "published" ELSE "unpublished",
                   available |-> published /\ available]
    /\ MarketOnly /\ UNCHANGED <<release, promotion, rights, qualified>>

PublishPromotedListing(s) ==
    /\ promotion[s] # None /\ promotion[s] \in rights
    /\ listing.status = "none"
    /\ listing' = [version |-> promotion[s], status |-> "published", available |-> TRUE]
    /\ MarketOnly /\ UNCHANGED <<release, promotion, rights, qualified>>

UpdateCreatorListing(available) ==
    /\ application = "approved" /\ listing.status = "published"
    /\ listing' = [listing EXCEPT !.available = available]
    /\ MarketOnly /\ UNCHANGED <<release, promotion, rights, qualified>>
-----------------------------------------------------------------------------
SellerNext ==
    \/ Apply \/ EditSource \/ Submit
    \/ \E status \in {"approved", "rejected"} : DecideApplication(status)
    \/ \E s \in Revisions : AdmitAssessment(s) \/ \E d \in {"approved", "rejected"} : Review(s, d)

WorkerNext ==
    \/ \E w \in Workers : RotateCredential(w)
    \/ \E s \in Revisions : LeaseRunsDown(s)
    \/ \E r \in Runs :
          \/ \E w \in Workers, s \in Revisions : Claim(r, w, s)
          \/ \E verdict \in Verdict : Check(r, verdict)
          \/ TakeSnapshot(r) \/ Renew(r) \/ Accept(r) \/ Cancel(r) \/ RunEnds(r)

MarketNext ==
    \/ \E v \in Versions : PublishRelease(v) \/ VerifyRights(v) \/ QualifyReady(v)
    \/ \E s \in Revisions : PublishPromotedListing(s) \/ \E v \in Versions : Promote(s, v)
    \/ \E available \in BOOLEAN :
          \/ UpdateCreatorListing(available)
          \/ \E v \in Versions, published \in BOOLEAN : SaveListing(v, published, available)

Next == SellerNext \/ WorkerNext \/ MarketNext

Spec == Init /\ [][Next]_vars
-----------------------------------------------------------------------------
(* What must hold.                                                           *)

TypeOK ==
    /\ application \in {"none", "pending", "approved", "rejected"}
    /\ head \in Revisions
    /\ submission \in [Revisions -> Revisions \cup {None}]
    /\ decision \in [Revisions -> {"approved", "rejected", None}]
    /\ requests \subseteq Revisions
    /\ lease \in [Revisions ->
          [worker : Workers \cup {None}, generation : 0..MaxGeneration,
           state : {"none", "leased", "cancelled", "completed"}, left : 0..MaxLease]]
    /\ credential \in [Workers -> 0..MaxRotations]
    /\ run \in [Runs ->
          [step : {"idle", "claimed", "checking", "checked"},
           worker : Workers \cup {None}, credential : 0..MaxRotations,
           of : Revisions \cup {None}, generation : 0..MaxGeneration,
           snapshot : Revisions \cup {None}, verdict : Verdict \cup {None}]]
    /\ result \in [Revisions ->
          [worker : Workers, generation : 1..MaxGeneration, verdict : Verdict] \cup {None}]
    /\ release \in [Versions -> Revisions \cup {None}]
    /\ promotion \in [Revisions -> Versions \cup {None}]
    /\ rights \subseteq Versions
    /\ qualified \subseteq Versions
    /\ listing \in [version : Versions \cup {None}, available : BOOLEAN,
                    status : {"none", "unpublished", "published"}]

\* A result is that of the last worker that held the assessment, given while
\* it held it: no process of an earlier generation, of a cancelled
\* assessment or with a withdrawn credential can leave one, and a recorded
\* result is never joined by a second claim (claim, renew and accept under
\* lock 95 of postgresProductDomain.ts).
ResultIsTheHolders ==
    \A s \in Revisions :
        /\ (result[s] # None) = (lease[s].state = "completed")
        /\ result[s] # None => /\ result[s].worker = lease[s].worker
                               /\ result[s].generation = lease[s].generation

Stage(s) ==
    IF promotion[s] # None THEN "released"
    ELSE IF result[s] # None THEN result[s].verdict
    ELSE IF lease[s].state = "cancelled" THEN "cancelled"
    ELSE IF s \in requests THEN "admitted"
    ELSE IF decision[s] = "rejected" THEN "refused"
    ELSE IF decision[s] = "approved" THEN "approved"
    ELSE IF submission[s] # None THEN "submitted" ELSE "private"

Gate == INSTANCE AssessedReleases WITH
    Works <- Revisions,
    stage <- [s \in Revisions |-> Stage(s)],
    cleared <- {s \in Revisions : promotion[s] \in rights},
    offer <- IF listing.status = "published" THEN {release[listing.version]} ELSE {},
    shown <- listing.status = "published" /\ listing.available

\* Buyers are offered one revision, and only one that was reviewed, whose own
\* submitted bytes passed, that an operator released and whose rights were
\* verified; the source may move on, leases lapse, workers die and sellers
\* release by themselves meanwhile. No decision is taken back.
ImplementsAssessedReleases == Gate!Spec
=============================================================================
