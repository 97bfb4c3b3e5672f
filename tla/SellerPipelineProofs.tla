-------------------------- MODULE SellerPipelineProofs --------------------------
(* Proofs about SellerPipeline: results are their holders', and the pipeline   *)
(* implements AssessedReleases, for any workers, processes, versions, bounds   *)
(* and whichever revisions are sound.                                          *)
EXTENDS SellerPipeline, TLAPS

Lease == [worker : Workers \cup {None}, generation : Nat,
          state : {"none", "leased", "cancelled", "completed"}, left : Nat]
Run == [step : {"idle", "claimed", "checking", "checked"},
        worker : Workers \cup {None}, credential : Nat, of : Revisions \cup {None},
        generation : Nat, snapshot : Revisions \cup {None}, verdict : Verdict \cup {None}]
Listing == [version : Versions \cup {None}, available : BOOLEAN,
            status : {"none", "unpublished", "published"}]

SellerTyped ==
    /\ head \in Revisions
    /\ submission \in [Revisions -> Revisions \cup {None}]
    /\ decision \in [Revisions -> {"approved", "rejected", None}]
    /\ requests \subseteq Revisions

WorkerTyped ==
    /\ lease \in [Revisions -> Lease]
    /\ credential \in [Workers -> Nat]
    /\ run \in [Runs -> Run]
    /\ result \in [Revisions -> Result \cup {None}]

MarketTyped ==
    /\ release \in [Versions -> Revisions \cup {None}]
    /\ promotion \in [Revisions -> Versions \cup {None}]
    /\ rights \subseteq Versions
    /\ listing \in Listing

\* Nothing is decided before it was submitted, nothing admitted before it was
\* approved, and a submission holds its own revision.
SellerInv ==
    /\ SellerTyped
    /\ \A s \in Revisions :
         /\ submission[s] \in {s, None}
         /\ decision[s] # None => submission[s] = s
         /\ s \in requests => decision[s] = "approved"

\* What the fixed check may say of a revision.
Sayable(s) == {"errored", IF s \in Sound THEN "passed" ELSE "failed"}

\* A process works on an admitted assessment, and checks what was submitted.
Honest(q) ==
    /\ q.step # "idle" => q.of \in requests /\ q.worker \in Workers
    /\ q.step \in {"checking", "checked"} => q.snapshot = q.of
    /\ q.step = "checked" => q.verdict \in Sayable(q.of)

WorkerInv ==
    /\ WorkerTyped
    /\ ResultIsTheHolders
    /\ \A s \in Revisions :
         /\ lease[s].state # "none" => s \in requests
         /\ result[s] # None => result[s].verdict \in Sayable(s)
    /\ \A r \in Runs : Honest(run[r])

\* A promoted version is one revision that passed, a right is one to a release,
\* and what is published is promoted with its rights.
MarketInv ==
    /\ MarketTyped
    /\ \A s \in Revisions : promotion[s] # None =>
          /\ release[promotion[s]] = s
          /\ result[s] # None /\ result[s].verdict = "passed"
    /\ \A v \in rights : release[v] # None
    /\ listing.status = "published" =>
          /\ listing.version \in rights
          /\ \E s \in Revisions : promotion[s] = listing.version

Inv == SellerInv /\ WorkerInv /\ MarketInv
-----------------------------------------------------------------------------
(* The inductive invariant.                                                    *)

LEMMA InitInv == Init => Inv
<1> SUFFICES ASSUME Init PROVE Inv
  OBVIOUS
<1>1. SellerInv
  BY NoneAssumption, RevisionAssumption DEF Init, SellerInv, SellerTyped, Revisions
<1>2. WorkerInv
  BY DEF Init, WorkerInv, WorkerTyped, ResultIsTheHolders, Honest, Lease, Run, NoLease, Idle
<1>3. MarketInv
  BY DEF Init, MarketInv, MarketTyped, Listing, NoListing
<1> QED BY <1>1, <1>2, <1>3 DEF Inv

\* A seller's step leaves the workers and the market what they were.
LEMMA SellerKeeps == Inv /\ SellerNext => Inv'
<1> SUFFICES ASSUME Inv, SellerNext PROVE Inv'
  OBVIOUS
<1>1. UNCHANGED <<workerVars, marketVars>> /\ requests \subseteq requests'
  BY DEF SellerNext, Apply, EditSource, Submit, DecideApplication, AdmitAssessment, Review
<1>2. WorkerInv'
  <2>1. /\ WorkerTyped' /\ ResultIsTheHolders'
    BY <1>1 DEF Inv, WorkerInv, WorkerTyped, ResultIsTheHolders, workerVars
  <2>2. \A r \in Runs : Honest(run[r])'
    BY <1>1 DEF Inv, WorkerInv, Honest, workerVars
  <2> QED BY <1>1, <2>1, <2>2 DEF Inv, WorkerInv, workerVars
<1>3. MarketInv'
  BY <1>1 DEF Inv, MarketInv, MarketTyped, workerVars, marketVars
<1>4. SellerInv'
  <2> USE DEF Inv, SellerInv, SellerTyped
  <2>1. CASE Apply \/ \E status \in {"approved", "rejected"} : DecideApplication(status)
    BY <2>1 DEF Apply, DecideApplication
  <2>2. CASE EditSource
    BY <2>2, RevisionAssumption DEF EditSource, Revisions
  <2>3. CASE Submit
    BY <2>3 DEF Submit
  <2>4. ASSUME NEW s \in Revisions, NEW d \in {"approved", "rejected"}, Review(s, d) PROVE SellerInv'
    BY <2>4, NoneAssumption DEF Review
  <2>5. ASSUME NEW s \in Revisions, AdmitAssessment(s) PROVE SellerInv'
    BY <2>5 DEF AdmitAssessment
  <2> QED BY <2>1, <2>2, <2>3, <2>4, <2>5 DEF SellerNext
<1> QED BY <1>2, <1>3, <1>4 DEF Inv

\* What a worker's step does to the lease and the result of one revision.
LeaseStep(s) ==
    /\ lease' \in [Revisions -> Lease] /\ result' \in [Revisions -> Result \cup {None}]
    /\ \A t \in Revisions \ {s} : lease'[t] = lease[t] /\ result'[t] = result[t]
    /\ \/ /\ result'[s] = result[s] /\ lease'[s].state = lease[s].state
          /\ lease'[s].worker = lease[s].worker /\ lease'[s].generation = lease[s].generation
       \/ /\ result' = result /\ s \in requests
          /\ lease[s].state \in {"none", "leased"} /\ lease'[s].state \in {"leased", "cancelled"}
          /\ lease[s].state = "none" => lease'[s].state = "leased"
       \/ /\ lease[s].state = "leased" /\ lease'[s].state = "completed" /\ s \in requests
          /\ result'[s] # None /\ result'[s].verdict \in Sayable(s)
          /\ result'[s].worker = lease'[s].worker /\ result'[s].generation = lease'[s].generation

LEMMA LeaseKeeps ==
    ASSUME Inv, NEW s \in Revisions, LeaseStep(s), UNCHANGED requests
    PROVE  /\ ResultIsTheHolders'
           /\ \A t \in Revisions :
                /\ lease'[t].state # "none" => t \in requests'
                /\ result'[t] # None => result'[t].verdict \in Sayable(t)
                /\ result[t] # None => result'[t] = result[t]
<1> SUFFICES ASSUME NEW t \in Revisions
             PROVE  /\ (result'[t] # None) = (lease'[t].state = "completed")
                    /\ result'[t] # None => /\ result'[t].worker = lease'[t].worker
                                            /\ result'[t].generation = lease'[t].generation
                    /\ lease'[t].state # "none" => t \in requests'
                    /\ result'[t] # None => result'[t].verdict \in Sayable(t)
                    /\ result[t] # None => result'[t] = result[t]
  BY DEF ResultIsTheHolders
<1>1. /\ (result[t] # None) = (lease[t].state = "completed")
      /\ result[t] # None => /\ result[t].worker = lease[t].worker
                             /\ result[t].generation = lease[t].generation
      /\ lease[t].state # "none" => t \in requests
      /\ result[t] # None => result[t].verdict \in Sayable(t)
  BY DEF Inv, WorkerInv, ResultIsTheHolders
<1>2. CASE t # s
  BY <1>1, <1>2 DEF LeaseStep
<1>3. CASE t = s
  BY <1>1, <1>3 DEF LeaseStep
<1> QED BY <1>2, <1>3

\* A process goes on with a row that keeps to the rules.
LEMMA RunUpdate ==
    ASSUME Inv, NEW r \in Runs, NEW q \in Run, Honest(q), Goes(r, q), UNCHANGED requests
    PROVE  run' \in [Runs -> Run] /\ \A p \in Runs : Honest(run[p])'
<1>1. run \in [Runs -> Run] /\ \A p \in Runs : Honest(run[p])
  BY DEF Inv, WorkerInv, WorkerTyped
<1>2. run' \in [Runs -> Run] /\ run'[r] = q /\ \A p \in Runs \ {r} : run'[p] = run[p]
  BY <1>1 DEF Goes
<1> QED BY <1>1, <1>2 DEF Honest

LEMMA LeaseUpdate ==
    ASSUME Inv, NEW s \in Revisions, NEW l \in Lease, lease' = [lease EXCEPT ![s] = l]
    PROVE  lease' \in [Revisions -> Lease] /\ lease'[s] = l
           /\ \A t \in Revisions \ {s} : lease'[t] = lease[t]
BY DEF Inv, WorkerInv, WorkerTyped

LEMMA RunFacts ==
    ASSUME Inv, NEW r \in Runs, run[r].step # "idle"
    PROVE  /\ run[r] \in Run /\ Honest(run[r])
           /\ run[r].of \in requests /\ run[r].of \in Revisions /\ run[r].worker \in Workers
           /\ run[r].generation \in Nat /\ lease[run[r].of] \in Lease
           /\ submission[run[r].of] = run[r].of
BY NoneAssumption DEF Inv, WorkerInv, WorkerTyped, SellerInv, SellerTyped, Honest, Run

LEMMA IdleHonest == Idle \in Run /\ Honest(Idle)
BY DEF Idle, Run, Honest

\* What the steps that keep leases and results leave.
LEMMA LeaseStays ==
    ASSUME Inv, UNCHANGED <<lease, result, requests>>
    PROVE  LeaseStep(1)
BY RevisionAssumption DEF Inv, WorkerInv, WorkerTyped, LeaseStep, Revisions

\* Every step of the workers.
WorkerStep ==
    /\ \E s \in Revisions : LeaseStep(s)
    /\ credential' \in [Workers -> Nat] /\ run' \in [Runs -> Run]
    /\ \A r \in Runs : Honest(run[r])'
    /\ WorkerOnly

LEMMA ClaimStep ==
    ASSUME Inv, NEW r \in Runs, NEW w \in Workers, NEW s \in Revisions, Claim(r, w, s)
    PROVE  WorkerStep
<1> DEFINE l == ClaimedLease(w, s)
           q == [Idle EXCEPT !.step = "claimed", !.worker = w, !.credential = credential[w],
                             !.of = s, !.generation = lease'[s].generation]
<1>1. lease[s] \in Lease /\ credential[w] \in Nat
  BY DEF Inv, WorkerInv, WorkerTyped
<1>2. l \in Lease /\ l.state = "leased"
  BY <1>1 DEF Lease, ClaimedLease, Live
<1>3. /\ lease' = [lease EXCEPT ![s] = l] /\ Goes(r, q) /\ s \in requests
      /\ lease[s].state \in {"none", "leased"}
      /\ UNCHANGED <<requests, credential, result>> /\ WorkerOnly
  BY DEF Claim, WorkerOnly, sellerVars
<1> HIDE DEF l
<1>4. lease' \in [Revisions -> Lease] /\ lease'[s] = l /\ \A t \in Revisions \ {s} : lease'[t] = lease[t]
  BY <1>2, <1>3, LeaseUpdate
<1>5. l.generation \in Nat
  BY <1>2 DEF Lease
<1>6. q \in Run /\ Honest(q)
  BY <1>1, <1>3, <1>4, <1>5 DEF Run, Idle, Honest
<1> HIDE DEF q
<1>7. run' \in [Runs -> Run] /\ \A p \in Runs : Honest(run[p])'
  BY <1>3, <1>6, RunUpdate
<1>8. LeaseStep(s)
  BY <1>2, <1>3, <1>4 DEF LeaseStep, Inv, WorkerInv, WorkerTyped
<1> QED BY <1>3, <1>7, <1>8 DEF WorkerStep, Inv, WorkerInv, WorkerTyped

LEMMA RunOnlyStep ==
    ASSUME Inv, NEW r \in Runs,
           TakeSnapshot(r) \/ (\E verdict \in Verdict : Check(r, verdict)) \/ RunEnds(r)
    PROVE  WorkerStep
<1>1. UNCHANGED <<lease, result, credential, requests>> /\ WorkerOnly
  BY DEF TakeSnapshot, Check, RunEnds, WorkerOnly, sellerVars
<1>2. LeaseStep(1) /\ 1 \in Revisions
  BY <1>1, LeaseStays, RevisionAssumption DEF Revisions
<1>3. \E q \in Run : Honest(q) /\ Goes(r, q)
  <2>1. CASE TakeSnapshot(r)
    <3> DEFINE q == [run[r] EXCEPT !.step = "checking", !.snapshot = Snapshot(run[r].of)]
    <3>1. run[r].step = "claimed" /\ Goes(r, q)
      BY <2>1 DEF TakeSnapshot
    <3>2. Snapshot(run[r].of) = run[r].of
      BY <3>1, RunFacts DEF Snapshot
    <3>3. q \in Run /\ Honest(q)
      BY <3>1, <3>2, RunFacts DEF Run, Honest
    <3> QED BY <3>1, <3>3
  <2>2. ASSUME NEW verdict \in Verdict, Check(r, verdict)
        PROVE  \E q \in Run : Honest(q) /\ Goes(r, q)
    <3> DEFINE q == [run[r] EXCEPT !.step = "checked", !.verdict = verdict]
    <3>1. run[r].step = "checking" /\ Goes(r, q) /\ verdict \in Verdicts(r)
      BY <2>2 DEF Check
    <3>2. verdict \in Sayable(run[r].of) /\ run[r].snapshot = run[r].of
      BY <3>1, RunFacts DEF Verdicts, Sayable, Honest
    <3>3. q \in Run /\ Honest(q)
      BY <3>1, <3>2, RunFacts DEF Run, Honest
    <3> QED BY <3>1, <3>3
  <2>3. CASE RunEnds(r)
    BY <2>3, IdleHonest DEF RunEnds
  <2> QED BY <2>1, <2>2, <2>3
<1>4. run' \in [Runs -> Run] /\ \A p \in Runs : Honest(run[p])'
  BY <1>1, <1>3, RunUpdate
<1> QED BY <1>1, <1>2, <1>4 DEF WorkerStep, Inv, WorkerInv, WorkerTyped

LEMMA LeaseOnlyStep ==
    ASSUME Inv, \/ \E r \in Runs : Renew(r) \/ Cancel(r)
                \/ \E s \in Revisions : LeaseRunsDown(s)
    PROVE  WorkerStep
<1>1. UNCHANGED <<result, credential, run, requests>> /\ WorkerOnly
  BY DEF Renew, Cancel, LeaseRunsDown, WorkerOnly, sellerVars
<1>2. \E t \in Revisions : LeaseStep(t)
  <2>1. ASSUME NEW r \in Runs, Renew(r) PROVE \E t \in Revisions : LeaseStep(t)
    <3> DEFINE t == run[r].of
               l == [lease[t] EXCEPT !.left = @ + 1]
    <3>1. t \in Revisions /\ lease[t] \in Lease
      BY <2>1, RunFacts DEF Renew
    <3>2. l \in Lease /\ l.state = lease[t].state /\ l.worker = lease[t].worker
          /\ l.generation = lease[t].generation
      BY <3>1 DEF Lease
    <3>3. lease' = [lease EXCEPT ![t] = l]
      BY <2>1, <3>1 DEF Renew, Inv, WorkerInv, WorkerTyped
    <3> HIDE DEF l
    <3> QED BY <1>1, <3>1, <3>2, <3>3, LeaseUpdate DEF LeaseStep, Inv, WorkerInv, WorkerTyped
  <2>2. ASSUME NEW r \in Runs, Cancel(r) PROVE \E t \in Revisions : LeaseStep(t)
    <3> DEFINE t == run[r].of
               l == [lease[t] EXCEPT !.state = "cancelled"]
    <3>1. t \in Revisions /\ lease[t] \in Lease /\ t \in requests /\ lease[t].state = "leased"
      BY <2>2, RunFacts DEF Cancel, Fenced, Live
    <3>2. l \in Lease /\ l.state = "cancelled"
      BY <3>1 DEF Lease
    <3>3. lease' = [lease EXCEPT ![t] = l]
      BY <2>2, <3>1 DEF Cancel, Inv, WorkerInv, WorkerTyped
    <3> HIDE DEF l
    <3> QED BY <1>1, <3>1, <3>2, <3>3, LeaseUpdate DEF LeaseStep, Inv, WorkerInv, WorkerTyped
  <2>3. ASSUME NEW s \in Revisions, LeaseRunsDown(s) PROVE \E t \in Revisions : LeaseStep(t)
    <3> DEFINE l == [lease[s] EXCEPT !.left = @ - 1]
    <3>1. lease[s] \in Lease /\ lease[s].left > 0
      BY <2>3 DEF LeaseRunsDown, Live, Inv, WorkerInv, WorkerTyped
    <3>2. l \in Lease /\ l.state = lease[s].state /\ l.worker = lease[s].worker
          /\ l.generation = lease[s].generation
      BY <3>1 DEF Lease
    <3>3. lease' = [lease EXCEPT ![s] = l]
      BY <2>3, <3>1 DEF LeaseRunsDown, Inv, WorkerInv, WorkerTyped
    <3> HIDE DEF l
    <3> QED BY <1>1, <3>1, <3>2, <3>3, LeaseUpdate DEF LeaseStep, Inv, WorkerInv, WorkerTyped
  <2> QED BY <2>1, <2>2, <2>3
<1> QED BY <1>1, <1>2 DEF WorkerStep, Inv, WorkerInv, WorkerTyped, Honest

LEMMA AcceptStep ==
    ASSUME Inv, NEW r \in Runs, Accept(r)
    PROVE  WorkerStep
<1> DEFINE s == run[r].of
           l == [lease[s] EXCEPT !.state = "completed"]
           a == [worker |-> run[r].worker, generation |-> run[r].generation, verdict |-> run[r].verdict]
<1>1. /\ run[r].step = "checked" /\ s \in Revisions /\ s \in requests /\ lease[s] \in Lease
      /\ run[r].worker \in Workers /\ run[r].generation \in Nat
      /\ run[r].verdict \in Sayable(s)
  BY RunFacts DEF Accept, Honest
<1>2. /\ lease[s].state = "leased" /\ lease[s].worker = run[r].worker
      /\ lease[s].generation = run[r].generation
  BY DEF Accept, Fenced, Holds, Live
<1>3. a \in Result /\ a # None
  BY <1>1, NoneAssumption DEF Result, Sayable, Verdict
<1>4. l \in Lease /\ l.state = "completed" /\ l.worker = lease[s].worker
      /\ l.generation = lease[s].generation
  BY <1>1 DEF Lease
<1>5. lease' = [lease EXCEPT ![s] = l] /\ result' = [result EXCEPT ![s] = a] /\ Goes(r, Idle)
      /\ UNCHANGED <<credential, requests>> /\ WorkerOnly
  BY <1>1 DEF Accept, Inv, WorkerInv, WorkerTyped, WorkerOnly, sellerVars
<1>6. a.verdict = run[r].verdict /\ a.worker = run[r].worker /\ a.generation = run[r].generation
  OBVIOUS
<1> HIDE DEF l, a
<1>7. lease' \in [Revisions -> Lease] /\ lease'[s] = l /\ \A t \in Revisions \ {s} : lease'[t] = lease[t]
  BY <1>1, <1>4, <1>5, LeaseUpdate
<1>8. /\ result' \in [Revisions -> Result \cup {None}] /\ result'[s] = a
      /\ \A t \in Revisions \ {s} : result'[t] = result[t]
  BY <1>1, <1>3, <1>5 DEF Inv, WorkerInv, WorkerTyped
<1>9. LeaseStep(s)
  BY <1>1, <1>2, <1>3, <1>4, <1>6, <1>7, <1>8 DEF LeaseStep
<1>10. run' \in [Runs -> Run] /\ \A p \in Runs : Honest(run[p])'
  BY <1>5, IdleHonest, RunUpdate
<1> QED BY <1>1, <1>5, <1>9, <1>10 DEF WorkerStep, Inv, WorkerInv, WorkerTyped

LEMMA WorkerSteps ==
    ASSUME Inv, WorkerNext
    PROVE  WorkerStep
<1>1. ASSUME NEW w \in Workers, RotateCredential(w) PROVE WorkerStep
  <2>1. UNCHANGED <<lease, result, run, requests>> /\ WorkerOnly
    BY <1>1 DEF RotateCredential, WorkerOnly, sellerVars
  <2>2. LeaseStep(1) /\ 1 \in Revisions
    BY <2>1, LeaseStays, RevisionAssumption DEF Revisions
  <2>3. credential' \in [Workers -> Nat]
    BY <1>1 DEF RotateCredential, Inv, WorkerInv, WorkerTyped
  <2> QED BY <2>1, <2>2, <2>3 DEF WorkerStep, Inv, WorkerInv, WorkerTyped, Honest
<1>2. ASSUME NEW r \in Runs, NEW w \in Workers, NEW s \in Revisions, Claim(r, w, s) PROVE WorkerStep
  BY <1>2, ClaimStep
<1>3. ASSUME NEW r \in Runs,
             TakeSnapshot(r) \/ (\E verdict \in Verdict : Check(r, verdict)) \/ RunEnds(r)
      PROVE  WorkerStep
  BY <1>3, RunOnlyStep
<1>4. CASE \/ \E r \in Runs : Renew(r) \/ Cancel(r)
           \/ \E s \in Revisions : LeaseRunsDown(s)
  BY <1>4, LeaseOnlyStep
<1>5. ASSUME NEW r \in Runs, Accept(r) PROVE WorkerStep
  BY <1>5, AcceptStep
<1> QED BY <1>1, <1>2, <1>3, <1>4, <1>5 DEF WorkerNext

\* A worker's step leaves the seller and the market what they were.
LEMMA WorkerKeeps == Inv /\ WorkerNext => Inv'
<1> SUFFICES ASSUME Inv, WorkerNext PROVE Inv'
  OBVIOUS
<1>1. PICK s \in Revisions : LeaseStep(s)
  BY WorkerSteps DEF WorkerStep
<1>2. /\ credential' \in [Workers -> Nat] /\ run' \in [Runs -> Run]
      /\ \A r \in Runs : Honest(run[r])'
      /\ UNCHANGED <<sellerVars, marketVars>>
  BY WorkerSteps DEF WorkerStep, WorkerOnly
<1>3. /\ ResultIsTheHolders'
      /\ \A t \in Revisions :
           /\ lease'[t].state # "none" => t \in requests'
           /\ result'[t] # None => result'[t].verdict \in Sayable(t)
           /\ result[t] # None => result'[t] = result[t]
  BY <1>1, <1>2, LeaseKeeps DEF sellerVars
<1>4. WorkerInv'
  BY <1>1, <1>2, <1>3 DEF WorkerInv, WorkerTyped, LeaseStep
<1>5. SellerInv'
  BY <1>2 DEF Inv, SellerInv, SellerTyped, sellerVars
<1>6. MarketInv'
  BY <1>2, <1>3 DEF Inv, MarketInv, MarketTyped, marketVars
<1> QED BY <1>4, <1>5, <1>6 DEF Inv

\* A step on releases and listings leaves the seller and the workers.
LEMMA MarketKeeps == Inv /\ MarketNext => Inv'
<1> SUFFICES ASSUME Inv, MarketNext PROVE Inv'
  OBVIOUS
<1>1. UNCHANGED <<sellerVars, workerVars>>
  BY DEF MarketNext, MarketOnly, PublishRelease, VerifyRights, QualifyReady, Promote,
         PublishPromotedListing, SaveListing, UpdateCreatorListing
<1>2. SellerInv' /\ WorkerInv'
  <2>1. SellerInv'
    BY <1>1 DEF Inv, SellerInv, SellerTyped, sellerVars
  <2>2. WorkerTyped' /\ ResultIsTheHolders'
    BY <1>1 DEF Inv, WorkerInv, WorkerTyped, ResultIsTheHolders, workerVars
  <2>3. \A r \in Runs : Honest(run[r])'
    BY <1>1 DEF Inv, WorkerInv, Honest, workerVars, sellerVars
  <2> QED BY <1>1, <2>1, <2>2, <2>3 DEF Inv, WorkerInv, workerVars, sellerVars
<1>3. MarketInv'
  <2> USE DEF Inv, MarketInv, MarketTyped
  <2>1. ASSUME NEW v \in Versions, PublishRelease(v) PROVE MarketInv'
    BY <1>1, <2>1, NoneAssumption DEF PublishRelease, workerVars, SellerInv, SellerTyped
  <2>2. ASSUME NEW v \in Versions, VerifyRights(v) PROVE MarketInv'
    BY <1>1, <2>2 DEF VerifyRights, workerVars
  <2>3. ASSUME NEW v \in Versions, QualifyReady(v) PROVE MarketInv'
    BY <1>1, <2>3 DEF QualifyReady, workerVars
  <2>4. ASSUME NEW s \in Revisions, NEW v \in Versions, Promote(s, v) PROVE MarketInv'
    <3>1. submission[s] = s
      BY <2>4, NoneAssumption DEF Promote, Promotable, WorkerInv, ResultIsTheHolders, SellerInv
    <3>2. MarketTyped'
      BY <2>4, <3>1 DEF Promote, Snapshot
    <3>3. /\ release' = [release EXCEPT ![v] = s] /\ promotion' = [promotion EXCEPT ![s] = v]
          /\ release[v] = None /\ promotion[s] = None /\ result[s] # None /\ result[s].verdict = "passed"
      BY <2>4, <3>1 DEF Promote, Snapshot, Promotable
    <3>4. \A t \in Revisions : promotion'[t] # None =>
             release'[promotion'[t]] = t /\ result[t] # None /\ result[t].verdict = "passed"
      BY <3>3, NoneAssumption
    <3>5. \A u \in rights : release'[u] # None
      BY <3>3, NoneAssumption
    <3>6. UNCHANGED <<rights, listing>>
      BY <2>4 DEF Promote
    <3>7. listing.status = "published" => \E t \in Revisions : promotion'[t] = listing.version
      BY <3>3, NoneAssumption
    <3> QED BY <1>1, <3>2, <3>4, <3>5, <3>6, <3>7 DEF workerVars
  <2>5. ASSUME NEW s \in Revisions, PublishPromotedListing(s) PROVE MarketInv'
    BY <1>1, <2>5 DEF PublishPromotedListing, workerVars, Listing
  <2>6. ASSUME NEW available \in BOOLEAN, UpdateCreatorListing(available) PROVE MarketInv'
    BY <1>1, <2>6 DEF UpdateCreatorListing, workerVars, Listing
  <2>7. ASSUME NEW available \in BOOLEAN, NEW v \in Versions, NEW published \in BOOLEAN,
               SaveListing(v, published, available)
        PROVE  MarketInv'
    BY <1>1, <2>7 DEF SaveListing, OwnerMaySave, workerVars, Listing
  <2> HIDE DEF Inv, MarketInv, MarketTyped
  <2> QED BY <2>1, <2>2, <2>3, <2>4, <2>5, <2>6, <2>7 DEF MarketNext
<1> QED BY <1>2, <1>3 DEF Inv

LEMMA NextInv == Inv /\ [Next]_vars => Inv'
<1> SUFFICES ASSUME Inv, UNCHANGED vars PROVE Inv'
  BY SellerKeeps, WorkerKeeps, MarketKeeps DEF Next
<1> USE DEF vars, sellerVars, workerVars, marketVars
<1>1. SellerInv'
  BY DEF Inv, SellerInv, SellerTyped
<1>2. WorkerInv'
  <2>1. WorkerTyped' /\ ResultIsTheHolders'
    BY DEF Inv, WorkerInv, WorkerTyped, ResultIsTheHolders
  <2>2. \A r \in Runs : Honest(run[r])'
    BY DEF Inv, WorkerInv, Honest
  <2> QED BY <2>1, <2>2 DEF Inv, WorkerInv
<1>3. MarketInv'
  BY DEF Inv, MarketInv, MarketTyped
<1> QED BY <1>1, <1>2, <1>3 DEF Inv

LEMMA Invariant == Spec => []Inv
<1> QED BY InitInv, NextInv, PTL DEF Spec

\* A result is that of the last worker that held the assessment, given while
\* it held it (claim, renew and accept of postgresProductDomain.ts): no worker
\* that lost its lease, no withdrawn credential and no second claim leaves one,
\* however many workers and processes there are.
THEOREM ResultsAreTheHolders == Spec => []ResultIsTheHolders
<1>1. Inv => ResultIsTheHolders
  BY DEF Inv, WorkerInv
<1> QED BY <1>1, Invariant, PTL
-----------------------------------------------------------------------------
(* The pipeline implements AssessedReleases.                                   *)

\* What buyers see.
Cleared == {s \in Revisions : promotion[s] \in rights}
Offer == IF listing.status = "published" THEN {release[listing.version]} ELSE {}
Shown == listing.status = "published" /\ listing.available

\* One revision's stage changes and nothing else: a decision of the pipeline.
LEMMA OneMoves ==
    ASSUME NEW s \in Revisions, NEW from, NEW to, Stage(s) = from, Stage(s)' = to,
           \A t \in Revisions \ {s} : Stage(t)' = Stage(t),
           UNCHANGED <<Cleared, Offer, Shown>>
    PROVE  Gate!Moves(s, from, to)
BY DEF Gate!Moves, Cleared, Offer, Shown

LEMMA NoneMoves ==
    ASSUME \A t \in Revisions : Stage(t)' = Stage(t), UNCHANGED <<Cleared, Offer, Shown>>
    PROVE  UNCHANGED Gate!vars
BY DEF Gate!vars, Cleared, Offer, Shown

\* A revision that has no decision yet has come no further.
LEMMA StageFacts ==
    ASSUME Inv, NEW s \in Revisions
    PROVE  /\ promotion[s] # None => result[s] # None
           /\ result[s] # None <=> lease[s].state = "completed"
           /\ lease[s].state # "none" => s \in requests
           /\ s \in requests => decision[s] = "approved"
           /\ decision[s] # None => submission[s] # None
           /\ "approved" # None /\ "rejected" # None
BY NoneAssumption DEF Inv, SellerInv, WorkerInv, MarketInv, ResultIsTheHolders

LEMMA SellerRefines ==
    ASSUME Inv, SellerNext
    PROVE  [Gate!Next]_Gate!vars
<1>1. UNCHANGED <<workerVars, marketVars>>
  BY DEF SellerNext, Apply, EditSource, Submit, DecideApplication, AdmitAssessment, Review
<1>2. UNCHANGED <<Cleared, Offer, Shown>>
  BY <1>1 DEF marketVars, Cleared, Offer, Shown
<1>3. CASE Apply \/ EditSource \/ \E status \in {"approved", "rejected"} : DecideApplication(status)
  <2>1. \A t \in Revisions : Stage(t)' = Stage(t)
    BY <1>1, <1>3 DEF Apply, EditSource, DecideApplication, Stage, workerVars, marketVars
  <2> QED BY <1>2, <2>1, NoneMoves
<1>4. ASSUME NEW s \in Revisions, s = head, Submit PROVE Gate!Moves(s, "private", "submitted")
  <2>1. submission[s] = None /\ submission' = [submission EXCEPT ![s] = s] /\ UNCHANGED <<decision, requests>>
    BY <1>4 DEF Submit
  <2>2. s # None /\ submission'[s] = s /\ \A t \in Revisions \ {s} : submission'[t] = submission[t]
    BY <2>1, NoneAssumption DEF Inv, SellerInv, SellerTyped
  <2>3. /\ promotion[s] = None /\ result[s] = None /\ lease[s].state # "cancelled"
        /\ s \notin requests /\ decision[s] = None
    BY <2>1, StageFacts
  <2>4. Stage(s) = "private" /\ Stage(s)' = "submitted"
    BY <1>1, <2>1, <2>2, <2>3, NoneAssumption DEF Stage, workerVars, marketVars
  <2>5. \A t \in Revisions \ {s} : Stage(t)' = Stage(t)
    BY <1>1, <2>1, <2>2 DEF Stage, workerVars, marketVars
  <2> QED BY <1>2, <2>4, <2>5, OneMoves
<1>5. ASSUME NEW s \in Revisions, NEW d \in {"approved", "rejected"}, Review(s, d)
      PROVE  \E verdict \in {"refused", "approved"} : Gate!Moves(s, "submitted", verdict)
  <2> DEFINE to == IF d = "rejected" THEN "refused" ELSE "approved"
  <2>1. submission[s] # None /\ decision[s] = None /\ decision' = [decision EXCEPT ![s] = d]
        /\ UNCHANGED <<submission, requests>>
    BY <1>5 DEF Review
  <2>2. decision'[s] = d /\ \A t \in Revisions \ {s} : decision'[t] = decision[t]
    BY <2>1 DEF Inv, SellerInv, SellerTyped
  <2>3. promotion[s] = None /\ result[s] = None /\ lease[s].state # "cancelled" /\ s \notin requests
    BY <2>1, StageFacts
  <2>4. Stage(s) = "submitted" /\ Stage(s)' = to
    BY <1>1, <2>1, <2>2, <2>3, StageFacts DEF Stage, workerVars, marketVars
  <2>5. \A t \in Revisions \ {s} : Stage(t)' = Stage(t)
    BY <1>1, <2>1, <2>2 DEF Stage, workerVars, marketVars
  <2> QED BY <1>2, <2>4, <2>5, OneMoves
<1>6. ASSUME NEW s \in Revisions, AdmitAssessment(s) PROVE Gate!Moves(s, "approved", "admitted")
  <2>1. decision[s] = "approved" /\ s \notin requests /\ requests' = requests \cup {s}
        /\ UNCHANGED <<submission, decision>>
    BY <1>6 DEF AdmitAssessment
  <2>2. promotion[s] = None /\ result[s] = None /\ lease[s].state # "cancelled"
    BY <2>1, StageFacts
  <2>3. Stage(s) = "approved" /\ Stage(s)' = "admitted"
    BY <1>1, <2>1, <2>2 DEF Stage, workerVars, marketVars
  <2>4. \A t \in Revisions \ {s} : Stage(t)' = Stage(t)
    BY <1>1, <2>1 DEF Stage, workerVars, marketVars
  <2> QED BY <1>2, <2>3, <2>4, OneMoves
<1>7. head \in Revisions
  BY DEF Inv, SellerInv, SellerTyped
<1> QED BY <1>3, <1>4, <1>5, <1>6, <1>7 DEF SellerNext, Gate!Next, Gate!Advance

LEMMA WorkerRefines ==
    ASSUME Inv, WorkerNext
    PROVE  [Gate!Next]_Gate!vars
<1>1. PICK s \in Revisions : LeaseStep(s)
  BY WorkerSteps DEF WorkerStep
<1>2. UNCHANGED <<sellerVars, marketVars>>
  BY WorkerSteps DEF WorkerStep, WorkerOnly
<1>3. UNCHANGED <<Cleared, Offer, Shown>>
  BY <1>2 DEF marketVars, Cleared, Offer, Shown
<1>4. \A t \in Revisions \ {s} : Stage(t)' = Stage(t)
  BY <1>1, <1>2 DEF LeaseStep, Stage, sellerVars, marketVars
<1>5. CASE Stage(s)' = Stage(s)
  BY <1>3, <1>4, <1>5, NoneMoves
<1>6. CASE Stage(s)' # Stage(s)
  <2>1. /\ Stage(s) = "admitted"
        /\ Stage(s)' \in Sayable(s) \cup {"cancelled"}
    <3>1. CASE result'[s] = result[s] /\ lease'[s].state = lease[s].state
      BY <1>2, <1>6, <3>1 DEF Stage, sellerVars, marketVars
    <3>2. CASE /\ result' = result /\ s \in requests
               /\ lease[s].state \in {"none", "leased"} /\ lease'[s].state \in {"leased", "cancelled"}
      <4>1. result[s] = None /\ promotion[s] = None
        BY <3>2, StageFacts
      <4> QED BY <1>2, <1>6, <3>2, <4>1 DEF Stage, sellerVars, marketVars
    <3>3. CASE /\ lease[s].state = "leased" /\ s \in requests
               /\ result'[s] # None /\ result'[s].verdict \in Sayable(s)
      <4>1. result[s] = None /\ promotion[s] = None
        BY <3>3, StageFacts
      <4> QED BY <1>2, <3>3, <4>1 DEF Stage, sellerVars, marketVars
    <3> QED BY <1>1, <3>1, <3>2, <3>3 DEF LeaseStep
  <2>2. Gate!Moves(s, "admitted", Stage(s)')
    BY <1>3, <1>4, <2>1, OneMoves
  <2> QED BY <2>1, <2>2 DEF Sayable, Gate!Next, Gate!Advance, Gate!Verdicts
<1> QED BY <1>5, <1>6

LEMMA MarketRefines ==
    ASSUME Inv, MarketNext
    PROVE  [Gate!Next]_Gate!vars
<1>1. UNCHANGED <<sellerVars, workerVars>>
  BY DEF MarketNext, MarketOnly, PublishRelease, VerifyRights, QualifyReady, Promote,
         PublishPromotedListing, SaveListing, UpdateCreatorListing
<1>2. /\ MarketTyped /\ None \notin Versions /\ \A v \in rights : release[v] # None
      /\ listing.status = "published" => listing.version \in rights
      /\ \A s \in Revisions : promotion[s] # None => release[promotion[s]] = s
  BY NoneAssumption DEF Inv, MarketInv
<1>3. ASSUME UNCHANGED promotion PROVE \A t \in Revisions : Stage(t)' = Stage(t)
  BY <1>1, <1>3 DEF Stage, sellerVars, workerVars
<1>4. ASSUME NEW v \in Versions, PublishRelease(v) PROVE UNCHANGED Gate!vars
  <2>1. release[v] = None /\ release' = [release EXCEPT ![v] = head] /\ UNCHANGED <<promotion, rights, listing>>
    BY <1>4 DEF PublishRelease
  <2>2. UNCHANGED <<Cleared, Offer, Shown>>
    BY <1>2, <2>1 DEF Cleared, Offer, Shown, MarketTyped
  <2> QED BY <1>3, <2>1, <2>2, NoneMoves
<1>5. ASSUME NEW v \in Versions, VerifyRights(v) PROVE [Gate!Next]_Gate!vars
  <2>1. release[v] # None /\ rights' = rights \cup {v} /\ UNCHANGED <<release, promotion, listing>>
    BY <1>5 DEF VerifyRights
  <2>2. UNCHANGED <<Offer, Shown>> /\ \A t \in Revisions : Stage(t)' = Stage(t)
    BY <1>3, <2>1 DEF Offer, Shown
  <2>3. CASE \E s \in Revisions : promotion[s] = v
    <3>1. PICK s \in Revisions : promotion[s] = v
      BY <2>3
    <3>2. \A t \in Revisions : promotion[t] = v => t = s
      BY <1>2, <3>1
    <3>3. Cleared' = Cleared \cup {s}
      BY <2>1, <3>1, <3>2 DEF Cleared
    <3>4. Stage(s) = "released"
      BY <1>2, <3>1 DEF Stage
    <3>5. Gate!Clear(s)
      BY <2>2, <3>3, <3>4 DEF Gate!Clear, Cleared, Offer, Shown
    <3> QED BY <3>5 DEF Gate!Next
  <2>4. CASE ~\E s \in Revisions : promotion[s] = v
    <3>1. UNCHANGED Cleared
      BY <2>1, <2>4 DEF Cleared
    <3> QED BY <2>2, <3>1, NoneMoves
  <2> QED BY <2>3, <2>4
<1>6. ASSUME NEW v \in Versions, QualifyReady(v) PROVE UNCHANGED Gate!vars
  <2>1. UNCHANGED <<release, promotion, rights, listing>>
    BY <1>6 DEF QualifyReady
  <2> QED BY <1>3, <2>1, NoneMoves DEF Cleared, Offer, Shown
<1>7. ASSUME NEW s \in Revisions, NEW v \in Versions, Promote(s, v) PROVE Gate!Moves(s, "passed", "released")
  <2>1. /\ promotion[s] = None /\ release[v] = None /\ result[s] # None /\ result[s].verdict = "passed"
        /\ promotion' = [promotion EXCEPT ![s] = v] /\ UNCHANGED <<rights, listing>>
        /\ release' = [release EXCEPT ![v] = Snapshot(s)]
    BY <1>7 DEF Promote, Promotable
  <2>2. v \notin rights /\ None \notin rights
    BY <1>2, <2>1 DEF MarketTyped
  <2>3. UNCHANGED Cleared
    BY <1>2, <2>1, <2>2 DEF Cleared, MarketTyped
  <2>4. UNCHANGED <<Offer, Shown>>
    BY <1>2, <2>1, <2>2 DEF Offer, Shown, MarketTyped
  <2>5. Stage(s) = "passed"
    BY <2>1 DEF Stage
  <2>6. promotion'[s] = v /\ v # None /\ \A t \in Revisions \ {s} : promotion'[t] = promotion[t]
    BY <1>2, <2>1 DEF MarketTyped
  <2>7. Stage(s)' = "released" /\ \A t \in Revisions \ {s} : Stage(t)' = Stage(t)
    BY <1>1, <2>6 DEF Stage, sellerVars, workerVars
  <2> QED BY <2>3, <2>4, <2>5, <2>7, OneMoves
<1>8. ASSUME NEW s \in Revisions, PublishPromotedListing(s) PROVE Gate!Offer(s)
  <2>1. promotion[s] # None /\ promotion[s] \in rights /\ listing.status = "none"
        /\ listing' = [version |-> promotion[s], status |-> "published", available |-> TRUE]
        /\ UNCHANGED <<release, promotion, rights>>
    BY <1>8 DEF PublishPromotedListing
  <2>2. release[promotion[s]] = s
    BY <1>2, <2>1
  <2>3. s \in Cleared /\ UNCHANGED Cleared /\ Offer = {} /\ Offer' = {s} /\ Shown' = TRUE
    BY <2>1, <2>2 DEF Cleared, Offer, Shown
  <2>4. \A t \in Revisions : Stage(t)' = Stage(t)
    BY <1>3, <2>1
  <2> QED BY <2>3, <2>4 DEF Gate!Offer, Cleared, Offer, Shown
<1>9. ASSUME listing.status = "published", listing'.status = "published",
             listing'.version = listing.version, listing'.available \in BOOLEAN,
             UNCHANGED <<release, promotion, rights>>
      PROVE  Gate!Show
  <2>1. Offer # {} /\ UNCHANGED <<Offer, Cleared>> /\ Shown' \in BOOLEAN
    BY <1>9 DEF Offer, Cleared, Shown
  <2>2. \A t \in Revisions : Stage(t)' = Stage(t)
    BY <1>3, <1>9
  <2> QED BY <2>1, <2>2 DEF Gate!Show, Cleared, Offer, Shown
<1>10. ASSUME NEW available \in BOOLEAN, NEW v \in Versions, NEW published \in BOOLEAN,
              SaveListing(v, published, available)
       PROVE  [Gate!Next]_Gate!vars
  <2>1. /\ UNCHANGED <<release, promotion, rights>> /\ OwnerMaySave(v, published)
        /\ listing' = [version |-> v, status |-> IF published THEN "published" ELSE "unpublished",
                       available |-> published /\ available]
    BY <1>10 DEF SaveListing
  <2>2. CASE published
    <3>1. listing.status = "published" /\ listing.version = v
      BY <2>1, <2>2 DEF OwnerMaySave
    <3> QED BY <1>9, <2>1, <2>2, <3>1 DEF Gate!Next
  <2>3. CASE ~published
    <3>1. listing.status # "published"
      BY <2>1, <2>3 DEF OwnerMaySave
    <3>2. UNCHANGED <<Cleared, Offer, Shown>>
      BY <2>1, <2>3, <3>1 DEF Cleared, Offer, Shown
    <3> QED BY <1>3, <2>1, <3>2, NoneMoves
  <2> QED BY <2>2, <2>3
<1>11. ASSUME NEW available \in BOOLEAN, UpdateCreatorListing(available) PROVE Gate!Show
  <2>1. /\ listing.status = "published" /\ listing' = [listing EXCEPT !.available = available]
        /\ UNCHANGED <<release, promotion, rights>>
    BY <1>11 DEF UpdateCreatorListing
  <2>2. listing'.status = "published" /\ listing'.version = listing.version /\ listing'.available \in BOOLEAN
    BY <1>2, <2>1 DEF MarketTyped, Listing
  <2> QED BY <1>9, <2>1, <2>2
<1> QED BY <1>4, <1>5, <1>6, <1>7, <1>8, <1>10, <1>11 DEF MarketNext, Gate!Next, Gate!Advance

\* Buyers are offered one revision, and only one that was reviewed, whose
\* submitted bytes passed, that an operator released and whose rights were
\* verified (submit to publish of postgresProductDomain.ts), however leases
\* lapse, workers die and the source moves on: each step of the pipeline is one
\* step of AssessedReleases or none.
THEOREM SellersImplementReleases == Spec => ImplementsAssessedReleases
<1>1. Init => Gate!Init
  <2> SUFFICES ASSUME Init PROVE Gate!Init
    OBVIOUS
  <2>1. \A s \in Revisions : Stage(s) = "private"
    BY NoneAssumption DEF Init, Stage, NoLease
  <2>2. Cleared = {} /\ Offer = {} /\ Shown = FALSE
    BY DEF Init, Cleared, Offer, Shown, NoListing
  <2> QED BY <2>1, <2>2 DEF Gate!Init, Cleared, Offer, Shown
<1>2. Inv /\ [Next]_vars => [Gate!Next]_Gate!vars
  <2> SUFFICES ASSUME Inv, UNCHANGED vars PROVE UNCHANGED Gate!vars
    BY SellerRefines, WorkerRefines, MarketRefines DEF Next
  <2>1. \A t \in Revisions : Stage(t)' = Stage(t)
    BY DEF vars, sellerVars, workerVars, marketVars, Stage
  <2>2. UNCHANGED <<Cleared, Offer, Shown>>
    BY DEF vars, marketVars, Cleared, Offer, Shown
  <2> QED BY <2>1, <2>2, NoneMoves
<1> QED BY <1>1, <1>2, Invariant, PTL DEF Spec, ImplementsAssessedReleases, Gate!Spec
=============================================================================
