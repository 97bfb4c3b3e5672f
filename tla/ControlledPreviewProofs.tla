------------------------ MODULE ControlledPreviewProofs ------------------------
(* Proofs about ControlledPreview and the LocalScheduler under it, for any    *)
(* number of generations, sessions, requests, quotas and source commits.      *)
EXTENDS ControlledPreview, TLAPS

(* The scheduler: what a lease, a job and the host owe to each other.         *)

Stops(g) == job[g].open # "none" /\ job[g].stop = "no"

\* A job that runs or is being stopped has an unsettled lease; a lease ends only
\* behind the host's tombstone; no lease, no job and nothing at the host.
LeaseOk(g) ==
    /\ lease[g] = "none" =>
         job[g] = NoJob /\ host[g] = [unit |-> "none", revoked |-> FALSE]
    /\ lease[g] = "stopped" => host[g].revoked
    /\ host[g].revoked => host[g].unit = "gone"
    /\ Stops(g) => lease[g] \in Unsettled
    /\ job[g].stop = "revoking" => lease[g] \in Unsettled
    /\ job[g].open = "waiting" => job[g].stop = "no"
    /\ ready \in {"no", "recovering"} => job[g].open = "none"

SchedulerInv == \A g \in Generations : LeaseOk(g)

\* What a step of the composed system is to the scheduler.
SchedulerAction ==
    \/ UNCHANGED schedulerVars
    \/ SchedulerStep
    \/ \E g \in Generations : (OpenJob(g) /\ ready = "yes") \/ RevokeFails(g)
    \/ \E G \in SUBSET Generations : StopJobs(G)
    \/ BeginRecovery
    \/ SchedulerCrash

SlotStep == Slots!Next \/ UNCHANGED Slots!vars

LEMMA SchedulerStart ==
    SchedulerInit => SchedulerTypeOK /\ SchedulerInv /\ Slots!Init
<1> SUFFICES ASSUME SchedulerInit PROVE SchedulerTypeOK /\ SchedulerInv /\ Slots!Init
  OBVIOUS
<1>1. SchedulerTypeOK
  BY DEF SchedulerInit, SchedulerTypeOK, Unsettled, Job, NoJob, Host
<1>2. SchedulerInv
  BY DEF SchedulerInit, SchedulerInv, LeaseOk, Stops, NoJob, Unsettled
<1>3. Slots!Init
  BY DEF SchedulerInit, Slots!Init, Holding, Unsettled
<1> QED BY <1>1, <1>2, <1>3

\* A step that changes one job, its lease and the host's unit of it.
LEMMA OneJob ==
    ASSUME SchedulerTypeOK, SchedulerInv, NEW g \in Generations,
           SchedulerTypeOK',
           \A h \in Generations \ {g} :
             lease'[h] = lease[h] /\ job'[h] = job[h] /\ host'[h] = host[h],
           ready' \in {"no", "recovering"} => ready \in {"no", "recovering"},
           LeaseOk(g)'
    PROVE  SchedulerInv'
<1>1. ASSUME NEW h \in Generations, h # g PROVE LeaseOk(h)'
  BY <1>1 DEF SchedulerInv, LeaseOk, Stops
<1> QED BY <1>1 DEF SchedulerInv

\* Nothing that the slots see has changed.
LEMMA SlotsSame ==
    ASSUME SchedulerTypeOK, SchedulerTypeOK',
           \A h \in Generations :
             /\ lease'[h] \in Unsettled <=> lease[h] \in Unsettled
             /\ lease'[h] = "stopped" <=> lease[h] = "stopped"
             /\ host'[h].unit = "running" <=> host[h].unit = "running"
    PROVE  SlotStep
BY DEF SlotStep, Slots!vars, Holding

LEMMA OpenJobStep ==
    ASSUME SchedulerTypeOK, SchedulerInv, NEW g \in Generations, OpenJob(g), ready = "yes"
    PROVE  SchedulerTypeOK' /\ SchedulerInv' /\ SlotStep
<1>1. /\ lease[g] = "none" /\ Admissible(g) /\ LeaseOk(g)
      /\ lease' = [lease EXCEPT ![g] = "allocating"]
      /\ job' = [job EXCEPT ![g] = [open |-> "waiting", stop |-> "no"]]
      /\ host' = [host EXCEPT ![g].unit = "starting"]
      /\ ready' = ready /\ uncertain' = uncertain
  BY DEF OpenJob, SchedulerInv
<1>2. SchedulerTypeOK'
  BY <1>1 DEF SchedulerTypeOK, Unsettled, Job, Host
<1>3. /\ lease'[g] = "allocating" /\ job'[g] = [open |-> "waiting", stop |-> "no"]
      /\ host'[g].unit = "starting" /\ ~host'[g].revoked
      /\ \A h \in Generations \ {g} :
           lease'[h] = lease[h] /\ job'[h] = job[h] /\ host'[h] = host[h]
  BY <1>1 DEF SchedulerTypeOK, LeaseOk
<1>4. SchedulerInv'
  <2>1. LeaseOk(g)'
    BY <1>1, <1>3 DEF LeaseOk, Stops, Unsettled
  <2> QED BY <1>1, <1>2, <1>3, <2>1, OneJob
<1>5. Slots!Acquire(g)
  <2>1. Holding' = Holding \cup {g}
    BY <1>1, <1>3 DEF Holding, Unsettled
  <2>2. g \notin Holding /\ lease[g] # "stopped"
    BY <1>1 DEF Holding, Unsettled
  <2>3. {h \in Generations : lease'[h] = "stopped"} = {h \in Generations : lease[h] = "stopped"}
    BY <1>1, <1>3
  <2>4. {h \in Generations : host'[h].unit = "running"} = {h \in Generations : host[h].unit = "running"}
    <3>1. host[g].unit = "none"
      BY <1>1 DEF LeaseOk
    <3> QED BY <1>3, <3>1
  <2>5. Slots!Admissible(g)
    <3>1. \A S : Slots!Cardinality(S) = Cardinality(S)
      BY DEF Slots!Cardinality, Cardinality
    <3> QED BY <1>1, <3>1 DEF Slots!Admissible, Admissible
  <2>6. g \notin Holding \cup {h \in Generations : lease[h] = "stopped"}
    BY <2>2
  <2> QED BY <2>1, <2>3, <2>4, <2>5, <2>6 DEF Slots!Acquire
<1> QED BY <1>2, <1>4, <1>5 DEF SlotStep, Slots!Next

LEMMA StopJobsStep ==
    ASSUME SchedulerTypeOK, SchedulerInv, NEW G \in SUBSET Generations, StopJobs(G)
    PROVE  SchedulerTypeOK' /\ SchedulerInv' /\ SlotStep
<1>1. /\ ready' = ready /\ uncertain' = uncertain /\ host' = host
      /\ lease' = [g \in Generations |-> IF g \in Stoppable(G) THEN "stopping" ELSE lease[g]]
      /\ job' = [g \in Generations |->
                   IF g \in Stoppable(G)
                   THEN [stop |-> "revoking",
                         open |-> IF job[g].open = "waiting" THEN "failing" ELSE job[g].open]
                   ELSE job[g]]
  BY DEF StopJobs
<1>2. \A g \in Stoppable(G) : g \in Generations /\ Stops(g)
  BY DEF Stoppable, Stops
<1>3. SchedulerTypeOK'
  BY <1>1 DEF SchedulerTypeOK, Unsettled, Job
<1>4. ASSUME NEW g \in Generations, g \in Stoppable(G)
      PROVE  /\ LeaseOk(g)' /\ lease[g] \in Unsettled /\ lease'[g] = "stopping"
  <2>1. LeaseOk(g) /\ Stops(g)
    BY <1>2, <1>4 DEF SchedulerInv
  <2>2. /\ lease'[g] = "stopping" /\ job'[g].stop = "revoking"
        /\ job'[g].open = IF job[g].open = "waiting" THEN "failing" ELSE job[g].open
    BY <1>1, <1>4
  <2> QED BY <1>1, <2>1, <2>2 DEF LeaseOk, Stops, Unsettled
<1>5. ASSUME NEW g \in Generations, g \notin Stoppable(G)
      PROVE  LeaseOk(g)' /\ lease'[g] = lease[g]
  <2>1. lease'[g] = lease[g] /\ job'[g] = job[g]
    BY <1>1, <1>5
  <2> QED BY <1>1, <2>1 DEF SchedulerInv, LeaseOk, Stops
<1>6. SchedulerInv'
  BY <1>4, <1>5 DEF SchedulerInv
<1>7. SlotStep
  <2>1. \A h \in Generations :
          /\ lease'[h] \in Unsettled <=> lease[h] \in Unsettled
          /\ lease'[h] = "stopped" <=> lease[h] = "stopped"
    BY <1>4, <1>5 DEF Unsettled
  <2> QED BY <1>1, <1>3, <2>1, SlotsSame
<1> QED BY <1>3, <1>6, <1>7

LEMMA OneJobSteps ==
    ASSUME SchedulerTypeOK, SchedulerInv, NEW g \in Generations,
           OpenReturns(g) \/ RecoverNext(g) \/ RevokeFails(g)
    PROVE  SchedulerTypeOK' /\ SchedulerInv' /\ SlotStep
<1>0. LeaseOk(g) /\ job[g] \in Job
  BY DEF SchedulerInv, SchedulerTypeOK
<1>1. SchedulerTypeOK'
  <2>1. CASE OpenReturns(g)
    BY <2>1 DEF OpenReturns, SchedulerTypeOK, Unsettled, Job
  <2>2. CASE RecoverNext(g)
    BY <2>2 DEF RecoverNext, SchedulerTypeOK, Unsettled, Job
  <2>3. CASE RevokeFails(g)
    BY <2>3 DEF RevokeFails, SchedulerTypeOK, Unsettled, Job
  <2> QED BY <2>1, <2>2, <2>3
<1>2. /\ host' = host
      /\ \A h \in Generations \ {g} : lease'[h] = lease[h] /\ job'[h] = job[h]
      /\ ready' \in {"no", "recovering"} => ready \in {"no", "recovering"}
  BY DEF OpenReturns, RecoverNext, RevokeFails, SchedulerTypeOK
<1>3. CASE OpenReturns(g)
  <2>1. /\ job[g].open = "waiting" /\ job'[g].open = "returned" /\ job'[g].stop = job[g].stop
        /\ lease'[g] = "running" /\ ready' = ready
    BY <1>3, <1>0 DEF OpenReturns, SchedulerTypeOK, Job
  <2>2. lease[g] \in Unsettled /\ LeaseOk(g)'
    BY <1>0, <1>2, <2>1 DEF LeaseOk, Stops, Unsettled
  <2>3. SchedulerInv'
    BY <1>1, <1>2, <2>2, OneJob
  <2>4. SlotStep
    BY <1>1, <1>2, <2>1, <2>2, SlotsSame DEF Unsettled
  <2> QED BY <1>1, <2>3, <2>4
<1>4. CASE RecoverNext(g)
  <2>1. /\ lease[g] \in Unsettled /\ lease'[g] = "stopping" /\ ready = "recovering" /\ ready' = ready
        /\ job'[g].stop = "revoking" /\ job'[g].open = job[g].open
    BY <1>4, <1>0 DEF RecoverNext, SchedulerTypeOK, Job, Holding
  <2>2. LeaseOk(g)'
    BY <1>0, <1>2, <2>1 DEF LeaseOk, Stops, Unsettled
  <2>3. SchedulerInv'
    BY <1>1, <1>2, <2>2, OneJob
  <2>4. SlotStep
    BY <1>1, <1>2, <2>1, SlotsSame DEF Unsettled
  <2> QED BY <1>1, <2>3, <2>4
<1>5. CASE RevokeFails(g)
  <2>1. /\ job[g].stop = "revoking" /\ lease'[g] = "quarantined"
        /\ job'[g].stop = "failed" /\ job'[g].open = job[g].open
    BY <1>5, <1>0 DEF RevokeFails, SchedulerTypeOK, Job
  <2>2. lease[g] \in Unsettled /\ LeaseOk(g)'
    BY <1>0, <1>2, <2>1 DEF LeaseOk, Stops, Unsettled
  <2>3. SchedulerInv'
    BY <1>1, <1>2, <2>2, OneJob
  <2>4. SlotStep
    BY <1>1, <1>2, <2>1, <2>2, SlotsSame DEF Unsettled
  <2> QED BY <1>1, <2>3, <2>4
<1> QED BY <1>3, <1>4, <1>5

\* The host starts and ends what has a slot, and the slot is given back when
\* the tombstone says that nothing of it runs.
LEMMA HostSteps ==
    ASSUME SchedulerTypeOK, SchedulerInv, NEW g \in Generations,
           HostStarts(g) \/ HostEnds(g) \/ HostRevokes(g)
    PROVE  SchedulerTypeOK' /\ SchedulerInv' /\ SlotStep
<1> DEFINE running == {h \in Generations : host[h].unit = "running"}
           running2 == {h \in Generations : host'[h].unit = "running"}
<1>0. LeaseOk(g) /\ host[g] \in Host /\ lease[g] \in Unsettled \cup {"none", "stopped"}
  BY DEF SchedulerInv, SchedulerTypeOK
<1>1. /\ lease' = lease /\ job' = job /\ ready' = ready /\ uncertain' = uncertain
      /\ \A h \in Generations \ {g} : host'[h] = host[h]
  BY DEF HostStarts, HostEnds, HostRevokes, SchedulerTypeOK
<1>2. SchedulerTypeOK'
  <2>1. CASE HostStarts(g)
    BY <2>1 DEF HostStarts, SchedulerTypeOK, Host
  <2>2. CASE HostEnds(g)
    BY <2>2 DEF HostEnds, SchedulerTypeOK, Host
  <2>3. CASE HostRevokes(g)
    BY <2>3 DEF HostRevokes, SchedulerTypeOK, Host
  <2> QED BY <2>1, <2>2, <2>3
<1>3. Holding' = Holding
  BY <1>1 DEF Holding
<1>4. CASE HostStarts(g)
  <2>1. /\ host[g].unit = "starting" /\ ~host[g].revoked
        /\ host'[g].unit = "running" /\ ~host'[g].revoked
    BY <1>4, <1>0 DEF HostStarts, SchedulerTypeOK, Host
  <2>2. lease[g] \in Unsettled /\ LeaseOk(g)'
    BY <1>0, <1>1, <2>1 DEF LeaseOk, Stops
  <2>3. SchedulerInv'
    BY <1>1, <1>2, <2>2, OneJob
  <2>4. running2 = running \cup {g} /\ g \in Holding \ running
    BY <1>1, <2>1, <2>2 DEF Holding
  <2>5. Slots!Start(g)
    BY <1>1, <1>3, <2>4 DEF Slots!Start
  <2> QED BY <1>2, <2>3, <2>5 DEF SlotStep, Slots!Next
<1>5. CASE HostEnds(g) \/ HostRevokes(g)
  <2>1. /\ host'[g].unit = "gone"
        /\ host[g].revoked => host'[g].revoked
        /\ lease[g] # "none"
    BY <1>5, <1>0 DEF HostEnds, HostRevokes, SchedulerTypeOK, Host, LeaseOk, NoJob
  <2>2. LeaseOk(g)'
    BY <1>0, <1>1, <2>1 DEF LeaseOk, Stops
  <2>3. SchedulerInv'
    BY <1>1, <1>2, <2>2, OneJob
  <2>4. running2 = running \ {g}
    BY <1>1, <2>1
  <2>5. Slots!Stop(g)
    BY <1>1, <1>3, <2>4 DEF Slots!Stop
  <2> QED BY <1>2, <2>3, <2>5 DEF SlotStep, Slots!Next
<1> QED BY <1>4, <1>5

LEMMA SettleStep ==
    ASSUME SchedulerTypeOK, SchedulerInv, NEW g \in Generations, StopSettles(g)
    PROVE  SchedulerTypeOK' /\ SchedulerInv' /\ SlotStep
<1> DEFINE released == {h \in Generations : lease[h] = "stopped"}
           released2 == {h \in Generations : lease'[h] = "stopped"}
<1>1. /\ LeaseOk(g) /\ job[g].stop = "revoking" /\ host[g].revoked
      /\ lease' = [lease EXCEPT ![g] = "stopped"]
      /\ job' = [job EXCEPT ![g].stop = "done"]
      /\ ready' = ready /\ uncertain' = uncertain /\ host' = host
  BY DEF StopSettles, SchedulerInv
<1>2. SchedulerTypeOK'
  BY <1>1 DEF SchedulerTypeOK, Unsettled, Job
<1>3. /\ lease'[g] = "stopped" /\ job'[g].stop = "done" /\ job'[g].open = job[g].open
      /\ \A h \in Generations \ {g} : lease'[h] = lease[h] /\ job'[h] = job[h]
  BY <1>1 DEF SchedulerTypeOK, Job
<1>4. LeaseOk(g)' /\ lease[g] \in Unsettled /\ host[g].unit = "gone"
  BY <1>1, <1>3 DEF LeaseOk, Stops
<1>5. SchedulerInv'
  BY <1>1, <1>2, <1>3, <1>4, OneJob
<1>6. Holding' = Holding \ {g} /\ g \in Holding
  BY <1>3, <1>4 DEF Holding, Unsettled
<1>7. released2 = released \cup {g}
  BY <1>3
<1>8. Slots!Release(g)
  BY <1>1, <1>4, <1>6, <1>7 DEF Slots!Release
<1> QED BY <1>2, <1>5, <1>8 DEF SlotStep, Slots!Next

LEMMA RecoverySteps ==
    ASSUME SchedulerTypeOK, SchedulerInv,
           UNCHANGED schedulerVars \/ BeginRecovery \/ EndRecovery \/ SchedulerCrash
    PROVE  SchedulerTypeOK' /\ SchedulerInv' /\ SlotStep
<1>1. SchedulerTypeOK' /\ lease' = lease /\ host' = host
  <2>1. CASE SchedulerCrash
    BY <2>1 DEF SchedulerCrash, SchedulerTypeOK, Job, NoJob
  <2>2. CASE BeginRecovery \/ EndRecovery
    BY <2>2 DEF BeginRecovery, EndRecovery, SchedulerTypeOK
  <2>3. CASE UNCHANGED schedulerVars
    BY <2>3 DEF schedulerVars, SchedulerTypeOK
  <2> QED BY <2>1, <2>2, <2>3
<1>2. ASSUME NEW g \in Generations PROVE LeaseOk(g)'
  <2>1. LeaseOk(g)
    BY DEF SchedulerInv
  <2>2. \/ job'[g] = NoJob
        \/ /\ job'[g] = job[g]
           /\ ready' \in {"no", "recovering"} => ready \in {"no", "recovering"}
    BY DEF schedulerVars, BeginRecovery, EndRecovery, SchedulerCrash
  <2> QED BY <1>1, <2>1, <2>2 DEF LeaseOk, Stops, NoJob
<1>3. SlotStep
  BY <1>1, SlotsSame
<1> QED BY <1>1, <1>2, <1>3 DEF SchedulerInv

LEMMA SchedulerNext ==
    ASSUME SchedulerTypeOK, SchedulerInv, SchedulerAction
    PROVE  SchedulerTypeOK' /\ SchedulerInv' /\ SlotStep
<1>1. CASE SchedulerStep
  <2>1. ASSUME NEW g \in Generations, JobLapses(g) PROVE StopJobs({g})
    BY <2>1 DEF JobLapses
  <2> QED
    BY <1>1, <2>1, StopJobsStep, OneJobSteps, HostSteps, SettleStep, RecoverySteps
    DEF SchedulerStep
<1> QED
  BY <1>1, OpenJobStep, StopJobsStep, OneJobSteps, RecoverySteps DEF SchedulerAction
-----------------------------------------------------------------------------
(* The transport: what entries, requests and sweeps owe to each other.        *)

Observations == [rev : Nat, updating : BOOLEAN, held : BOOLEAN, busy : BOOLEAN]

TransportType ==
    /\ revision \in 0..MaxRevision /\ authorized \subseteq Previews
    /\ entry \in [Generations -> Entry]
    /\ quarantined \in BOOLEAN
    /\ req \in [Requests -> Request]
    /\ \A c \in calls : c.gen \in Generations /\ c.closes \in BOOLEAN
    /\ observed \in [Generations -> SUBSET Observations]
    /\ holding \subseteq Generations

\* A generation that has no entry yet has nothing else either, and no entry or
\* request knows a revision that is still to come.
EntryOk(g) ==
    /\ entry[g].state = "free" => entry[g] = Free /\ observed[g] = {} /\ g \notin holding
    /\ entry[g].rev <= revision
    /\ entry[g].shown <= revision

\* What a sweep has seen of an entry stays a reason to retire it: an
\* authorization does not come back, and the revision does not fall.
Seen(g, o) ==
    \/ entry[g].owner \notin authorized
    \/ ~o.updating /\ ~o.held /\ o.rev < revision

SweepInv ==
    /\ \A g \in Generations : EntryOk(g) /\ \A o \in observed[g] : Seen(g, o)
    /\ \A r \in Requests : req[r].rev <= revision

Opening == {"compile", "open", "opening"}
Working == {"build", "push", "pushed", "sample", "frame"}
Engaged == Opening \cup {"opened"} \cup Working

\* An entry that a request opens is pending; one that an update or a capture
\* works on is busy, unless it is retired meanwhile.
Own(r) ==
    /\ req[r].step \in Engaged => req[r].gen \in Generations
    /\ req[r].step \in Opening =>
         /\ entry[req[r].gen].pending /\ ~entry[req[r].gen].execution
         /\ \/ req[r].kind = "start"
            \/ entry[req[r].gen].busy
            \/ entry[req[r].gen].retired
    /\ req[r].step = "opened" =>
         \/ entry[req[r].gen].pending
         \/ entry[req[r].gen].busy
         \/ entry[req[r].gen].retired
    /\ req[r].step \in Working =>
         \/ entry[req[r].gen].retired
         \/ /\ entry[req[r].gen].busy /\ entry[req[r].gen].execution
            /\ ~entry[req[r].gen].pending

\* No two requests are engaged with one entry.
OwnInv ==
    /\ \A r \in Requests : Own(r)
    /\ \A r, q \in Requests :
         r # q /\ req[r].step \in Engaged /\ req[q].step \in Engaged =>
           req[r].gen # req[q].gen

\* The runner shows the entry's revision, unless an update has just reached it.
Pushed(g) == \E r \in Requests : req[r].step = "pushed" /\ req[r].gen = g

ShownEntry(g) ==
    entry[g].execution /\ ~entry[g].retired /\ ~Pushed(g) => entry[g].shown = entry[g].rev

Shown(r) ==
    /\ req[r].step = "pushed" /\ ~entry[req[r].gen].retired =>
         entry[req[r].gen].shown = req[r].rev
    /\ req[r].step = "frame" /\ ~entry[req[r].gen].retired =>
         req[r].rev = entry[req[r].gen].rev

ShownInv ==
    /\ \A g \in Generations : ShownEntry(g)
    /\ \A r \in Requests : Shown(r)

\* A request that waits for cleanups is before its reservation or at its end,
\* and an update or a capture that ends early has retired its entry.
CallOk(r) ==
    /\ Waits(r) => req[r].step \in {"own", "reserve", "ending"}
    /\ req[r].step \in {"sweep", "own", "reserve"} => req[r].kind \in {"start", "check"}
    /\ req[r].step = "ending" /\ req[r].kind \in {"update", "capture"} =>
         req[r].gen \in Generations /\ entry[req[r].gen].retired

CallInv == \A r \in Requests : CallOk(r)

TransportInv == TransportType /\ SweepInv /\ OwnInv /\ ShownInv /\ CallInv

IInv == SchedulerTypeOK /\ SchedulerInv /\ TransportInv
-----------------------------------------------------------------------------
(* The kinds of steps.                                                        *)

LEMMA GoesFacts ==
    ASSUME req \in [Requests -> Request], NEW r \in Requests, NEW s \in Steps, Goes(r, s)
    PROVE  /\ req' \in [Requests -> Request]
           /\ req'[r].step = s /\ req'[r].kind = req[r].kind /\ req'[r].owner = req[r].owner
           /\ req'[r].gen = req[r].gen /\ req'[r].rev = req[r].rev
           /\ \A q \in Requests \ {r} : req'[q] = req[q]
BY DEF Goes, Request

LEMMA DoneFacts ==
    ASSUME req \in [Requests -> Request], NEW r \in Requests, Done(r)
    PROVE  /\ req' \in [Requests -> Request]
           /\ req'[r] = Idle
           /\ \A q \in Requests \ {r} : req'[q] = req[q]
<1>1. Idle \in Request
  BY BoundAssumption DEF Idle, Request, Steps
<1> QED BY <1>1 DEF Done

LEMMA SetFacts ==
    ASSUME entry \in [Generations -> Entry], NEW g \in Generations, NEW row \in Entry,
           entry' = [entry EXCEPT ![g] = row]
    PROVE  /\ entry' \in [Generations -> Entry]
           /\ entry'[g] = row
           /\ \A h \in Generations \ {g} : entry'[h] = entry[h]
OBVIOUS

LEMMA FreeEntry == Free \in Entry
BY BoundAssumption DEF Free, Entry

LEMMA RowFacts ==
    ASSUME NEW row \in Entry
    PROVE  /\ Retired(row) \in Entry
           /\ Retired(row).retired
           /\ Retired(row).owner = row.owner /\ Retired(row).rev = row.rev
           /\ Retired(row).shown = row.shown /\ Retired(row).pending = row.pending
           /\ Retired(row).execution = row.execution /\ Retired(row).state = row.state
           /\ Gone(row) \in Entry
           /\ Gone(row).retired
           /\ Gone(row).owner = Nobody /\ Gone(row).rev = 0 /\ Gone(row).shown = 0
           /\ ~Gone(row).pending /\ Gone(row).execution = row.execution
           /\ Gone(row).state = "gone"
<1>1. /\ Retired(row) \in Entry
      /\ Retired(row).retired
      /\ Retired(row).owner = row.owner /\ Retired(row).rev = row.rev
      /\ Retired(row).shown = row.shown /\ Retired(row).pending = row.pending
      /\ Retired(row).execution = row.execution /\ Retired(row).state = row.state
  BY DEF Retired, Entry
<1>2. Gone(row) \in Entry
  BY FreeEntry DEF Gone, Entry
<1>3. Gone(row).execution = row.execution /\ Gone(row).state = "gone"
  BY DEF Gone, Free
<1>4. /\ Gone(row).retired /\ ~Gone(row).pending
      /\ Gone(row).owner = Nobody /\ Gone(row).rev = 0 /\ Gone(row).shown = 0
  BY DEF Gone, Free
<1> QED BY <1>1, <1>2, <1>3, <1>4

\* To the invariant the entry of g is what it was, or it is retired now.
Same(g) ==
    /\ entry'[g].owner = entry[g].owner /\ entry'[g].rev = entry[g].rev
    /\ entry'[g].shown = entry[g].shown /\ entry'[g].pending = entry[g].pending
    /\ entry'[g].busy = entry[g].busy /\ entry'[g].execution = entry[g].execution
    /\ entry'[g].retired = entry[g].retired
    /\ entry'[g].state = "free" => entry'[g] = entry[g]

Withdrawn(g) ==
    /\ entry'[g].retired /\ entry'[g].state # "free"
    /\ entry'[g].owner \in {entry[g].owner, Nobody}
    /\ entry'[g].rev \in {entry[g].rev, 0} /\ entry'[g].shown \in {entry[g].shown, 0}
    /\ entry'[g].pending = entry[g].pending /\ entry'[g].execution = entry[g].execution

\* A request goes on as it was, or is engaged with nothing any more.
Releases(q) ==
    \/ req'[q] = req[q]
    \/ /\ req'[q].step \notin Engaged /\ req'[q].rev <= revision'
       /\ req[q].step = "pushed" => entry'[req[q].gen].retired

LEMMA Withdrawals ==
    ASSUME TransportInv, TransportType',
           \A g \in Generations : Same(g) \/ Withdrawn(g),
           \A q \in Requests : Releases(q),
           revision <= revision', authorized' \subseteq authorized,
           \A g \in Generations : \A o \in observed'[g] :
             o \in observed[g] \/ (entry'[g].state # "free" /\ Seen(g, o)'),
           \A g \in holding' : g \in holding \/ entry'[g].state # "free"
    PROVE  SweepInv' /\ OwnInv' /\ ShownInv'
<1> USE DEF TransportInv
<1>0. /\ revision \in Nat /\ revision' \in Nat
      /\ \A g \in Generations :
           /\ entry[g].rev \in Nat /\ entry[g].shown \in Nat
           /\ entry[g] \in Entry /\ entry'[g] \in Entry
      /\ \A r \in Requests : req[r].rev \in Nat
      /\ Nobody \notin authorized'
  BY BoundAssumption, NobodyAssumption DEF TransportType, Entry, Request
<1>1. SweepInv'
  <2>1. ASSUME NEW g \in Generations PROVE EntryOk(g)'
    <3>1. EntryOk(g)
      BY DEF SweepInv
    <3>2. entry'[g].rev <= revision' /\ entry'[g].shown <= revision'
      BY <1>0, <3>1 DEF EntryOk, Same, Withdrawn
    <3>3. ASSUME entry'[g].state = "free"
          PROVE  entry'[g] = Free /\ observed'[g] = {} /\ g \notin holding'
      <4>1. entry'[g] = entry[g]
        BY <3>3 DEF Same, Withdrawn
      <4> QED BY <3>1, <3>3, <4>1 DEF EntryOk
    <3> QED BY <3>2, <3>3 DEF EntryOk
  <2>2. ASSUME NEW g \in Generations, NEW o \in observed'[g] PROVE Seen(g, o)'
    <3>1. CASE Seen(g, o)
      <4>1. entry'[g].owner \in {entry[g].owner, Nobody}
        BY DEF Same, Withdrawn
      <4>2. CASE entry[g].owner \notin authorized
        BY <1>0, <4>1, <4>2 DEF Seen
      <4>3. CASE ~o.updating /\ ~o.held /\ o.rev < revision
        <5>1. o.rev < revision'
          <6>1. o.rev \in Nat
            BY DEF TransportType, Observations
          <6> QED BY <1>0, <4>3, <6>1
        <5> QED BY <4>3, <5>1 DEF Seen
      <4> QED BY <3>1, <4>2, <4>3 DEF Seen
    <3> QED BY <3>1 DEF SweepInv
  <2>3. ASSUME NEW r \in Requests PROVE req'[r].rev <= revision'
    BY <1>0 DEF SweepInv, Releases
  <2> QED BY <2>1, <2>2, <2>3 DEF SweepInv
<1>2. OwnInv'
  <2>1. ASSUME NEW r \in Requests, req'[r].step \in Engaged PROVE req'[r] = req[r]
    BY <2>1 DEF Releases
  <2>2. ASSUME NEW r \in Requests PROVE Own(r)'
    <3>1. CASE req'[r].step \in Engaged
      <4>1. req'[r] = req[r] /\ Own(r) /\ req[r].gen \in Generations
        BY <2>1, <3>1 DEF OwnInv, Own
      <4> QED BY <4>1 DEF Own, Same, Withdrawn, Engaged, Opening, Working
    <3>2. CASE req'[r].step \notin Engaged
      BY <3>2 DEF Own, Engaged
    <3> QED BY <3>1, <3>2
  <2> QED BY <2>1, <2>2 DEF OwnInv
<1>3. ShownInv'
  <2>1. ASSUME NEW g \in Generations PROVE ShownEntry(g)'
    <3>1. CASE entry'[g].retired
      BY <3>1 DEF ShownEntry
    <3>2. CASE ~entry'[g].retired
      <4>1. Same(g) /\ ShownEntry(g)
        BY <3>2 DEF Withdrawn, ShownInv
      <4>2. Pushed(g) => Pushed(g)'
        BY <3>2 DEF Pushed, Releases
      <4> QED BY <4>1, <4>2 DEF ShownEntry, Same
    <3> QED BY <3>1, <3>2
  <2>2. ASSUME NEW r \in Requests PROVE Shown(r)'
    <3>1. CASE req'[r].step \in {"pushed", "frame"}
      <4>1. req'[r] = req[r] /\ Shown(r) /\ req[r].gen \in Generations
        BY <3>1 DEF Releases, Engaged, Working, ShownInv, OwnInv, Own
      <4> QED BY <4>1 DEF Shown, Same, Withdrawn
    <3>2. CASE req'[r].step \notin {"pushed", "frame"}
      BY <3>2 DEF Shown
    <3> QED BY <3>1, <3>2
  <2> QED BY <2>1, <2>2 DEF ShownInv
<1> QED BY <1>1, <1>2, <1>3

\* A step of request r that writes no entry but that of g.
Touches(r, g) ==
    /\ \A q \in Requests \ {r} : req'[q] = req[q]
    /\ \A h \in Generations \ {g} : entry'[h] = entry[h]
    /\ revision' = revision /\ authorized' = authorized
    /\ observed' = observed /\ holding' = holding

LEMMA OneEntry ==
    ASSUME TransportInv, TransportType', NEW r \in Requests, NEW g \in Generations,
           Touches(r, g),
           \A q \in Requests \ {r} : req[q].step \in Engaged => req[q].gen # g,
           req'[r].step \in Engaged => req'[r].gen = g,
           req[r].step = "pushed" => req[r].gen = g,
           req'[r].rev <= revision, EntryOk(g)',
           entry'[g].owner = entry[g].owner \/ observed[g] = {},
           Own(r)', Shown(r)', ShownEntry(g)'
    PROVE  SweepInv' /\ OwnInv' /\ ShownInv'
<1> USE DEF TransportInv
<1>1. SweepInv'
  <2>1. ASSUME NEW h \in Generations PROVE EntryOk(h)'
    <3>1. CASE h # g
      BY <3>1 DEF Touches, SweepInv, EntryOk
    <3> QED BY <3>1
  <2>2. ASSUME NEW h \in Generations, NEW o \in observed'[h] PROVE Seen(h, o)'
    BY <2>2 DEF Touches, SweepInv, Seen
  <2>3. ASSUME NEW q \in Requests PROVE req'[q].rev <= revision'
    BY DEF Touches, SweepInv
  <2> QED BY <2>1, <2>2, <2>3 DEF SweepInv
<1>2. ASSUME NEW q \in Requests, q # r
      PROVE  /\ req'[q] = req[q] /\ Own(q) /\ Shown(q)
             /\ req[q].step \in Engaged =>
                  req[q].gen \in Generations \ {g} /\ entry'[req[q].gen] = entry[req[q].gen]
  BY <1>2 DEF Touches, OwnInv, Own, ShownInv
<1>3. OwnInv'
  <2>1. ASSUME NEW q \in Requests PROVE Own(q)'
    <3>1. CASE q # r
      <4>1. Opening \subseteq Engaged /\ "opened" \in Engaged /\ Working \subseteq Engaged
        BY DEF Engaged
      <4> QED BY <1>2, <3>1, <4>1 DEF Own
    <3> QED BY <3>1
  <2>2. ASSUME NEW p \in Requests, NEW q \in Requests, p # q,
               req'[p].step \in Engaged, req'[q].step \in Engaged
        PROVE  req'[p].gen # req'[q].gen
    <3>1. CASE p # r /\ q # r
      BY <1>2, <2>2, <3>1 DEF OwnInv
    <3>2. CASE p = r \/ q = r
      BY <1>2, <2>2, <3>2
    <3> QED BY <3>1, <3>2
  <2> QED BY <2>1, <2>2 DEF OwnInv
<1>4. ShownInv'
  <2>1. ASSUME NEW h \in Generations PROVE ShownEntry(h)'
    <3>1. CASE h # g
      <4>1. entry'[h] = entry[h] /\ ShownEntry(h)
        BY <3>1 DEF Touches, ShownInv
      <4>2. Pushed(h) => Pushed(h)'
        BY <3>1 DEF Pushed, Touches
      <4> QED BY <4>1, <4>2 DEF ShownEntry
    <3> QED BY <3>1
  <2>2. ASSUME NEW q \in Requests PROVE Shown(q)'
    <3>1. CASE q # r
      <4>1. "pushed" \in Engaged /\ "frame" \in Engaged
        BY DEF Engaged, Working
      <4> QED BY <1>2, <3>1, <4>1 DEF Shown
    <3> QED BY <3>1
  <2> QED BY <2>1, <2>2 DEF ShownInv
<1> QED BY <1>1, <1>3, <1>4

\* Only one caller gets new cleanups to wait for, and a retired entry stays so.
LEMMA CallStep ==
    ASSUME CallInv, NEW by,
           \A c \in calls' : c \in calls \/ c.by = by,
           \A q \in Requests : q = by \/ req'[q] = req[q],
           \A g \in Generations : entry[g].retired => entry'[g].retired,
           by \in Requests => CallOk(by)'
    PROVE  CallInv'
<1>1. ASSUME NEW q \in Requests, q # by PROVE CallOk(q)'
  <2>1. req'[q] = req[q] /\ CallOk(q)
    BY <1>1 DEF CallInv
  <2>2. Waits(q)' => Waits(q)
    BY <1>1 DEF Waits
  <2> QED BY <2>1, <2>2 DEF CallOk
<1> QED BY <1>1 DEF CallInv
-----------------------------------------------------------------------------
(* Steps that retire entries or release requests.                             *)

LEMMA SameEntries ==
    ASSUME TransportInv, entry' = entry
    PROVE  /\ \A g \in Generations : Same(g)
           /\ \A g \in Generations : entry[g].retired => entry'[g].retired
BY DEF Same

LEMMA RetireFacts ==
    ASSUME TransportInv, NEW G \in SUBSET Generations, NEW by,
           \A g \in G : entry[g].state # "free", RetireEntries(G, by)
    PROVE  /\ entry' \in [Generations -> Entry]
           /\ \A c \in calls' : c.gen \in Generations /\ c.closes \in BOOLEAN
           /\ \A c \in calls' : c \in calls \/ c.by = by
           /\ \A g \in Generations : Same(g) \/ Withdrawn(g)
           /\ \A g \in Generations : entry[g].retired => entry'[g].retired
           /\ \A g \in G : entry'[g].retired
<1>1. /\ entry' = [g \in Generations |-> IF g \in G THEN Retired(entry[g]) ELSE entry[g]]
      /\ calls' = calls \cup {[by |-> by, gen |-> g, closes |-> entry[g].execution] : g \in G}
  BY DEF RetireEntries, Retire
<1>2. \A g \in Generations : entry[g] \in Entry
  BY DEF TransportInv, TransportType
<1>3. entry' \in [Generations -> Entry]
  BY <1>1, <1>2, RowFacts
<1>4. \A c \in calls' : c.gen \in Generations /\ c.closes \in BOOLEAN
  <2>1. \A g \in G : entry[g].execution \in BOOLEAN
    BY <1>2 DEF Entry
  <2> QED BY <1>1, <2>1 DEF TransportInv, TransportType
<1>5. ASSUME NEW g \in G PROVE Withdrawn(g) /\ entry'[g].retired
  <2>1. entry'[g] = Retired(entry[g])
    BY <1>1
  <2> QED BY <1>2, <2>1, RowFacts DEF Withdrawn
<1>6. ASSUME NEW g \in Generations \ G PROVE entry'[g] = entry[g] /\ Same(g)
  BY <1>1 DEF Same
<1>7. \A c \in calls' : c \in calls \/ c.by = by
  BY <1>1
<1>8. \A g \in Generations : Same(g) \/ Withdrawn(g)
  BY <1>5, <1>6
<1>9. \A g \in Generations : entry[g].retired => entry'[g].retired
  BY <1>5, <1>6
<1>10. \A g \in G : entry'[g].retired
  BY <1>5
<1> QED BY <1>3, <1>4, <1>7, <1>8, <1>9, <1>10

\* Entries that live are not free.
LEMMA LiveFacts ==
    /\ \A g \in Live : g \in Generations /\ entry[g].state # "free"
    /\ Live \subseteq Generations
BY DEF Live

\* Somebody who is no request retires entries; the requests go on.
LEMMA BackgroundRetires ==
    ASSUME TransportInv, NEW G \in SUBSET Live, RetireEntries(G, "background"),
           UNCHANGED <<revision, authorized, quarantined, req, holding>>,
           observed' \in [Generations -> SUBSET Observations],
           \A g \in Generations : observed'[g] \subseteq observed[g]
    PROVE  TransportInv'
<1> DEFINE by == "background"
<1>1. G \in SUBSET Generations /\ \A g \in G : entry[g].state # "free"
  BY LiveFacts
<1>2. by \notin Requests
  BY NobodyAssumption
<1> HIDE DEF by
<1>3. RetireEntries(G, by)
  BY DEF by
<1>4. /\ entry' \in [Generations -> Entry]
      /\ \A c \in calls' : c.gen \in Generations /\ c.closes \in BOOLEAN
      /\ \A c \in calls' : c \in calls \/ c.by = by
      /\ \A g \in Generations : Same(g) \/ Withdrawn(g)
      /\ \A g \in Generations : entry[g].retired => entry'[g].retired
  BY <1>1, <1>3, RetireFacts
<1>5. TransportType'
  BY <1>4 DEF TransportInv, TransportType
<1>6. revision <= revision' /\ \A q \in Requests : Releases(q)
  BY BoundAssumption DEF Releases, TransportInv, TransportType
<1>7. SweepInv' /\ OwnInv' /\ ShownInv'
  BY <1>4, <1>5, <1>6, Withdrawals
<1>8. CallInv'
  BY <1>2, <1>4, CallStep DEF TransportInv
<1> QED BY <1>5, <1>7, <1>8 DEF TransportInv

LEMMA SweepSteps ==
    ASSUME TransportInv, NEW g \in Generations,
           SweepDecides(g) \/ SweepRetries(g) \/ Expire(g)
    PROVE  TransportInv'
<1>1. ASSUME g \in Live, RetireEntries({g}, "background"),
             UNCHANGED <<revision, authorized, quarantined, req, holding>>,
             observed' = observed \/ observed' = [observed EXCEPT ![g] = {}]
      PROVE  TransportInv'
  <2>1. observed \in [Generations -> SUBSET Observations]
    BY DEF TransportInv, TransportType
  <2>2. observed' \in [Generations -> SUBSET Observations]
    BY <1>1, <2>1
  <2>3. \A h \in Generations : observed'[h] \subseteq observed[h]
    BY <1>1, <2>1
  <2> QED BY <1>1, <2>2, <2>3, BackgroundRetires
<1>2. CASE SweepRetries(g) \/ Expire(g)
  BY <1>1, <1>2 DEF SweepRetries, Expire
<1>3. CASE SweepDecides(g) /\ RetireEntries({g}, "background")
  BY <1>1, <1>3 DEF SweepDecides
<1>4. CASE SweepDecides(g) /\ UNCHANGED <<schedulerVars, entry, calls>>
  <2>1. /\ UNCHANGED <<revision, authorized, entry, calls, quarantined, req, holding>>
        /\ observed' = [observed EXCEPT ![g] = {}]
    BY <1>4 DEF SweepDecides
  <2>2. TransportType'
    BY <2>1 DEF TransportInv, TransportType
  <2>3. \A h \in Generations : observed'[h] \subseteq observed[h]
    BY <2>1 DEF TransportInv, TransportType
  <2>4. revision <= revision' /\ \A q \in Requests : Releases(q)
    BY <2>1, BoundAssumption DEF Releases, TransportInv, TransportType
  <2>5. SweepInv' /\ OwnInv' /\ ShownInv'
    BY <2>1, <2>2, <2>3, <2>4, SameEntries, Withdrawals
  <2>6. CallInv'
    BY <2>1 DEF TransportInv, CallInv, CallOk, Waits
  <2> QED BY <2>2, <2>5, <2>6 DEF TransportInv
<1> QED BY <1>2, <1>3, <1>4 DEF SweepDecides

LEMMA SweepObservesStep ==
    ASSUME TransportInv, NEW g \in Generations, SweepObserves(g)
    PROVE  TransportInv'
<1>1. /\ UNCHANGED <<revision, authorized, entry, quarantined, req, calls, holding>>
      /\ observed' = [observed EXCEPT ![g] = {Observation(g)}]
      /\ entry[g].state # "free" /\ ~Doomed(g) /\ Stale(g)
  BY DEF SweepObserves, Live
<1>2. TransportType'
  <2>1. Observation(g) \in Observations
    BY BoundAssumption DEF TransportInv, TransportType, Entry, Observation, Observations
  <2> QED BY <1>1, <2>1 DEF TransportInv, TransportType
<1>3. Seen(g, Observation(g))
  <2>1. entry[g].rev \in Nat /\ revision \in Nat /\ entry[g].rev <= revision
    BY BoundAssumption DEF TransportInv, TransportType, Entry, SweepInv, EntryOk
  <2>2. \/ entry[g].owner \notin authorized
        \/ ~entry[g].updating /\ ~entry[g].held /\ entry[g].rev # revision
    BY <1>1 DEF Stale, Doomed, Current
  <2>3. entry[g].rev # revision => entry[g].rev < revision
    BY <2>1
  <2> QED BY <2>1, <2>2, <2>3 DEF Seen, Observation
<1>4. \A h \in Generations : \A o \in observed'[h] :
        o \in observed[h] \/ (entry'[h].state # "free" /\ Seen(h, o)')
  <2> SUFFICES ASSUME NEW h \in Generations, NEW o \in observed'[h], o \notin observed[h]
               PROVE  entry'[h].state # "free" /\ Seen(h, o)'
    OBVIOUS
  <2>1. h = g /\ o = Observation(g)
    BY <1>1 DEF TransportInv, TransportType
  <2>2. Seen(h, o)
    BY <1>3, <2>1
  <2> QED BY <1>1, <2>1, <2>2 DEF Seen
<1>5. revision <= revision' /\ \A q \in Requests : Releases(q)
  BY <1>1, BoundAssumption DEF Releases, TransportInv, TransportType
<1>6. SweepInv' /\ OwnInv' /\ ShownInv'
  BY <1>1, <1>2, <1>4, <1>5, SameEntries, Withdrawals
<1>7. CallInv'
  BY <1>1 DEF TransportInv, CallInv, CallOk, Waits
<1> QED BY <1>2, <1>6, <1>7 DEF TransportInv

\* holdForSourceCommit writes only what the invariant does not look at.
LEMMA HoldSteps ==
    ASSUME TransportInv, NEW g \in Generations, Hold(g) \/ HoldLooksUp(g)
    PROVE  TransportInv'
<1>1. /\ UNCHANGED <<revision, authorized, quarantined, req, calls, observed>>
      /\ entry[g].state # "free"
      /\ holding' \in {holding \cup {g}, holding \ {g}}
      /\ \/ entry' = [entry EXCEPT ![g] = [entry[g] EXCEPT !.held = TRUE]]
         \/ \E structural \in BOOLEAN :
              entry' = [entry EXCEPT ![g] = [entry[g] EXCEPT !.restart = @ \/ structural]]
         \/ entry' = [entry EXCEPT ![g] = [entry[g] EXCEPT !.held = FALSE]]
  BY DEF Hold, HoldLooksUp, Live, Set, TransportInv, SweepInv, EntryOk
<1>2. PICK row \in Entry :
        /\ entry' = [entry EXCEPT ![g] = row]
        /\ row.owner = entry[g].owner /\ row.rev = entry[g].rev /\ row.shown = entry[g].shown
        /\ row.pending = entry[g].pending /\ row.busy = entry[g].busy
        /\ row.execution = entry[g].execution /\ row.retired = entry[g].retired
        /\ row.state = entry[g].state
  <2>1. entry[g] \in Entry
    BY DEF TransportInv, TransportType
  <2>2. CASE entry' = [entry EXCEPT ![g] = [entry[g] EXCEPT !.held = TRUE]]
    <3>1. [entry[g] EXCEPT !.held = TRUE] \in Entry
      BY <2>1 DEF Entry
    <3> QED BY <2>1, <2>2, <3>1 DEF Entry
  <2>3. CASE entry' = [entry EXCEPT ![g] = [entry[g] EXCEPT !.held = FALSE]]
    <3>1. [entry[g] EXCEPT !.held = FALSE] \in Entry
      BY <2>1 DEF Entry
    <3> QED BY <2>1, <2>3, <3>1 DEF Entry
  <2>4. ASSUME NEW b \in BOOLEAN,
               entry' = [entry EXCEPT ![g] = [entry[g] EXCEPT !.restart = @ \/ b]]
        PROVE  \E row \in Entry :
                 /\ entry' = [entry EXCEPT ![g] = row]
                 /\ row.owner = entry[g].owner /\ row.rev = entry[g].rev
                 /\ row.shown = entry[g].shown
                 /\ row.pending = entry[g].pending /\ row.busy = entry[g].busy
                 /\ row.execution = entry[g].execution /\ row.retired = entry[g].retired
                 /\ row.state = entry[g].state
    <3>1. PICK x \in BOOLEAN : x = (entry[g].restart \/ b)
      OBVIOUS
    <3>2. entry' = [entry EXCEPT ![g] = [entry[g] EXCEPT !.restart = x]]
      BY <2>4, <3>1
    <3>3. [entry[g] EXCEPT !.restart = x] \in Entry
      BY <2>1 DEF Entry
    <3> QED BY <2>1, <3>2, <3>3 DEF Entry
  <2> QED BY <1>1, <2>2, <2>3, <2>4
<1>3. /\ entry' \in [Generations -> Entry] /\ entry'[g] = row
      /\ \A h \in Generations \ {g} : entry'[h] = entry[h]
  BY <1>2, SetFacts DEF TransportInv, TransportType
<1>4. TransportType'
  BY <1>1, <1>3 DEF TransportInv, TransportType
<1>5. /\ \A h \in Generations : Same(h)
      /\ \A h \in Generations : entry[h].retired => entry'[h].retired
      /\ entry'[g].state # "free"
  BY <1>1, <1>2, <1>3 DEF Same
<1>6. \A h \in holding' : h \in holding \/ entry'[h].state # "free"
  BY <1>1, <1>5
<1>7. revision <= revision' /\ \A q \in Requests : Releases(q)
  BY <1>1, BoundAssumption DEF Releases, TransportInv, TransportType
<1>8. SweepInv' /\ OwnInv' /\ ShownInv'
  BY <1>1, <1>4, <1>5, <1>6, <1>7, Withdrawals
<1>9. CallInv'
  BY <1>1, <1>5 DEF TransportInv, CallInv, CallOk, Waits
<1> QED BY <1>4, <1>8, <1>9 DEF TransportInv

\* The scheduler, a commit and the end of a session leave the entries alone.
LEMMA OutsideSteps ==
    ASSUME TransportInv, UNCHANGED transportVars,
           \/ UNCHANGED <<revision, authorized>>
           \/ revision < MaxRevision /\ revision' = revision + 1 /\ authorized' = authorized
           \/ \E s \in authorized : revision' = revision /\ authorized' = authorized \ {s}
    PROVE  TransportInv'
<1>1. UNCHANGED <<entry, quarantined, req, calls, observed, holding>>
  BY DEF transportVars
<1>2. TransportType'
  BY <1>1, BoundAssumption DEF TransportInv, TransportType
<1>3. revision <= revision' /\ authorized' \subseteq authorized
  BY BoundAssumption DEF TransportInv, TransportType
<1>4. \A q \in Requests : Releases(q)
  BY <1>1 DEF Releases
<1>5. SweepInv' /\ OwnInv' /\ ShownInv'
  BY <1>1, <1>2, <1>3, <1>4, SameEntries, Withdrawals
<1>6. CallInv'
  BY <1>1 DEF TransportInv, CallInv, CallOk, Waits
<1> QED BY <1>2, <1>5, <1>6 DEF TransportInv
-----------------------------------------------------------------------------
(* Requests that begin, wait for cleanups and end.                            *)

\* Request r retires entries and is engaged with none when it goes on.
LEMMA RequestRetires ==
    ASSUME TransportInv, NEW r \in Requests, NEW G \in SUBSET Generations,
           \A g \in G : entry[g].state # "free", RetireEntries(G, r),
           UNCHANGED <<revision, authorized, quarantined, observed, holding>>,
           req' \in [Requests -> Request],
           \A q \in Requests \ {r} : req'[q] = req[q],
           req'[r].step \notin Engaged, req'[r].rev <= revision,
           req[r].step = "pushed" => req[r].gen \in G,
           req'[r].step \in {"own", "reserve", "ending"},
           req'[r].step \in {"own", "reserve"} => req'[r].kind \in {"start", "check"},
           req'[r].step = "ending" /\ req'[r].kind \in {"update", "capture"} =>
             req'[r].gen \in G
    PROVE  TransportInv'
<1>1. /\ entry' \in [Generations -> Entry]
      /\ \A c \in calls' : c.gen \in Generations /\ c.closes \in BOOLEAN
      /\ \A c \in calls' : c \in calls \/ c.by = r
      /\ \A g \in Generations : Same(g) \/ Withdrawn(g)
      /\ \A g \in Generations : entry[g].retired => entry'[g].retired
      /\ \A g \in G : entry'[g].retired
  BY RetireFacts
<1>2. TransportType'
  BY <1>1 DEF TransportInv, TransportType
<1>3. revision <= revision' /\ \A q \in Requests : Releases(q)
  BY <1>1, BoundAssumption DEF Releases, TransportInv, TransportType
<1>4. SweepInv' /\ OwnInv' /\ ShownInv'
  BY <1>1, <1>2, <1>3, Withdrawals
<1>5. CallOk(r)'
  BY <1>1 DEF CallOk
<1>6. CallInv'
  BY <1>1, <1>5, CallStep DEF TransportInv
<1> QED BY <1>2, <1>4, <1>6 DEF TransportInv

LEMMA StartSteps ==
    ASSUME TransportInv, NEW r \in Requests, StartSweeps(r) \/ StartRetiresOwn(r)
    PROVE  TransportInv'
<1>1. PICK G \in SUBSET Live : RetireEntries(G, r)
  BY DEF StartSweeps, StartRetiresOwn
<1>2. PICK s \in {"own", "reserve"} : Goes(r, s)
  BY DEF StartSweeps, StartRetiresOwn
<1>3. /\ req' \in [Requests -> Request]
      /\ req'[r].step = s /\ req'[r].kind = req[r].kind /\ req'[r].rev = req[r].rev
      /\ \A q \in Requests \ {r} : req'[q] = req[q]
  BY <1>2, GoesFacts DEF Steps, TransportInv, TransportType
<1>4. /\ UNCHANGED <<revision, authorized, quarantined, observed, holding>>
      /\ req[r].step \in {"sweep", "own"} /\ req[r].kind \in {"start", "check"}
  BY DEF StartSweeps, StartRetiresOwn, TransportInv, CallInv, CallOk
<1>5. s \notin Engaged /\ s # "ending" /\ req[r].step # "pushed"
  BY <1>4 DEF Engaged, Opening, Working
<1>6. G \in SUBSET Generations /\ \A g \in G : entry[g].state # "free"
  BY <1>1, LiveFacts
<1>7. req'[r].rev <= revision
  BY <1>3 DEF TransportInv, SweepInv
<1> QED BY <1>1, <1>3, <1>4, <1>5, <1>6, <1>7, RequestRetires

LEMMA FailStep ==
    ASSUME TransportInv, NEW r \in Requests, UpdateOrCaptureFails(r)
    PROVE  TransportInv' /\ req[r].gen \in Generations
<1>1. /\ req[r].step \in Working /\ RetireEntries({req[r].gen}, r)
      /\ req' = [req EXCEPT ![r].step = "ending", ![r].rev = 0]
      /\ UNCHANGED <<revision, authorized, quarantined, observed, holding>>
  BY DEF UpdateOrCaptureFails, Working
<1>2. PICK g \in Generations : g = req[r].gen
  BY <1>1 DEF TransportInv, OwnInv, Own, Engaged
<1>3. entry[g].state # "free"
  <2>1. Own(r) /\ EntryOk(g)
    BY DEF TransportInv, OwnInv, SweepInv
  <2> QED BY <1>1, <1>2, <2>1 DEF Own, EntryOk, Free
<1>4. /\ req' \in [Requests -> Request]
      /\ req'[r].step = "ending" /\ req'[r].rev = 0 /\ req'[r].gen = g
      /\ \A q \in Requests \ {r} : req'[q] = req[q]
  <2>1. req \in [Requests -> Request] /\ "ending" \in Steps /\ 0 \in 0..MaxRevision
    BY BoundAssumption DEF TransportInv, TransportType, Steps
  <2> QED BY <1>1, <1>2, <2>1 DEF Request
<1>5. req'[r].rev <= revision /\ "ending" \notin Engaged
  BY <1>4, BoundAssumption DEF TransportInv, TransportType, Engaged, Opening, Working
<1> QED BY <1>1, <1>2, <1>3, <1>4, <1>5, RequestRetires

LEMMA StaleCapture ==
    ASSUME TransportInv, NEW r \in Requests, NEW g \in Live, req[r] = Idle,
           RetireEntries({g}, r), Begin(r, g, "start", "ending"),
           UNCHANGED <<revision, authorized, quarantined, observed, holding>>
    PROVE  TransportInv'
<1>1. g \in Generations /\ entry[g].state # "free"
  BY LiveFacts
<1>2. /\ entry[g] \in Entry /\ revision \in 0..MaxRevision /\ revision <= revision
  BY <1>1, BoundAssumption DEF TransportInv, TransportType
<1>3. /\ req' \in [Requests -> Request]
      /\ req'[r].step = "ending" /\ req'[r].kind = "start" /\ req'[r].rev = revision
      /\ \A q \in Requests \ {r} : req'[q] = req[q]
  BY <1>1, <1>2 DEF Begin, TransportInv, TransportType, Request, Entry, Steps
<1>4. "ending" \notin Engaged /\ req[r].step # "pushed"
  BY DEF Engaged, Opening, Working, Idle
<1> QED BY <1>1, <1>2, <1>3, <1>4, RequestRetires

\* A step that changes request r only, which ends up engaged with nothing.
LEMMA RequestSteps ==
    ASSUME TransportInv, NEW r \in Requests,
           UNCHANGED <<revision, authorized, entry, quarantined, calls, observed, holding>>,
           req' \in [Requests -> Request],
           \A q \in Requests \ {r} : req'[q] = req[q],
           req'[r].step \notin Engaged, req'[r].rev <= revision,
           req[r].step # "pushed", CallOk(r)'
    PROVE  TransportInv'
<1>1. TransportType'
  BY DEF TransportInv, TransportType
<1>2. revision <= revision' /\ \A q \in Requests : Releases(q)
  BY BoundAssumption DEF Releases, TransportInv, TransportType
<1>3. SweepInv' /\ OwnInv' /\ ShownInv'
  BY <1>1, <1>2, SameEntries, Withdrawals
<1>4. CallInv'
  BY SameEntries, CallStep DEF TransportInv
<1> QED BY <1>1, <1>3, <1>4 DEF TransportInv

LEMMA StartRequestStep ==
    ASSUME TransportInv, NEW r \in Requests, NEW s \in Previews, NEW kind \in {"start", "check"},
           StartRequest(r, s, kind)
    PROVE  TransportInv'
<1>1. /\ req[r] = Idle
      /\ req' = [req EXCEPT ![r] =
           [kind |-> kind, step |-> IF kind = "start" THEN "sweep" ELSE "reserve",
            owner |-> s, gen |-> Nobody, rev |-> revision]]
      /\ UNCHANGED <<revision, authorized, entry, quarantined, calls, observed, holding>>
  BY DEF StartRequest
<1>2. /\ revision \in 0..MaxRevision /\ revision <= revision /\ req \in [Requests -> Request]
      /\ ~Waits(r)
  BY <1>1, BoundAssumption DEF TransportInv, TransportType, CallInv, CallOk, Idle
<1>3. /\ req' \in [Requests -> Request]
      /\ req'[r].step \in {"sweep", "reserve"} /\ req'[r].kind = kind /\ req'[r].rev = revision
      /\ \A q \in Requests \ {r} : req'[q] = req[q]
  BY <1>1, <1>2 DEF Request, Steps
<1>4. req'[r].step \notin Engaged /\ req[r].step # "pushed"
  BY <1>1, <1>3 DEF Engaged, Opening, Working, Idle
<1>5. CallOk(r)'
  BY <1>1, <1>2, <1>3 DEF CallOk, Waits
<1> QED BY <1>1, <1>2, <1>3, <1>4, <1>5, RequestSteps

LEMMA DoneStep ==
    ASSUME TransportInv, NEW r \in Requests, Done(r), ~Waits(r), req[r].step # "pushed",
           UNCHANGED <<revision, authorized, entry, quarantined, calls, observed, holding>>
    PROVE  TransportInv'
<1>1. /\ req' \in [Requests -> Request] /\ req'[r] = Idle
      /\ \A q \in Requests \ {r} : req'[q] = req[q]
  BY DoneFacts DEF TransportInv, TransportType
<1>2. Idle.step \notin Engaged /\ Idle.rev <= revision
  BY BoundAssumption DEF Idle, Engaged, Opening, Working, TransportInv, TransportType
<1>3. CallOk(r)'
  BY <1>1 DEF CallOk, Waits, Idle
<1> QED BY <1>1, <1>2, <1>3, RequestSteps

\* The finally of a request whose entry is retired, if it was engaged at all.
LEMMA EndedStep ==
    ASSUME TransportInv, NEW r \in Requests, Ended(r)
    PROVE  TransportInv'
<1>1. PICK g : g = req[r].gen
  OBVIOUS
<1>2. /\ req[r].step = "ending" /\ ~Waits(r) /\ Done(r)
      /\ UNCHANGED <<revision, authorized, quarantined, calls, observed, holding>>
      /\ \/ entry' = entry
         \/ /\ g \in Live /\ req[r].kind \in {"update", "capture"}
            /\ entry' = [entry EXCEPT ![g].busy = FALSE, ![g].updating = FALSE]
  BY <1>1 DEF Ended
<1>3. CASE entry' = entry
  BY <1>2, <1>3, DoneStep
<1>4. CASE /\ g \in Live /\ req[r].kind \in {"update", "capture"}
           /\ entry' = [entry EXCEPT ![g].busy = FALSE, ![g].updating = FALSE]
  <2>1. g \in Generations /\ entry[g].state # "free" /\ entry[g].retired
    BY <1>1, <1>2, <1>4, LiveFacts DEF TransportInv, CallInv, CallOk
  <2>2. /\ entry' \in [Generations -> Entry]
        /\ entry'[g].retired = entry[g].retired /\ entry'[g].state = entry[g].state
        /\ entry'[g].owner = entry[g].owner /\ entry'[g].rev = entry[g].rev
        /\ entry'[g].shown = entry[g].shown /\ entry'[g].pending = entry[g].pending
        /\ entry'[g].execution = entry[g].execution
        /\ \A h \in Generations \ {g} : entry'[h] = entry[h]
    <3> DEFINE row == [entry[g] EXCEPT !.busy = FALSE, !.updating = FALSE]
    <3>1. entry \in [Generations -> Entry] /\ entry[g] \in Entry
      BY <2>1 DEF TransportInv, TransportType
    <3>2. entry' = [entry EXCEPT ![g] = row]
      BY <1>4, <2>1, <3>1
    <3>3. /\ row \in Entry
          /\ row.retired = entry[g].retired /\ row.state = entry[g].state
          /\ row.owner = entry[g].owner /\ row.rev = entry[g].rev
          /\ row.shown = entry[g].shown /\ row.pending = entry[g].pending
          /\ row.execution = entry[g].execution
      BY <3>1 DEF Entry
    <3> HIDE DEF row
    <3> QED BY <2>1, <3>1, <3>2, <3>3, SetFacts
  <2>3. Withdrawn(g) /\ \A h \in Generations \ {g} : Same(h)
    BY <2>1, <2>2 DEF Withdrawn, Same
  <2>4. /\ req' \in [Requests -> Request] /\ req'[r] = Idle
        /\ \A q \in Requests \ {r} : req'[q] = req[q]
    BY <1>2, DoneFacts DEF TransportInv, TransportType
  <2>5. Idle.step \notin Engaged /\ Idle.rev <= revision /\ revision <= revision'
    BY <1>2, BoundAssumption DEF Idle, Engaged, Opening, Working, TransportInv, TransportType
  <2>6. TransportType'
    BY <1>2, <2>2, <2>4 DEF TransportInv, TransportType
  <2>7. \A q \in Requests : Releases(q)
    BY <1>2, <2>4, <2>5 DEF Releases
  <2>8. SweepInv' /\ OwnInv' /\ ShownInv'
    BY <1>2, <2>3, <2>5, <2>6, <2>7, Withdrawals
  <2>9. CallOk(r)'
    BY <1>2, <2>4 DEF CallOk, Waits, Idle
  <2>10. \A h \in Generations : entry[h].retired => entry'[h].retired
    BY <2>2
  <2>11. CallInv'
    BY <1>2, <2>4, <2>9, <2>10, CallStep DEF TransportInv
  <2> QED BY <2>6, <2>8, <2>11 DEF TransportInv
<1> QED BY <1>2, <1>3, <1>4

LEMMA RetireReturnsStep ==
    ASSUME TransportInv, NEW c \in calls, RetireReturns(c)
    PROVE  TransportInv'
<1>1. PICK g \in Generations : g = c.gen
  BY DEF TransportInv, TransportType
<1>2. /\ calls' = calls \ {c}
      /\ UNCHANGED <<revision, authorized, quarantined, req, observed, holding>>
      /\ \/ entry' = entry
         \/ ~entry[g].pending /\ entry' = [entry EXCEPT ![g] = Gone(entry[g])]
  BY <1>1 DEF RetireReturns
<1>3. entry[g] \in Entry /\ Gone(entry[g]) \in Entry
  BY RowFacts DEF TransportInv, TransportType
<1>4. /\ entry' \in [Generations -> Entry]
      /\ \A h \in Generations : Same(h) \/ Withdrawn(h)
      /\ \A h \in Generations : entry[h].retired => entry'[h].retired
  <2>1. CASE entry' = entry
    BY <2>1 DEF Same, TransportInv, TransportType
  <2>2. CASE ~entry[g].pending /\ entry' = [entry EXCEPT ![g] = Gone(entry[g])]
    <3>1. /\ entry' \in [Generations -> Entry] /\ entry'[g] = Gone(entry[g])
          /\ \A h \in Generations \ {g} : entry'[h] = entry[h]
      BY <1>3, <2>2, SetFacts DEF TransportInv, TransportType
    <3>2. Withdrawn(g) /\ entry'[g].retired
      BY <1>3, <2>2, <3>1, RowFacts DEF Withdrawn, Entry
    <3> QED BY <3>1, <3>2 DEF Same
  <2> QED BY <1>2, <2>1, <2>2
<1>5. TransportType'
  BY <1>2, <1>4 DEF TransportInv, TransportType
<1>6. revision <= revision' /\ \A q \in Requests : Releases(q)
  BY <1>2, BoundAssumption DEF Releases, TransportInv, TransportType
<1>7. SweepInv' /\ OwnInv' /\ ShownInv'
  BY <1>2, <1>4, <1>5, <1>6, Withdrawals
<1>8. CallInv'
  BY <1>2, <1>4 DEF TransportInv, CallInv, CallOk, Waits
<1> QED BY <1>5, <1>7, <1>8 DEF TransportInv

LEMMA RetireFailsStep ==
    ASSUME TransportInv, NEW c \in calls, RetireFails(c)
    PROVE  TransportInv'
<1>1. /\ calls' = calls \ {c} /\ quarantined' = TRUE
      /\ UNCHANGED <<revision, authorized, entry, observed, holding>>
      /\ IF c.by \in Requests THEN Goes(c.by, "ending") ELSE UNCHANGED req
  BY DEF RetireFails
<1>2. \A q \in Requests :
        \/ req'[q] = req[q]
        \/ /\ q = c.by /\ Waits(q) /\ req'[q].step = "ending"
           /\ req'[q].kind = req[q].kind /\ req'[q].gen = req[q].gen /\ req'[q].rev = req[q].rev
  <2>1. CASE c.by \in Requests
    BY <1>1, <2>1, GoesFacts DEF Steps, Waits, TransportInv, TransportType
  <2>2. CASE c.by \notin Requests
    BY <1>1, <2>2
  <2> QED BY <2>1, <2>2
<1>3. req' \in [Requests -> Request]
  <2>1. CASE c.by \in Requests
    BY <1>1, <2>1, GoesFacts DEF Steps, TransportInv, TransportType
  <2>2. CASE c.by \notin Requests
    BY <1>1, <2>2 DEF TransportInv, TransportType
  <2> QED BY <2>1, <2>2
<1>4. TransportType'
  BY <1>1, <1>3 DEF TransportInv, TransportType
<1>5. ASSUME NEW q \in Requests PROVE Releases(q) /\ CallOk(q)'
  <2>1. CallOk(q) /\ (Waits(q)' => Waits(q)) /\ req[q].rev <= revision
    BY <1>1 DEF Waits, TransportInv, CallInv, SweepInv
  <2>2. CASE req'[q] = req[q]
    BY <1>1, <2>1, <2>2 DEF Releases, CallOk
  <2>3. CASE req'[q] # req[q]
    <3>1. /\ Waits(q) /\ req'[q].step = "ending"
          /\ req'[q].kind = req[q].kind /\ req'[q].gen = req[q].gen /\ req'[q].rev = req[q].rev
      BY <1>2, <2>3
    <3>2. /\ req[q].step \in {"own", "reserve", "ending"} /\ req[q].step # "pushed"
          /\ "ending" \notin Engaged
      BY <2>1, <3>1 DEF CallOk, Engaged, Opening, Working
    <3>3. Releases(q)
      BY <1>1, <2>1, <3>1, <3>2 DEF Releases
    <3>4. CallOk(q)'
      BY <1>1, <2>1, <3>1, <3>2 DEF CallOk
    <3> QED BY <3>3, <3>4
  <2> QED BY <2>2, <2>3
<1>6. revision <= revision'
  BY <1>1, BoundAssumption DEF TransportInv, TransportType
<1>7. SweepInv' /\ OwnInv' /\ ShownInv'
  BY <1>1, <1>4, <1>5, <1>6, SameEntries, Withdrawals
<1>8. CallInv'
  BY <1>5 DEF CallInv
<1> QED BY <1>4, <1>7, <1>8 DEF TransportInv
-----------------------------------------------------------------------------
(* Requests that are engaged with an entry.                                   *)

LEMMA EngagedFacts ==
    ASSUME TransportInv, NEW r \in Requests, NEW g, g = req[r].gen, req[r].step \in Engaged
    PROVE  /\ g \in Generations /\ entry[g] \in Entry /\ req[r] \in Request
           /\ entry[g].state # "free"
           /\ entry[g].rev <= revision /\ entry[g].shown <= revision /\ req[r].rev <= revision
           /\ Own(r) /\ Shown(r) /\ ~Waits(r)
           /\ \A q \in Requests \ {r} : req[q].step \in Engaged => req[q].gen # g
           /\ req[r].step # "pushed" /\ entry[g].execution /\ ~entry[g].retired =>
                entry[g].shown = entry[g].rev
<1>1. g \in Generations /\ Own(r) /\ Shown(r) /\ CallOk(r)
  BY DEF TransportInv, OwnInv, ShownInv, CallInv, Own
<1>2. /\ EntryOk(g) /\ ShownEntry(g) /\ req[r].rev <= revision
      /\ entry[g] \in Entry /\ req[r] \in Request
  BY <1>1 DEF TransportInv, TransportType, SweepInv, ShownInv
<1>3. entry[g].state # "free"
  BY <1>1, <1>2 DEF Own, EntryOk, Free, Engaged
<1>4. \A q \in Requests \ {r} : req[q].step \in Engaged => req[q].gen # g
  BY DEF TransportInv, OwnInv
<1>5. req[r].step # "pushed" => ~Pushed(g)
  BY <1>4 DEF Pushed, Engaged, Working
<1>6. ~Waits(r)
  BY <1>1 DEF CallOk, Engaged, Opening, Working
<1> QED BY <1>1, <1>2, <1>3, <1>4, <1>5, <1>6 DEF EntryOk, ShownEntry

LEMMA EngagedStep ==
    ASSUME TransportInv, NEW r \in Requests, NEW g, g = req[r].gen, req[r].step \in Engaged,
           req' \in [Requests -> Request],
           \A q \in Requests \ {r} : req'[q] = req[q],
           entry' \in [Generations -> Entry],
           \A h \in Generations \ {g} : entry'[h] = entry[h],
           UNCHANGED <<revision, authorized, quarantined, calls, observed, holding>>,
           req'[r].step \in Engaged => req'[r].gen = g,
           req'[r].step \in Engaged \cup {"sweep", "idle"},
           req'[r].step = "sweep" => req'[r].kind \in {"start", "check"},
           req'[r].rev <= revision,
           entry'[g].owner = entry[g].owner, entry'[g].state = entry[g].state,
           entry'[g].rev <= revision, entry'[g].shown <= revision,
           entry'[g].retired = entry[g].retired,
           req'[r].step # "pushed" /\ entry'[g].execution /\ ~entry'[g].retired =>
             entry'[g].shown = entry'[g].rev,
           Own(r)', Shown(r)'
    PROVE  TransportInv'
<1>1. /\ g \in Generations /\ entry[g].state # "free" /\ ~Waits(r)
      /\ \A q \in Requests \ {r} : req[q].step \in Engaged => req[q].gen # g
  BY EngagedFacts
<1>2. TransportType'
  BY DEF TransportInv, TransportType
<1>3. Touches(r, g)
  BY DEF Touches
<1>4. EntryOk(g)'
  BY <1>1 DEF EntryOk
<1>5. ShownEntry(g)'
  <2>1. req'[r].step = "pushed" => Pushed(g)'
    BY DEF Pushed, Engaged, Working
  <2> QED BY <2>1 DEF ShownEntry
<1>6. SweepInv' /\ OwnInv' /\ ShownInv'
  <2>1. req[r].step = "pushed" => req[r].gen = g
    OBVIOUS
  <2> QED BY <1>1, <1>2, <1>3, <1>4, <1>5, <2>1, OneEntry
<1>7. CallOk(r)'
  BY <1>1 DEF CallOk, Waits, Engaged, Opening, Working
<1>8. CallInv'
  <2>1. \A h \in Generations : entry[h].retired => entry'[h].retired
    BY <1>1
  <2> QED BY <1>7, <2>1, CallStep DEF TransportInv
<1> QED BY <1>2, <1>6, <1>8 DEF TransportInv

\* Compiling, asking the scheduler, building and sampling write no entry.
LEMMA ProceedSteps ==
    ASSUME TransportInv, NEW r \in Requests,
           Compile(r) \/ OpenRunner(r) \/ UpdateBuilds(r) \/ Sample(r)
    PROVE  TransportInv'
<1>1. PICK g : g = req[r].gen
  OBVIOUS
<1>2. req[r].step \in {"compile", "open", "build", "sample"}
  BY DEF Compile, OpenRunner, UpdateBuilds, Sample
<1>3. req[r].step \in Engaged
  BY <1>2 DEF Engaged, Opening, Working
<1>4. /\ g \in Generations /\ entry[g] \in Entry /\ req[r] \in Request
      /\ entry[g].rev <= revision /\ entry[g].shown <= revision /\ req[r].rev <= revision
      /\ Own(r)
      /\ req[r].step # "pushed" /\ entry[g].execution /\ ~entry[g].retired =>
           entry[g].shown = entry[g].rev
  BY <1>1, <1>3, EngagedFacts
<1>5. UNCHANGED <<revision, authorized, entry, quarantined, calls, observed, holding>>
  BY DEF Compile, OpenRunner, UpdateBuilds, Sample
<1>6. req \in [Requests -> Request] /\ entry \in [Generations -> Entry]
  BY DEF TransportInv, TransportType
<1>7. /\ req' \in [Requests -> Request]
      /\ \A q \in Requests \ {r} : req'[q] = req[q]
      /\ req'[r].gen = g /\ req'[r].kind = req[r].kind /\ req'[r].rev <= revision
      /\ \/ req[r].step \in Opening /\ req'[r].step \in Opening
         \/ req[r].step \in Working /\ req'[r].step = "push"
         \/ /\ req[r].step \in Working /\ req'[r].step = "frame"
            /\ ~entry[g].retired /\ req'[r].rev = entry[g].shown
  <2>1. CASE Compile(r)
    BY <1>1, <1>4, <1>6, <2>1, GoesFacts DEF Compile, Steps, Opening
  <2>2. CASE OpenRunner(r)
    BY <1>1, <1>4, <1>6, <2>2, GoesFacts DEF OpenRunner, Steps, Opening
  <2>3. CASE UpdateBuilds(r)
    BY <1>1, <1>4, <1>6, <2>3, GoesFacts DEF UpdateBuilds, Steps, Working
  <2>4. CASE Sample(r)
    <3>1. /\ req' = [req EXCEPT ![r].step = "frame", ![r].rev = entry[g].shown]
          /\ req[r].step = "sample" /\ ~entry[g].retired
      BY <1>1, <2>4 DEF Sample, Current
    <3>2. entry[g].shown \in 0..MaxRevision /\ "frame" \in Steps
      BY <1>4 DEF Entry, Steps
    <3>3. req' \in [Requests -> Request]
      <4>1. PICK row : row = [req[r] EXCEPT !.step = "frame", !.rev = entry[g].shown]
        OBVIOUS
      <4>2. row \in Request
        BY <1>4, <3>2, <4>1 DEF Request
      <4>3. req' = [req EXCEPT ![r] = row]
        BY <1>6, <3>1, <4>1
      <4> QED BY <1>6, <4>2, <4>3
    <3>4. /\ req'[r].step = "frame" /\ req'[r].gen = g /\ req'[r].kind = req[r].kind
          /\ req'[r].rev = entry[g].shown
          /\ \A q \in Requests \ {r} : req'[q] = req[q]
      BY <1>1, <1>6, <3>1 DEF Request
    <3> QED BY <1>4, <3>1, <3>3, <3>4 DEF Working
  <2> QED BY <2>1, <2>2, <2>3, <2>4
<1>8. req'[r].step \in Engaged /\ req'[r].step # "pushed" /\ req[r].step # "pushed"
  BY <1>2, <1>7 DEF Engaged, Opening, Working
<1>9. Own(r)'
  BY <1>1, <1>4, <1>5, <1>7 DEF Own, Opening, Working
<1>10. Shown(r)'
  <2>1. CASE req'[r].step \in Opening \cup {"push"}
    BY <2>1 DEF Shown, Opening
  <2>2. CASE req[r].step \in Working /\ req'[r].step = "frame"
    <3>1. entry[g].retired \/ entry[g].execution
      BY <1>1, <1>4, <2>2 DEF Own
    <3>2. ~entry[g].retired /\ req'[r].rev = entry[g].shown
      BY <1>7, <2>2 DEF Opening
    <3> QED BY <1>4, <1>5, <1>7, <1>8, <2>2, <3>1, <3>2 DEF Shown
  <2> QED BY <1>7, <2>1, <2>2
<1>11. UNCHANGED <<revision, authorized, quarantined, calls, observed, holding>>
       /\ entry' = entry
  BY <1>5
<1>12. req'[r].step \notin {"sweep", "idle"}
  BY <1>8 DEF Engaged, Opening, Working
<1> QED BY <1>1, <1>3, <1>4, <1>6, <1>7, <1>8, <1>9, <1>10, <1>11, <1>12, EngagedStep

\* The runner answers a start: what it shows is what was compiled.
LEMMA OpenedStep ==
    ASSUME TransportInv, NEW r \in Requests, Opened(r)
    PROVE  TransportInv'
<1> DEFINE rowOf(g) == [entry[g] EXCEPT !.execution = TRUE, !.shown = entry[g].rev,
                                        !.pending = req[r].kind = "start"]
<1>1. PICK g : g = req[r].gen
  OBVIOUS
<1>2. /\ req[r].step = "opening" /\ Goes(r, "opened")
      /\ entry' = [entry EXCEPT ![g] = rowOf(g)]
      /\ UNCHANGED <<revision, authorized, quarantined, calls, observed, holding>>
  BY <1>1 DEF Opened, Set
<1>3. /\ req[r].step \in Engaged /\ req[r].step \in Opening
      /\ "opened" \in Engaged /\ "opened" \notin Opening \cup Working
  BY <1>2 DEF Engaged, Opening, Working
<1>4. /\ g \in Generations /\ entry[g] \in Entry /\ req[r] \in Request
      /\ entry[g].rev <= revision /\ entry[g].shown <= revision /\ req[r].rev <= revision
      /\ Own(r)
  BY <1>1, <1>3, EngagedFacts
<1>5. PICK p \in BOOLEAN : p = (req[r].kind = "start")
  OBVIOUS
<1>6. PICK row : row = [entry[g] EXCEPT !.execution = TRUE, !.shown = entry[g].rev, !.pending = p]
  OBVIOUS
<1>7. /\ row \in Entry
      /\ row.owner = entry[g].owner /\ row.state = entry[g].state
      /\ row.rev = entry[g].rev /\ row.shown = entry[g].rev /\ row.pending = p
      /\ row.retired = entry[g].retired /\ row.busy = entry[g].busy
  BY <1>4, <1>6 DEF Entry
<1>8. entry' = [entry EXCEPT ![g] = row]
  BY <1>2, <1>5, <1>6
<1>9. /\ entry' \in [Generations -> Entry] /\ entry'[g] = row
      /\ \A h \in Generations \ {g} : entry'[h] = entry[h]
  BY <1>4, <1>7, <1>8, SetFacts DEF TransportInv, TransportType
<1>10. /\ req' \in [Requests -> Request]
       /\ req'[r].step = "opened" /\ req'[r].gen = g /\ req'[r].rev = req[r].rev
       /\ \A q \in Requests \ {r} : req'[q] = req[q]
  BY <1>1, <1>2, GoesFacts DEF Steps, TransportInv, TransportType
<1>11. Own(r)'
  <2>1. p \/ entry[g].busy \/ entry[g].retired
    BY <1>1, <1>3, <1>4, <1>5 DEF Own
  <2> QED BY <1>3, <1>4, <1>7, <1>9, <1>10, <2>1 DEF Own
<1>12. Shown(r)'
  BY <1>10 DEF Shown
<1> QED BY <1>1, <1>2, <1>3, <1>4, <1>7, <1>9, <1>10, <1>11, <1>12, EngagedStep

\* A request lets go of its entry, which is neither pending nor busy by it.
LEMMA LetsGo ==
    ASSUME TransportInv, NEW r \in Requests, NEW g, g = req[r].gen, req[r].step \in Engaged,
           NEW row \in Entry, entry' = [entry EXCEPT ![g] = row],
           row.owner = entry[g].owner, row.state = entry[g].state,
           row.rev = entry[g].rev, row.shown = entry[g].shown, row.retired = entry[g].retired,
           row.execution = entry[g].execution,
           req[r].step # "pushed",
           UNCHANGED <<revision, authorized, quarantined, calls, observed, holding>>,
           req' \in [Requests -> Request],
           \A q \in Requests \ {r} : req'[q] = req[q],
           req'[r].step \in {"sweep", "idle"},
           req'[r].step = "sweep" => req'[r].kind \in {"start", "check"},
           req'[r].rev <= revision
    PROVE  TransportInv'
<1>1. /\ g \in Generations /\ entry[g] \in Entry
      /\ entry[g].rev <= revision /\ entry[g].shown <= revision
      /\ entry[g].execution /\ ~entry[g].retired => entry[g].shown = entry[g].rev
  BY EngagedFacts
<1>2. /\ entry' \in [Generations -> Entry] /\ entry'[g] = row
      /\ \A h \in Generations \ {g} : entry'[h] = entry[h]
  BY <1>1, SetFacts DEF TransportInv, TransportType
<1>3. req'[r].step \notin Engaged /\ req'[r].step \in Engaged \cup {"sweep", "idle"}
  BY DEF Engaged, Opening, Working
<1>4. Own(r)' /\ Shown(r)'
  BY <1>3 DEF Own, Shown, Engaged, Opening, Working
<1> QED BY <1>1, <1>2, <1>3, <1>4, EngagedStep

LEMMA IdleFacts ==
    ASSUME TransportInv
    PROVE  Idle.step = "idle" /\ Idle.rev <= revision
BY BoundAssumption DEF Idle, TransportInv, TransportType

LEMMA LetGoSteps ==
    ASSUME TransportInv, NEW r \in Requests, Ready(r) \/ Frame(r) \/ UpdateRestarts(r)
    PROVE  TransportInv'
<1>1. PICK g : g = req[r].gen
  OBVIOUS
<1>2. req[r].step \in {"opened", "frame", "build"}
  BY DEF Ready, Frame, UpdateRestarts
<1>3. req[r].step \in Engaged /\ req[r].step # "pushed"
  BY <1>2 DEF Engaged, Working
<1>4. /\ g \in Generations /\ entry[g] \in Entry /\ req[r] \in Request /\ req[r].rev <= revision
  BY <1>1, <1>3, EngagedFacts
<1>5. UNCHANGED <<revision, authorized, quarantined, calls, observed, holding>>
  BY DEF Ready, Frame, UpdateRestarts
<1>6. PICK row \in Entry :
        /\ entry' = [entry EXCEPT ![g] = row]
        /\ row.owner = entry[g].owner /\ row.state = entry[g].state
        /\ row.rev = entry[g].rev /\ row.shown = entry[g].shown
        /\ row.retired = entry[g].retired /\ row.execution = entry[g].execution
  <2>1. CASE Ready(r)
    <3>1. PICK row : row = [entry[g] EXCEPT !.pending = FALSE]
      OBVIOUS
    <3>2. row \in Entry
      BY <1>4, <3>1 DEF Entry
    <3>3. entry' = [entry EXCEPT ![g] = row]
      BY <1>1, <2>1, <3>1 DEF Ready, Set
    <3> QED BY <1>4, <3>1, <3>2, <3>3 DEF Entry
  <2>2. CASE Frame(r)
    <3>1. PICK row : row = [entry[g] EXCEPT !.busy = FALSE]
      OBVIOUS
    <3>2. row \in Entry
      BY <1>4, <3>1 DEF Entry
    <3>3. entry' = [entry EXCEPT ![g] = row]
      BY <1>1, <2>2, <3>1 DEF Frame, Set
    <3> QED BY <1>4, <3>1, <3>2, <3>3 DEF Entry
  <2>3. CASE UpdateRestarts(r)
    <3>1. PICK row : row = [entry[g] EXCEPT !.updating = FALSE, !.busy = FALSE]
      OBVIOUS
    <3>2. row \in Entry
      BY <1>4, <3>1 DEF Entry
    <3>3. entry' = [entry EXCEPT ![g] = row]
      BY <1>1, <2>3, <3>1 DEF UpdateRestarts, Set
    <3> QED BY <1>4, <3>1, <3>2, <3>3 DEF Entry
  <2> QED BY <2>1, <2>2, <2>3
<1>7. /\ req' \in [Requests -> Request]
      /\ \A q \in Requests \ {r} : req'[q] = req[q]
      /\ req'[r].step \in {"sweep", "idle"} /\ req'[r].rev <= revision
      /\ req'[r].step = "sweep" => req'[r].kind \in {"start", "check"}
  <2>1. CASE Ready(r) \/ Frame(r)
    <3>1. Done(r)
      BY <2>1 DEF Ready, Frame
    <3> QED BY <3>1, DoneFacts, IdleFacts DEF TransportInv, TransportType
  <2>2. CASE UpdateRestarts(r)
    <3>1. /\ req' = [req EXCEPT ![r].kind = "start", ![r].step = "sweep", ![r].gen = Nobody]
          /\ req \in [Requests -> Request]
      BY <2>2 DEF UpdateRestarts, TransportInv, TransportType
    <3>2. PICK now : now = [req[r] EXCEPT !.kind = "start", !.step = "sweep", !.gen = Nobody]
      OBVIOUS
    <3>4. now \in Request
      BY <1>4, <3>2 DEF Request, Steps
    <3>5. req' = [req EXCEPT ![r] = now]
      BY <3>1, <3>2
    <3>6. req' \in [Requests -> Request]
      BY <3>1, <3>4, <3>5
    <3>3. /\ \A q \in Requests \ {r} : req'[q] = req[q]
          /\ req'[r].step = "sweep" /\ req'[r].kind = "start" /\ req'[r].rev = req[r].rev
      BY <3>1 DEF Request
    <3> QED BY <1>4, <3>3, <3>6
  <2> QED BY <2>1, <2>2
<1> QED BY <1>1, <1>3, <1>5, <1>6, <1>7, LetsGo

\* The runner shows the new snapshot before the entry says so.
LEMMA UpdateReachesStep ==
    ASSUME TransportInv, NEW r \in Requests, UpdateReachesRunner(r)
    PROVE  TransportInv'
<1>1. PICK g : g = req[r].gen
  OBVIOUS
<1>2. /\ req[r].step = "push" /\ Goes(r, "pushed")
      /\ entry' = [entry EXCEPT ![g] = [entry[g] EXCEPT !.shown = req[r].rev]]
      /\ UNCHANGED <<revision, authorized, quarantined, calls, observed, holding>>
  BY <1>1 DEF UpdateReachesRunner, Set
<1>3. req[r].step \in Engaged /\ req[r].step \in Working /\ "pushed" \in Engaged
  BY <1>2 DEF Engaged, Working
<1>4. /\ g \in Generations /\ entry[g] \in Entry /\ req[r] \in Request
      /\ entry[g].rev <= revision /\ req[r].rev <= revision
      /\ Own(r)
  BY <1>1, <1>3, EngagedFacts
<1>5. PICK row : row = [entry[g] EXCEPT !.shown = req[r].rev]
  OBVIOUS
<1>6. /\ row \in Entry
      /\ row.owner = entry[g].owner /\ row.state = entry[g].state
      /\ row.rev = entry[g].rev /\ row.shown = req[r].rev /\ row.pending = entry[g].pending
      /\ row.retired = entry[g].retired /\ row.busy = entry[g].busy
      /\ row.execution = entry[g].execution
  BY <1>4, <1>5 DEF Entry, Request
<1>7. /\ entry' \in [Generations -> Entry] /\ entry'[g] = row
      /\ \A h \in Generations \ {g} : entry'[h] = entry[h]
  BY <1>2, <1>4, <1>5, <1>6, SetFacts DEF TransportInv, TransportType
<1>8. /\ req' \in [Requests -> Request]
      /\ req'[r].step = "pushed" /\ req'[r].gen = g /\ req'[r].rev = req[r].rev
      /\ \A q \in Requests \ {r} : req'[q] = req[q]
  BY <1>1, <1>2, GoesFacts DEF Steps, TransportInv, TransportType
<1>9. Own(r)'
  BY <1>1, <1>3, <1>4, <1>6, <1>7, <1>8 DEF Own, Opening
<1>10. Shown(r)'
  BY <1>6, <1>7, <1>8 DEF Shown
<1> QED BY <1>1, <1>2, <1>3, <1>4, <1>6, <1>7, <1>8, <1>9, <1>10, EngagedStep

LEMMA UpdateDoneStep ==
    ASSUME TransportInv, NEW r \in Requests, UpdateDone(r)
    PROVE  TransportInv'
<1>1. PICK g : g = req[r].gen
  OBVIOUS
<1>2. /\ req[r].step = "pushed" /\ Done(r) /\ ~entry[g].retired
      /\ entry' = [entry EXCEPT ![g] =
                     [entry[g] EXCEPT !.rev = req[r].rev, !.updating = FALSE, !.busy = FALSE]]
      /\ UNCHANGED <<revision, authorized, quarantined, calls, observed, holding>>
  BY <1>1 DEF UpdateDone, Set, StillWanted
<1>3. req[r].step \in Engaged
  BY <1>2 DEF Engaged, Working
<1>4. /\ g \in Generations /\ entry[g] \in Entry /\ req[r] \in Request
      /\ entry[g].shown <= revision /\ req[r].rev <= revision
      /\ Shown(r)
  BY <1>1, <1>3, EngagedFacts
<1>5. PICK row : row = [entry[g] EXCEPT !.rev = req[r].rev, !.updating = FALSE, !.busy = FALSE]
  OBVIOUS
<1>6. /\ row \in Entry
      /\ row.owner = entry[g].owner /\ row.state = entry[g].state
      /\ row.rev = req[r].rev /\ row.shown = entry[g].shown
      /\ row.retired = entry[g].retired
  BY <1>4, <1>5 DEF Entry, Request
<1>7. /\ entry' \in [Generations -> Entry] /\ entry'[g] = row
      /\ \A h \in Generations \ {g} : entry'[h] = entry[h]
  BY <1>2, <1>4, <1>5, <1>6, SetFacts DEF TransportInv, TransportType
<1>8. /\ req' \in [Requests -> Request] /\ req'[r] = Idle
      /\ \A q \in Requests \ {r} : req'[q] = req[q]
  BY <1>2, DoneFacts DEF TransportInv, TransportType
<1>9. entry[g].shown = req[r].rev
  BY <1>1, <1>2, <1>4 DEF Shown
<1>10. req'[r].step = "idle" /\ req'[r].rev <= revision /\ "idle" \notin Engaged
  BY <1>8, IdleFacts DEF Engaged, Opening, Working
<1>11. Own(r)' /\ Shown(r)'
  BY <1>10 DEF Own, Shown, Engaged, Opening, Working
<1>12. /\ req'[r].step \notin Engaged /\ req'[r].step \in Engaged \cup {"sweep", "idle"}
       /\ req'[r].step # "sweep" /\ req'[r].rev <= revision
  BY <1>10
<1>13. /\ entry'[g].owner = entry[g].owner /\ entry'[g].state = entry[g].state
       /\ entry'[g].rev <= revision /\ entry'[g].shown <= revision
       /\ entry'[g].retired = entry[g].retired /\ entry'[g].shown = entry'[g].rev
  BY <1>4, <1>6, <1>7, <1>9
<1>14. \A q \in Requests \ {r} : req'[q] = req[q]
  BY <1>8
<1>15. \A h \in Generations \ {g} : entry'[h] = entry[h]
  BY <1>7
<1>16. req' \in [Requests -> Request] /\ entry' \in [Generations -> Entry]
  BY <1>7, <1>8
<1>17. UNCHANGED <<revision, authorized, quarantined, calls, observed, holding>>
  BY <1>2
<1> QED BY <1>1, <1>3, <1>11, <1>12, <1>13, <1>14, <1>15, <1>16, <1>17, EngagedStep
-----------------------------------------------------------------------------
(* Requests that end with their entry, or begin with one.                     *)

LEMMA StartEndsStep ==
    ASSUME TransportInv, NEW r \in Requests, StartEnds(r)
    PROVE  TransportInv' /\ req[r].gen \in Generations
<1>1. PICK g : g = req[r].gen
  OBVIOUS
<1>2. /\ req[r].step \in Opening \cup {"opened"} /\ Goes(r, "ending")
      /\ entry' = [entry EXCEPT ![g] = [Retired(entry[g]) EXCEPT !.pending = FALSE]]
      /\ calls' = calls \cup {[by |-> r, gen |-> h, closes |-> entry[h].execution] : h \in {g}}
      /\ quarantined' \in BOOLEAN
      /\ UNCHANGED <<revision, authorized, observed, holding>>
  BY <1>1 DEF StartEnds, Set, Retire, Opening
<1>3. /\ req[r].step \in Engaged /\ req[r].step # "pushed"
      /\ "ending" \notin Engaged
  BY <1>2 DEF Engaged, Opening, Working
<1>4. /\ g \in Generations /\ entry[g] \in Entry /\ entry[g].state # "free"
      /\ entry[g].rev <= revision /\ entry[g].shown <= revision /\ req[r].rev <= revision
      /\ \A q \in Requests \ {r} : req[q].step \in Engaged => req[q].gen # g
  BY <1>1, <1>3, EngagedFacts
<1>5. PICK row : row = [Retired(entry[g]) EXCEPT !.pending = FALSE]
  OBVIOUS
<1>6. /\ row \in Entry /\ row.retired
      /\ row.owner = entry[g].owner /\ row.state = entry[g].state
      /\ row.rev = entry[g].rev /\ row.shown = entry[g].shown
  <2>1. PICK ret : ret = Retired(entry[g])
    OBVIOUS
  <2>2. /\ ret \in Entry /\ ret.retired
        /\ ret.owner = entry[g].owner /\ ret.state = entry[g].state
        /\ ret.rev = entry[g].rev /\ ret.shown = entry[g].shown
    BY <1>4, <2>1, RowFacts
  <2>3. row = [ret EXCEPT !.pending = FALSE]
    BY <1>5, <2>1
  <2> QED BY <2>2, <2>3 DEF Entry
<1>7. /\ entry' \in [Generations -> Entry] /\ entry'[g] = row
      /\ \A h \in Generations \ {g} : entry'[h] = entry[h]
  BY <1>2, <1>4, <1>5, <1>6, SetFacts DEF TransportInv, TransportType
<1>8. /\ req' \in [Requests -> Request]
      /\ req'[r].step = "ending" /\ req'[r].gen = g /\ req'[r].rev = req[r].rev
      /\ \A q \in Requests \ {r} : req'[q] = req[q]
  BY <1>1, <1>2, GoesFacts DEF Steps, TransportInv, TransportType
<1>9. \A c \in calls' : c.gen \in Generations /\ c.closes \in BOOLEAN
  BY <1>2, <1>4 DEF TransportInv, TransportType, Entry
<1>10. TransportType'
  BY <1>2, <1>7, <1>8, <1>9 DEF TransportInv, TransportType
<1>11. Touches(r, g)
  BY <1>2, <1>7, <1>8 DEF Touches
<1>12. EntryOk(g)' /\ ShownEntry(g)'
  BY <1>2, <1>4, <1>6, <1>7 DEF EntryOk, ShownEntry
<1>13. Own(r)' /\ Shown(r)' /\ req'[r].step \notin Engaged
  BY <1>3, <1>8 DEF Own, Shown, Engaged, Opening, Working
<1>14. SweepInv' /\ OwnInv' /\ ShownInv'
  BY <1>3, <1>4, <1>6, <1>7, <1>8, <1>10, <1>11, <1>12, <1>13, OneEntry
<1>15. CallOk(r)'
  BY <1>4, <1>6, <1>7, <1>8 DEF CallOk
<1>16. CallInv'
  <2>1. \A c \in calls' : c \in calls \/ c.by = r
    BY <1>2
  <2>2. \A h \in Generations : entry[h].retired => entry'[h].retired
    BY <1>6, <1>7
  <2> QED BY <1>8, <1>15, <2>1, <2>2, CallStep DEF TransportInv
<1> QED BY <1>1, <1>4, <1>10, <1>14, <1>16 DEF TransportInv

\* An entry that may be used is not used by anybody.
LEMMA UsableFacts ==
    ASSUME TransportInv, NEW g \in Generations, Usable(g)
    PROVE  /\ entry[g].state # "free"
           /\ \A q \in Requests : req[q].step \in Engaged => req[q].gen # g
           /\ entry[g].shown = entry[g].rev
<1>1. /\ entry[g].state = "live" /\ entry[g].execution
      /\ ~entry[g].retired /\ ~entry[g].pending /\ ~entry[g].busy
  BY DEF Usable, Live
<1>2. ASSUME NEW q \in Requests, req[q].step \in Engaged PROVE req[q].gen # g
  BY <1>1, <1>2 DEF TransportInv, OwnInv, Own, Engaged
<1>3. ~Pushed(g)
  BY <1>2 DEF Pushed, Engaged, Working
<1> QED BY <1>1, <1>2, <1>3 DEF TransportInv, ShownInv, ShownEntry

LEMMA BeginStep ==
    ASSUME TransportInv, NEW r \in Requests, NEW g \in Generations, req[r] = Idle, Usable(g),
           NEW kind \in {"update", "capture"}, NEW s \in {"build", "sample"}, Begin(r, g, kind, s),
           NEW row \in Entry, entry' = [entry EXCEPT ![g] = row],
           row.owner = entry[g].owner, row.state = entry[g].state,
           row.rev = entry[g].rev, row.shown = entry[g].shown, row.retired = entry[g].retired,
           row.execution = entry[g].execution, row.pending = entry[g].pending, row.busy,
           UNCHANGED <<revision, authorized, quarantined, calls, observed, holding>>
    PROVE  TransportInv'
<1>1. /\ entry[g].state # "free" /\ entry[g].shown = entry[g].rev
      /\ \A q \in Requests : req[q].step \in Engaged => req[q].gen # g
  BY UsableFacts
<1>2. entry[g].execution /\ ~entry[g].pending
  BY DEF Usable
<1>3. /\ entry' \in [Generations -> Entry] /\ entry'[g] = row
      /\ \A h \in Generations \ {g} : entry'[h] = entry[h]
  BY SetFacts DEF TransportInv, TransportType
<1>4. /\ revision \in 0..MaxRevision /\ revision <= revision
      /\ entry[g].owner \in Previews \cup {Nobody} /\ req \in [Requests -> Request]
      /\ entry[g].rev <= revision /\ entry[g].shown <= revision
  BY BoundAssumption DEF TransportInv, TransportType, Entry, SweepInv, EntryOk
<1>5. /\ req' \in [Requests -> Request]
      /\ req'[r].step = s /\ req'[r].kind = kind /\ req'[r].gen = g /\ req'[r].rev = revision
      /\ \A q \in Requests \ {r} : req'[q] = req[q]
  BY <1>4 DEF Begin, Request, Steps
<1>6. TransportType'
  BY <1>3, <1>5 DEF TransportInv, TransportType
<1>7. Touches(r, g)
  BY <1>3, <1>5 DEF Touches
<1>8. EntryOk(g)' /\ ShownEntry(g)'
  BY <1>1, <1>3, <1>4 DEF EntryOk, ShownEntry
<1>9. Own(r)' /\ Shown(r)' /\ req[r].step # "pushed"
  <2>1. Shown(r)' /\ req[r].step # "pushed"
    BY <1>5 DEF Shown, Idle
  <2>2. /\ req'[r].step \in Working /\ req'[r].step \notin Opening \cup {"opened"}
        /\ entry'[g].busy /\ entry'[g].execution /\ ~entry'[g].pending
    BY <1>2, <1>3, <1>5 DEF Opening, Working
  <2>3. Own(r)'
    BY <1>5, <2>2 DEF Own
  <2> QED BY <2>1, <2>3
<1>10. SweepInv' /\ OwnInv' /\ ShownInv'
  BY <1>1, <1>3, <1>4, <1>5, <1>6, <1>7, <1>8, <1>9, OneEntry
<1>11. CallOk(r)'
  <2>1. CallOk(r)
    BY DEF TransportInv, CallInv
  <2>2. ~Waits(r)
    BY <2>1 DEF CallOk, Idle
  <2> QED BY <1>5, <2>2 DEF CallOk, Waits
<1>12. CallInv'
  <2>1. \A h \in Generations : entry[h].retired => entry'[h].retired
    BY <1>3
  <2> QED BY <1>5, <1>11, <2>1, CallStep DEF TransportInv
<1> QED BY <1>6, <1>10, <1>12 DEF TransportInv

LEMMA BeginSteps ==
    ASSUME TransportInv, NEW r \in Requests, NEW g \in Generations,
           UpdateRequest(r, g) \/ CaptureRequest(r, g)
    PROVE  TransportInv'
<1>1. entry[g] \in Entry
  BY DEF TransportInv, TransportType
<1>2. CASE UpdateRequest(r, g)
  <2>1. PICK row : row = [entry[g] EXCEPT !.updating = TRUE, !.busy = TRUE, !.held = FALSE]
    OBVIOUS
  <2>2. /\ row \in Entry
        /\ row.owner = entry[g].owner /\ row.state = entry[g].state
        /\ row.rev = entry[g].rev /\ row.shown = entry[g].shown /\ row.retired = entry[g].retired
        /\ row.execution = entry[g].execution /\ row.pending = entry[g].pending /\ row.busy
    BY <1>1, <2>1 DEF Entry
  <2>3. /\ req[r] = Idle /\ Usable(g) /\ entry' = [entry EXCEPT ![g] = row]
        /\ Begin(r, g, "update", "build")
        /\ UNCHANGED <<revision, authorized, quarantined, calls, observed, holding>>
    BY <1>2, <2>1 DEF UpdateRequest, Set
  <2> QED BY <2>2, <2>3, BeginStep
<1>3. CASE CaptureRequest(r, g) /\ Usable(g) /\ Begin(r, g, "capture", "sample") /\ calls' = calls
           /\ Set(g, [entry[g] EXCEPT !.busy = TRUE])
  <2>1. PICK row : row = [entry[g] EXCEPT !.busy = TRUE]
    OBVIOUS
  <2>2. /\ row \in Entry
        /\ row.owner = entry[g].owner /\ row.state = entry[g].state
        /\ row.rev = entry[g].rev /\ row.shown = entry[g].shown /\ row.retired = entry[g].retired
        /\ row.execution = entry[g].execution /\ row.pending = entry[g].pending /\ row.busy
    BY <1>1, <2>1 DEF Entry
  <2>3. /\ req[r] = Idle /\ entry' = [entry EXCEPT ![g] = row]
        /\ UNCHANGED <<revision, authorized, quarantined, calls, observed, holding>>
    BY <1>3, <2>1 DEF CaptureRequest, Set
  <2> QED BY <1>3, <2>2, <2>3, BeginStep
<1>4. CASE CaptureRequest(r, g) /\ RetireEntries({g}, r) /\ Begin(r, g, "start", "ending")
  BY <1>4, StaleCapture DEF CaptureRequest
<1> QED BY <1>2, <1>3, <1>4 DEF CaptureRequest

\* A reservation takes a generation that nothing was ever known of.
LEMMA ReserveStep ==
    ASSUME TransportInv, NEW r \in Requests, Reserve(r)
    PROVE  TransportInv'
<1>1. /\ req[r].step = "reserve" /\ ~Waits(r)
      /\ UNCHANGED <<revision, authorized, quarantined, calls, observed, holding>>
  BY DEF Reserve
<1>2. /\ req[r] \in Request /\ req[r].kind \in {"start", "check"} /\ req[r].rev <= revision
      /\ req \in [Requests -> Request] /\ 0 <= revision
  BY <1>1, BoundAssumption DEF TransportInv, TransportType, CallInv, CallOk, SweepInv
<1>3. CASE Done(r) /\ UNCHANGED entry
  BY <1>1, <1>3, DoneStep
<1>4. ASSUME NEW g \in Generations, entry[g] = Free,
             Set(g, [Free EXCEPT !.state = "live", !.owner = req[r].owner, !.rev = req[r].rev,
                                 !.pending = TRUE, !.busy = req[r].kind = "check"]),
             req' = [req EXCEPT ![r].gen = g, ![r].step = "compile", ![r].rev = 0]
      PROVE  TransportInv'
  <2>1. PICK b \in BOOLEAN : b = (req[r].kind = "check")
    OBVIOUS
  <2>2. PICK row : row = [Free EXCEPT !.state = "live", !.owner = req[r].owner, !.rev = req[r].rev,
                                      !.pending = TRUE, !.busy = b]
    OBVIOUS
  <2>3. /\ row \in Entry
        /\ row.state = "live" /\ row.rev = req[r].rev /\ row.shown = 0
        /\ row.pending /\ row.busy = b /\ ~row.execution
    BY <1>2, <2>2, FreeEntry DEF Entry, Request, Free
  <2>4. entry' = [entry EXCEPT ![g] = row]
    BY <1>4, <2>1, <2>2 DEF Set
  <2>5. /\ entry' \in [Generations -> Entry] /\ entry'[g] = row
        /\ \A h \in Generations \ {g} : entry'[h] = entry[h]
    BY <2>3, <2>4, SetFacts DEF TransportInv, TransportType
  <2>6. /\ req' \in [Requests -> Request]
        /\ req'[r].step = "compile" /\ req'[r].kind = req[r].kind /\ req'[r].gen = g
        /\ req'[r].rev = 0
        /\ \A q \in Requests \ {r} : req'[q] = req[q]
    <3>1. PICK now : now = [req[r] EXCEPT !.gen = g, !.step = "compile", !.rev = 0]
      OBVIOUS
    <3>2. /\ now \in Request
          /\ now.step = "compile" /\ now.kind = req[r].kind /\ now.gen = g /\ now.rev = 0
      <4>1. 0 \in 0..MaxRevision /\ "compile" \in Steps
        BY BoundAssumption DEF Steps
      <4>2. now \in Request
        BY <1>2, <3>1, <4>1 DEF Request
      <4>3. now.step = "compile" /\ now.kind = req[r].kind /\ now.gen = g /\ now.rev = 0
        BY <1>2, <3>1 DEF Request
      <4> QED BY <4>2, <4>3
    <3>3. req' = [req EXCEPT ![r] = now]
      BY <1>2, <1>4, <3>1
    <3> QED BY <1>2, <3>2, <3>3
  <2>7. /\ ~entry[g].pending /\ ~entry[g].busy /\ ~entry[g].retired /\ ~entry[g].execution
        /\ observed[g] = {} /\ entry[g].state = "free"
    BY <1>4 DEF Free, TransportInv, SweepInv, EntryOk
  <2>8. ASSUME NEW q \in Requests, req[q].step \in Engaged PROVE req[q].gen # g
    BY <2>7, <2>8 DEF TransportInv, OwnInv, Own, Engaged
  <2>9. TransportType'
    BY <1>1, <2>5, <2>6 DEF TransportInv, TransportType
  <2>10. Touches(r, g)
    BY <1>1, <2>5, <2>6 DEF Touches
  <2>11. EntryOk(g)' /\ ShownEntry(g)'
    BY <1>1, <1>2, <2>3, <2>5 DEF EntryOk, ShownEntry
  <2>12. Own(r)' /\ Shown(r)' /\ req[r].step # "pushed"
    BY <1>1, <1>2, <2>1, <2>3, <2>5, <2>6 DEF Own, Shown, Engaged, Opening, Working
  <2>13. SweepInv' /\ OwnInv' /\ ShownInv'
    BY <1>2, <2>6, <2>7, <2>8, <2>9, <2>10, <2>11, <2>12, OneEntry
  <2>14. CallOk(r)'
    BY <1>1, <2>6 DEF CallOk, Waits
  <2>15. CallInv'
    <3>1. \A h \in Generations : entry[h].retired => entry'[h].retired
      BY <2>5, <2>7
    <3> QED BY <1>1, <2>6, <2>14, <3>1, CallStep DEF TransportInv
  <2> QED BY <2>9, <2>13, <2>15 DEF TransportInv
<1> QED BY <1>3, <1>4 DEF Reserve

\* Entries die with the process.
LEMMA CrashStep ==
    ASSUME TransportInv, Crash
    PROVE  TransportInv'
<1> DEFINE dead == [Free EXCEPT !.state = "gone"]
<1>1. /\ dead \in Entry /\ ~dead.execution /\ dead.state = "gone"
      /\ dead.rev = 0 /\ dead.shown = 0
      /\ ~Free.execution /\ Free.rev = 0 /\ Free.shown = 0
  BY FreeEntry DEF Entry, Free
<1>2. Idle \in Request /\ Idle.step = "idle" /\ Idle.rev = 0
  BY BoundAssumption DEF Idle, Request, Steps
<1> HIDE DEF dead
<1>3. /\ UNCHANGED <<revision, authorized>>
      /\ entry' = [g \in Generations |-> IF entry[g] = Free THEN Free ELSE dead]
      /\ quarantined' = FALSE /\ calls' = {} /\ holding' = {}
      /\ req' = [r \in Requests |-> Idle]
      /\ observed' = [g \in Generations |-> {}]
  BY DEF Crash, dead
<1>4. \A g \in Generations : entry'[g] \in {Free, dead} /\ observed'[g] = {}
  BY <1>3
<1>5. TransportType'
  BY <1>1, <1>2, <1>3, FreeEntry DEF TransportInv, TransportType
<1>6. 0 <= revision'
  BY <1>3, BoundAssumption DEF TransportInv, TransportType
<1>7. SweepInv'
  BY <1>1, <1>2, <1>3, <1>4, <1>6 DEF SweepInv, EntryOk
<1>8. \A r \in Requests : req'[r].step = "idle"
  BY <1>2, <1>3
<1>9. OwnInv'
  BY <1>8 DEF OwnInv, Own, Engaged, Opening, Working
<1>10. ShownInv'
  BY <1>1, <1>4, <1>8 DEF ShownInv, ShownEntry, Shown
<1>11. CallInv'
  BY <1>3, <1>8 DEF CallInv, CallOk, Waits
<1> QED BY <1>5, <1>7, <1>9, <1>10, <1>11 DEF TransportInv
-----------------------------------------------------------------------------
(* Every step of the composed system.                                         *)

LEMMA InternalSteps ==
    ASSUME TransportInv, Internal
    PROVE  TransportInv'
<1>1. CASE SchedulerStep /\ UNCHANGED <<revision, authorized, transportVars, faults>>
  BY <1>1, OutsideSteps
<1>2. CASE \E r \in Requests : req[r].step = "open" /\ FirstOpen
  BY <1>2, OutsideSteps DEF FirstOpen
<1>3. CASE \E c \in calls : RetireReturns(c) \/ RetireFails(c)
  BY <1>3, RetireReturnsStep, RetireFailsStep
<1>4. ASSUME NEW g \in Generations,
             \/ SweepObserves(g) \/ SweepDecides(g) \/ SweepRetries(g)
             \/ HoldLooksUp(g) \/ Expire(g)
      PROVE  TransportInv'
  BY <1>4, SweepObservesStep, SweepSteps, HoldSteps
<1>5. ASSUME NEW r \in Requests,
             \/ StartSweeps(r) \/ StartRetiresOwn(r) \/ Reserve(r) \/ Compile(r) \/ OpenRunner(r)
             \/ Opened(r) \/ Ready(r) \/ StartEnds(r) \/ Ended(r)
      PROVE  TransportInv'
  BY <1>5, StartSteps, ReserveStep, ProceedSteps, OpenedStep, LetGoSteps, StartEndsStep, EndedStep
<1>6. ASSUME NEW r \in Requests,
             \/ UpdateRestarts(r) \/ UpdateBuilds(r) \/ UpdateReachesRunner(r) \/ UpdateDone(r)
             \/ Sample(r) \/ Frame(r) \/ UpdateOrCaptureFails(r)
      PROVE  TransportInv'
  BY <1>6, LetGoSteps, ProceedSteps, UpdateReachesStep, UpdateDoneStep, FailStep
<1> QED BY <1>1, <1>2, <1>3, <1>4, <1>5, <1>6 DEF Internal

LEMMA ClientSteps ==
    ASSUME TransportInv, Client
    PROVE  TransportInv'
<1>1. CASE Commit
  BY <1>1, OutsideSteps DEF Commit
<1>2. ASSUME NEW r \in Requests, NEW s \in Previews, NEW kind \in {"start", "check"},
             StartRequest(r, s, kind)
      PROVE  TransportInv'
  BY <1>2, StartRequestStep
<1>3. ASSUME NEW r \in Requests, NEW g \in Generations, UpdateRequest(r, g) \/ CaptureRequest(r, g)
      PROVE  TransportInv'
  BY <1>3, BeginSteps
<1>4. ASSUME NEW g \in Generations, Hold(g) PROVE TransportInv'
  BY <1>4, HoldSteps
<1> QED BY <1>1, <1>2, <1>3, <1>4 DEF Client

LEMMA FaultSteps ==
    ASSUME TransportInv, Fault
    PROVE  TransportInv'
<1>1. ASSUME NEW g \in Generations, CleanupFails(g) PROVE TransportInv'
  BY <1>1, OutsideSteps DEF CleanupFails
<1>2. ASSUME NEW s \in authorized, SessionEnds(s) PROVE TransportInv'
  BY <1>2, OutsideSteps DEF SessionEnds
<1>3. CASE Crash
  BY <1>3, CrashStep
<1> QED BY <1>1, <1>2, <1>3 DEF Fault

LEMMA TransportNext ==
    ASSUME TransportInv, [Next]_vars
    PROVE  TransportInv'
<1>1. CASE UNCHANGED vars
  BY <1>1, OutsideSteps DEF vars
<1> QED BY <1>1, InternalSteps, ClientSteps, FaultSteps DEF Next

\* What the transport asks of the scheduler, whichever step asks it.
LEMMA SchedulerCalls ==
    ASSUME TransportInv, [Next]_vars
    PROVE  SchedulerAction
<1>1. ASSUME NEW G \in SUBSET Generations, NEW by, Retire(G, by) PROVE SchedulerAction
  BY <1>1 DEF Retire, SchedulerAction
<1>2. ASSUME NEW G \in SUBSET Generations, NEW by, RetireEntries(G, by) PROVE SchedulerAction
  BY <1>1, <1>2 DEF RetireEntries
<1>3. ASSUME NEW g \in Generations, NEW by, RetireEntries({g}, by) \/ Retire({g}, by)
      PROVE  SchedulerAction
  <2>1. {g} \in SUBSET Generations
    OBVIOUS
  <2> QED BY <1>1, <1>2, <1>3, <2>1
<1>4. ASSUME UNCHANGED schedulerVars PROVE SchedulerAction
  BY <1>4 DEF SchedulerAction
<1>5. CASE UNCHANGED vars
  BY <1>4, <1>5 DEF vars
<1>6. CASE Client
  <2>1. ASSUME NEW r \in Requests, NEW g \in Generations, CaptureRequest(r, g)
        PROVE  SchedulerAction
    BY <1>3, <1>4, <2>1 DEF CaptureRequest
  <2>2. ASSUME NEW r \in Requests, NEW s \in Previews, NEW kind \in {"start", "check"},
               StartRequest(r, s, kind)
        PROVE  SchedulerAction
    BY <1>4, <2>2 DEF StartRequest
  <2>3. CASE Commit
    BY <1>4, <2>3 DEF Commit
  <2>4. ASSUME NEW r \in Requests, NEW g \in Generations, UpdateRequest(r, g)
        PROVE  SchedulerAction
    BY <1>4, <2>4 DEF UpdateRequest
  <2>5. ASSUME NEW g \in Generations, Hold(g) PROVE SchedulerAction
    BY <1>4, <2>5 DEF Hold
  <2> QED BY <1>6, <2>1, <2>2, <2>3, <2>4, <2>5 DEF Client
<1>7. CASE Fault
  <2>1. ASSUME NEW g \in Generations, CleanupFails(g) PROVE SchedulerAction
    BY <2>1 DEF CleanupFails, SchedulerAction
  <2>2. ASSUME NEW s \in authorized, SessionEnds(s) PROVE SchedulerAction
    BY <1>4, <2>2 DEF SessionEnds
  <2>3. CASE Crash
    BY <2>3 DEF Crash, SchedulerAction
  <2> QED BY <1>7, <2>1, <2>2, <2>3 DEF Fault
<1>8. CASE Internal
  <2>1. CASE SchedulerStep
    BY <2>1 DEF SchedulerAction
  <2>2. CASE FirstOpen
    BY <2>2 DEF FirstOpen, SchedulerAction
  <2>3. ASSUME NEW c \in calls, RetireReturns(c) \/ RetireFails(c) PROVE SchedulerAction
    BY <1>4, <2>3 DEF RetireReturns, RetireFails
  <2>4. ASSUME NEW g \in Generations, SweepObserves(g) \/ HoldLooksUp(g) PROVE SchedulerAction
    BY <1>4, <2>4 DEF SweepObserves, HoldLooksUp
  <2>5. ASSUME NEW g \in Generations, SweepDecides(g) \/ SweepRetries(g) \/ Expire(g)
        PROVE  SchedulerAction
    BY <1>3, <1>4, <2>5 DEF SweepDecides, SweepRetries, Expire
  <2>6. ASSUME NEW r \in Requests, StartSweeps(r) \/ StartRetiresOwn(r) PROVE SchedulerAction
    <3>1. PICK G \in SUBSET Generations : RetireEntries(G, r)
      BY <2>6, LiveFacts DEF StartSweeps, StartRetiresOwn
    <3> QED BY <1>2, <3>1
  <2>7. ASSUME NEW r \in Requests,
               \/ Reserve(r) \/ Compile(r) \/ Opened(r) \/ Ready(r) \/ Ended(r)
               \/ UpdateRestarts(r) \/ UpdateBuilds(r) \/ UpdateReachesRunner(r)
               \/ UpdateDone(r) \/ Sample(r) \/ Frame(r)
        PROVE  SchedulerAction
    <3>1. UNCHANGED schedulerVars
      BY <2>7 DEF Reserve, Compile, Opened, Ready, Ended, UpdateRestarts, UpdateBuilds,
                  UpdateReachesRunner, UpdateDone, Sample, Frame
    <3> QED BY <1>4, <3>1
  <2>8. ASSUME NEW r \in Requests, OpenRunner(r) PROVE SchedulerAction
    <3>1. PICK g : g = req[r].gen
      OBVIOUS
    <3>2. req[r].step \in Engaged
      BY <2>8 DEF OpenRunner, Engaged, Opening
    <3>3. g \in Generations
      BY <3>1, <3>2, EngagedFacts
    <3>4. OpenJob(g) /\ ready = "yes"
      BY <2>8, <3>1 DEF OpenRunner
    <3> QED BY <3>3, <3>4 DEF SchedulerAction
  <2>9. ASSUME NEW r \in Requests, StartEnds(r) \/ UpdateOrCaptureFails(r) PROVE SchedulerAction
    <3>1. PICK g \in Generations : g = req[r].gen
      BY <2>9, StartEndsStep, FailStep
    <3>2. RetireEntries({g}, r) \/ Retire({g}, r)
      BY <2>9, <3>1 DEF StartEnds, UpdateOrCaptureFails
    <3> QED BY <1>3, <3>2
  <2> QED
    BY <1>8, <2>1, <2>2, <2>3, <2>4, <2>5, <2>6, <2>7, <2>8, <2>9 DEF Internal
<1> QED BY <1>5, <1>6, <1>7, <1>8 DEF Next

LEMMA TransportStart ==
    Init => TransportInv
<1> SUFFICES ASSUME Init PROVE TransportInv
  OBVIOUS
<1>1. /\ Idle \in Request /\ Idle.step = "idle" /\ Idle.rev = 0
      /\ ~Free.execution /\ Free.rev = 0 /\ Free.shown = 0
  BY BoundAssumption DEF Idle, Request, Steps, Free
<1>2. /\ revision = 0 /\ authorized = Previews /\ quarantined = FALSE /\ calls = {}
      /\ holding = {}
      /\ \A g \in Generations : entry[g] = Free /\ observed[g] = {}
      /\ \A r \in Requests : req[r] = Idle
  BY DEF Init
<1>3. TransportType
  <2>1. revision \in 0..MaxRevision
    BY <1>2, BoundAssumption
  <2>2. /\ entry \in [Generations -> Entry] /\ req \in [Requests -> Request]
        /\ observed \in [Generations -> SUBSET Observations]
    BY <1>1, FreeEntry DEF Init
  <2> QED BY <1>2, <2>1, <2>2 DEF TransportType
<1>4. SweepInv
  BY <1>1, <1>2 DEF SweepInv, EntryOk
<1>5. OwnInv /\ ShownInv
  BY <1>1, <1>2 DEF OwnInv, Own, ShownInv, ShownEntry, Shown, Engaged, Opening, Working
<1>6. CallInv
  BY <1>1, <1>2 DEF CallInv, CallOk, Waits
<1> QED BY <1>3, <1>4, <1>5, <1>6 DEF TransportInv

LEMMA Invariance == Spec => []IInv
<1>1. Init => IInv
  BY SchedulerStart, TransportStart DEF Init, IInv
<1>2. IInv /\ [Next]_vars => IInv'
  BY SchedulerNext, SchedulerCalls, TransportNext DEF IInv
<1> QED BY <1>1, <1>2, PTL DEF Spec
-----------------------------------------------------------------------------
(* The theorems.                                                              *)

\* Scheduler, entries and requests keep their types: what controlledPreview.ts
\* and runnerScheduler.ts read of each other after an await is well-formed.
THEOREM TypeCorrect == Spec => []TypeOK
<1>1. IInv => TypeOK
  BY DEF IInv, TransportInv, TransportType, TypeOK
<1> QED BY <1>1, Invariance, PTL

\* The raster that capture of controlledPreview.ts returns shows the revision
\* its answer names, whatever updates, commits and captures ran since the sample.
THEOREM CapturesAreOfTheirRevision == Spec => []FramesShowTheirRevision
<1>1. IInv => FramesShowTheirRevision
  BY DEF IInv, TransportInv, ShownInv, Shown, FramesShowTheirRevision, Current
<1> QED BY <1>1, Invariance, PTL

\* Only a sweep that decides, or a crash, takes back what a sweep has observed.
LEMMA ObservationsEnd ==
    ASSUME TransportInv, [Next]_vars, NEW g \in Generations, observed[g] # {}, observed'[g] = {}
    PROVE  SweepDecides(g) \/ Crash
<1>1. observed' # observed
  OBVIOUS
<1>2. CASE Internal
  <2>1. ASSUME NEW h \in Generations, SweepObserves(h) PROVE FALSE
    BY <2>1 DEF SweepObserves, TransportInv, TransportType
  <2>2. ASSUME NEW h \in Generations, SweepDecides(h) PROVE h = g
    BY <2>2 DEF SweepDecides, TransportInv, TransportType
  <2>3. \E h \in Generations : SweepObserves(h) \/ SweepDecides(h)
    <3>1. ASSUME NEW h \in Generations, SweepRetries(h) \/ HoldLooksUp(h) \/ Expire(h) PROVE FALSE
      BY <1>1, <3>1 DEF SweepRetries, HoldLooksUp, Expire
    <3>2. ASSUME NEW c \in calls, RetireReturns(c) \/ RetireFails(c) PROVE FALSE
      BY <1>1, <3>2 DEF RetireReturns, RetireFails
    <3>3. ASSUME NEW r \in Requests,
                 \/ StartSweeps(r) \/ StartRetiresOwn(r) \/ Reserve(r) \/ Compile(r)
                 \/ OpenRunner(r) \/ Opened(r) \/ Ready(r) \/ StartEnds(r) \/ Ended(r)
          PROVE  FALSE
      BY <1>1, <3>3 DEF StartSweeps, StartRetiresOwn, Reserve, Compile, OpenRunner, Opened,
                        Ready, StartEnds, Ended
    <3>4. ASSUME NEW r \in Requests,
                 \/ UpdateRestarts(r) \/ UpdateBuilds(r) \/ UpdateReachesRunner(r)
                 \/ UpdateDone(r) \/ Sample(r) \/ Frame(r) \/ UpdateOrCaptureFails(r)
          PROVE  FALSE
      BY <1>1, <3>4 DEF UpdateRestarts, UpdateBuilds, UpdateReachesRunner, UpdateDone, Sample,
                        Frame, UpdateOrCaptureFails
    <3>5. ASSUME UNCHANGED transportVars PROVE FALSE
      BY <1>1, <3>5 DEF transportVars
    <3> QED BY <1>2, <3>1, <3>2, <3>3, <3>4, <3>5 DEF Internal, FirstOpen
  <2> QED BY <2>1, <2>2, <2>3
<1>3. CASE Client
  <2>1. observed' = observed
    BY <1>3 DEF Client, Commit, transportVars, StartRequest, UpdateRequest, CaptureRequest, Hold
  <2> QED BY <1>1, <2>1
<1>4. CASE Fault
  BY <1>1, <1>4 DEF Fault, CleanupFails, SessionEnds, transportVars
<1>5. CASE UNCHANGED vars
  BY <1>1, <1>5 DEF vars, transportVars
<1> QED BY <1>2, <1>3, <1>4, <1>5 DEF Next

\* The sweep of controlledPreview.ts destroys no preview that is up to date,
\* held for a commit or updating, although its lookups ran before it decided.
THEOREM SweepsSpareTheCurrent == Spec => SweepSparesCurrent
<1> DEFINE Spares(g) ==
      observed[g] # {} /\ observed'[g] = {} /\ entry[g].state = "live"
          /\ ~entry[g].retired /\ entry'[g].retired
      => quarantined \/ entry[g].owner \notin authorized
           \/ (~entry[g].updating /\ ~entry[g].held /\ entry[g].rev # revision)
<1>1. IInv /\ [Next]_vars => [\A g \in Generations : Spares(g)]_vars
  <2> SUFFICES ASSUME IInv, [Next]_vars, NEW g \in Generations,
                      observed[g] # {}, observed'[g] = {}, entry[g].state = "live",
                      ~entry[g].retired, entry'[g].retired
               PROVE  quarantined \/ entry[g].owner \notin authorized
                        \/ (~entry[g].updating /\ ~entry[g].held /\ entry[g].rev # revision)
    OBVIOUS
  <2>1. TransportInv
    BY DEF IInv
  <2>2. SweepDecides(g) \/ Crash
    BY <2>1, ObservationsEnd
  <2>3. ~Crash
    BY DEF Crash, Free
  <2>4. PICK o \in observed[g] : Decided(g, o)
    BY <2>2, <2>3 DEF SweepDecides
  <2>5. CASE Doomed(g)
    BY <2>5 DEF Doomed
  <2>6. CASE o = Observation(g)
    <3>1. Seen(g, o) /\ entry[g].rev \in Nat /\ revision \in Nat
      BY <2>1, BoundAssumption DEF TransportInv, TransportType, SweepInv, Entry
    <3> QED BY <2>6, <3>1 DEF Seen, Observation
  <2> QED BY <2>4, <2>5, <2>6 DEF Decided
<1> QED BY <1>1, Invariance, PTL DEF Spec, SweepSparesCurrent

\* LocalScheduler keeps the contract of RunnerSlots under everything that the
\* transport asks of it, late launches, failed cleanups and crashes included.
THEOREM SchedulerImplementsSlots == Spec => ImplementsRunnerSlots
<1>1. Init => Slots!Init
  BY SchedulerStart DEF Init
<1>2. IInv /\ [Next]_vars => [Slots!Next]_(Slots!vars)
  BY SchedulerNext, SchedulerCalls DEF IInv, SlotStep
<1> QED BY <1>1, <1>2, Invariance, PTL DEF Spec, ImplementsRunnerSlots, Slots!Spec
=============================================================================
