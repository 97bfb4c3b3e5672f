---------------------------- MODULE LocalScheduler ----------------------------
(* Runner jobs of one editor process (engine/runtime/runnerScheduler.ts):     *)
(* ScheduledRunnerProvider with its durable leases, and the provider's host.  *)
(* Every operator that is an action is one segment of JavaScript between two  *)
(* awaits, or a step of the host. ControlledPreview composes it with the      *)
(* preview transport that opens the jobs.                                     *)
EXTENDS FiniteSets, Naturals

CONSTANTS
    Generations, \* jobs, named by their generation
    Quotas       \* the global, tenant and project limits, as in RunnerSlots

ASSUME QuotaAssumption ==
    \A q \in Quotas : q.of \subseteq Generations /\ q.limit \in Nat

VARIABLES
    lease,    \* the table leases, which survives the process
    job,      \* the handles and closers of the process
    ready,    \* recovery of the leases an earlier process left
    uncertain,\* a cleanup failed in this process: quarantined
    host      \* what runs on the host

schedulerVars == <<lease, job, ready, uncertain, host>>

Unsettled == {"allocating", "running", "stopping", "quarantined"}

\* open: "failing" waits for the cleanup before it throws.
Job == [open : {"none", "waiting", "returned", "failing"},
        stop : {"no", "revoking", "done", "failed"}]

\* revoked: the tombstone that keeps a launch from starting.
Host == [unit : {"none", "starting", "running", "gone"}, revoked : BOOLEAN]

NoJob == [open |-> "none", stop |-> "no"]

SchedulerInit ==
    /\ lease = [g \in Generations |-> "none"]
    /\ job = [g \in Generations |-> NoJob]
    /\ ready = "no"
    /\ uncertain = FALSE
    /\ host = [g \in Generations |-> [unit |-> "none", revoked |-> FALSE]]

Holding == {g \in Generations : lease[g] \in Unsettled}

Admissible(g) == \A q \in Quotas : g \in q.of => Cardinality(q.of \cap Holding) < q.limit

\* open and reserve: the lease is durable before the host is asked.
OpenJob(g) ==
    /\ lease[g] = "none" /\ Admissible(g)
    /\ lease' = [lease EXCEPT ![g] = "allocating"]
    /\ job' = [job EXCEPT ![g] = [open |-> "waiting", stop |-> "no"]]
    /\ host' = [host EXCEPT ![g].unit = "starting"]
    /\ UNCHANGED <<ready, uncertain>>

Refuses(g) == ready = "failed" \/ uncertain \/ ~Admissible(g)

\* stop, for every job of G that lives and is not being stopped.
Stoppable(G) == {g \in G : job[g].open # "none" /\ job[g].stop = "no"}

StopJobs(G) ==
    /\ lease' = [g \in Generations |-> IF g \in Stoppable(G) THEN "stopping" ELSE lease[g]]
    /\ job' = [g \in Generations |->
                 IF g \in Stoppable(G)
                 THEN [stop |-> "revoking", open |-> IF job[g].open = "waiting" THEN "failing" ELSE job[g].open]
                 ELSE job[g]]
    /\ UNCHANGED <<ready, uncertain, host>>

\* The host's answer to a launch reaches a job that nothing stops yet; after a
\* stop the answer only closes the execution once more.
OpenReturns(g) ==
    /\ job[g].open = "waiting" /\ host[g].unit = "running" /\ ~uncertain
    /\ job' = [job EXCEPT ![g].open = "returned"]
    /\ lease' = [lease EXCEPT ![g] = "running"]
    /\ UNCHANGED <<ready, uncertain, host>>

\* The timer of allocate: a launch that failed, a deadline, an idle job, an
\* owner who may not run it any more, a scheduler in quarantine.
JobLapses(g) == g \in Stoppable({g}) /\ StopJobs({g})

HostStarts(g) ==
    /\ host[g].unit = "starting" /\ ~host[g].revoked
    /\ host' = [host EXCEPT ![g].unit = "running"]
    /\ UNCHANGED <<lease, job, ready, uncertain>>

HostEnds(g) ==
    /\ host[g].unit = "running"
    /\ host' = [host EXCEPT ![g].unit = "gone"]
    /\ UNCHANGED <<lease, job, ready, uncertain>>

HostRevokes(g) ==
    /\ job[g].stop = "revoking"
    /\ host' = [host EXCEPT ![g] = [unit |-> "gone", revoked |-> TRUE]]
    /\ UNCHANGED <<lease, job, ready, uncertain>>

\* Faulty: the lease ends when the host was asked to stop.
SettlesEarly(g) ==
    /\ job[g].stop = "revoking"
    /\ job' = [job EXCEPT ![g].stop = "done"]
    /\ lease' = [lease EXCEPT ![g] = "stopped"]
    /\ UNCHANGED <<ready, uncertain, host>>

\* The lease ends when revoke has returned.
StopSettles(g) ==
    /\ job[g].stop = "revoking" /\ host[g].revoked
    /\ job' = [job EXCEPT ![g].stop = "done"]
    /\ lease' = [lease EXCEPT ![g] = "stopped"]
    /\ UNCHANGED <<ready, uncertain, host>>

\* A cleanup that nobody verified keeps the lease and closes the scheduler.
RevokeFails(g) ==
    /\ job[g].stop = "revoking"
    /\ job' = [job EXCEPT ![g].stop = "failed"]
    /\ lease' = [lease EXCEPT ![g] = "quarantined"]
    /\ uncertain' = TRUE
    /\ ready' = IF ready = "recovering" THEN "failed" ELSE ready
    /\ UNCHANGED host

\* recover: the first open stops, one by one, what an earlier process left.
BeginRecovery ==
    /\ ready = "no"
    /\ ready' = "recovering"
    /\ UNCHANGED <<lease, job, uncertain, host>>

RecoverNext(g) ==
    /\ ready = "recovering" /\ g \in Holding
    /\ \A h \in Generations : job[h].stop # "revoking"
    /\ lease' = [lease EXCEPT ![g] = "stopping"]
    /\ job' = [job EXCEPT ![g].stop = "revoking"]
    /\ UNCHANGED <<ready, uncertain, host>>

EndRecovery ==
    /\ ready = "recovering" /\ Holding = {}
    /\ ready' = "yes"
    /\ UNCHANGED <<lease, job, uncertain, host>>

\* The process dies and is started again; the host and the leases stay.
SchedulerCrash ==
    /\ job' = [g \in Generations |-> NoJob]
    /\ ready' = "no"
    /\ uncertain' = FALSE
    /\ UNCHANGED <<lease, host>>

SchedulerStep ==
    \/ EndRecovery
    \/ \E g \in Generations :
         \/ OpenReturns(g) \/ JobLapses(g) \/ HostStarts(g) \/ HostEnds(g)
         \/ HostRevokes(g) \/ StopSettles(g) \/ RecoverNext(g)

SchedulerTypeOK ==
    /\ lease \in [Generations -> Unsettled \cup {"none", "stopped"}]
    /\ job \in [Generations -> Job]
    /\ ready \in {"no", "recovering", "yes", "failed"}
    /\ uncertain \in BOOLEAN
    /\ host \in [Generations -> Host]

Slots == INSTANCE RunnerSlots WITH
    held <- Holding,
    released <- {g \in Generations : lease[g] = "stopped"},
    running <- {g \in Generations : host[g].unit = "running"}
=============================================================================
