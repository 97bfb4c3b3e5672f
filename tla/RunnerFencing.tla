---------------------------- MODULE RunnerFencing ----------------------------
(***************************************************************************)
(* Hosted preview and assessment runners: the lease table of               *)
(* postgresFencing.ts, the controllers of hostedLinuxRunner.ts that open   *)
(* and close a job by messages to a host, the host's gateway               *)
(* (hostedRunnerGateway.ts) and its units (scripts/runner).                *)
(*                                                                         *)
(* A job (generation) has one lease row.  Whoever takes over an orphaned   *)
(* lease gets its next epoch, so an agent, the code of some controller     *)
(* that works on a job, is named by the job and an epoch; the one that     *)
(* reserved the job has epoch 1.  The gateway keeps the row locked while   *)
(* it carries out a command, and a late or repeated message is judged by   *)
(* the row when it gets there.  A transaction is one action.               *)
(*                                                                         *)
(* Commands that sample or drive a running job change nothing here; when   *)
(* one fails the job is closed, which may happen at any time anyway.       *)
(***************************************************************************)
EXTENDS FiniteSets, Naturals

CONSTANTS
    Generations,  \* jobs, each under an id of its own
    Quotas,       \* jobs counted together (all, a workspace's, a project's, a
                  \* host's), and how many of them may have leases
    MaxEpoch,     \* bound: takeovers; whoever takes over last is not interrupted
    MaxFailures   \* bound: lost messages and connections, processes that die

ASSUME QuotaAssumption == Quotas \subseteq [of : SUBSET Generations, limit : Nat]

ASSUME BoundAssumption ==
    /\ MaxEpoch \in Nat
    /\ MaxEpoch > 1
    /\ MaxFailures \in Nat

Epochs == 1..MaxEpoch

VARIABLES
    lease,     \* wcb_runner_leases
    agent,     \* where each agent is
    request,   \* commands on their way to a gateway
    work,      \* commands a gateway is carrying out
    answered,  \* commands a gateway has reported done
    unit,      \* the job's systemd unit on its host
    revoked,   \* jobs with a file in /var/lib/wcb-runner/revoked
    failures

host == <<unit, revoked>>
vars == <<lease, agent, request, work, answered, host, failures>>

\* lapsed: lease_until is over.  It is never after the execution deadline while
\* the job may run, and once the job is being stopped nobody asks for that one.
Lease == [state : {"none", "allocating", "running", "stopping", "stopped", "quarantined"},
          epoch : 0..MaxEpoch, lapsed : BOOLEAN]
NoLease == [state |-> "none", epoch |-> 0, lapsed |-> FALSE]
Steps == {"none", "reserved", "opening", "running", "closing",
          "stopping", "revoking", "failed", "done"}
Command == [name : {"open", "revoke"}, gen : Generations, epoch : Epochs]
Work == [command : Command, step : {"begun", "touched", "stopped"}, locked : BOOLEAN]

TypeOK ==
    /\ lease \in [Generations -> Lease]
    /\ agent \in [Generations -> [Epochs -> Steps]]
    /\ request \in SUBSET Command
    /\ work \in SUBSET Work
    /\ answered \in SUBSET Command
    /\ unit \in [Generations -> {"absent", "launching", "running"}]
    /\ revoked \in SUBSET Generations
    /\ failures \in 0..MaxFailures

Init ==
    /\ lease = [g \in Generations |-> NoLease]
    /\ agent = [g \in Generations |-> [e \in Epochs |-> "none"]]
    /\ request = {}
    /\ work = {}
    /\ answered = {}
    /\ unit = [g \in Generations |-> "absent"]
    /\ revoked = {}
    /\ failures = 0
-----------------------------------------------------------------------------
Open(g) == [name |-> "open", gen |-> g, epoch |-> 1]
Revoke(g, e) == [name |-> "revoke", gen |-> g, epoch |-> e]

Goto(g, e, step) == agent' = [agent EXCEPT ![g][e] = step]
SetState(g, state) == lease' = [lease EXCEPT ![g].state = state]

\* beginStop and takeOver give the holder of the epoch 15 seconds to clean up.
Stopping(g, e) ==
    lease' = [lease EXCEPT ![g] =
        [state |-> "stopping", epoch |-> e, lapsed |-> FALSE]]

Failing(g) ==
    /\ lease[g].epoch < MaxEpoch
    /\ failures < MaxFailures
    /\ failures' = failures + 1

\* Nobody has the row locked.
Free(g) == ~\E w \in work : w.command.gen = g /\ w.locked

\* assert, for commands and for cleaning up.
Live(g, e) ==
    /\ lease[g].epoch = e
    /\ ~lease[g].lapsed
    /\ lease[g].state \in {"allocating", "running"}

LiveForStop(g, e) ==
    /\ lease[g].epoch = e
    /\ ~lease[g].lapsed
    /\ lease[g].state \in {"allocating", "running", "stopping", "quarantined"}

Held == {g \in Generations : lease[g].state \notin {"none", "stopped"}}

\* Faulty: a lease that is quarantined does not count.
AdmissibleUncleaned(g) ==
    \A q \in Quotas : g \in q.of =>
        Cardinality({h \in q.of \cap Held : lease[h].state # "quarantined"}) < q.limit

Admissible(g) ==
    \A q \in Quotas : g \in q.of => Cardinality(q.of \cap Held) < q.limit
-----------------------------------------------------------------------------
(* Leases and the agents that work on them.                                 *)

\* The answer of the commit may be lost; the controller then may ask again.
Reserve(g) ==
    /\ lease[g].state = "none"
    /\ Admissible(g)
    /\ lease' = [lease EXCEPT ![g] =
           [state |-> "allocating", epoch |-> 1, lapsed |-> FALSE]]
    /\ \/ Goto(g, 1, "reserved") /\ UNCHANGED failures
       \/ Failing(g) /\ UNCHANGED agent
    /\ UNCHANGED <<request, work, answered, host>>

Replay(g) ==
    /\ agent[g][1] = "none"
    /\ Free(g)
    /\ Live(g, 1)
    /\ Goto(g, 1, "reserved")
    /\ UNCHANGED <<lease, request, work, answered, host, failures>>

SendOpen(g) ==
    /\ agent[g][1] = "reserved"
    /\ Free(g)
    /\ Live(g, 1)
    /\ request' = request \cup {Open(g)}
    /\ Goto(g, 1, "opening")
    /\ UNCHANGED <<lease, work, answered, host, failures>>

\* Faulty: the lease is not asserted again before it is marked.
MarkRunningUnchecked(g) ==
    /\ agent[g][1] = "opening"
    /\ Open(g) \in answered
    /\ Free(g)
    /\ SetState(g, "running")
    /\ Goto(g, 1, "running")
    /\ UNCHANGED <<request, work, answered, host, failures>>

MarkRunning(g) ==
    /\ agent[g][1] = "opening"
    /\ Open(g) \in answered
    /\ Free(g)
    /\ Live(g, 1)
    /\ SetState(g, "running")
    /\ Goto(g, 1, "running")
    /\ UNCHANGED <<request, work, answered, host, failures>>

\* The editor is done or gone, may no longer do this, or a command failed.
Close(g) ==
    /\ agent[g][1] \in {"reserved", "opening", "running"}
    /\ Goto(g, 1, "closing")
    /\ UNCHANGED <<lease, request, work, answered, host, failures>>

BeginStop(g) ==
    /\ agent[g][1] = "closing"
    /\ Free(g)
    /\ LiveForStop(g, 1)
    /\ Stopping(g, 1)
    /\ Goto(g, 1, "stopping")
    /\ UNCHANGED <<request, work, answered, host, failures>>

\* Somebody else has to clean up, or has done so.
StopRefused(g) ==
    /\ agent[g][1] = "closing"
    /\ Free(g)
    /\ ~LiveForStop(g, 1)
    /\ Goto(g, 1, "done")
    /\ UNCHANGED <<lease, request, work, answered, host, failures>>

\* Faulty: only jobs that run are taken over, an unverified cleanup is not.
TakeOverRunning(g) ==
    /\ lease[g].state \in {"allocating", "running"}
    /\ lease[g].lapsed
    /\ Free(g)
    /\ lease[g].epoch < MaxEpoch
    /\ Stopping(g, lease[g].epoch + 1)
    /\ Goto(g, lease[g].epoch + 1, "stopping")
    /\ UNCHANGED <<request, work, answered, host, failures>>

\* recover finds an expired lease; the update looks again.
TakeOver(g) ==
    /\ g \in Held
    /\ lease[g].lapsed
    /\ Free(g)
    /\ lease[g].epoch < MaxEpoch
    /\ Stopping(g, lease[g].epoch + 1)
    /\ Goto(g, lease[g].epoch + 1, "stopping")
    /\ UNCHANGED <<request, work, answered, host, failures>>

SendRevoke(g, e) ==
    /\ agent[g][e] = "stopping"
    /\ request' = request \cup {Revoke(g, e)}
    /\ Goto(g, e, "revoking")
    /\ UNCHANGED <<lease, work, answered, host, failures>>

\* Faulty: the outcome is written whoever has the lease by now.
SettleUnfenced(g, e, state) == SetState(g, state) /\ Goto(g, e, "done")

\* stopped: the lease is asserted again, and has to be stopping.
Settle(g, e, state) ==
    /\ Free(g)
    /\ IF LiveForStop(g, e) /\ lease[g].state = "stopping"
         THEN SetState(g, state) ELSE UNCHANGED lease
    /\ Goto(g, e, "done")

RecordStopped(g, e) ==
    /\ agent[g][e] = "revoking"
    /\ Revoke(g, e) \in answered
    /\ Settle(g, e, "stopped")
    /\ UNCHANGED <<request, work, answered, host, failures>>

\* The revoke is refused, lost or too late, or its outcome cannot be recorded.
RevokeFails(g, e) ==
    /\ agent[g][e] = "revoking"
    /\ \/ /\ Revoke(g, e) \notin request \cup answered \cup {w.command : w \in work}
          /\ UNCHANGED failures
       \/ Failing(g)
    /\ Goto(g, e, "failed")
    /\ UNCHANGED <<lease, request, work, answered, host>>

RecordQuarantined(g, e) ==
    /\ agent[g][e] = "failed"
    /\ Settle(g, e, "quarantined")
    /\ UNCHANGED <<request, work, answered, host, failures>>

\* A controller dies; its agents may also just never be heard of again.
AgentDies(g, e) ==
    /\ agent[g][e] \notin {"none", "done"}
    /\ Goto(g, e, "done")
    /\ Failing(g)
    /\ UNCHANGED <<lease, request, work, answered, host>>

\* Heartbeats only postpone this, and never past the execution deadline.
Lapse(g) ==
    /\ g \in Held
    /\ ~lease[g].lapsed
    /\ lease[g].epoch < MaxEpoch
    /\ lease' = [lease EXCEPT ![g].lapsed = TRUE]
    /\ UNCHANGED <<agent, request, work, answered, host, failures>>
-----------------------------------------------------------------------------
(* The gateway of the job's host, and the host.                             *)

Begun(c) == [command |-> c, step |-> "begun", locked |-> TRUE]

\* guard, and launch.sh up to systemd-run.
AdmitOpen(g) ==
    /\ Open(g) \in request
    /\ Free(g)
    /\ Live(g, 1)
    /\ request' = request \ {Open(g)}
    /\ work' = work \cup {Begun(Open(g))}
    /\ IF g \in revoked THEN UNCHANGED unit ELSE unit' = [unit EXCEPT ![g] = "launching"]
    /\ UNCHANGED <<lease, agent, answered, revoked, failures>>

AdmitRevoke(g, e) ==
    /\ Revoke(g, e) \in request
    /\ Free(g)
    /\ LiveForStop(g, e)
    /\ request' = request \ {Revoke(g, e)}
    /\ work' = work \cup {Begun(Revoke(g, e))}
    /\ UNCHANGED <<lease, agent, answered, host, failures>>

Refuse(c) ==
    /\ c \in request
    /\ Free(c.gen)
    /\ IF c.name = "open" THEN ~Live(c.gen, c.epoch) ELSE ~LiveForStop(c.gen, c.epoch)
    /\ request' = request \ {c}
    /\ UNCHANGED <<lease, agent, work, answered, host, failures>>

LoseRequest(c) ==
    /\ c \in request
    /\ Failing(c.gen)
    /\ request' = request \ {c}
    /\ UNCHANGED <<lease, agent, work, answered, host>>

\* ExecStartPre of the unit looks for the file again.
UnitStarts(g) ==
    /\ unit[g] = "launching"
    /\ unit' = [unit EXCEPT ![g] = IF g \in revoked THEN "absent" ELSE "running"]
    /\ UNCHANGED <<lease, agent, request, work, answered, revoked, failures>>

\* The worker exits, or RuntimeMaxSec is over.
UnitEnds(g) ==
    /\ unit[g] = "running"
    /\ unit' = [unit EXCEPT ![g] = "absent"]
    /\ UNCHANGED <<lease, agent, request, work, answered, revoked, failures>>

\* The end of guard: without the row's lock, or with a lease that is lost by
\* now, the command is reported as failed.
Report(w, done) ==
    /\ work' = work \ {w}
    /\ answered' = IF w.locked /\ done THEN answered \cup {w.command} ELSE answered

\* systemctl stop.
UnitStopped(g) == unit' = [unit EXCEPT ![g] = IF @ = "running" THEN "absent" ELSE @]

OpenSucceeds(g, w) ==
    /\ w.command = Open(g)
    /\ unit[g] = "running"
    /\ Report(w, Live(g, 1))
    /\ UNCHANGED <<lease, agent, request, host, failures>>

\* The worker does not come up; stop.sh may fail too.
OpenFails(g, w) ==
    /\ w.command = Open(g)
    /\ Report(w, FALSE)
    /\ revoked' = revoked \cup {g}
    /\ UnitStopped(g) \/ UNCHANGED unit
    /\ UNCHANGED <<lease, agent, request, failures>>

\* Faulty: the unit is stopped and nothing keeps it from being started later.
TouchNothing(g, w) ==
    /\ w.command.name = "revoke" /\ w.command.gen = g
    /\ w.step = "begun"
    /\ work' = (work \ {w}) \cup {[w EXCEPT !.step = "touched"]}
    /\ UNCHANGED <<lease, agent, request, answered, host, failures>>

Touch(g, w) ==
    /\ w.command.name = "revoke" /\ w.command.gen = g
    /\ w.step = "begun"
    /\ work' = (work \ {w}) \cup {[w EXCEPT !.step = "touched"]}
    /\ revoked' = revoked \cup {g}
    /\ UNCHANGED <<lease, agent, request, answered, unit, failures>>

StopUnit(g, w) ==
    /\ w.command.name = "revoke" /\ w.command.gen = g
    /\ w.step = "touched"
    /\ work' = (work \ {w}) \cup {[w EXCEPT !.step = "stopped"]}
    /\ UnitStopped(g)
    /\ UNCHANGED <<lease, agent, request, answered, revoked, failures>>

\* After an opening that is still under way has come to its end.
FinishRevoke(g, w) ==
    /\ w.command.name = "revoke" /\ w.command.gen = g
    /\ w.step = "stopped"
    /\ ~\E v \in work : v.command = Open(g)
    /\ Report(w, LiveForStop(g, w.command.epoch))
    /\ UnitStopped(g)
    /\ UNCHANGED <<lease, agent, request, revoked, failures>>

\* The gateway's connection to the database breaks and the row is free again.
LoseLock(g, w) ==
    /\ w.command.gen = g /\ w.locked
    /\ Failing(g)
    /\ work' = (work \ {w}) \cup {[w EXCEPT !.locked = FALSE]}
    /\ UNCHANGED <<lease, agent, request, answered, host>>

\* The gateway dies and leaves its units behind, or stop.sh fails.
Drop(g, w) ==
    /\ w.command.gen = g
    /\ Failing(g)
    /\ work' = work \ {w}
    /\ UNCHANGED <<lease, agent, request, answered, host>>
-----------------------------------------------------------------------------
Clean(g, e) ==
    \/ SendRevoke(g, e) \/ RecordStopped(g, e) \/ RevokeFails(g, e) \/ RecordQuarantined(g, e)

Serve(g) ==
    \/ AdmitOpen(g) \/ UnitStarts(g)
    \/ \E e \in Epochs : AdmitRevoke(g, e)
    \/ \E c \in request : c.gen = g /\ Refuse(c)
    \/ \E w \in work : OpenSucceeds(g, w) \/ OpenFails(g, w) \/ Touch(g, w)
                       \/ StopUnit(g, w) \/ FinishRevoke(g, w)

\* What goes on by itself: controllers look for orphans every five seconds,
\* messages have deadlines, and time passes.
Progress(g) ==
    \/ BeginStop(g) \/ StopRefused(g) \/ TakeOver(g) \/ Lapse(g)
    \/ \E e \in Epochs : Clean(g, e)
    \/ Serve(g)

Next ==
    \E g \in Generations :
        \/ Reserve(g) \/ Replay(g) \/ SendOpen(g) \/ MarkRunning(g) \/ Close(g)
        \/ Progress(g) \/ UnitEnds(g)
        \/ \E e \in Epochs : AgentDies(g, e)
        \/ \E c \in request : c.gen = g /\ LoseRequest(c)
        \/ \E w \in work : LoseLock(g, w) \/ Drop(g, w)

Spec == Init /\ [][Next]_vars
FairSpec == Spec /\ \A g \in Generations : WF_vars(Progress(g))
-----------------------------------------------------------------------------
(* Properties.                                                              *)

Slots == INSTANCE RunnerSlots WITH
    held <- Held, released <- {g \in Generations : lease[g].state = "stopped"},
    running <- {g \in Generations : unit[g] = "running"}

\* A job runs only while it has its slot, takes it once and gives it back when
\* nothing of it can run, whatever messages, connections and processes are lost.
ImplementsRunnerSlots == Slots!Spec

\* No more jobs run on the hosts than may have leases, so a lost controller or
\* an unverified cleanup never lets one too many in.
QuotaRespected ==
    \A q \in Quotas : Cardinality({g \in q.of : unit[g] = "running"}) <= q.limit

\* Only the latest to take a lease over ends it, on its own host's word.
HolderSettles ==
    [][\A g \in Generations :
          lease[g].state # "stopped" /\ lease'[g].state = "stopped"
            => Revoke(g, lease[g].epoch) \in answered]_vars

\* A job that was being stopped is never taken for a running one again.
NeverRevived ==
    [][\A g \in Generations :
          lease[g].state \in {"stopping", "quarantined", "stopped"}
            => lease'[g].state \notin {"none", "allocating", "running"}]_vars

\* Whoever dies, a lease is given back in the end, and with it the capacity.
CapacityComesBack ==
    \A g \in Generations : g \in Held ~> lease[g].state = "stopped"
=============================================================================
