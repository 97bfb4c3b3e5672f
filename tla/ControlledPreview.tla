-------------------------- MODULE ControlledPreview --------------------------
(* The preview transport of an editor process                                *)
(* (engine/runtime/controlledPreview.ts) on top of its LocalScheduler, for   *)
(* one project: previews are started, updated after a commit, captured,      *)
(* retired and swept by requests and timers that meet at every await.        *)
EXTENDS LocalScheduler

CONSTANTS
    Previews,    \* editor sessions that may open previews
    Requests,    \* requests served at the same time
    Nobody,      \* no generation, no session
    MaxEntries,  \* the transport's capacity
    MaxRevision, \* bound: source commits
    MaxFaults    \* bound: cleanups that fail, crashes and revoked sessions

ASSUME NobodyAssumption ==
    /\ Nobody \notin Generations \cup Previews \cup Requests
    /\ "background" \notin Requests \* retires for no request

ASSUME BoundAssumption == MaxEntries \in Nat /\ MaxRevision \in Nat /\ MaxFaults \in Nat

VARIABLES
    revision,    \* the project's source revision
    authorized,  \* sessions whose capability holds
    entry,       \* entries of the transport
    quarantined, \* a retirement failed
    req,         \* requests, by where they wait
    calls,       \* calls of retire that wait for their cleanups
    observed,    \* what a sweep saw of an entry that its lookups found stale
    holding,     \* entries whose hold for a commit waits for its lookup
    faults

transportVars == <<entry, quarantined, req, calls, observed, holding>>
vars == <<schedulerVars, revision, authorized, transportVars, faults>>

\* shown: the revision that the runner displays.
Entry == [state : {"free", "live", "gone"}, owner : Previews \cup {Nobody}, rev : 0..MaxRevision,
          shown : 0..MaxRevision, pending : BOOLEAN, busy : BOOLEAN, updating : BOOLEAN,
          held : BOOLEAN, restart : BOOLEAN, retired : BOOLEAN, execution : BOOLEAN]

Free == [state |-> "free", owner |-> Nobody, rev |-> 0, shown |-> 0, pending |-> FALSE,
         busy |-> FALSE, updating |-> FALSE, held |-> FALSE, restart |-> FALSE,
         retired |-> FALSE, execution |-> FALSE]

\* Deleted from the map; requests may still hold it.
Gone(row) == [Free EXCEPT !.state = "gone", !.retired = TRUE, !.execution = row.execution]

Steps == {"idle", "sweep", "own", "reserve", "compile", "open", "opening", "opened",
          "build", "push", "pushed", "sample", "frame", "ending"}

Request == [kind : {"none", "start", "check", "update", "capture"}, step : Steps,
            owner : Previews \cup {Nobody}, gen : Generations \cup {Nobody},
            rev : 0..MaxRevision]

Idle == [kind |-> "none", step |-> "idle", owner |-> Nobody, gen |-> Nobody, rev |-> 0]

Init ==
    /\ SchedulerInit
    /\ revision = 0
    /\ authorized = Previews
    /\ entry = [g \in Generations |-> Free]
    /\ quarantined = FALSE
    /\ req = [r \in Requests |-> Idle]
    /\ calls = {}
    /\ observed = [g \in Generations |-> {}]
    /\ holding = {}
    /\ faults = 0

Live == {g \in Generations : entry[g].state = "live"}

Current(g) ==
    /\ ~quarantined /\ ~entry[g].retired
    /\ entry[g].owner \in authorized /\ entry[g].rev = revision

Goes(r, step) == req' = [req EXCEPT ![r].step = step]
Done(r) == req' = [req EXCEPT ![r] = Idle]
Set(g, row) == entry' = [entry EXCEPT ![g] = row]
-----------------------------------------------------------------------------
(* retire. The call waits for the job to be closed, once there is one.       *)

\* The first segment: the entry is retired and its abort signal stops the job.
Retire(G, by) ==
    /\ StopJobs(G)
    /\ calls' = calls \cup {[by |-> by, gen |-> g, closes |-> entry[g].execution] : g \in G}

Retired(row) == [row EXCEPT !.retired = TRUE]

RetireEntries(G, by) ==
    /\ entry' = [g \in Generations |-> IF g \in G THEN Retired(entry[g]) ELSE entry[g]]
    /\ Retire(G, by)

\* A pending start keeps the entry until it has ended by itself.
RetireReturns(c) ==
    /\ c \in calls /\ (c.closes => job[c.gen].stop = "done")
    /\ calls' = calls \ {c}
    /\ entry' = IF entry[c.gen].pending THEN entry ELSE [entry EXCEPT ![c.gen] = Gone(@)]
    /\ UNCHANGED <<schedulerVars, revision, authorized, quarantined, req, observed,
                   holding, faults>>

\* The caller's request fails with it.
RetireFails(c) ==
    /\ c \in calls /\ c.closes /\ job[c.gen].stop = "failed"
    /\ calls' = calls \ {c}
    /\ quarantined' = TRUE
    /\ IF c.by \in Requests THEN Goes(c.by, "ending") ELSE UNCHANGED req
    /\ UNCHANGED <<schedulerVars, revision, authorized, entry, observed, holding, faults>>

Waits(r) == \E c \in calls : c.by = r

\* The timer of an entry that expires, and stop.
Expire(g) ==
    /\ g \in Live /\ ~entry[g].retired
    /\ RetireEntries({g}, "background")
    /\ UNCHANGED <<revision, authorized, quarantined, req, observed, holding, faults>>
-----------------------------------------------------------------------------
(* sweep: what was seen before the lookups must still be so after them.      *)

Observation(g) ==
    [rev |-> entry[g].rev, updating |-> entry[g].updating, held |-> entry[g].held, busy |-> entry[g].busy]

Stale(g) ==
    \/ entry[g].owner \notin authorized
    \/ ~entry[g].updating /\ ~entry[g].held /\ ~Current(g)

Doomed(g) == quarantined \/ entry[g].retired

SweepObserves(g) ==
    /\ g \in Live /\ observed[g] = {} /\ ~Doomed(g) /\ Stale(g)
    /\ observed' = [observed EXCEPT ![g] = {Observation(g)}]
    /\ UNCHANGED <<schedulerVars, revision, authorized, entry, quarantined, req, calls, holding, faults>>

\* Faulty: the revision is not compared again.
DecidedAnyway(g, o) == Doomed(g) \/ [o EXCEPT !.rev = entry[g].rev] = Observation(g)

Decided(g, o) == Doomed(g) \/ o = Observation(g)

SweepDecides(g) ==
    /\ g \in Live
    /\ \E o \in observed[g] :
         IF Decided(g, o) THEN RetireEntries({g}, "background") ELSE UNCHANGED <<schedulerVars, entry, calls>>
    /\ observed' = [observed EXCEPT ![g] = {}]
    /\ UNCHANGED <<revision, authorized, quarantined, req, holding, faults>>

\* What is quarantined or retired is retired again, whatever was seen of it.
SweepRetries(g) ==
    /\ g \in Live /\ Doomed(g) /\ observed[g] = {}
    /\ RetireEntries({g}, "background")
    /\ UNCHANGED <<revision, authorized, quarantined, req, observed, holding, faults>>
-----------------------------------------------------------------------------
(* start, and typecheck ("check"), which needs neither sweep nor update.     *)

StartRequest(r, s, kind) ==
    /\ req[r] = Idle /\ s \in authorized /\ ~quarantined
    /\ req' = [req EXCEPT ![r] =
         [kind |-> kind, step |-> IF kind = "start" THEN "sweep" ELSE "reserve",
          owner |-> s, gen |-> Nobody, rev |-> revision]]
    /\ UNCHANGED <<schedulerVars, revision, authorized, entry, quarantined, calls, observed,
                   holding, faults>>

StartSweeps(r) ==
    /\ req[r].step = "sweep"
    /\ RetireEntries({g \in Live : Doomed(g) \/ Stale(g)}, r)
    /\ Goes(r, "own")
    /\ UNCHANGED <<revision, authorized, quarantined, observed, holding, faults>>

StartRetiresOwn(r) ==
    /\ req[r].step = "own" /\ ~Waits(r)
    /\ RetireEntries({g \in Live : entry[g].owner = req[r].owner}, r)
    /\ Goes(r, "reserve")
    /\ UNCHANGED <<revision, authorized, quarantined, observed, holding, faults>>

Admitted(r) ==
    /\ req[r].owner \in authorized /\ ~quarantined
    /\ Cardinality(Live) < MaxEntries
    /\ \A g \in Live : ~entry[g].pending
    /\ req[r].kind = "check" =>
         \A q \in Requests \ {r} : req[q].kind = "check" => req[q].gen \notin Live

\* The capacity check and the reservation are one segment.
Reserve(r) ==
    /\ req[r].step = "reserve" /\ ~Waits(r)
    /\ \/ /\ Admitted(r)
          /\ \E g \in Generations :
               /\ entry[g] = Free
               /\ Set(g, [Free EXCEPT !.state = "live", !.owner = req[r].owner, !.rev = req[r].rev,
                                      !.pending = TRUE, !.busy = req[r].kind = "check"])
               /\ req' = [req EXCEPT ![r].gen = g, ![r].step = "compile", ![r].rev = 0]
       \/ ~Admitted(r) /\ Done(r) /\ UNCHANGED entry
    /\ UNCHANGED <<schedulerVars, revision, authorized, quarantined, calls, observed,
                   holding, faults>>

Compile(r) ==
    /\ req[r].step = "compile" /\ Current(req[r].gen)
    /\ Goes(r, "open")
    /\ UNCHANGED <<schedulerVars, revision, authorized, entry, quarantined, calls, observed,
                   holding, faults>>

FirstOpen == BeginRecovery /\ UNCHANGED <<revision, authorized, transportVars, faults>>

OpenRunner(r) ==
    /\ req[r].step = "open" /\ ready = "yes"
    /\ ~entry[req[r].gen].retired /\ ~Refuses(req[r].gen)
    /\ OpenJob(req[r].gen)
    /\ Goes(r, "opening")
    /\ UNCHANGED <<revision, authorized, entry, quarantined, calls, observed, holding, faults>>

\* The runner shows what was compiled, which is the entry's revision.
Opened(r) ==
    LET g == req[r].gen
    IN  /\ req[r].step = "opening" /\ job[g].open = "returned"
        /\ Set(g, [entry[g] EXCEPT !.execution = TRUE, !.shown = entry[g].rev, !.pending = req[r].kind = "start"])
        /\ Goes(r, "opened")
        /\ UNCHANGED <<schedulerVars, revision, authorized, quarantined, calls, observed,
                       holding, faults>>

Ready(r) ==
    LET g == req[r].gen
    IN  /\ req[r].step = "opened" /\ req[r].kind = "start" /\ Current(g)
        /\ Set(g, [entry[g] EXCEPT !.pending = FALSE])
        /\ Done(r)
        /\ UNCHANGED <<schedulerVars, revision, authorized, quarantined, calls, observed,
                       holding, faults>>

\* A start that fails, or whose entry became stale, and every typecheck.
StartEnds(r) ==
    LET g == req[r].gen
        failed == ready = "failed" \/ uncertain
    IN  /\ \/ req[r].step = "compile"
           \/ req[r].step = "open" /\ (entry[g].retired \/ (ready = "yes" /\ Refuses(g)) \/ failed)
           \/ req[r].step = "opening" /\ job[g].open = "failing" /\ job[g].stop \in {"done", "failed"}
           \/ req[r].step = "opened" /\ (req[r].kind = "check" \/ ~Current(g))
        /\ Set(g, [Retired(entry[g]) EXCEPT !.pending = FALSE])
        /\ Retire({g}, r)
        /\ quarantined' = (quarantined \/ (req[r].step = "open" /\ failed) \/ job[g].stop = "failed")
        /\ Goes(r, "ending")
        /\ UNCHANGED <<revision, authorized, observed, holding, faults>>

\* The finally of every request.
Ended(r) ==
    LET g == req[r].gen
    IN  /\ req[r].step = "ending" /\ ~Waits(r)
        /\ entry' = IF g \in Live /\ req[r].kind \in {"update", "capture"}
                    THEN [entry EXCEPT ![g].busy = FALSE, ![g].updating = FALSE]
                    ELSE entry
        /\ Done(r)
        /\ UNCHANGED <<schedulerVars, revision, authorized, quarantined, calls, observed,
                       holding, faults>>
-----------------------------------------------------------------------------
(* Updates after a commit, and captures.                                     *)

\* Faulty: a request does not wait for the one before it.
UsableWhileBusy(g) ==
    /\ g \in Live /\ entry[g].owner \in authorized /\ ~quarantined
    /\ ~entry[g].retired /\ ~entry[g].pending
    /\ entry[g].execution

Usable(g) ==
    /\ g \in Live /\ entry[g].owner \in authorized /\ ~quarantined
    /\ ~entry[g].retired /\ ~entry[g].pending /\ ~entry[g].busy
    /\ entry[g].execution

Begin(r, g, kind, step) ==
    req' = [req EXCEPT ![r] = [kind |-> kind, step |-> step, owner |-> entry[g].owner,
                               gen |-> g, rev |-> revision]]

UpdateRequest(r, g) ==
    /\ req[r] = Idle /\ Usable(g) /\ ~entry[g].updating
    /\ Set(g, [entry[g] EXCEPT !.updating = TRUE, !.busy = TRUE, !.held = FALSE])
    /\ Begin(r, g, "update", "build")
    /\ UNCHANGED <<schedulerVars, revision, authorized, quarantined, calls, observed,
                   holding, faults>>

StillWanted(r) ==
    /\ req[r].owner \in authorized /\ req[r].rev = revision /\ ~entry[req[r].gen].retired

\* A change of the configuration, or a structural one, needs a new generation.
UpdateRestarts(r) ==
    LET g == req[r].gen
    IN  /\ req[r].step = "build" /\ StillWanted(r) /\ ~quarantined
        /\ Set(g, [entry[g] EXCEPT !.updating = FALSE, !.busy = FALSE])
        /\ req' = [req EXCEPT ![r].kind = "start", ![r].step = "sweep", ![r].gen = Nobody]
        /\ UNCHANGED <<schedulerVars, revision, authorized, quarantined, calls, observed,
                       holding, faults>>

UpdateBuilds(r) ==
    /\ req[r].step = "build" /\ StillWanted(r) /\ ~entry[req[r].gen].restart
    /\ Goes(r, "push")
    /\ UNCHANGED <<schedulerVars, revision, authorized, entry, quarantined, calls, observed,
                   holding, faults>>

\* The runner takes the new snapshot while its job lives.
UpdateReachesRunner(r) ==
    LET g == req[r].gen
    IN  /\ req[r].step = "push" /\ job[g].stop = "no"
        /\ Set(g, [entry[g] EXCEPT !.shown = req[r].rev])
        /\ Goes(r, "pushed")
        /\ UNCHANGED <<schedulerVars, revision, authorized, quarantined, calls, observed,
                       holding, faults>>

UpdateDone(r) ==
    LET g == req[r].gen
    IN  /\ req[r].step = "pushed" /\ StillWanted(r)
        /\ Set(g, [entry[g] EXCEPT !.rev = req[r].rev, !.updating = FALSE, !.busy = FALSE])
        /\ Done(r)
        /\ UNCHANGED <<schedulerVars, revision, authorized, quarantined, calls, observed,
                       holding, faults>>

\* requireEntry: a stale entry is retired by whoever asks for it.
CaptureRequest(r, g) ==
    /\ req[r] = Idle /\ g \in Live /\ entry[g].owner \in authorized
    /\ \/ /\ Current(g) /\ Usable(g)
          /\ Set(g, [entry[g] EXCEPT !.busy = TRUE])
          /\ Begin(r, g, "capture", "sample")
          /\ UNCHANGED <<schedulerVars, calls>>
       \/ /\ ~Current(g)
          /\ RetireEntries({g}, r)
          /\ Begin(r, g, "start", "ending")
    /\ UNCHANGED <<revision, authorized, quarantined, observed, holding, faults>>

\* The sample is kept in rev until the entry was looked at once more.
Sample(r) ==
    LET g == req[r].gen
    IN  /\ req[r].step = "sample" /\ Current(g) /\ job[g].stop = "no"
        /\ req' = [req EXCEPT ![r].step = "frame", ![r].rev = entry[g].shown]
        /\ UNCHANGED <<schedulerVars, revision, authorized, entry, quarantined, calls, observed,
                       holding, faults>>

Frame(r) ==
    LET g == req[r].gen
    IN  /\ req[r].step = "frame" /\ Current(g)
        /\ Set(g, [entry[g] EXCEPT !.busy = FALSE])
        /\ Done(r)
        /\ UNCHANGED <<schedulerVars, revision, authorized, quarantined, calls, observed,
                       holding, faults>>

\* An error, or something changed meanwhile: the whole job is destroyed.
UpdateOrCaptureFails(r) ==
    /\ req[r].step \in {"build", "push", "pushed", "sample", "frame"}
    /\ RetireEntries({req[r].gen}, r)
    /\ req' = [req EXCEPT ![r].step = "ending", ![r].rev = 0]
    /\ UNCHANGED <<revision, authorized, quarantined, observed, holding, faults>>

\* holdForSourceCommit, before and after its lookup.
Hold(g) ==
    /\ g \in Live \ holding /\ revision < MaxRevision /\ ~entry[g].retired /\ entry[g].execution
    /\ Set(g, [entry[g] EXCEPT !.held = TRUE])
    /\ holding' = holding \cup {g}
    /\ UNCHANGED <<schedulerVars, revision, authorized, quarantined, req, calls, observed, faults>>

HoldLooksUp(g) ==
    /\ g \in holding
    /\ holding' = holding \ {g}
    /\ \E structural \in BOOLEAN :
         Set(g, IF Current(g) THEN [entry[g] EXCEPT !.restart = @ \/ structural]
                ELSE [entry[g] EXCEPT !.held = FALSE])
    /\ UNCHANGED <<schedulerVars, revision, authorized, quarantined, req, calls, observed, faults>>

Commit ==
    /\ revision < MaxRevision
    /\ revision' = revision + 1
    /\ UNCHANGED <<schedulerVars, authorized, transportVars, faults>>
-----------------------------------------------------------------------------
Internal ==
    \/ SchedulerStep /\ UNCHANGED <<revision, authorized, transportVars, faults>>
    \/ \E r \in Requests : req[r].step = "open" /\ FirstOpen
    \/ \E c \in calls : RetireReturns(c) \/ RetireFails(c)
    \/ \E g \in Generations :
         \/ SweepObserves(g) \/ SweepDecides(g) \/ SweepRetries(g) \/ HoldLooksUp(g) \/ Expire(g)
    \/ \E r \in Requests :
         \/ StartSweeps(r) \/ StartRetiresOwn(r) \/ Reserve(r) \/ Compile(r) \/ OpenRunner(r)
         \/ Opened(r) \/ Ready(r) \/ StartEnds(r) \/ Ended(r)
         \/ UpdateRestarts(r) \/ UpdateBuilds(r) \/ UpdateReachesRunner(r) \/ UpdateDone(r)
         \/ Sample(r) \/ Frame(r) \/ UpdateOrCaptureFails(r)

Client ==
    \/ Commit
    \/ \E r \in Requests, s \in Previews, kind \in {"start", "check"} : StartRequest(r, s, kind)
    \/ \E r \in Requests, g \in Generations : UpdateRequest(r, g) \/ CaptureRequest(r, g)
    \/ \E g \in Generations : Hold(g)

CleanupFails(g) == RevokeFails(g) /\ UNCHANGED <<revision, authorized, transportVars>>

SessionEnds(s) ==
    /\ authorized' = authorized \ {s}
    /\ UNCHANGED <<schedulerVars, revision, transportVars>>

\* The entries die with the process, the jobs do not.
Crash ==
    /\ SchedulerCrash
    /\ entry' = [g \in Generations |-> IF entry[g] = Free THEN Free ELSE [Free EXCEPT !.state = "gone"]]
    /\ quarantined' = FALSE
    /\ req' = [r \in Requests |-> Idle]
    /\ calls' = {}
    /\ observed' = [g \in Generations |-> {}]
    /\ holding' = {}
    /\ UNCHANGED <<revision, authorized>>

Fault ==
    /\ faults < MaxFaults
    /\ faults' = faults + 1
    /\ \/ \E g \in Generations : CleanupFails(g)
       \/ \E s \in authorized : SessionEnds(s)
       \/ Crash

Next == Internal \/ Client \/ Fault

Spec == Init /\ [][Next]_vars
-----------------------------------------------------------------------------
(* Properties.                                                               *)

TypeOK ==
    /\ SchedulerTypeOK
    /\ revision \in 0..MaxRevision /\ authorized \subseteq Previews
    /\ entry \in [Generations -> Entry]
    /\ quarantined \in BOOLEAN
    /\ req \in [Requests -> Request]
    /\ \A c \in calls : c.gen \in Generations /\ c.closes \in BOOLEAN
    /\ holding \subseteq Generations

\* A job of the local scheduler takes its slot before the host is asked, runs
\* only while its lease is unsettled and gives the slot back when the host has
\* confirmed its end, across late launches, failed cleanups and a restart.
ImplementsRunnerSlots == Slots!Spec

\* The raster a capture is about to return shows the revision the answer will
\* name, whatever updates, commits and captures ran meanwhile.
FramesShowTheirRevision ==
    \A r \in Requests : req[r].step = "frame" /\ Current(req[r].gen) => req[r].rev = entry[req[r].gen].rev

\* The sweep never destroys a preview that is up to date, held or updating.
SweepSparesCurrent ==
    [][\A g \in Generations :
         observed[g] # {} /\ observed'[g] = {} /\ entry[g].state = "live"
             /\ ~entry[g].retired /\ entry'[g].retired
         => quarantined \/ entry[g].owner \notin authorized
              \/ (~entry[g].updating /\ ~entry[g].held /\ entry[g].rev # revision)]_vars
=============================================================================
