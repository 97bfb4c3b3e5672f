------------------------ MODULE RunnerFencingProofs ------------------------
(***************************************************************************)
(* Proofs about RunnerFencing, for any jobs, quotas and bounds.            *)
(***************************************************************************)
EXTENDS RunnerFencing, FiniteSetTheorems, TLAPS

(* The inductive invariant.                                                 *)

\* Nothing of the job runs on its host, and nothing will.
Cleaned(g) == g \in revoked /\ unit[g] # "running"

UnitInv == \A g \in Generations : unit[g] # "absent" => lease[g].state # "none"

\* What a gateway has done of a revoke, what it has answered, and what is
\* recorded as stopped are each less than a job that is cleaned.
CleanInv ==
    /\ \A w \in work : w.command.name = "revoke" =>
         /\ w.step \in {"touched", "stopped"} => w.command.gen \in revoked
         /\ w.step = "stopped" => Cleaned(w.command.gen)
    /\ \A g \in Generations, e \in Epochs : Revoke(g, e) \in answered => Cleaned(g)
    /\ \A g \in Generations : lease[g].state = "stopped" => Cleaned(g)

QuotaInv ==
    /\ IsFiniteSet(Held)
    /\ \A q \in Quotas : Cardinality(q.of \cap Held) <= q.limit

Inv == TypeOK /\ UnitInv /\ CleanInv /\ QuotaInv
-----------------------------------------------------------------------------
(* Types.                                                                   *)

States == {"none", "allocating", "running", "stopping", "stopped", "quarantined"}

LEMMA GotoType ==
    ASSUME agent \in [Generations -> [Epochs -> Steps]],
           NEW g \in Generations, NEW e \in Epochs, NEW s \in Steps, Goto(g, e, s)
    PROVE  agent' \in [Generations -> [Epochs -> Steps]]
<1>1. [agent[g] EXCEPT ![e] = s] \in [Epochs -> Steps]
  OBVIOUS
<1> QED BY <1>1 DEF Goto

\* What a lease becomes when one of its fields is written.
LEMMA SetStateFacts ==
    ASSUME lease \in [Generations -> Lease], NEW g \in Generations, NEW s \in States,
           SetState(g, s)
    PROVE  /\ lease' \in [Generations -> Lease]
           /\ \A h \in Generations : lease'[h].state = IF h = g THEN s ELSE lease[h].state
<1> DEFINE r == [lease[g] EXCEPT !.state = s]
<1>1. r \in Lease /\ r.state = s
  BY DEF Lease, States
<1>2. lease' = [lease EXCEPT ![g] = r]
  BY DEF SetState
<1> HIDE DEF r
<1> QED BY <1>1, <1>2

LEMMA StoppingFacts ==
    ASSUME lease \in [Generations -> Lease], NEW g \in Generations, NEW e \in Epochs,
           Stopping(g, e)
    PROVE  /\ lease' \in [Generations -> Lease]
           /\ \A h \in Generations : lease'[h].state = IF h = g THEN "stopping" ELSE lease[h].state
<1> DEFINE r == [state |-> "stopping", epoch |-> e, lapsed |-> FALSE]
<1>1. r \in Lease /\ r.state = "stopping"
  BY BoundAssumption DEF Lease, Epochs
<1>2. lease' = [lease EXCEPT ![g] = r]
  BY DEF Stopping
<1> HIDE DEF r
<1> QED BY <1>1, <1>2

LEMMA ReserveFacts ==
    ASSUME lease \in [Generations -> Lease], NEW g \in Generations, Reserve(g)
    PROVE  /\ lease' \in [Generations -> Lease]
           /\ \A h \in Generations : lease'[h].state = IF h = g THEN "allocating" ELSE lease[h].state
<1> DEFINE r == [state |-> "allocating", epoch |-> 1, lapsed |-> FALSE]
<1>1. r \in Lease /\ r.state = "allocating"
  BY BoundAssumption DEF Lease
<1>2. lease' = [lease EXCEPT ![g] = r]
  BY DEF Reserve
<1> HIDE DEF r
<1> QED BY <1>1, <1>2

LEMMA LapseFacts ==
    ASSUME lease \in [Generations -> Lease], NEW g \in Generations,
           lease' = [lease EXCEPT ![g].lapsed = TRUE]
    PROVE  /\ lease' \in [Generations -> Lease]
           /\ \A h \in Generations : lease'[h].state = lease[h].state
<1> DEFINE r == [lease[g] EXCEPT !.lapsed = TRUE]
<1>1. r \in Lease /\ r.state = lease[g].state
  BY DEF Lease
<1>2. lease' = [lease EXCEPT ![g] = r]
  OBVIOUS
<1> HIDE DEF r
<1> QED BY <1>1, <1>2

LEMMA SettleFacts ==
    ASSUME TypeOK, NEW g \in Generations, NEW e \in Epochs, NEW s \in States, Settle(g, e, s)
    PROVE  /\ lease' \in [Generations -> Lease]
           /\ agent' \in [Generations -> [Epochs -> Steps]]
           /\ \/ UNCHANGED lease
              \/ /\ lease[g].state = "stopping" /\ lease[g].epoch = e
                 /\ \A h \in Generations : lease'[h].state = IF h = g THEN s ELSE lease[h].state
<1>1. agent' \in [Generations -> [Epochs -> Steps]]
  BY GotoType DEF Settle, TypeOK, Steps
<1> QED BY <1>1, SetStateFacts DEF Settle, TypeOK, LiveForStop

LEMMA UnitStoppedFacts ==
    ASSUME TypeOK, NEW g \in Generations, UnitStopped(g)
    PROVE  /\ unit' \in [Generations -> {"absent", "launching", "running"}]
           /\ \A h \in Generations : unit'[h] = IF h = g /\ unit[g] = "running"
                                                  THEN "absent" ELSE unit[h]
BY DEF TypeOK, UnitStopped

LEMMA CommandType ==
    /\ \A g \in Generations : Open(g) \in Command
    /\ \A g \in Generations, e \in Epochs : Revoke(g, e) \in Command
BY BoundAssumption DEF Open, Revoke, Command, Epochs

LEMMA ReportType ==
    ASSUME TypeOK, NEW w \in work, NEW done, Report(w, done)
    PROVE  work' \in SUBSET Work /\ answered' \in SUBSET Command
BY DEF Report, TypeOK, Work

LEMMA FailingType == ASSUME TypeOK, NEW g, Failing(g) PROVE failures' \in 0..MaxFailures
BY BoundAssumption DEF TypeOK, Failing

LEMMA TypeStep == TypeOK /\ [Next]_vars => TypeOK'
<1> SUFFICES ASSUME TypeOK, Next PROVE TypeOK'
  BY DEF TypeOK, vars, host
<1> 1 \in Epochs
  BY BoundAssumption DEF Epochs
<1>1. ASSUME NEW g \in Generations, Reserve(g) PROVE TypeOK'
  <2>1. lease' \in [Generations -> Lease]
    BY <1>1, ReserveFacts DEF TypeOK
  <2>2. agent' \in [Generations -> [Epochs -> Steps]]
    BY <1>1, GotoType DEF Reserve, TypeOK, Steps
  <2> QED BY <1>1, <2>1, <2>2, FailingType DEF Reserve, TypeOK, host
<1>2. ASSUME NEW g \in Generations, Replay(g) \/ Close(g) \/ StopRefused(g) \/ SendOpen(g)
      PROVE  TypeOK'
  <2>1. agent' \in [Generations -> [Epochs -> Steps]]
    BY <1>2, GotoType DEF Replay, Close, StopRefused, SendOpen, TypeOK, Steps
  <2> QED BY <1>2, <2>1, CommandType DEF Replay, Close, StopRefused, SendOpen, TypeOK, host
<1>3. ASSUME NEW g \in Generations, MarkRunning(g) PROVE TypeOK'
  <2>1. agent' \in [Generations -> [Epochs -> Steps]]
    BY <1>3, GotoType DEF MarkRunning, TypeOK, Steps
  <2>2. lease' \in [Generations -> Lease]
    BY <1>3, SetStateFacts DEF MarkRunning, TypeOK, States
  <2> QED BY <1>3, <2>1, <2>2 DEF MarkRunning, TypeOK, host
<1>4. ASSUME NEW g \in Generations, BeginStop(g) \/ TakeOver(g) PROVE TypeOK'
  <2>1. PICK e \in Epochs : Stopping(g, e) /\ Goto(g, e, "stopping")
    BY <1>4, BoundAssumption DEF BeginStop, TakeOver, TypeOK, Lease, Epochs
  <2>2. agent' \in [Generations -> [Epochs -> Steps]]
    BY <2>1, GotoType DEF TypeOK, Steps
  <2>3. lease' \in [Generations -> Lease]
    BY <2>1, StoppingFacts DEF TypeOK
  <2> QED BY <1>4, <2>2, <2>3 DEF BeginStop, TakeOver, TypeOK, host
<1>5. ASSUME NEW g \in Generations, Lapse(g) PROVE TypeOK'
  BY <1>5, LapseFacts DEF Lapse, TypeOK, host
<1>6. ASSUME NEW g \in Generations, NEW e \in Epochs, Clean(g, e) \/ AgentDies(g, e)
      PROVE  TypeOK'
  <2>1. CASE SendRevoke(g, e) \/ RevokeFails(g, e) \/ AgentDies(g, e)
    <3>1. agent' \in [Generations -> [Epochs -> Steps]]
      BY <2>1, GotoType DEF SendRevoke, RevokeFails, AgentDies, TypeOK, Steps
    <3> QED BY <2>1, <3>1, CommandType, FailingType
            DEF SendRevoke, RevokeFails, AgentDies, TypeOK, host
  <2>2. CASE RecordStopped(g, e) \/ RecordQuarantined(g, e)
    <3>1. lease' \in [Generations -> Lease] /\ agent' \in [Generations -> [Epochs -> Steps]]
      BY <2>2, SettleFacts DEF RecordStopped, RecordQuarantined, States
    <3> QED BY <2>2, <3>1 DEF RecordStopped, RecordQuarantined, TypeOK, host
  <2> QED BY <1>6, <2>1, <2>2 DEF Clean
<1>7. ASSUME NEW g \in Generations, AdmitOpen(g) PROVE TypeOK'
  <2>1. Begun(Open(g)) \in Work
    BY CommandType DEF Begun, Work
  <2> QED BY <1>7, <2>1 DEF AdmitOpen, TypeOK
<1>8. ASSUME NEW g \in Generations, NEW e \in Epochs, AdmitRevoke(g, e) PROVE TypeOK'
  <2>1. Begun(Revoke(g, e)) \in Work
    BY CommandType DEF Begun, Work
  <2> QED BY <1>8, <2>1 DEF AdmitRevoke, TypeOK, host
<1>9. ASSUME NEW g \in Generations, UnitStarts(g) \/ UnitEnds(g) PROVE TypeOK'
  BY <1>9 DEF UnitStarts, UnitEnds, TypeOK
<1>10. ASSUME NEW c \in request, Refuse(c) \/ LoseRequest(c) PROVE TypeOK'
  BY <1>10, FailingType DEF Refuse, LoseRequest, TypeOK, host
<1>11. ASSUME NEW g \in Generations, NEW w \in work,
              OpenSucceeds(g, w) \/ OpenFails(g, w) \/ FinishRevoke(g, w)
       PROVE  TypeOK'
  <2>1. work' \in SUBSET Work /\ answered' \in SUBSET Command
    BY <1>11, ReportType DEF OpenSucceeds, OpenFails, FinishRevoke
  <2> QED BY <1>11, <2>1, UnitStoppedFacts DEF OpenSucceeds, OpenFails, FinishRevoke, TypeOK, host
<1>12. ASSUME NEW g \in Generations, NEW w \in work, Touch(g, w) \/ StopUnit(g, w)
       PROVE  TypeOK'
  <2>1. [w EXCEPT !.step = "touched"] \in Work /\ [w EXCEPT !.step = "stopped"] \in Work
    BY DEF TypeOK, Work
  <2> QED BY <1>12, <2>1, UnitStoppedFacts DEF Touch, StopUnit, TypeOK
<1>13. ASSUME NEW g \in Generations, NEW w \in work, LoseLock(g, w) \/ Drop(g, w)
       PROVE  TypeOK'
  <2>1. [w EXCEPT !.locked = FALSE] \in Work
    BY DEF TypeOK, Work
  <2> QED BY <1>13, <2>1, FailingType DEF LoseLock, Drop, TypeOK, host
<1> QED BY <1>1, <1>2, <1>3, <1>4, <1>5, <1>6, <1>7, <1>8, <1>9, <1>10, <1>11, <1>12, <1>13
        DEF Next, Progress, Serve

\* Every variable keeps its type.
THEOREM TypeCorrect == Spec => []TypeOK
<1>1. Init => TypeOK
  BY BoundAssumption DEF Init, TypeOK, NoLease, Lease, Steps
<1> QED BY <1>1, TypeStep, PTL DEF Spec
-----------------------------------------------------------------------------
(* What a step does to leases and units: it is a reservation, or goes on    *)
(* with one lease, or changes something on one host.                        *)

LeaseChange(g) ==
    /\ g \in Held
    /\ UNCHANGED <<host, answered>>
    /\ \A h \in Generations : h # g => lease'[h].state = lease[h].state
    /\ \/ lease'[g].state = lease[g].state
       \/ lease'[g].state \in {"stopping", "quarantined"}
       \/ lease'[g].state = "running" /\ lease[g].state \in {"allocating", "running"}
       \/ lease'[g].state = "stopped" /\ Revoke(g, lease[g].epoch) \in answered

HostChange(g) ==
    /\ UNCHANGED lease
    /\ revoked \subseteq revoked'
    /\ \A h \in Generations : h # g => unit'[h] = unit[h]
    /\ \/ unit'[g] \in {unit[g], "absent"}
       \/ unit'[g] = "launching" /\ lease[g].state # "none" /\ g \notin revoked
       \/ unit'[g] = "running" /\ unit[g] = "launching" /\ g \notin revoked

LEMMA StepKinds ==
    ASSUME TypeOK, Next
    PROVE  \E g \in Generations : Reserve(g) \/ LeaseChange(g) \/ HostChange(g)
<1> DEFINE Goal == \E g \in Generations : Reserve(g) \/ LeaseChange(g) \/ HostChange(g)
<1> SUFFICES Goal
  OBVIOUS
<1>1. ASSUME NEW g \in Generations, Reserve(g) PROVE Goal
  BY <1>1
<1>2. ASSUME NEW g \in Generations, Replay(g) \/ Close(g) \/ StopRefused(g) \/ SendOpen(g)
      PROVE  HostChange(g)
  BY <1>2 DEF Replay, Close, StopRefused, SendOpen, host, HostChange
<1>3. ASSUME NEW g \in Generations, MarkRunning(g) PROVE LeaseChange(g)
  BY <1>3, SetStateFacts DEF MarkRunning, TypeOK, States, LeaseChange, Live, Held
<1>4. ASSUME NEW g \in Generations, BeginStop(g) \/ TakeOver(g) PROVE LeaseChange(g)
  <2>1. PICK e \in Epochs : Stopping(g, e)
    BY <1>4, BoundAssumption DEF BeginStop, TakeOver, TypeOK, Lease, Epochs
  <2>2. g \in Held
    BY <1>4 DEF BeginStop, TakeOver, LiveForStop, Held
  <2> QED BY <1>4, <2>1, <2>2, StoppingFacts DEF BeginStop, TakeOver, TypeOK, LeaseChange
<1>5. ASSUME NEW g \in Generations, Lapse(g) PROVE LeaseChange(g)
  BY <1>5, LapseFacts DEF Lapse, TypeOK, LeaseChange
<1>6. ASSUME NEW g \in Generations, NEW e \in Epochs, Clean(g, e) \/ AgentDies(g, e)
      PROVE  LeaseChange(g) \/ HostChange(g)
  <2>1. CASE SendRevoke(g, e) \/ RevokeFails(g, e) \/ AgentDies(g, e)
    BY <2>1 DEF SendRevoke, RevokeFails, AgentDies, host, HostChange
  <2>2. CASE RecordStopped(g, e)
    <3>1. CASE UNCHANGED lease
      BY <2>2, <3>1 DEF RecordStopped, host, HostChange
    <3>2. CASE ~UNCHANGED lease
      BY <2>2, <3>2, SettleFacts DEF RecordStopped, LeaseChange, Held, States
    <3> QED BY <3>1, <3>2
  <2>3. CASE RecordQuarantined(g, e)
    <3>1. CASE UNCHANGED lease
      BY <2>3, <3>1 DEF RecordQuarantined, host, HostChange
    <3>2. CASE ~UNCHANGED lease
      BY <2>3, <3>2, SettleFacts DEF RecordQuarantined, LeaseChange, Held, States
    <3> QED BY <3>1, <3>2
  <2> QED BY <1>6, <2>1, <2>2, <2>3 DEF Clean
<1>7. ASSUME NEW g \in Generations, AdmitOpen(g) PROVE HostChange(g)
  BY <1>7 DEF AdmitOpen, HostChange, Live, TypeOK
<1>8. ASSUME NEW g \in Generations, NEW e \in Epochs, AdmitRevoke(g, e) PROVE HostChange(g)
  BY <1>8 DEF AdmitRevoke, host, HostChange
<1>9. ASSUME NEW g \in Generations, UnitStarts(g) \/ UnitEnds(g) PROVE HostChange(g)
  BY <1>9 DEF UnitStarts, UnitEnds, HostChange, TypeOK
<1>10. ASSUME NEW g \in Generations, NEW c \in request, Refuse(c) \/ LoseRequest(c)
       PROVE  HostChange(g)
  BY <1>10 DEF Refuse, LoseRequest, host, HostChange
<1>11. ASSUME NEW g \in Generations, NEW w \in work,
              \/ OpenSucceeds(g, w) \/ OpenFails(g, w) \/ FinishRevoke(g, w)
              \/ Touch(g, w) \/ StopUnit(g, w) \/ LoseLock(g, w) \/ Drop(g, w)
       PROVE  HostChange(g)
  BY <1>11, UnitStoppedFacts
     DEF OpenSucceeds, OpenFails, FinishRevoke, Touch, StopUnit, LoseLock, Drop, host, HostChange
<1> HIDE DEF Goal
<1>12. ASSUME NEW g \in Generations, LeaseChange(g) \/ HostChange(g) PROVE Goal
  BY <1>12 DEF Goal
<1> QED BY <1>1, <1>2, <1>3, <1>4, <1>5, <1>6, <1>7, <1>8, <1>9, <1>10, <1>11, <1>12
        DEF Next, Progress, Serve
-----------------------------------------------------------------------------
(* The invariant.                                                           *)

\* A job that is cleaned stays so: the file in revoked is never removed, and
\* every start of its unit looks for it.
LEMMA CleanStays ==
    ASSUME TypeOK, Next, NEW g \in Generations, Cleaned(g)
    PROVE  Cleaned(g)'
<1>1. PICK h \in Generations : Reserve(h) \/ LeaseChange(h) \/ HostChange(h)
  BY StepKinds
<1>2. CASE Reserve(h) \/ LeaseChange(h)
  BY <1>2 DEF Reserve, LeaseChange, host, Cleaned
<1>3. CASE HostChange(h)
  BY <1>3 DEF HostChange, Cleaned
<1> QED BY <1>1, <1>2, <1>3

LEMMA UnitStep == TypeOK /\ UnitInv /\ Next => UnitInv'
<1> SUFFICES ASSUME TypeOK, UnitInv, Next, NEW g \in Generations, unit'[g] # "absent"
             PROVE  lease'[g].state # "none"
  BY DEF UnitInv
<1>1. PICK h \in Generations : Reserve(h) \/ LeaseChange(h) \/ HostChange(h)
  BY StepKinds
<1>2. CASE Reserve(h)
  BY <1>2, ReserveFacts DEF Reserve, TypeOK, host, UnitInv
<1>3. CASE LeaseChange(h)
  BY <1>3 DEF LeaseChange, Held, host, UnitInv
<1>4. CASE HostChange(h)
  BY <1>4 DEF HostChange, UnitInv
<1> QED BY <1>1, <1>2, <1>3, <1>4

\* What a gateway has done of its revokes is still true after a step.
LEMMA RevokingStep ==
    ASSUME TypeOK, CleanInv, Next, NEW w \in work', w.command.name = "revoke"
    PROVE  /\ w.step \in {"touched", "stopped"} => w.command.gen \in revoked'
           /\ w.step = "stopped" => Cleaned(w.command.gen)'
<1> DEFINE Known(v) == /\ v.step \in {"touched", "stopped"} => v.command.gen \in revoked'
                       /\ v.step = "stopped" => Cleaned(v.command.gen)'
<1>1. ASSUME NEW v \in work, v.command.name = "revoke" PROVE Known(v)
  <2>1. v.command.gen \in Generations
    BY DEF TypeOK, Work, Command
  <2>2. v.step = "stopped" => Cleaned(v.command.gen)'
    BY <1>1, <2>1, CleanStays DEF CleanInv
  <2>3. revoked \subseteq revoked'
    BY StepKinds DEF Reserve, LeaseChange, HostChange, host
  <2> QED BY <1>1, <2>2, <2>3 DEF CleanInv
<1>2. CASE w \in work
  BY <1>1, <1>2
<1>3. CASE \E c \in request : w = Begun(c)
  BY <1>3 DEF Begun
<1>4. CASE \E v \in work : w.command = v.command /\ w.step = v.step
  BY <1>1, <1>4
<1>5. CASE \E g \in Generations, v \in work : Touch(g, v) /\ w = [v EXCEPT !.step = "touched"]
  BY <1>5 DEF Touch, TypeOK, Work
<1>6. CASE \E g \in Generations, v \in work : StopUnit(g, v) /\ w = [v EXCEPT !.step = "stopped"]
  <2>1. PICK g \in Generations, v \in work : StopUnit(g, v) /\ w = [v EXCEPT !.step = "stopped"]
    BY <1>6
  <2>2. w.command.gen = g /\ v.step = "touched" /\ v.command = w.command
    BY <2>1 DEF StopUnit, TypeOK, Work
  <2>3. g \in revoked'
    BY <2>1, <2>2 DEF StopUnit, CleanInv
  <2>4. unit'[g] # "running"
    BY <2>1, UnitStoppedFacts DEF StopUnit, TypeOK
  <2> QED BY <2>2, <2>3, <2>4 DEF Cleaned
<1> HIDE DEF Known
<1>7. \/ w \in work
      \/ \E c \in request : w = Begun(c)
      \/ \E v \in work : w.command = v.command /\ w.step = v.step
      \/ \E g \in Generations, v \in work : Touch(g, v) /\ w = [v EXCEPT !.step = "touched"]
      \/ \E g \in Generations, v \in work : StopUnit(g, v) /\ w = [v EXCEPT !.step = "stopped"]
  <2> DEFINE Kind == \/ w \in work
                     \/ \E c \in request : w = Begun(c)
                     \/ \E v \in work : w.command = v.command /\ w.step = v.step
                     \/ \E g \in Generations, v \in work :
                           Touch(g, v) /\ w = [v EXCEPT !.step = "touched"]
                     \/ \E g \in Generations, v \in work :
                           StopUnit(g, v) /\ w = [v EXCEPT !.step = "stopped"]
  <2> SUFFICES Kind
    OBVIOUS
  <2>1. ASSUME NEW g \in Generations, AdmitOpen(g) PROVE Kind
    BY <2>1 DEF AdmitOpen
  <2>2. ASSUME NEW g \in Generations, NEW e \in Epochs, AdmitRevoke(g, e) PROVE Kind
    BY <2>2 DEF AdmitRevoke
  <2>3. ASSUME NEW g \in Generations, NEW v \in work,
               OpenSucceeds(g, v) \/ OpenFails(g, v) \/ FinishRevoke(g, v) \/ Drop(g, v)
        PROVE  Kind
    BY <2>3 DEF OpenSucceeds, OpenFails, FinishRevoke, Drop, Report
  <2>4. ASSUME NEW g \in Generations, NEW v \in work, Touch(g, v) \/ StopUnit(g, v) PROVE Kind
    BY <2>4 DEF Touch, StopUnit
  <2>5. ASSUME NEW g \in Generations, NEW v \in work, LoseLock(g, v) PROVE Kind
    BY <2>5 DEF LoseLock, TypeOK, Work
  <2>6. ASSUME UNCHANGED work PROVE Kind
    BY <2>6
  <2> HIDE DEF Kind
  <2>7. ASSUME NEW g \in Generations, NEW e \in Epochs, Clean(g, e) \/ AgentDies(g, e)
        PROVE  Kind
    BY <2>6, <2>7 DEF Clean, SendRevoke, RecordStopped, RevokeFails, RecordQuarantined, AgentDies
  <2>8. ASSUME NEW g \in Generations,
               \/ Reserve(g) \/ Replay(g) \/ SendOpen(g) \/ MarkRunning(g) \/ Close(g)
               \/ BeginStop(g) \/ StopRefused(g) \/ TakeOver(g) \/ Lapse(g)
               \/ UnitStarts(g) \/ UnitEnds(g)
        PROVE  Kind
    BY <2>6, <2>8 DEF Reserve, Replay, SendOpen, MarkRunning, Close, BeginStop, StopRefused,
                      TakeOver, Lapse, UnitStarts, UnitEnds
  <2>9. ASSUME NEW c \in request, Refuse(c) \/ LoseRequest(c) PROVE Kind
    BY <2>6, <2>9 DEF Refuse, LoseRequest
  <2> QED BY <2>1, <2>2, <2>3, <2>4, <2>5, <2>7, <2>8, <2>9 DEF Next, Progress, Serve
<1> QED BY <1>2, <1>3, <1>4, <1>5, <1>6, <1>7, Zenon

\* A gateway answers a revoke only after the unit is stopped for good.
LEMMA AnsweredStep ==
    ASSUME TypeOK, CleanInv, Next, NEW g \in Generations, NEW e \in Epochs,
           Revoke(g, e) \in answered'
    PROVE  Cleaned(g)'
<1>1. CASE Revoke(g, e) \in answered
  BY <1>1, CleanStays DEF CleanInv
<1>2. CASE Revoke(g, e) \notin answered
  <2>1. ASSUME NEW h \in Generations, NEW w \in work, OpenSucceeds(h, w) \/ OpenFails(h, w)
        PROVE  FALSE
    BY <1>2, <2>1 DEF OpenSucceeds, OpenFails, Report, Open, Revoke
  <2>2. PICK h \in Generations, w \in work : FinishRevoke(h, w)
    BY <1>2, <2>1 DEF Next, Progress, Serve, Clean, Reserve, Replay, SendOpen, MarkRunning, Close,
         BeginStop, StopRefused, TakeOver, Lapse, SendRevoke, RecordStopped, RevokeFails,
         RecordQuarantined, AgentDies, AdmitOpen, UnitStarts, UnitEnds, AdmitRevoke, Refuse,
         LoseRequest, Touch, StopUnit, LoseLock, Drop, host
  <2>3. w.command = Revoke(g, e) /\ w.step = "stopped"
    BY <1>2, <2>2 DEF FinishRevoke, Report
  <2>4. Cleaned(g)
    BY <2>3 DEF CleanInv, Revoke
  <2> QED BY <2>4, CleanStays
<1> QED BY <1>1, <1>2

LEMMA CleanStep == TypeOK /\ CleanInv /\ Next => CleanInv'
<1> SUFFICES ASSUME TypeOK, CleanInv, Next PROVE CleanInv'
  OBVIOUS
<1>1. ASSUME NEW g \in Generations, lease'[g].state = "stopped" PROVE Cleaned(g)'
  <2>1. PICK h \in Generations : Reserve(h) \/ LeaseChange(h) \/ HostChange(h)
    BY StepKinds
  <2>2. \/ lease[g].state = "stopped"
        \/ Revoke(g, lease[g].epoch) \in answered /\ lease[g].epoch \in Epochs
    <3>1. CASE Reserve(h)
      BY <1>1, <2>1, <3>1, ReserveFacts DEF TypeOK
    <3>2. CASE LeaseChange(h)
      <4>1. lease[g].state = "stopped" \/ Revoke(g, lease[g].epoch) \in answered
        BY <1>1, <3>2 DEF LeaseChange
      <4> QED BY <4>1 DEF TypeOK, Command, Revoke
    <3>3. CASE HostChange(h)
      BY <1>1, <3>3 DEF HostChange
    <3> QED BY <2>1, <3>1, <3>2, <3>3
  <2>3. Cleaned(g)
    BY <2>2 DEF CleanInv
  <2> QED BY <2>3, CleanStays
<1> QED BY <1>1, RevokingStep, AnsweredStep DEF CleanInv, Cleaned

\* Leases are only added by a reservation, which counts them.
LEMMA QuotaStep == TypeOK /\ QuotaInv /\ Next => QuotaInv'
<1> SUFFICES ASSUME TypeOK, QuotaInv, Next PROVE QuotaInv'
  OBVIOUS
<1>1. ASSUME NEW g \in Generations, Reserve(g) PROVE QuotaInv'
  <2>1. Held' = Held \cup {g} /\ g \notin Held
    BY <1>1, ReserveFacts DEF Reserve, Held, TypeOK
  <2>2. IsFiniteSet(Held')
    BY <2>1, FS_AddElement DEF QuotaInv
  <2>3. ASSUME NEW q \in Quotas PROVE Cardinality(q.of \cap Held') <= q.limit
    <3>1. IsFiniteSet(q.of \cap Held) /\ Cardinality(q.of \cap Held) \in Nat
      BY FS_Subset, FS_CardinalityType DEF QuotaInv
    <3>2. CASE g \notin q.of
      <4>1. q.of \cap Held' = q.of \cap Held
        BY <2>1, <3>2
      <4> QED BY <4>1 DEF QuotaInv
    <3>3. CASE g \in q.of
      <4>1. q.of \cap Held' = (q.of \cap Held) \cup {g}
        BY <2>1, <3>3
      <4>2. Cardinality(q.of \cap Held') = Cardinality(q.of \cap Held) + 1
        BY <2>1, <3>1, <4>1, FS_AddElement
      <4>3. Cardinality(q.of \cap Held) < q.limit
        BY <1>1, <3>3 DEF Reserve, Admissible
      <4>4. q.limit \in Nat
        BY QuotaAssumption
      <4> QED BY <3>1, <4>2, <4>3, <4>4
    <3> QED BY <3>2, <3>3
  <2> QED BY <2>2, <2>3 DEF QuotaInv
<1>2. ASSUME Held' \subseteq Held PROVE QuotaInv'
  <2>1. IsFiniteSet(Held')
    BY <1>2, FS_Subset DEF QuotaInv
  <2>2. ASSUME NEW q \in Quotas PROVE Cardinality(q.of \cap Held') <= q.limit
    <3>1. IsFiniteSet(q.of \cap Held)
      BY FS_Subset DEF QuotaInv
    <3>2. q.of \cap Held' \subseteq q.of \cap Held
      BY <1>2
    <3>3. /\ Cardinality(q.of \cap Held') <= Cardinality(q.of \cap Held)
          /\ Cardinality(q.of \cap Held') \in Nat /\ Cardinality(q.of \cap Held) \in Nat
      BY <3>1, <3>2, FS_Subset, FS_CardinalityType
    <3>4. Cardinality(q.of \cap Held) <= q.limit /\ q.limit \in Nat
      BY QuotaAssumption DEF QuotaInv
    <3> QED BY <3>3, <3>4
  <2> QED BY <2>1, <2>2 DEF QuotaInv
<1>3. ASSUME NEW g \in Generations, LeaseChange(g) \/ HostChange(g) PROVE Held' \subseteq Held
  BY <1>3 DEF LeaseChange, HostChange, Held
<1> QED BY <1>1, <1>2, <1>3, StepKinds

LEMMA InvStep == Inv /\ [Next]_vars => Inv'
<1>1. ASSUME Inv, Next PROVE Inv'
  BY <1>1, TypeStep, UnitStep, CleanStep, QuotaStep DEF Inv
<1>2. ASSUME Inv, UNCHANGED vars PROVE Inv'
  <2>1. UnitInv'
    BY <1>2 DEF Inv, UnitInv, vars, host
  <2>2. CleanInv'
    BY <1>2 DEF Inv, CleanInv, Cleaned, vars, host
  <2>3. Held' = Held
    BY <1>2 DEF Held, vars, host
  <2>4. QuotaInv'
    BY <1>2, <2>3 DEF Inv, QuotaInv
  <2> QED BY <1>2, <2>1, <2>2, <2>4, TypeStep DEF Inv
<1> QED BY <1>1, <1>2

LEMMA Invariance == Spec => []Inv
<1>1. Init => Inv
  <2> SUFFICES ASSUME Init PROVE Inv
    OBVIOUS
  <2>1. TypeOK
    BY BoundAssumption DEF Init, TypeOK, NoLease, Lease, Steps
  <2>2. Held = {}
    BY DEF Init, Held, NoLease
  <2>3. QuotaInv
    BY <2>2, QuotaAssumption, FS_EmptySet DEF QuotaInv
  <2>4. UnitInv /\ CleanInv
    BY DEF Init, UnitInv, CleanInv, NoLease
  <2> QED BY <2>1, <2>3, <2>4 DEF Inv
<1> QED BY <1>1, InvStep, PTL DEF Spec
-----------------------------------------------------------------------------
(* The properties.                                                          *)

\* A running job has its slot.
LEMMA RunningIsHeld ==
    ASSUME Inv, NEW g \in Generations, unit[g] # "absent", g \notin revoked \/ unit[g] = "running"
    PROVE  g \in Held
BY DEF Inv, UnitInv, CleanInv, Cleaned, Held

\* No more jobs run than may have leases.
THEOREM QuotaHolds == Spec => []QuotaRespected
<1>1. Inv => QuotaRespected
  <2> SUFFICES ASSUME Inv, NEW q \in Quotas
               PROVE  Cardinality({g \in q.of : unit[g] = "running"}) <= q.limit
    BY DEF QuotaRespected
  <2> DEFINE R == {g \in q.of : unit[g] = "running"}
  <2>1. q.of \subseteq Generations /\ q.limit \in Nat
    BY QuotaAssumption
  <2>2. R \subseteq q.of \cap Held
    BY <2>1, RunningIsHeld
  <2>3. IsFiniteSet(q.of \cap Held)
    BY FS_Subset DEF Inv, QuotaInv
  <2>4. IsFiniteSet(R) /\ Cardinality(R) <= Cardinality(q.of \cap Held)
    BY <2>2, <2>3, FS_Subset
  <2>5. Cardinality(R) \in Nat /\ Cardinality(q.of \cap Held) \in Nat
    BY <2>3, <2>4, FS_CardinalityType
  <2>6. Cardinality(q.of \cap Held) <= q.limit
    BY DEF Inv, QuotaInv
  <2> HIDE DEF R
  <2>7. Cardinality(R) <= q.limit
    BY <2>1, <2>4, <2>5, <2>6
  <2> QED BY <2>7 DEF R
<1> QED BY <1>1, Invariance, PTL

\* A lease ends by the word of its host to whoever holds it then.
THEOREM HolderAlwaysSettles == Spec => HolderSettles
<1>1. Inv /\ [Next]_vars =>
        [\A g \in Generations :
          lease[g].state # "stopped" /\ lease'[g].state = "stopped"
            => Revoke(g, lease[g].epoch) \in answered]_vars
  <2> SUFFICES ASSUME Inv, Next, NEW g \in Generations,
                      lease[g].state # "stopped", lease'[g].state = "stopped"
               PROVE  Revoke(g, lease[g].epoch) \in answered
    OBVIOUS
  <2>1. PICK h \in Generations : Reserve(h) \/ LeaseChange(h) \/ HostChange(h)
    BY StepKinds DEF Inv
  <2>2. ~Reserve(h)
    BY ReserveFacts DEF Inv, TypeOK
  <2> QED BY <2>1, <2>2 DEF LeaseChange, HostChange
<1> QED BY <1>1, Invariance, PTL DEF Spec, HolderSettles

\* A job that is being stopped is never taken for a running one again.
THEOREM NeverRevivedProved == Spec => NeverRevived
<1>1. Inv /\ [Next]_vars =>
        [\A g \in Generations :
          lease[g].state \in {"stopping", "quarantined", "stopped"}
            => lease'[g].state \notin {"none", "allocating", "running"}]_vars
  <2> SUFFICES ASSUME Inv, Next, NEW g \in Generations,
                      lease[g].state \in {"stopping", "quarantined", "stopped"}
               PROVE  lease'[g].state \notin {"none", "allocating", "running"}
    OBVIOUS
  <2>1. PICK h \in Generations : Reserve(h) \/ LeaseChange(h) \/ HostChange(h)
    BY StepKinds DEF Inv
  <2>2. CASE Reserve(h)
    BY <2>2, ReserveFacts DEF Reserve, Inv, TypeOK
  <2> QED BY <2>1, <2>2 DEF LeaseChange, HostChange
<1> QED BY <1>1, Invariance, PTL DEF Spec, NeverRevived

\* Leases, messages, gateways and units implement the slots.
THEOREM RunnersImplementSlots == Spec => ImplementsRunnerSlots
<1>1. Init => Slots!Init
  BY DEF Init, Slots!Init, Held, NoLease
<1>2. Inv /\ [Next]_vars => [Slots!Next]_(Slots!vars)
  <2> DEFINE Released == {g \in Generations : lease[g].state = "stopped"}
             Running == {g \in Generations : unit[g] = "running"}
  <2> SUFFICES ASSUME Inv, [Next]_vars PROVE [Slots!Next]_(Slots!vars)
    OBVIOUS
  <2>1. CASE UNCHANGED vars
    BY <2>1 DEF vars, host, Slots!vars, Held
  <2>2. ASSUME NEW g \in Generations, Reserve(g) PROVE Slots!Acquire(g)
    <3>1. /\ g \notin Held \cup Released
          /\ Held' = Held \cup {g}
          /\ Released' = Released
          /\ Running' = Running
      BY <2>2, ReserveFacts DEF Reserve, Held, Inv, TypeOK, host
    <3>2. Slots!Admissible(g)
      <4>1. \A S : Slots!Cardinality(S) = Cardinality(S)
      BY DEF Slots!Cardinality, Cardinality
    <4> QED BY <2>2, <4>1 DEF Reserve, Admissible, Slots!Admissible
    <3> QED BY <3>1, <3>2 DEF Slots!Acquire
  <2>3. ASSUME NEW g \in Generations, LeaseChange(g)
        PROVE  Slots!Release(g) \/ UNCHANGED Slots!vars
    <3>1. CASE lease'[g].state = "stopped" /\ lease[g].state # "stopped"
      <4>1. Revoke(g, lease[g].epoch) \in answered
        BY <2>3, <3>1 DEF LeaseChange
      <4>2. lease[g].epoch \in Epochs
        BY <4>1 DEF Inv, TypeOK, Command, Revoke
      <4>3. g \in Held \ Running
        BY <2>3, <4>1, <4>2 DEF Inv, CleanInv, Cleaned, LeaseChange
      <4>4. Held' = Held \ {g} /\ Released' = Released \cup {g} /\ Running' = Running
        BY <2>3, <3>1 DEF LeaseChange, Held, host
      <4> QED BY <4>3, <4>4 DEF Slots!Release
    <3>2. CASE lease'[g].state = "stopped" => lease[g].state = "stopped"
      <4>1. Held' = Held /\ Released' = Released /\ Running' = Running
        BY <2>3, <3>2 DEF LeaseChange, Held, host
      <4> QED BY <4>1 DEF Slots!vars
    <3> QED BY <3>1, <3>2
  <2>4. ASSUME NEW g \in Generations, HostChange(g)
        PROVE  Slots!Start(g) \/ Slots!Stop(g) \/ UNCHANGED Slots!vars
    <3>1. Held' = Held /\ Released' = Released
      BY <2>4 DEF HostChange, Held
    <3>2. CASE unit'[g] = "running" /\ unit[g] # "running"
      <4>1. g \in Held \ Running
        BY <2>4, <3>2, RunningIsHeld DEF HostChange
      <4>2. Running' = Running \cup {g}
        BY <2>4, <3>2 DEF HostChange
      <4> QED BY <3>1, <4>1, <4>2 DEF Slots!Start
    <3>3. CASE unit'[g] # "running"
      <4>1. Running' = Running \ {g}
        BY <2>4, <3>3 DEF HostChange
      <4> QED BY <3>1, <4>1 DEF Slots!Stop
    <3>4. CASE unit'[g] = "running" /\ unit[g] = "running"
      <4>1. Running' = Running
        BY <2>4, <3>4 DEF HostChange
      <4> QED BY <3>1, <4>1 DEF Slots!vars
    <3> QED BY <3>2, <3>3, <3>4
  <2> QED BY <2>1, <2>2, <2>3, <2>4, StepKinds DEF Inv, Slots!Next
<1> QED BY <1>1, <1>2, Invariance, PTL DEF Spec, ImplementsRunnerSlots, Slots!Spec
=============================================================================
