------------------------ MODULE DurableSourceProofs ------------------------
(***************************************************************************)
(* Proofs about DurableSource, for any files, contents, edits and servers, *)
(* and any number of failures, crashes and writes from outside; then about *)
(* SourceHistory, the history that those commits write, for any limits on  *)
(* what it keeps and archives.                                             *)
(***************************************************************************)
EXTENDS DurableSource, SourceHistory, SequenceTheorems, NaturalsInduction,
        WellFoundedInduction, TLAPS

(* The inductive invariant.                                                 *)

Writes == {"journaled", "writing", "written", "checked"}

\* What the server that holds the lock may rely on at each step.
HolderInv(s) ==
    LET k == server[s].key
        step == server[s].step
    IN  /\ step \notin {"down", "idle"}
        /\ server[s].failing =>
             k \in Keys /\ answer[k] = "none" /\ step \in {"open", "restore"}
        /\ step \in {"leased", "prepared"} => journal = NoJournal
        /\ step = "prepared" \/ step \in Writes =>
             /\ k \in Keys
             /\ k \notin history.accepted \cup history.rejected
             /\ answer[k] = "none"
        /\ step = "accepted" \/ step \in Writes => journal # NoJournal /\ journal.key = k
        /\ step \in {"writing", "restore"} =>
             journal # NoJournal /\ server[s].todo \subseteq journal.files
        /\ step = "accepted" => k \in history.accepted /\ answer[k] = "none"
        /\ step \in {"checked", "accepted"} =>
             \A f \in journal.files \ touched : disk[f] = After(f)
        /\ step = "restore" =>
             \A f \in journal.files \ (server[s].todo \cup touched) : disk[f] = Restored(f)

\* Nobody is in an operation without the lock.
LockInv ==
    \A s \in Servers :
        \/ server[s].step \in {"down", "idle"} /\ ~server[s].failing /\ lock # s
        \/ lock = s /\ HolderInv(s)

\* A journal is about the head revision or about the one before it.
JournalInv ==
    journal # NoJournal =>
        /\ journal.files = Changed(journal.key, journal.before)
        /\ IF Committed THEN history.head = Apply(journal.key, journal.before)
                        ELSE /\ history.head = journal.before
                             /\ journal.key \notin history.rejected

\* A file is as the head has it, or as the pending commit found or leaves it.
FilesInv ==
    \A f \in Files \ touched :
        IF journal # NoJournal /\ f \in journal.files
        THEN disk[f] \in {journal.before[f], After(f)}
        ELSE disk[f] = history.head[f]

AnswersInv ==
    /\ AnswersAreTrue
    /\ history.accepted \cap history.rejected = {}

Inv == TypeOK /\ LockInv /\ JournalInv /\ FilesInv /\ AnswersInv
-----------------------------------------------------------------------------
(* Lemmas.                                                                  *)

\* A server that is at work holds the lock.
LEMMA Holding ==
    ASSUME LockInv, NEW s \in Servers, server[s].step \notin {"down", "idle"}
    PROVE  lock = s /\ HolderInv(s)
BY DEF LockInv

\* The other servers have nothing to do with a step of the one at work.
LEMMA OthersIdle ==
    ASSUME TypeOK, LockInv, NEW s \in Servers, lock \in {s, None},
           \A t \in Servers \ {s} : server'[t] = server[t],
           \/ lock' = None /\ server'[s].step \in {"down", "idle"} /\ ~server'[s].failing
           \/ lock' = s /\ HolderInv(s)'
    PROVE  LockInv'
<1> SUFFICES ASSUME NEW t \in Servers
             PROVE  \/ server'[t].step \in {"down", "idle"} /\ ~server'[t].failing /\ lock' # t
                    \/ lock' = t /\ HolderInv(t)'
  BY DEF LockInv
<1>1. None # t /\ None # s
  BY NoneAssumption DEF None
<1>2. CASE t = s
  BY <1>1, <1>2
<1>3. CASE t # s
  BY <1>1, <1>3 DEF LockInv
<1> QED BY <1>2, <1>3

LEMMA ServerType ==
    ASSUME TypeOK, NEW s \in Servers, NEW r \in Server, server' = [server EXCEPT ![s] = r]
    PROVE  /\ server' \in [Servers -> Server]
           /\ server'[s] = r
           /\ \A t \in Servers \ {s} : server'[t] = server[t]
BY DEF TypeOK

LEMMA IdleType ==
    ASSUME NEW r \in Server, NEW p \in BOOLEAN
    PROVE  /\ [r EXCEPT !.step = "idle", !.key = None, !.todo = {}, !.failing = FALSE] \in Server
           /\ [r EXCEPT !.step = "idle", !.key = None, !.todo = {}, !.failing = FALSE,
                        !.poisoned = p] \in Server
BY DEF Server, Steps

LEMMA Finished ==
    ASSUME TypeOK, LockInv, NEW s \in Servers, lock = s, Finish(s)
    PROVE  /\ server' \in [Servers -> Server]
           /\ lock' \in Servers \cup {None}
           /\ LockInv'
<1> DEFINE r == [server[s] EXCEPT !.step = "idle", !.key = None, !.todo = {}, !.failing = FALSE]
<1>1. server[s] \in Server
  BY DEF TypeOK
<1>2. r \in Server
  BY <1>1, IdleType
<1>3. server' = [server EXCEPT ![s] = r] /\ lock' = None
  BY DEF Finish
<1>4. r.step = "idle" /\ ~r.failing
  BY <1>1 DEF Server
<1> HIDE DEF r
<1>5. /\ server' \in [Servers -> Server]
      /\ server'[s] = r
      /\ \A t \in Servers \ {s} : server'[t] = server[t]
  BY <1>2, <1>3, ServerType
<1> QED BY <1>3, <1>4, <1>5, OthersIdle

LEMMA ApplyType ==
    ASSUME NEW k \in Keys, NEW from \in Trees
    PROVE  Apply(k, from) \in Trees /\ Changed(k, from) \subseteq Files
BY EditAssumption DEF Apply, Changed, Trees

LEMMA JournalType ==
    ASSUME TypeOK, journal # NoJournal
    PROVE  journal \in Journal
BY DEF TypeOK

LEMMA Going ==
    ASSUME TypeOK, NEW s \in Servers, NEW step \in Steps, Goto(s, step)
    PROVE  /\ server' \in [Servers -> Server]
           /\ server'[s] = [server[s] EXCEPT !.step = step]
           /\ server'[s].step = step
           /\ server'[s].key = server[s].key
           /\ server'[s].todo = server[s].todo
           /\ server'[s].failing = server[s].failing
           /\ \A t \in Servers \ {s} : server'[t] = server[t]
<1> DEFINE r == [server[s] EXCEPT !.step = step]
<1>1. server[s] \in Server
  BY DEF TypeOK
<1>2. /\ r \in Server
      /\ r.step = step
      /\ r.key = server[s].key
      /\ r.todo = server[s].todo
      /\ r.failing = server[s].failing
  BY <1>1 DEF Server
<1>3. server' = [server EXCEPT ![s] = r]
  BY DEF Goto
<1> HIDE DEF r
<1>4. /\ server' \in [Servers -> Server]
      /\ server'[s] = r
      /\ \A t \in Servers \ {s} : server'[t] = server[t]
  BY <1>2, <1>3, ServerType
<1> QED BY <1>2, <1>4 DEF r

LEMMA Beginning ==
    ASSUME TypeOK, NEW s \in Servers, NEW step \in Steps, NEW todo \in SUBSET Files,
           Begin(s, step, todo)
    PROVE  /\ server' \in [Servers -> Server]
           /\ server'[s].step = step
           /\ server'[s].key = server[s].key
           /\ server'[s].todo = todo
           /\ server'[s].failing = server[s].failing
           /\ \A t \in Servers \ {s} : server'[t] = server[t]
<1> DEFINE r == [server[s] EXCEPT !.step = step, !.todo = todo]
<1>1. server[s] \in Server
  BY DEF TypeOK
<1>2. /\ r \in Server
      /\ r.step = step
      /\ r.key = server[s].key
      /\ r.todo = todo
      /\ r.failing = server[s].failing
  BY <1>1 DEF Server
<1>3. server' = [server EXCEPT ![s] = r]
  BY DEF Begin
<1> HIDE DEF r
<1> QED BY <1>2, <1>3, ServerType

LEMMA Catching ==
    ASSUME TypeOK, NEW s \in Servers, Catch(s)
    PROVE  /\ server' \in [Servers -> Server]
           /\ server'[s].step = "open"
           /\ server'[s].key = server[s].key
           /\ server'[s].failing
           /\ \A t \in Servers \ {s} : server'[t] = server[t]
<1> DEFINE r == [server[s] EXCEPT !.step = "open", !.todo = {}, !.failing = TRUE]
<1>1. server[s] \in Server
  BY DEF TypeOK
<1>2. /\ r \in Server
      /\ r.step = "open"
      /\ r.key = server[s].key
      /\ r.failing
  BY <1>1 DEF Server, Steps
<1>3. server' = [server EXCEPT ![s] = r]
  BY DEF Catch
<1> HIDE DEF r
<1> QED BY <1>2, <1>3, ServerType

LEMMA Quarantined ==
    ASSUME TypeOK, LockInv, NEW s \in Servers, lock = s, HolderInv(s), Quarantine(s)
    PROVE  /\ server' \in [Servers -> Server]
           /\ lock' = None
           /\ LockInv'
           /\ answer' \in [Keys -> {"none", "accepted", "refused", "failed"}]
           /\ AnswersInv => AnswersInv'
<1> DEFINE r == [server[s] EXCEPT !.step = "idle", !.key = None, !.todo = {}, !.failing = FALSE,
                                  !.poisoned = server[s].poisoned \/ server[s].failing]
<1>1. server[s] \in Server
  BY DEF TypeOK
<1> DEFINE p == server[s].poisoned \/ server[s].failing
<1>2. p \in BOOLEAN
  OBVIOUS
<1>3. r = [server[s] EXCEPT !.step = "idle", !.key = None, !.todo = {}, !.failing = FALSE,
                            !.poisoned = p]
  OBVIOUS
<1>4. r \in Server
  <2> HIDE DEF p, r
  <2> QED BY <1>1, <1>2, <1>3, IdleType
<1>5. r.step = "idle" /\ ~r.failing
  BY <1>1 DEF Server
<1>6. server' = [server EXCEPT ![s] = r] /\ lock' = None /\ UNCHANGED store
  BY DEF Quarantine
<1> HIDE DEF r
<1>7. /\ server' \in [Servers -> Server]
      /\ server'[s] = r
      /\ \A t \in Servers \ {s} : server'[t] = server[t]
  BY <1>4, <1>6, ServerType
<1>8. LockInv'
  BY <1>5, <1>6, <1>7, OthersIdle
<1>9. CASE server[s].failing
  <2>1. server[s].key \in Keys /\ Told(server[s].key, "failed")
    BY <1>9 DEF Quarantine, HolderInv
  <2> QED BY <1>6, <1>7, <1>8, <2>1 DEF Told, TypeOK, AnswersInv, AnswersAreTrue, store
<1>10. CASE ~server[s].failing
  <2>1. UNCHANGED answer
    BY <1>10 DEF Quarantine
  <2> QED BY <1>6, <1>7, <1>8, <2>1 DEF TypeOK, AnswersInv, AnswersAreTrue, store
<1> QED BY <1>9, <1>10

\* An answer that agrees with the history keeps the answers true.
LEMMA Answering ==
    ASSUME TypeOK, NEW k \in Keys, NEW what \in {"none", "accepted", "refused", "failed"}, Told(k, what)
    PROVE  /\ answer' \in [Keys -> {"none", "accepted", "refused", "failed"}]
           /\ /\ AnswersInv
              /\ history'.accepted = history.accepted
              /\ history'.accepted \cap history'.rejected = {}
              /\ what = "accepted" => k \in history.accepted
              /\ what = "refused" => k \notin history.accepted
              => AnswersInv'
BY DEF Told, TypeOK, AnswersInv, AnswersAreTrue

LEMMA StoreStays ==
    ASSUME Inv, UNCHANGED <<store, touched>>
    PROVE  JournalInv' /\ FilesInv' /\ disk' \in Trees /\ history' \in History
           /\ journal' \in Journal \cup {NoJournal}
BY DEF Inv, TypeOK, JournalInv, FilesInv, store, Committed, After

-----------------------------------------------------------------------------
(* Steps that leave the files, the journal and the history alone.           *)

LEMMA TakeLeaseStep ==
    ASSUME Inv, NEW s \in Servers, TakeLease(s)
    PROVE  Inv'
<1>1. Goto(s, "open") /\ lock = None /\ lock' = s /\ UNCHANGED <<store, answer>> /\ Same
  BY DEF TakeLease
<1>2. server[s].step \in {"down", "idle"} /\ ~server[s].failing
  BY NoneAssumption, <1>1 DEF TakeLease, Inv, LockInv, HolderInv, None
<1>3. /\ server' \in [Servers -> Server]
      /\ server'[s].step = "open" /\ ~server'[s].failing
      /\ \A t \in Servers \ {s} : server'[t] = server[t]
  BY <1>1, <1>2, Going DEF Inv, Steps
<1>4. HolderInv(s)'
  BY <1>3 DEF HolderInv, Writes
<1>5. LockInv'
  BY <1>1, <1>3, <1>4, OthersIdle DEF Inv
<1> QED BY <1>1, <1>3, <1>5, StoreStays DEF Inv, TypeOK, Same, store, AnswersInv, AnswersAreTrue

LEMMA NothingToRecoverStep ==
    ASSUME Inv, NEW s \in Servers, NothingToRecover(s)
    PROVE  Inv'
<1>1. Goto(s, "leased") /\ UNCHANGED <<store, lock, answer>> /\ Same
  BY DEF NothingToRecover
<1>2. lock = s /\ ~server[s].failing /\ journal = NoJournal
  BY Holding DEF NothingToRecover, Inv
<1>3. /\ server' \in [Servers -> Server]
      /\ server'[s].step = "leased" /\ ~server'[s].failing
      /\ \A t \in Servers \ {s} : server'[t] = server[t]
  BY <1>1, <1>2, Going DEF Inv, Steps
<1>4. HolderInv(s)'
  BY <1>1, <1>2, <1>3 DEF HolderInv, Writes, store
<1>5. LockInv'
  BY <1>1, <1>2, <1>3, <1>4, OthersIdle DEF Inv
<1> QED BY <1>1, <1>3, <1>5, StoreStays DEF Inv, TypeOK, Same, store, AnswersInv, AnswersAreTrue

LEMMA BeginRecoveryStep ==
    ASSUME Inv, NEW s \in Servers, BeginRecovery(s)
    PROVE  Inv'
<1>1. /\ Begin(s, "restore", journal.files)
      /\ UNCHANGED <<store, lock, answer>> /\ Same
      /\ journal # NoJournal /\ server[s].step = "open"
  BY DEF BeginRecovery
<1>2. lock = s /\ HolderInv(s)
  BY <1>1, Holding DEF Inv
<1>3. journal.files \in SUBSET Files
  BY <1>1, JournalType DEF Inv, Journal
<1>4. /\ server' \in [Servers -> Server]
      /\ server'[s].step = "restore" /\ server'[s].key = server[s].key
      /\ server'[s].todo = journal.files /\ server'[s].failing = server[s].failing
      /\ \A t \in Servers \ {s} : server'[t] = server[t]
  BY <1>1, <1>3, Beginning DEF Inv, Steps
<1>5. HolderInv(s)'
  BY <1>1, <1>2, <1>4 DEF HolderInv, Writes, store
<1>6. LockInv'
  BY <1>1, <1>2, <1>4, <1>5, OthersIdle DEF Inv
<1> QED BY <1>1, <1>4, <1>6, StoreStays DEF Inv, TypeOK, Same, store, AnswersInv, AnswersAreTrue

LEMMA BeginWritesStep ==
    ASSUME Inv, NEW s \in Servers, BeginWrites(s)
    PROVE  Inv'
<1>1. /\ Begin(s, "writing", journal.files)
      /\ UNCHANGED <<store, lock, answer>> /\ Same /\ server[s].step = "journaled"
  BY DEF BeginWrites
<1>2. lock = s /\ HolderInv(s) /\ journal # NoJournal
  BY <1>1, Holding DEF Inv, HolderInv, Writes
<1>3. journal.files \in SUBSET Files
  BY <1>2, JournalType DEF Inv, Journal
<1>4. /\ server' \in [Servers -> Server]
      /\ server'[s].step = "writing" /\ server'[s].key = server[s].key
      /\ server'[s].todo = journal.files /\ server'[s].failing = server[s].failing
      /\ \A t \in Servers \ {s} : server'[t] = server[t]
  BY <1>1, <1>3, Beginning DEF Inv, Steps
<1>5. HolderInv(s)'
  BY <1>1, <1>2, <1>4 DEF HolderInv, Writes, store
<1>6. LockInv'
  BY <1>1, <1>2, <1>4, <1>5, OthersIdle DEF Inv
<1> QED BY <1>1, <1>4, <1>6, StoreStays DEF Inv, TypeOK, Same, store, AnswersInv, AnswersAreTrue

LEMMA CheckTreeStep ==
    ASSUME Inv, NEW s \in Servers, CheckTree(s)
    PROVE  Inv'
<1>1. Goto(s, "checked") /\ UNCHANGED <<store, lock, answer>> /\ Same /\ server[s].step = "written"
      /\ disk = Apply(server[s].key, history.head)
  BY DEF CheckTree
<1>2. lock = s /\ HolderInv(s)
  BY <1>1, Holding DEF Inv
<1>3. /\ server' \in [Servers -> Server]
      /\ server'[s].step = "checked" /\ server'[s].key = server[s].key
      /\ server'[s].failing = server[s].failing
      /\ \A t \in Servers \ {s} : server'[t] = server[t]
  BY <1>1, Going DEF Inv, Steps
<1>4. \A f \in journal.files : disk[f] = After(f)
  <2>1. journal # NoJournal /\ journal.key = server[s].key /\ ~Committed
    BY <1>1, <1>2 DEF HolderInv, Writes, Committed
  <2>2. history.head = journal.before /\ journal.files = Changed(journal.key, journal.before)
    BY <2>1 DEF Inv, JournalInv
  <2>3. journal.files \subseteq Files
    BY <2>1, JournalType DEF Inv, Journal
  <2> QED BY <1>1, <2>1, <2>2, <2>3 DEF Apply, After
<1>5. HolderInv(s)'
  BY <1>1, <1>2, <1>3, <1>4 DEF HolderInv, Writes, store, Same, After
<1>6. LockInv'
  BY <1>1, <1>2, <1>3, <1>5, OthersIdle DEF Inv
<1> QED BY <1>1, <1>3, <1>6, StoreStays DEF Inv, TypeOK, Same, store, AnswersInv, AnswersAreTrue

\* An operation ends with an answer, and nothing is stored.
LEMMA AnswerStep ==
    ASSUME Inv, NEW s \in Servers, server[s].step \notin {"down", "idle"},
           NEW k \in Keys, NEW what \in {"none", "accepted", "refused", "failed"},
           Told(k, what), Finish(s), UNCHANGED store, Same,
           what = "accepted" => k \in history.accepted,
           what = "refused" => k \notin history.accepted
    PROVE  Inv'
<1>1. lock = s
  BY Holding DEF Inv
<1>2. server' \in [Servers -> Server] /\ lock' \in Servers \cup {None} /\ LockInv'
  BY <1>1, Finished DEF Inv
<1>3. answer' \in [Keys -> {"none", "accepted", "refused", "failed"}] /\ AnswersInv'
  <2>1. history' = history /\ AnswersInv
    BY DEF store, Inv
  <2> QED BY <2>1, Answering DEF Inv, AnswersInv
<1> QED BY <1>2, <1>3, StoreStays DEF Inv, TypeOK, Same, store

LEMMA GiveBackStep ==
    ASSUME Inv, NEW s \in Servers, GiveBack(s)
    PROVE  Inv'
<1>1. lock = s /\ Finish(s)
  BY Holding DEF Inv, GiveBack
<1>2. server' \in [Servers -> Server] /\ lock' \in Servers \cup {None} /\ LockInv'
  BY <1>1, Finished DEF Inv
<1> QED BY <1>2, StoreStays DEF GiveBack, Inv, TypeOK, Same, store, AnswersInv, AnswersAreTrue

LEMMA ReplayStep ==
    ASSUME Inv, NEW s \in Servers, NEW k \in Keys, Replay(s, k)
    PROVE  Inv'
<1> DEFINE what == IF k \in history.accepted THEN "accepted" ELSE "refused"
<1>1. Told(k, what) /\ Finish(s) /\ UNCHANGED store /\ Same /\ server[s].step = "leased"
  BY DEF Replay
<1>2. /\ what \in {"none", "accepted", "refused", "failed"}
      /\ what = "accepted" => k \in history.accepted
      /\ what = "refused" => k \notin history.accepted
  OBVIOUS
<1> HIDE DEF what
<1> QED BY <1>1, <1>2, AnswerStep

LEMMA RefuseStep ==
    ASSUME Inv, NEW s \in Servers, NEW k \in Keys, Refuse(s, k)
    PROVE  Inv'
BY AnswerStep DEF Refuse

LEMMA ChangedMeanwhileStep ==
    ASSUME Inv, NEW s \in Servers, ChangedMeanwhile(s)
    PROVE  Inv'
<1>1. server[s].step = "prepared"
  BY DEF ChangedMeanwhile
<1>2. server[s].key \in Keys /\ server[s].key \notin history.accepted
  BY <1>1, Holding DEF Inv, HolderInv
<1> QED BY <1>1, <1>2, AnswerStep DEF ChangedMeanwhile

LEMMA ResolveStep ==
    ASSUME Inv, NEW s \in Servers, Resolve(s)
    PROVE  Inv'
<1> DEFINE k == server[s].key
           what == IF k \in history.accepted THEN "accepted" ELSE "failed"
<1>1. Told(k, what) /\ Finish(s) /\ UNCHANGED store /\ Same
      /\ server[s].step = "open" /\ server[s].failing
  BY DEF Resolve
<1>2. k \in Keys
  BY <1>1, Holding DEF Inv, HolderInv
<1>3. /\ what \in {"none", "accepted", "refused", "failed"}
      /\ what = "accepted" => k \in history.accepted
      /\ what = "refused" => k \notin history.accepted
  OBVIOUS
<1> HIDE DEF what, k
<1> QED BY <1>1, <1>2, <1>3, AnswerStep

LEMMA QuarantineStep ==
    ASSUME Inv, NEW s \in Servers, server[s].step \in {"open", "restore"}, Quarantine(s),
           UNCHANGED <<base, touched, crashes, outside>>, faults' \in 0..MaxFaults
    PROVE  Inv'
<1>1. lock = s /\ HolderInv(s)
  BY Holding DEF Inv
<1>2. /\ server' \in [Servers -> Server]
      /\ lock' = None
      /\ LockInv'
      /\ answer' \in [Keys -> {"none", "accepted", "refused", "failed"}]
      /\ AnswersInv'
  BY <1>1, Quarantined DEF Inv
<1>3. UNCHANGED store
  BY DEF Quarantine
<1> QED BY <1>2, <1>3, StoreStays DEF Inv, TypeOK, store

LEMMA PrepareStep ==
    ASSUME Inv, NEW s \in Servers, NEW k \in Keys, Prepare(s, k)
    PROVE  Inv'
<1> DEFINE r == [server[s] EXCEPT !.step = "prepared", !.key = k]
<1>1. /\ server' = [server EXCEPT ![s] = r]
      /\ Told(k, "none") /\ UNCHANGED <<store, lock>> /\ Same
      /\ server[s].step = "leased"
      /\ k \notin history.accepted \cup history.rejected
  BY DEF Prepare, Admitted
<1>2. lock = s /\ HolderInv(s)
  BY <1>1, Holding DEF Inv
<1>3. r \in Server /\ r.step = "prepared" /\ r.key = k /\ r.failing = server[s].failing
  <2>1. server[s] \in Server
    BY DEF Inv, TypeOK
  <2> QED BY <2>1 DEF Server, Steps
<1> HIDE DEF r
<1>4. /\ server' \in [Servers -> Server]
      /\ server'[s] = r
      /\ \A t \in Servers \ {s} : server'[t] = server[t]
  BY <1>1, <1>3, ServerType DEF Inv
<1>5. answer' \in [Keys -> {"none", "accepted", "refused", "failed"}] /\ AnswersInv' /\ answer'[k] = "none"
  <2>1. history' = history /\ AnswersInv
    BY <1>1 DEF store, Inv
  <2>2. answer' \in [Keys -> {"none", "accepted", "refused", "failed"}] /\ AnswersInv'
    BY <1>1, <2>1, Answering DEF Inv, AnswersInv
  <2> QED BY <1>1, <2>2 DEF Told, Inv, TypeOK
<1>6. HolderInv(s)'
  BY <1>1, <1>2, <1>3, <1>4, <1>5 DEF HolderInv, Writes, store
<1>7. LockInv'
  BY <1>1, <1>2, <1>4, <1>6, OthersIdle DEF Inv
<1> QED BY <1>1, <1>4, <1>5, <1>7, StoreStays DEF Inv, TypeOK, Same, store

LEMMA ComposeStep ==
    ASSUME Inv, NEW k \in Keys, Compose(k)
    PROVE  Inv'
<1>1. base' \in [Keys -> SUBSET SUBSET Keys]
  <2>1. {history.accepted} \in SUBSET SUBSET Keys
    BY DEF Inv, TypeOK, History
  <2> QED BY <2>1 DEF Compose, Inv, TypeOK
<1>2. UNCHANGED <<store, lock, server, answer, touched, faults, crashes, outside>>
  BY DEF Compose
<1>3. LockInv'
  BY <1>2 DEF Inv, LockInv, HolderInv, store, After, Restored, Committed
<1> QED BY <1>1, <1>2, <1>3, StoreStays DEF Inv, TypeOK, store, AnswersInv, AnswersAreTrue

\* The catch of commit, where the operation that failed left the store alone.
LEMMA CatchStep ==
    ASSUME Inv, NEW s \in Servers, Catch(s), UNCHANGED <<store, lock, answer>>,
           server[s].step = "accepted" \/ server[s].step \in Writes,
           UNCHANGED <<base, touched, crashes, outside>>, faults' \in 0..MaxFaults
    PROVE  Inv'
<1>1. lock = s /\ HolderInv(s)
  BY Holding DEF Inv, Writes
<1>2. server[s].key \in Keys /\ answer[server[s].key] = "none"
  <2>1. CASE server[s].step = "accepted"
    BY <1>1, <2>1 DEF HolderInv, Inv, TypeOK, History
  <2>2. CASE server[s].step \in Writes
    BY <1>1, <2>2 DEF HolderInv
  <2> QED BY <2>1, <2>2
<1>3. /\ server' \in [Servers -> Server]
      /\ server'[s].step = "open" /\ server'[s].key = server[s].key /\ server'[s].failing
      /\ \A t \in Servers \ {s} : server'[t] = server[t]
  BY Catching DEF Inv
<1>4. HolderInv(s)'
  BY <1>2, <1>3 DEF HolderInv, Writes
<1>5. LockInv'
  BY <1>1, <1>3, <1>4, OthersIdle DEF Inv
<1> QED BY <1>3, <1>5, StoreStays DEF Inv, TypeOK, store, AnswersInv, AnswersAreTrue
-----------------------------------------------------------------------------
(* Steps of recovery and commit that write.                                 *)

\* What a journal says about its files, seen from the head.
LEMMA JournalFacts ==
    ASSUME Inv, journal # NoJournal
    PROVE  /\ journal \in Journal
           /\ journal.files = Changed(journal.key, journal.before)
           /\ journal.files \subseteq Files
           /\ \A f \in journal.files : After(f) \in Contents /\ Restored(f) \in Contents
           /\ \A f \in Files : history.head[f] =
                IF f \in journal.files THEN Restored(f) ELSE journal.before[f]
<1>1. journal \in Journal /\ journal.files = Changed(journal.key, journal.before)
  BY JournalType DEF Inv, JournalInv
<1>2. journal.key \in Keys /\ journal.before \in Trees /\ journal.files \subseteq Files
  BY <1>1 DEF Journal
<1>3. \A f \in journal.files : After(f) \in Contents /\ journal.before[f] \in Contents
  BY <1>1, <1>2, EditAssumption DEF After, Changed, Trees
<1>4. \A f \in Files : history.head[f] =
        IF f \in journal.files THEN Restored(f) ELSE journal.before[f]
  BY <1>1, <1>2 DEF Inv, JournalInv, Apply, Restored, After
<1> QED BY <1>1, <1>2, <1>3, <1>4 DEF Restored

\* A file of the pending commit gets the content from before it or after it.
LEMMA FileWritten ==
    ASSUME Inv, journal # NoJournal, NEW f \in journal.files, NEW c \in {journal.before[f], After(f)},
           disk' = [disk EXCEPT ![f] = c], UNCHANGED <<history, journal, touched>>
    PROVE  disk' \in Trees /\ JournalInv' /\ FilesInv'
<1>1. journal \in Journal /\ f \in Files /\ After(f) \in Contents
  BY JournalFacts
<1>2. c \in Contents
  BY <1>1 DEF Journal, Trees
<1>3. disk' \in Trees
  BY <1>1, <1>2 DEF Inv, TypeOK, Trees
<1>4. JournalInv'
  BY DEF Inv, JournalInv, Committed
<1>5. FilesInv'
  BY <1>1 DEF Inv, FilesInv, After, TypeOK, Trees
<1> QED BY <1>3, <1>4, <1>5

LEMMA RestoreFileStep ==
    ASSUME Inv, NEW s \in Servers, NEW f \in Files, RestoreFile(s, f)
    PROVE  Inv'
<1>1. /\ server[s].step = "restore" /\ f \in server[s].todo
      /\ disk' = [disk EXCEPT ![f] = Restored(f)]
      /\ Begin(s, "restore", server[s].todo \ {f})
      /\ UNCHANGED <<history, journal, lock, answer>> /\ Same
  BY DEF RestoreFile
<1>2. lock = s /\ HolderInv(s)
  BY <1>1, Holding DEF Inv
<1>3. journal # NoJournal /\ server[s].todo \subseteq journal.files
  BY <1>1, <1>2 DEF HolderInv
<1>4. server[s].todo \ {f} \in SUBSET Files
  BY <1>3, JournalFacts
<1>5. /\ server' \in [Servers -> Server]
      /\ server'[s].step = "restore" /\ server'[s].key = server[s].key
      /\ server'[s].todo = server[s].todo \ {f} /\ server'[s].failing = server[s].failing
      /\ \A t \in Servers \ {s} : server'[t] = server[t]
  BY <1>1, <1>4, Beginning DEF Inv, Steps
<1>6. disk' \in Trees /\ JournalInv' /\ FilesInv'
  BY <1>1, <1>3, FileWritten DEF Restored, Same
<1>7. HolderInv(s)'
  <2>1. \A g \in journal.files \ (server'[s].todo \cup touched) : disk'[g] = Restored(g)
    BY <1>1, <1>2, <1>4, <1>5 DEF HolderInv, Inv, TypeOK, Trees
  <2> QED BY <1>1, <1>2, <1>3, <1>5, <2>1 DEF HolderInv, Writes, Same, Restored, Committed, After
<1>8. LockInv'
  BY <1>1, <1>2, <1>5, <1>7, OthersIdle DEF Inv
<1> QED BY <1>1, <1>5, <1>6, <1>8 DEF Inv, TypeOK, Same, AnswersInv, AnswersAreTrue

LEMMA WriteFileStep ==
    ASSUME Inv, NEW s \in Servers, NEW f \in Files, WriteFile(s, f)
    PROVE  Inv'
<1> DEFINE step == IF server[s].todo = {f} THEN "written" ELSE "writing"
<1>1. /\ server[s].step = "writing" /\ f \in server[s].todo
      /\ disk' = [disk EXCEPT ![f] = After(f)]
      /\ Begin(s, step, server[s].todo \ {f})
      /\ UNCHANGED <<history, journal, lock, answer>> /\ Same
  BY DEF WriteFile
<1>2. lock = s /\ HolderInv(s)
  BY <1>1, Holding DEF Inv
<1>3. journal # NoJournal /\ server[s].todo \subseteq journal.files
  BY <1>1, <1>2 DEF HolderInv
<1>4. server[s].todo \ {f} \in SUBSET Files
  BY <1>3, JournalFacts
<1>5. step \in {"writing", "written"} /\ step \in Steps
  BY DEF Steps
<1> HIDE DEF step
<1>6. /\ server' \in [Servers -> Server]
      /\ server'[s].step = step /\ server'[s].key = server[s].key
      /\ server'[s].todo = server[s].todo \ {f} /\ server'[s].failing = server[s].failing
      /\ \A t \in Servers \ {s} : server'[t] = server[t]
  BY <1>1, <1>4, <1>5, Beginning DEF Inv
<1>7. disk' \in Trees /\ JournalInv' /\ FilesInv'
  BY <1>1, <1>3, FileWritten DEF Same
<1>8. HolderInv(s)'
  BY <1>1, <1>2, <1>3, <1>5, <1>6 DEF HolderInv, Writes
<1>9. LockInv'
  BY <1>1, <1>2, <1>6, <1>8, OthersIdle DEF Inv
<1> QED BY <1>1, <1>6, <1>7, <1>9 DEF Inv, TypeOK, Same, AnswersInv, AnswersAreTrue

\* The journal goes away when every file is as the head has it.
LEMMA JournalDropped ==
    ASSUME Inv, journal # NoJournal, journal' = NoJournal, UNCHANGED <<disk, history, touched>>,
           \A f \in journal.files \ touched : disk[f] = Restored(f)
    PROVE  JournalInv' /\ FilesInv'
<1>1. \A f \in Files \ touched : disk[f] = history.head[f]
  <2>1. TAKE f \in Files \ touched
  <2>2. CASE f \in journal.files
    BY <2>2, JournalFacts
  <2>3. CASE f \notin journal.files
    BY <2>3 DEF Inv, FilesInv
  <2> QED BY <2>2, <2>3
<1> QED BY <1>1 DEF JournalInv, FilesInv

LEMMA EndRecoveryStep ==
    ASSUME Inv, NEW s \in Servers, EndRecovery(s)
    PROVE  Inv'
<1>1. /\ server[s].step = "restore" /\ server[s].todo = {}
      /\ journal' = NoJournal /\ Goto(s, "open")
      /\ UNCHANGED <<disk, history, lock, answer>> /\ Same
  BY DEF EndRecovery
<1>2. lock = s /\ HolderInv(s)
  BY <1>1, Holding DEF Inv
<1>3. /\ server' \in [Servers -> Server]
      /\ server'[s].step = "open" /\ server'[s].key = server[s].key
      /\ server'[s].failing = server[s].failing
      /\ \A t \in Servers \ {s} : server'[t] = server[t]
  BY <1>1, Going DEF Inv, Steps
<1>4. JournalInv' /\ FilesInv'
  <2>1. journal # NoJournal /\ \A f \in journal.files \ touched : disk[f] = Restored(f)
    BY <1>1, <1>2 DEF HolderInv
  <2> QED BY <1>1, <2>1, JournalDropped DEF Same
<1>5. HolderInv(s)'
  BY <1>1, <1>2, <1>3 DEF HolderInv, Writes
<1>6. LockInv'
  BY <1>1, <1>2, <1>3, <1>5, OthersIdle DEF Inv
<1> QED BY <1>1, <1>3, <1>4, <1>6 DEF Inv, TypeOK, Same, AnswersInv, AnswersAreTrue

\* At the step before the journal goes the files are as the commit left them.
LEMMA AcceptedFacts ==
    ASSUME Inv, NEW s \in Servers, server[s].step = "accepted"
    PROVE  /\ lock = s /\ HolderInv(s)
           /\ server[s].key \in Keys /\ server[s].key \in history.accepted
           /\ answer[server[s].key] = "none"
           /\ journal # NoJournal
           /\ \A f \in journal.files \ touched : disk[f] = Restored(f)
<1>1. lock = s /\ HolderInv(s)
  BY Holding DEF Inv
<1>2. /\ journal # NoJournal /\ journal.key = server[s].key /\ journal.key \in history.accepted
      /\ answer[server[s].key] = "none"
  BY <1>1 DEF HolderInv
<1>3. \A f \in journal.files \ touched : disk[f] = After(f)
  BY <1>1 DEF HolderInv
<1>4. journal.key \in Keys
  BY <1>2, JournalFacts DEF Journal
<1> QED BY <1>1, <1>2, <1>3, <1>4 DEF Restored, Committed

LEMMA UnlinkJournalStep ==
    ASSUME Inv, NEW s \in Servers, UnlinkJournal(s)
    PROVE  Inv'
<1>1. /\ server[s].step = "accepted" /\ journal' = NoJournal
      /\ Told(server[s].key, "accepted") /\ Finish(s)
      /\ UNCHANGED <<disk, history>> /\ Same
  BY DEF UnlinkJournal
<1>2. /\ lock = s /\ server[s].key \in Keys /\ server[s].key \in history.accepted
      /\ journal # NoJournal
      /\ \A f \in journal.files \ touched : disk[f] = Restored(f)
  BY <1>1, AcceptedFacts
<1>3. server' \in [Servers -> Server] /\ lock' \in Servers \cup {None} /\ LockInv'
  BY <1>1, <1>2, Finished DEF Inv
<1>4. JournalInv' /\ FilesInv'
  BY <1>1, <1>2, JournalDropped DEF Same
<1>5. answer' \in [Keys -> {"none", "accepted", "refused", "failed"}] /\ AnswersInv'
  BY <1>1, <1>2, Answering DEF Inv, AnswersInv
<1> QED BY <1>1, <1>3, <1>4, <1>5 DEF Inv, TypeOK, Same

LEMMA RejectedStays ==
    ASSUME Inv, NEW k \in Keys, k \notin history.accepted, journal = NoJournal, Recorded(k),
           UNCHANGED <<disk, journal, touched>>
    PROVE  /\ history' \in History /\ JournalInv' /\ FilesInv'
           /\ history'.accepted = history.accepted /\ history'.head = history.head
           /\ history'.rejected = history.rejected \cup {k}
           /\ history'.accepted \cap history'.rejected = {}
<1>1. /\ history' \in History
      /\ history'.accepted = history.accepted /\ history'.head = history.head
      /\ history'.rejected = history.rejected \cup {k}
  BY DEF Recorded, Inv, TypeOK, History
<1> QED BY <1>1 DEF Inv, JournalInv, FilesInv, AnswersInv

LEMMA RejectStep ==
    ASSUME Inv, NEW s \in Servers, NEW k \in Keys, Reject(s, k)
    PROVE  Inv'
<1>1. /\ server[s].step = "leased" /\ k \notin history.accepted \cup history.rejected
      /\ Recorded(k) /\ Told(k, "refused") /\ Finish(s)
      /\ UNCHANGED <<disk, journal>> /\ Same
  BY DEF Reject, Admitted
<1>2. lock = s /\ journal = NoJournal
  BY <1>1, Holding DEF Inv, HolderInv
<1>3. server' \in [Servers -> Server] /\ lock' \in Servers \cup {None} /\ LockInv'
  BY <1>1, <1>2, Finished DEF Inv
<1>4. /\ history' \in History /\ JournalInv' /\ FilesInv'
      /\ history'.accepted = history.accepted
      /\ history'.accepted \cap history'.rejected = {}
  BY <1>1, <1>2, RejectedStays DEF Same
<1>5. answer' \in [Keys -> {"none", "accepted", "refused", "failed"}] /\ AnswersInv'
  BY <1>1, <1>4, Answering DEF Inv
<1> QED BY <1>1, <1>3, <1>4, <1>5 DEF Inv, TypeOK, Same

LEMMA RejectFailsStep ==
    ASSUME Inv, NEW s \in Servers, NEW k \in Keys, RejectFails(s, k)
    PROVE  Inv'
<1>1. /\ server[s].step = "leased" /\ k \notin history.accepted \cup history.rejected
      /\ Recorded(k) \/ UNCHANGED history
      /\ Told(k, "failed") /\ Finish(s)
      /\ UNCHANGED <<disk, journal>> /\ Fault
  BY DEF RejectFails, Admitted
<1>2. lock = s /\ journal = NoJournal
  BY <1>1, Holding DEF Inv, HolderInv
<1>3. server' \in [Servers -> Server] /\ lock' \in Servers \cup {None} /\ LockInv'
  BY <1>1, <1>2, Finished DEF Inv
<1>4. /\ history' \in History /\ JournalInv' /\ FilesInv'
      /\ history'.accepted = history.accepted
      /\ history'.accepted \cap history'.rejected = {}
  <2>1. CASE Recorded(k)
    BY <1>1, <1>2, <2>1, RejectedStays DEF Fault
  <2>2. CASE UNCHANGED history
    BY <1>1, <2>2, StoreStays DEF Fault, store, Inv, AnswersInv
  <2> QED BY <1>1, <2>1, <2>2
<1>5. answer' \in [Keys -> {"none", "accepted", "refused", "failed"}] /\ AnswersInv'
  BY <1>1, <1>4, Answering DEF Inv
<1>6. faults' \in 0..MaxFaults
  BY <1>1, BoundAssumption DEF Fault, Inv, TypeOK
<1> QED BY <1>1, <1>3, <1>4, <1>5, <1>6 DEF Inv, TypeOK, Fault

\* The journal of a prepared edit is about the head.
LEMMA Journaled ==
    ASSUME Inv, NEW s \in Servers, server[s].step = "prepared", Current(server[s].key),
           journal' = PendingOf(s), UNCHANGED <<disk, history, touched>>
    PROVE  /\ journal' \in Journal /\ journal'.key = server[s].key
           /\ JournalInv' /\ FilesInv'
<1>1. server[s].key \in Keys /\ server[s].key \notin history.accepted \cup history.rejected
  BY Holding DEF Inv, HolderInv
<1>2. history.head \in Trees /\ disk = history.head
  BY DEF Inv, TypeOK, History, Current
<1>3. /\ journal'.key = server[s].key /\ journal'.before = history.head
      /\ journal'.files = Changed(server[s].key, history.head)
  BY DEF PendingOf
<1>4. Changed(server[s].key, history.head) \subseteq Files
  BY <1>1, <1>2, ApplyType
<1>5. journal' \in Journal
  BY <1>1, <1>2, <1>4 DEF PendingOf, Journal
<1>6. JournalInv'
  BY <1>1, <1>3 DEF JournalInv, Committed
<1>7. FilesInv'
  BY <1>2, <1>3 DEF FilesInv
<1> QED BY <1>3, <1>5, <1>6, <1>7

LEMMA WriteJournalStep ==
    ASSUME Inv, NEW s \in Servers, WriteJournal(s)
    PROVE  Inv'
<1>1. /\ server[s].step = "prepared" /\ Current(server[s].key)
      /\ journal' = PendingOf(s) /\ Goto(s, "journaled")
      /\ UNCHANGED <<disk, history, lock, answer>> /\ Same
  BY DEF WriteJournal
<1>2. lock = s /\ HolderInv(s)
  BY <1>1, Holding DEF Inv
<1>3. /\ server' \in [Servers -> Server]
      /\ server'[s].step = "journaled" /\ server'[s].key = server[s].key
      /\ server'[s].failing = server[s].failing
      /\ \A t \in Servers \ {s} : server'[t] = server[t]
  BY <1>1, Going DEF Inv, Steps
<1>4. journal' \in Journal /\ journal'.key = server[s].key /\ JournalInv' /\ FilesInv'
  BY <1>1, Journaled DEF Same
<1>5. journal' # NoJournal
  <2>1. journal'.key \in Keys /\ None \notin Keys
    BY <1>4, NoneAssumption DEF Journal, None
  <2> QED BY <2>1 DEF NoJournal
<1>6. HolderInv(s)'
  BY <1>1, <1>2, <1>3, <1>4, <1>5 DEF HolderInv, Writes
<1>7. LockInv'
  BY <1>1, <1>2, <1>3, <1>6, OthersIdle DEF Inv
<1> QED BY <1>1, <1>3, <1>4, <1>7 DEF Inv, TypeOK, Same, AnswersInv, AnswersAreTrue

LEMMA JournalFailsStep ==
    ASSUME Inv, NEW s \in Servers, JournalFails(s)
    PROVE  Inv'
<1>1. /\ server[s].step = "prepared" /\ Current(server[s].key)
      /\ journal' \in {NoJournal, PendingOf(s)}
      /\ Told(server[s].key, "failed") /\ Finish(s)
      /\ UNCHANGED <<disk, history>> /\ Fault
  BY DEF JournalFails
<1>2. lock = s /\ journal = NoJournal /\ server[s].key \in Keys
  BY <1>1, Holding DEF Inv, HolderInv
<1>3. server' \in [Servers -> Server] /\ lock' \in Servers \cup {None} /\ LockInv'
  BY <1>1, <1>2, Finished DEF Inv
<1>4. journal' \in Journal \cup {NoJournal} /\ JournalInv' /\ FilesInv'
  <2>1. CASE journal' = NoJournal
    BY <1>1, <1>2, <2>1, StoreStays DEF store, Fault
  <2>2. CASE journal' = PendingOf(s)
    BY <1>1, <2>2, Journaled DEF Fault
  <2> QED BY <1>1, <2>1, <2>2
<1>5. answer' \in [Keys -> {"none", "accepted", "refused", "failed"}] /\ AnswersInv'
  BY <1>1, <1>2, Answering DEF Inv, AnswersInv
<1>6. faults' \in 0..MaxFaults
  BY <1>1, BoundAssumption DEF Fault, Inv, TypeOK
<1> QED BY <1>1, <1>3, <1>4, <1>5, <1>6 DEF Inv, TypeOK, Fault

\* The commit point: the head becomes what the journal leads to.
LEMMA CommitPoint ==
    ASSUME Inv, NEW s \in Servers, server[s].step = "checked", Accepted(s),
           UNCHANGED <<disk, journal, touched, answer>>
    PROVE  /\ history' \in History /\ JournalInv' /\ FilesInv' /\ AnswersInv'
           /\ history'.accepted = history.accepted \cup {server[s].key}
           /\ history'.head = Apply(journal.key, history.head)
           /\ history'.rejected = history.rejected
           /\ \A f \in journal.files \ touched : disk[f] = After(f)
           /\ journal # NoJournal /\ journal.key = server[s].key
           /\ journal.files = Changed(journal.key, history.head)
           /\ server[s].key \in Keys /\ lock = s
           /\ server[s].key \notin history.accepted \cup history.rejected
           /\ answer[server[s].key] = "none"
<1>1. lock = s /\ HolderInv(s)
  BY Holding DEF Inv
<1>2. /\ journal # NoJournal /\ journal.key = server[s].key
      /\ server[s].key \in Keys
      /\ server[s].key \notin history.accepted \cup history.rejected
      /\ answer[server[s].key] = "none"
      /\ \A f \in journal.files \ touched : disk[f] = After(f)
  BY <1>1 DEF HolderInv, Writes
<1>3. /\ history.head = journal.before
      /\ journal.files = Changed(journal.key, journal.before)
  BY <1>2 DEF Inv, JournalInv, Committed
<1>4. history.head \in Trees
  BY DEF Inv, TypeOK, History
<1>5. /\ history'.head = Apply(journal.key, history.head)
      /\ history'.accepted = history.accepted \cup {server[s].key}
      /\ history'.rejected = history.rejected
  BY <1>2 DEF Accepted, Inv, TypeOK, History
<1>6. history' \in History
  <2>1. Apply(server[s].key, history.head) \in Trees
    BY <1>2, <1>4, ApplyType
  <2> QED BY <1>2, <2>1 DEF Accepted, Inv, TypeOK, History
<1>7. JournalInv'
  BY <1>2, <1>3, <1>5 DEF JournalInv, Committed
<1>8. FilesInv'
  BY <1>2, <1>3, <1>5 DEF Inv, FilesInv, Apply, After
<1>9. AnswersInv'
  BY <1>2, <1>5 DEF Inv, AnswersInv, AnswersAreTrue
<1> QED BY <1>1, <1>2, <1>3, <1>5, <1>6, <1>7, <1>8, <1>9

LEMMA RenameHistoryStep ==
    ASSUME Inv, NEW s \in Servers, RenameHistory(s)
    PROVE  Inv'
<1>1. /\ server[s].step = "checked" /\ Accepted(s) /\ Goto(s, "accepted")
      /\ UNCHANGED <<disk, journal, lock, answer>> /\ Same
  BY DEF RenameHistory
<1>2. /\ history' \in History /\ JournalInv' /\ FilesInv' /\ AnswersInv'
      /\ history'.accepted = history.accepted \cup {server[s].key}
      /\ \A f \in journal.files \ touched : disk[f] = After(f)
      /\ journal # NoJournal /\ journal.key = server[s].key /\ lock = s
      /\ answer[server[s].key] = "none"
  BY <1>1, CommitPoint DEF Same
<1>3. /\ server' \in [Servers -> Server]
      /\ server'[s].step = "accepted" /\ server'[s].key = server[s].key
      /\ server'[s].failing = server[s].failing
      /\ \A t \in Servers \ {s} : server'[t] = server[t]
  BY <1>1, Going DEF Inv, Steps
<1>4. ~server[s].failing
  BY <1>1, Holding DEF Inv, HolderInv
<1>5. HolderInv(s)'
  BY <1>1, <1>2, <1>3, <1>4 DEF HolderInv, Writes, After, Same
<1>6. LockInv'
  BY <1>1, <1>2, <1>3, <1>5, OthersIdle DEF Inv
<1> QED BY <1>1, <1>2, <1>3, <1>6 DEF Inv, TypeOK, Same

LEMMA CommitFailsStep ==
    ASSUME Inv, NEW s \in Servers, CommitFails(s)
    PROVE  Inv'
<1>1. Catch(s) /\ UNCHANGED <<lock, answer>> /\ Fault
  BY DEF CommitFails
<1>2. faults' \in 0..MaxFaults /\ UNCHANGED <<base, touched, crashes, outside>>
  BY <1>1, BoundAssumption DEF Fault, Inv, TypeOK
<1>3. CASE UNCHANGED store
  <2>1. server[s].step = "accepted" \/ server[s].step \in Writes
    BY DEF CommitFails, Writes
  <2> QED BY <1>1, <1>2, <1>3, <2>1, CatchStep DEF store
<1>4. ASSUME ~UNCHANGED store
      PROVE  /\ lock = s /\ server[s].key \in Keys /\ answer[server[s].key] = "none"
             /\ disk' \in Trees /\ history' \in History /\ journal' \in Journal \cup {NoJournal}
             /\ JournalInv' /\ FilesInv' /\ AnswersInv'
  <2>1. CASE server[s].step = "checked" /\ Accepted(s) /\ UNCHANGED <<disk, journal>>
    BY <1>1, <1>2, <2>1, CommitPoint DEF Inv, TypeOK
  <2>2. CASE server[s].step = "accepted" /\ journal' = NoJournal /\ UNCHANGED <<disk, history>>
    <3>1. /\ lock = s /\ server[s].key \in Keys /\ journal # NoJournal
          /\ answer[server[s].key] = "none"
          /\ \A f \in journal.files \ touched : disk[f] = Restored(f)
      BY <2>2, AcceptedFacts
    <3>2. JournalInv' /\ FilesInv'
      BY <1>2, <2>2, <3>1, JournalDropped
    <3> QED BY <1>1, <2>2, <3>1, <3>2 DEF Inv, TypeOK, AnswersInv, AnswersAreTrue
  <2> QED BY <1>4, <2>1, <2>2 DEF CommitFails
<1>5. ASSUME ~UNCHANGED store
      PROVE  Inv'
  <2>1. /\ server' \in [Servers -> Server]
        /\ server'[s].step = "open" /\ server'[s].key = server[s].key /\ server'[s].failing
        /\ \A t \in Servers \ {s} : server'[t] = server[t]
    BY <1>1, Catching DEF Inv
  <2>2. HolderInv(s)'
    BY <1>1, <1>4, <1>5, <2>1 DEF HolderInv, Writes
  <2>3. LockInv'
    BY <1>1, <1>4, <1>5, <2>1, <2>2, OthersIdle DEF Inv
  <2> QED BY <1>1, <1>2, <1>4, <1>5, <2>1, <2>3 DEF Inv, TypeOK
<1> QED BY <1>3, <1>5
-----------------------------------------------------------------------------
(* The rest of the world.                                                   *)

LEMMA CrashStep ==
    ASSUME Inv, NEW s \in Servers, Crash(s)
    PROVE  Inv'
<1>1. /\ server' = [server EXCEPT ![s] = Down]
      /\ lock' = IF lock = s THEN None ELSE lock
      /\ crashes < MaxCrashes /\ crashes' = crashes + 1
      /\ UNCHANGED <<store, base, answer, touched, faults, outside>>
  BY DEF Crash
<1>2. Down \in Server /\ Down.step = "down" /\ ~Down.failing
  BY DEF Down, Server, Steps
<1>3. /\ server' \in [Servers -> Server]
      /\ server'[s] = Down
      /\ \A t \in Servers \ {s} : server'[t] = server[t]
  <2> HIDE DEF Down
  <2> QED BY <1>1, <1>2, ServerType DEF Inv
<1>4. None \notin Servers
  BY NoneAssumption DEF None
<1>5. LockInv'
  <2>1. CASE lock = s
    BY <1>1, <1>2, <1>3, <2>1, OthersIdle DEF Inv
  <2>2. CASE lock # s
    <3> SUFFICES ASSUME NEW t \in Servers
                 PROVE  \/ server'[t].step \in {"down", "idle"} /\ ~server'[t].failing /\ lock' # t
                        \/ lock' = t /\ HolderInv(t)'
      BY DEF LockInv
    <3>1. CASE t = s
      BY <1>1, <1>2, <1>3, <2>2, <3>1
    <3>2. CASE t # s
      <4>1. server'[t] = server[t] /\ lock' = lock
        BY <1>1, <1>3, <2>2, <3>2
      <4>2. HolderInv(t) => HolderInv(t)'
        BY <1>1, <4>1 DEF HolderInv, store, After, Restored, Committed
      <4> QED BY <4>1, <4>2 DEF Inv, LockInv
    <3> QED BY <3>1, <3>2
  <2> QED BY <2>1, <2>2
<1>6. crashes' \in 0..MaxCrashes
  BY <1>1, BoundAssumption DEF Inv, TypeOK
<1>7. lock' \in Servers \cup {None}
  BY <1>1 DEF Inv, TypeOK
<1> QED BY <1>1, <1>3, <1>5, <1>6, <1>7, StoreStays DEF Inv, TypeOK, store, AnswersInv, AnswersAreTrue

LEMMA OutsideStep ==
    ASSUME Inv, NEW f \in Files, NEW c \in Contents, WriteFromOutside(f, c)
    PROVE  Inv'
<1>1. /\ outside < MaxOutside /\ outside' = outside + 1
      /\ touched' = touched \cup {f} /\ disk' = [disk EXCEPT ![f] = c]
      /\ UNCHANGED <<history, journal, lock, server, base, answer, faults, crashes>>
  BY DEF WriteFromOutside
<1>2. disk' \in Trees /\ touched' \in SUBSET Files /\ outside' \in 0..MaxOutside
  BY <1>1, BoundAssumption DEF Inv, TypeOK, Trees
<1>3. \A g \in Files \ touched' : g \notin touched /\ disk'[g] = disk[g]
  BY <1>1 DEF Inv, TypeOK, Trees
<1>4. JournalInv' /\ FilesInv'
  BY <1>1, <1>3 DEF Inv, JournalInv, FilesInv, Committed, After
<1>5. ASSUME NEW s \in Servers, HolderInv(s)
      PROVE  HolderInv(s)'
  <2>1. journal # NoJournal => journal.files \subseteq Files
    BY JournalFacts
  <2> QED BY <1>1, <1>3, <1>5, <2>1 DEF HolderInv, Writes, After, Restored, Committed
<1>6. LockInv'
  BY <1>1, <1>5 DEF Inv, LockInv
<1> QED BY <1>1, <1>2, <1>4, <1>6 DEF Inv, TypeOK, AnswersInv, AnswersAreTrue

LEMMA InitInv == Init => Inv
<1> SUFFICES ASSUME Init PROVE Inv
  OBVIOUS
<1>1. Down \in Server /\ Down.step = "down" /\ ~Down.failing
  BY DEF Down, Server, Steps
<1>2. None \notin Servers
  BY NoneAssumption DEF None
<1> HIDE DEF Down
<1>3. TypeOK
  BY <1>1, EditAssumption, BoundAssumption DEF Init, TypeOK, History, NoBase
<1>4. LockInv
  BY <1>1, <1>2 DEF Init, LockInv
<1> QED BY <1>3, <1>4 DEF Init, Inv, JournalInv, FilesInv, AnswersInv, AnswersAreTrue

\* One step per action of Next.
LEMMA NextInv == Inv /\ [Next]_vars => Inv'
<1> SUFFICES ASSUME Inv, [Next]_vars PROVE Inv'
  OBVIOUS
<1>1. CASE UNCHANGED vars
  <2>1. LockInv'
    BY <1>1 DEF vars, store, Inv, LockInv, HolderInv, After, Restored, Committed
  <2> QED BY <1>1, <2>1, StoreStays DEF vars, store, Inv, TypeOK, AnswersInv, AnswersAreTrue
<1>2. ASSUME NEW s \in Servers, Recovery(s)
      PROVE  Inv'
  <2>1. ASSUME RecoveryRefuses(s) PROVE Inv'
    BY <2>1, QuarantineStep DEF RecoveryRefuses, Same, Inv, TypeOK
  <2> QED BY <1>2, <2>1, TakeLeaseStep, NothingToRecoverStep, BeginRecoveryStep, RestoreFileStep,
             EndRecoveryStep, ResolveStep DEF Recovery
<1>3. ASSUME NEW s \in Servers, Request(s)
      PROVE  Inv'
  BY <1>3, GiveBackStep, ReplayStep, RefuseStep, RejectStep, PrepareStep DEF Request
<1>4. ASSUME NEW s \in Servers, Commit(s)
      PROVE  Inv'
  <2>1. ASSUME CommitRefuses(s) PROVE Inv'
    BY <2>1, CatchStep DEF CommitRefuses, Same, Inv, TypeOK, Writes
  <2> QED BY <1>4, <2>1, ChangedMeanwhileStep, WriteJournalStep, BeginWritesStep, WriteFileStep,
             CheckTreeStep, RenameHistoryStep, UnlinkJournalStep DEF Commit
<1>5. ASSUME NEW s \in Servers, Failure(s)
      PROVE  Inv'
  <2>1. ASSUME RecoveryFails(s) PROVE Inv'
    <3>1. faults' \in 0..MaxFaults
      BY <2>1, BoundAssumption DEF RecoveryFails, Fault, Inv, TypeOK
    <3> QED BY <2>1, <3>1, QuarantineStep DEF RecoveryFails, Fault
  <2> QED BY <1>5, <2>1, JournalFailsStep, CommitFailsStep, CrashStep, RejectFailsStep DEF Failure
<1> QED BY <1>1, <1>2, <1>3, <1>4, <1>5, ComposeStep, OutsideStep DEF Next

LEMMA Invariance == Spec => []Inv
BY InitInv, NextInv, PTL DEF Spec
-----------------------------------------------------------------------------
(* Results.                                                                 *)

\* Every variable keeps its type, for any files, edits and servers.
THEOREM TypeCorrect == Spec => []TypeOK
<1>1. Inv => TypeOK
  BY DEF Inv
<1> QED BY <1>1, Invariance, PTL

\* With no commit pending, the files nobody wrote from outside are the head's.
THEOREM SourceIsAccepted == Spec => []SourceMatchesHead
<1>1. Inv => SourceMatchesHead
  BY DEF Inv, FilesInv, SourceMatchesHead
<1> QED BY <1>1, Invariance, PTL

\* What a client is told about its edit is what the history says.
THEOREM AnswersAreRight == Spec => []AnswersAreTrue
<1>1. Inv => AnswersAreTrue
  BY DEF Inv, AnswersInv
<1> QED BY <1>1, Invariance, PTL

\* Nobody who was told accepted is ever told something else about that edit.
THEOREM AnswersNeverChange == Spec => AnswersStand
<1> DEFINE Stands == \A k \in Keys : answer[k] = "accepted" => answer'[k] = "accepted"
<1>1. Inv /\ [Next]_vars => [Stands]_vars
  <2> SUFFICES ASSUME Inv, Next PROVE Stands
    BY DEF vars
  <2>1. ASSUME NEW k \in Keys, NEW what \in {"none", "refused", "failed"},
               Told(k, what), answer[k] # "accepted"
        PROVE  Stands
    BY <2>1 DEF Told, Inv, TypeOK
  <2>2. ASSUME NEW k \in Keys, Told(k, "accepted")
        PROVE  Stands
    BY <2>2 DEF Told, Inv, TypeOK
  <2>3. \A k \in Keys : answer[k] = "accepted" => k \in history.accepted
    BY DEF Inv, AnswersInv, AnswersAreTrue
  <2>4. ASSUME NEW s \in Servers, server[s].step = "prepared"
        PROVE  server[s].key \in Keys /\ answer[server[s].key] # "accepted"
    BY <2>4, Holding DEF Inv, HolderInv
  <2>5. ASSUME NEW s \in Servers, server[s].failing
        PROVE  server[s].key \in Keys /\ answer[server[s].key] # "accepted"
    BY <2>5 DEF Inv, LockInv, HolderInv
  <2>6. ASSUME NEW s \in Servers, Quarantine(s)
        PROVE  Stands
    BY <2>1, <2>5, <2>6 DEF Quarantine
  <2>7. ASSUME NEW s \in Servers, Recovery(s)
        PROVE  Stands
    <3>1. ASSUME Resolve(s) PROVE Stands
      BY <2>1, <2>2, <2>5, <3>1 DEF Resolve
    <3> QED BY <2>6, <2>7, <3>1 DEF Recovery, TakeLease, NothingToRecover, BeginRecovery,
               RestoreFile, EndRecovery, RecoveryRefuses
  <2>8. ASSUME NEW s \in Servers, Request(s)
        PROVE  Stands
    <3>1. ASSUME NEW k \in Keys, Replay(s, k) PROVE Stands
      BY <2>1, <2>2, <2>3, <3>1 DEF Replay
    <3>2. ASSUME NEW k \in Keys, Refuse(s, k) \/ Reject(s, k) \/ Prepare(s, k)
          PROVE  Stands
      BY <2>1, <2>3, <3>2 DEF Refuse, Reject, Prepare, Admitted
    <3> QED BY <2>8, <3>1, <3>2 DEF Request, GiveBack
  <2>9. ASSUME NEW s \in Servers, Commit(s)
        PROVE  Stands
    <3>1. ASSUME ChangedMeanwhile(s) PROVE Stands
      BY <2>1, <2>4, <3>1 DEF ChangedMeanwhile
    <3>2. ASSUME UnlinkJournal(s) PROVE Stands
      BY <2>2, <3>2, AcceptedFacts DEF UnlinkJournal
    <3> QED BY <2>9, <3>1, <3>2 DEF Commit, WriteJournal, BeginWrites, WriteFile, CheckTree,
               RenameHistory, CommitRefuses
  <2>10. ASSUME NEW s \in Servers, Failure(s)
         PROVE  Stands
    <3>1. ASSUME JournalFails(s) PROVE Stands
      BY <2>1, <2>4, <3>1 DEF JournalFails
    <3>2. ASSUME NEW k \in Keys, RejectFails(s, k) PROVE Stands
      BY <2>1, <2>3, <3>2 DEF RejectFails, Admitted
    <3> QED BY <2>6, <2>10, <3>1, <3>2 DEF Failure, RecoveryFails, CommitFails, Crash
  <2> QED BY <2>7, <2>8, <2>9, <2>10 DEF Next, Compose, WriteFromOutside
<1> QED BY <1>1, Invariance, PTL DEF Spec, AnswersStand

\* A source changed from outside is neither written over nor committed upon.
THEOREM OutsideEditsStopCommits == Spec => OutsideEditStopsCommits
<1> DEFINE Stopped == journal = NoJournal /\ disk # history.head /\ outside' = outside
                        => disk' = disk /\ journal' = NoJournal
<1>1. Inv /\ [Next]_vars => [Stopped]_vars
  <2> SUFFICES ASSUME Inv, Next, journal = NoJournal, disk # history.head, outside' = outside
               PROVE  disk' = disk /\ journal' = NoJournal
    BY DEF vars
  <2>1. ASSUME NEW s \in Servers
        PROVE  /\ server[s].step \notin {"restore", "accepted"} \cup Writes
               /\ ~Current(server[s].key)
    BY Holding DEF Inv, HolderInv, Current, Writes
  <2>2. ASSUME NEW s \in Servers, Recovery(s)
        PROVE  disk' = disk /\ journal' = NoJournal
    BY <2>1, <2>2 DEF Recovery, TakeLease, NothingToRecover, BeginRecovery, RestoreFile,
       EndRecovery, RecoveryRefuses, Quarantine, Resolve, store
  <2>3. ASSUME NEW s \in Servers, Request(s)
        PROVE  disk' = disk /\ journal' = NoJournal
    BY <2>3 DEF Request, GiveBack, Replay, Refuse, Reject, Prepare, store
  <2>4. ASSUME NEW s \in Servers, Commit(s)
        PROVE  disk' = disk /\ journal' = NoJournal
    BY <2>1, <2>4 DEF Commit, ChangedMeanwhile, WriteJournal, BeginWrites, WriteFile, CheckTree,
       RenameHistory, UnlinkJournal, CommitRefuses, Writes, store
  <2>5. ASSUME NEW s \in Servers, Failure(s)
        PROVE  disk' = disk /\ journal' = NoJournal
    BY <2>1, <2>5 DEF Failure, RecoveryFails, Quarantine, JournalFails, CommitFails, Crash,
       RejectFails, Writes, store
  <2>6. ASSUME NEW f \in Files, NEW c \in Contents, WriteFromOutside(f, c)
        PROVE  FALSE
    BY <2>6 DEF WriteFromOutside, Inv, TypeOK
  <2> QED BY <2>2, <2>3, <2>4, <2>5, <2>6 DEF Next, Compose, store
<1> QED BY <1>1, Invariance, PTL DEF Spec, OutsideEditStopsCommits

(* Refinement: the view of the files that hides a commit in progress.       *)

LEMMA ViewType == Inv => View \in Trees
<1> SUFFICES ASSUME Inv PROVE View \in Trees
  OBVIOUS
<1>1. ASSUME NEW f \in Files, journal # NoJournal, f \in journal.files
      PROVE  Restored(f) \in Contents
  BY <1>1, JournalFacts
<1> QED BY <1>1 DEF View, Trees, Inv, TypeOK

LEMMA NextViewType == Inv' => View' \in Trees
<1>1. (Inv => View \in Trees)'
  BY ViewType, PTL
<1> QED BY <1>1 DEF Trees

LEMMA StoreStutters ==
    ASSUME UNCHANGED <<store, touched>>
    PROVE  UNCHANGED Source!vars
BY DEF store, Source!vars, View, Restored, After, Committed

\* While a journal is there its files are seen through it.
LEMMA WritesStutter ==
    ASSUME Inv, journal # NoJournal, NEW f \in journal.files, NEW c,
           disk' = [disk EXCEPT ![f] = c], UNCHANGED <<history, journal, touched>>
    PROVE  UNCHANGED Source!vars
<1>1. \A g \in Files \ {f} : disk'[g] = disk[g]
  BY DEF Inv, TypeOK, Trees
<1>2. View' = View
  BY <1>1 DEF View, Restored, After, Committed
<1> QED BY <1>2 DEF Source!vars

LEMMA JournalingStutters ==
    ASSUME Inv, NEW s \in Servers, server[s].step = "prepared", Current(server[s].key),
           journal' = PendingOf(s), UNCHANGED <<disk, history, touched>>
    PROVE  UNCHANGED Source!vars
<1>1. journal = NoJournal /\ server[s].key \notin history.accepted
  BY Holding DEF Inv, HolderInv
<1>2. journal'.before = disk /\ journal'.key = server[s].key
  BY DEF PendingOf, Current
<1>3. \A f \in Files : View'[f] = View[f]
  BY <1>1, <1>2 DEF View, Restored, Committed
<1>4. View' = View
  BY <1>3 DEF View
<1> QED BY <1>4 DEF Source!vars

LEMMA DroppingIsOutside ==
    ASSUME Inv, Inv', journal # NoJournal, journal' = NoJournal, UNCHANGED <<disk, history, touched>>,
           \A f \in journal.files \ touched : disk[f] = Restored(f)
    PROVE  Source!Outside
<1>1. View' \in Trees /\ touched' \in SUBSET Files
  BY NextViewType DEF Inv, TypeOK
<1>2. \A f \in Files \ touched' : View'[f] = View[f]
  BY DEF View
<1> QED BY <1>1, <1>2 DEF Source!Outside, Source!Trees, Trees

LEMMA CommitIsAccept ==
    ASSUME Inv, NEW s \in Servers, server[s].step = "checked", Accepted(s),
           UNCHANGED <<disk, journal, touched, answer>>
    PROVE  Source!Accept(server[s].key)
<1> DEFINE k == server[s].key
<1>1. /\ history'.accepted = history.accepted \cup {k}
      /\ history'.head = Apply(k, history.head)
      /\ history'.rejected = history.rejected
      /\ journal # NoJournal /\ journal.key = k
      /\ journal.files = Changed(k, history.head)
      /\ k \notin history.accepted \cup history.rejected
  BY CommitPoint
<1>2. View' = [f \in Files |-> IF f \in Changed(k, history.head) THEN Edit[k][f] ELSE View[f]]
  BY <1>1 DEF View, Restored, Committed, After
<1> HIDE DEF k
<1>3. history'.head = Source!Apply(k, history.head, history.head)
  BY <1>1 DEF Apply, Changed, Source!Apply, Source!Changed
<1>4. View' = Source!Apply(k, history.head, View)
  BY <1>2 DEF Changed, Source!Apply, Source!Changed
<1>5. Source!Accept(k)
  BY <1>1, <1>3, <1>4 DEF Source!Accept
<1> QED BY <1>5 DEF k

LEMMA RecordingIsReject ==
    ASSUME Inv, NEW s \in Servers, server[s].step = "leased", NEW k \in Keys,
           k \notin history.accepted \cup history.rejected, Recorded(k),
           UNCHANGED <<disk, journal, touched>>
    PROVE  Source!Reject(k)
<1>1. journal = NoJournal
  BY Holding DEF Inv, HolderInv
<1>2. /\ history'.accepted = history.accepted /\ history'.head = history.head
      /\ history'.rejected = history.rejected \cup {k}
  BY <1>1, RejectedStays
<1>3. View' = View
  BY <1>1 DEF View
<1> QED BY <1>2, <1>3 DEF Source!Reject

LEMMA OutsideIsOutside ==
    ASSUME Inv, Inv', NEW f \in Files, NEW c \in Contents, WriteFromOutside(f, c)
    PROVE  Source!Outside
<1>1. /\ touched' = touched \cup {f} /\ disk' = [disk EXCEPT ![f] = c]
      /\ UNCHANGED <<history, journal>>
  BY DEF WriteFromOutside
<1>2. View' \in Trees /\ touched' \in SUBSET Files
  BY NextViewType DEF Inv, TypeOK
<1>3. \A g \in Files \ touched' : disk'[g] = disk[g]
  BY <1>1 DEF Inv, TypeOK, Trees
<1>4. \A g \in Files \ touched' : View'[g] = View[g]
  BY <1>1, <1>3 DEF View, Restored, Committed, After
<1> QED BY <1>1, <1>2, <1>4 DEF Source!Outside, Source!Trees, Trees

LEMMA StepRefines ==
    ASSUME Inv, Inv', [Next]_vars
    PROVE  [Source!Next]_(Source!vars)
<1>1. CASE UNCHANGED vars
  BY <1>1, StoreStutters DEF vars
<1>2. ASSUME NEW s \in Servers, Recovery(s)
      PROVE  [Source!Next]_(Source!vars)
  <2>1. ASSUME NEW f \in Files, RestoreFile(s, f) PROVE UNCHANGED Source!vars
    <3>1. journal # NoJournal /\ f \in journal.files
      BY <2>1, Holding DEF RestoreFile, Inv, HolderInv
    <3> QED BY <2>1, <3>1, WritesStutter DEF RestoreFile, Same
  <2>2. ASSUME EndRecovery(s) PROVE Source!Outside
    <3>1. journal # NoJournal /\ \A f \in journal.files \ touched : disk[f] = Restored(f)
      BY <2>2, Holding DEF EndRecovery, Inv, HolderInv
    <3> QED BY <2>2, <3>1, DroppingIsOutside DEF EndRecovery, Same
  <2>3. ASSUME TakeLease(s) \/ NothingToRecover(s) \/ BeginRecovery(s)
               \/ RecoveryRefuses(s) \/ Resolve(s)
        PROVE  UNCHANGED <<store, touched>>
    BY <2>3 DEF TakeLease, NothingToRecover, BeginRecovery, RecoveryRefuses, Quarantine, Resolve, Same
  <2> QED BY <1>2, <2>1, <2>2, <2>3, StoreStutters DEF Recovery, Source!Next
<1>3. ASSUME NEW s \in Servers, Request(s)
      PROVE  [Source!Next]_(Source!vars)
  <2>1. ASSUME NEW k \in Keys, Reject(s, k) PROVE Source!Reject(k)
    BY <2>1, RecordingIsReject DEF Reject, Admitted, Same
  <2>2. ASSUME NEW k \in Keys, Replay(s, k) \/ Refuse(s, k) \/ Prepare(s, k)
        PROVE  UNCHANGED <<store, touched>>
    BY <2>2 DEF Replay, Refuse, Prepare, Same
  <2>3. ASSUME GiveBack(s) PROVE UNCHANGED <<store, touched>>
    BY <2>3 DEF GiveBack, Same
  <2> QED BY <1>3, <2>1, <2>2, <2>3, StoreStutters DEF Request, Source!Next
<1>4. ASSUME NEW s \in Servers, Commit(s)
      PROVE  [Source!Next]_(Source!vars)
  <2>1. ASSUME WriteJournal(s) PROVE UNCHANGED Source!vars
    BY <2>1, JournalingStutters DEF WriteJournal, Same
  <2>2. ASSUME NEW f \in Files, WriteFile(s, f) PROVE UNCHANGED Source!vars
    <3>1. journal # NoJournal /\ f \in journal.files
      BY <2>2, Holding DEF WriteFile, Inv, HolderInv
    <3> QED BY <2>2, <3>1, WritesStutter DEF WriteFile, Same
  <2>3. ASSUME RenameHistory(s) PROVE \E k \in Keys : Source!Accept(k)
    BY <2>3, CommitIsAccept, CommitPoint DEF RenameHistory, Same
  <2>4. ASSUME UnlinkJournal(s) PROVE Source!Outside
    BY <2>4, AcceptedFacts, DroppingIsOutside DEF UnlinkJournal, Same
  <2>5. ASSUME ChangedMeanwhile(s) \/ BeginWrites(s) \/ CheckTree(s) \/ CommitRefuses(s)
        PROVE  UNCHANGED <<store, touched>>
    BY <2>5 DEF ChangedMeanwhile, BeginWrites, CheckTree, CommitRefuses, Same
  <2> QED BY <1>4, <2>1, <2>2, <2>3, <2>4, <2>5, StoreStutters DEF Commit, Source!Next
<1>5. ASSUME NEW s \in Servers, Failure(s)
      PROVE  [Source!Next]_(Source!vars)
  <2>1. ASSUME RecoveryFails(s) \/ Crash(s) PROVE UNCHANGED <<store, touched>>
    BY <2>1 DEF RecoveryFails, Quarantine, Crash, Fault
  <2>2. ASSUME JournalFails(s) PROVE UNCHANGED Source!vars
    <3>1. UNCHANGED <<disk, history, touched>> /\ server[s].step = "prepared" /\ Current(server[s].key)
      BY <2>2 DEF JournalFails, Fault
    <3>2. CASE journal' = PendingOf(s)
      BY <3>1, <3>2, JournalingStutters
    <3>3. CASE journal' = NoJournal
      <4>1. journal = NoJournal
        BY <3>1, Holding DEF Inv, HolderInv
      <4> QED BY <3>1, <3>3, <4>1, StoreStutters DEF store
    <3> QED BY <2>2, <3>2, <3>3 DEF JournalFails
  <2>3. ASSUME NEW k \in Keys, RejectFails(s, k)
        PROVE  Source!Reject(k) \/ UNCHANGED <<store, touched>>
    BY <2>3, RecordingIsReject DEF RejectFails, Admitted, Fault, store
  <2>4. ASSUME CommitFails(s) PROVE [Source!Next]_(Source!vars)
    <3>1. UNCHANGED <<touched, answer>>
      BY <2>4 DEF CommitFails, Fault
    <3>2. CASE UNCHANGED store
      BY <3>1, <3>2, StoreStutters DEF store
    <3>3. CASE server[s].step = "checked" /\ Accepted(s) /\ UNCHANGED <<disk, journal>>
      BY <3>1, <3>3, CommitIsAccept, CommitPoint DEF Source!Next
    <3>4. CASE server[s].step = "accepted" /\ journal' = NoJournal /\ UNCHANGED <<disk, history>>
      BY <3>1, <3>4, AcceptedFacts, DroppingIsOutside DEF Source!Next
    <3> QED BY <2>4, <3>2, <3>3, <3>4 DEF CommitFails
  <2> QED BY <1>5, <2>1, <2>2, <2>3, <2>4, StoreStutters DEF Failure, Source!Next
<1>6. ASSUME NEW k \in Keys, Compose(k)
      PROVE  UNCHANGED <<store, touched>>
  BY <1>6 DEF Compose
<1> QED BY <1>1, <1>2, <1>3, <1>4, <1>5, <1>6, StoreStutters, OutsideIsOutside DEF Next, Source!Next

\* Files, journals, servers and crashes implement the atomic source.
THEOREM DurableImplementsAtomic == Spec => ImplementsAtomicSource
<1>1. Init => Source!Init
  <2> SUFFICES ASSUME Init PROVE Source!Init
    OBVIOUS
  <2>1. View = First
    BY EditAssumption DEF Init, View, Trees
  <2> QED BY <2>1 DEF Init, Source!Init
<1>2. Inv /\ Inv' /\ [Next]_vars => [Source!Next]_(Source!vars)
  BY StepRefines
<1> QED BY <1>1, <1>2, Invariance, PTL DEF Spec, ImplementsAtomicSource, Source!Spec
-----------------------------------------------------------------------------
(***************************************************************************)
(* The history of the source, SourceHistory: any files, contents and       *)
(* edits, any limit on a history and on what is archived.                  *)
(***************************************************************************)

(* Lemmas about sequences.                                                  *)

\* A set of numbers has a least one.
LEMMA LeastOne ==
    ASSUME NEW S \in SUBSET Nat, S # {}
    PROVE  \E n \in S : \A m \in S : ~(m < n)
<1>1. PICK n \in S : \A m \in S : <<m, n>> \notin OpToRel(<, Nat)
  BY WFMin, NatLessThanWellFounded 
<1> QED
  BY <1>1 DEF OpToRel

\* Values computed one after the other, each from the one before it.
Computes(f, start, step, n) ==
    /\ DOMAIN f = 0..n
    /\ f[0] = start
    /\ \A i \in 1..n : f[i] = step[i][f[i - 1]]

\* There are such values ...
LEMMA Computed ==
    ASSUME NEW T, NEW start \in T, NEW n \in Nat, NEW step \in [1..n -> [T -> T]]
    PROVE  \E f \in [0..n -> T] : Computes(f, start, step, n)
<1> DEFINE Can(k) == \E f \in [0..k -> T] : f[0] = start /\ \A i \in 1..k : f[i] = step[i][f[i - 1]]
           Cannot == {k \in 0..n : ~Can(k)}
<1>1. ASSUME Cannot # {} PROVE FALSE
  <2>0. Cannot \in SUBSET Nat
    OBVIOUS
  <2>1. PICK k \in Cannot : \A m \in Cannot : ~(m < k)
    <3> HIDE DEF Cannot
    <3> QED
      BY <1>1, <2>0, LeastOne
  <2>2. k # 0
    <3> DEFINE h == [i \in 0..0 |-> start]
    <3>1. h \in [0..0 -> T] /\ h[0] = start /\ \A i \in 1..0 : h[i] = step[i][h[i - 1]]
      OBVIOUS
    <3> HIDE DEF h
    <3>2. Can(0)
      BY <3>1
    <3> QED
      BY <3>2
  <2>3. k \in 1..n /\ k - 1 \in 0..n /\ k - 1 \notin Cannot
    BY <2>1, <2>2
  <2>4. PICK f \in [0..(k - 1) -> T] : f[0] = start
        /\ \A i \in 1..(k - 1) : f[i] = step[i][f[i - 1]]
    BY <2>3
  <2> DEFINE g == [i \in 0..k |-> IF i = k THEN step[k][f[k - 1]] ELSE f[i]]
  <2>5. step[k] \in [T -> T] /\ f[k - 1] \in T
    BY <2>3
  <2>6. g \in [0..k -> T]
    BY <2>3, <2>5
  <2>7. g[0] = start
    BY <2>3, <2>4
  <2>8. ASSUME NEW i \in 1..k PROVE g[i] = step[i][g[i - 1]]
    <3>1. g[i - 1] = f[i - 1]
      BY <2>3
    <3>2. CASE i = k
      BY <3>1, <3>2, <2>3
    <3>3. CASE i # k
      BY <3>1, <3>3, <2>3, <2>4
    <3> QED
      BY <3>2, <3>3
  <2>9. Can(k)
    BY <2>6, <2>7, <2>8
  <2> QED
    BY <2>9, <2>1
<1>2. Can(n)
  <2>1. n \notin Cannot
    BY <1>1
  <2> HIDE DEF Can
  <2> QED
    BY <2>1
<1> QED
  BY <1>2 DEF Computes

\* Two functions that start alike, and step alike as long as they are alike,
\* are alike.
LEMMA Alike ==
    ASSUME NEW a \in Nat, NEW n \in Nat, NEW f, NEW g,
           f[a] = g[a],
           \A i \in a..n : i # a /\ f[i - 1] = g[i - 1] => f[i] = g[i],
           NEW k \in a..n
    PROVE  f[k] = g[k]
<1> DEFINE Differ == {i \in a..n : f[i] # g[i]}
<1>1. ASSUME Differ # {} PROVE FALSE
  <2>1. Differ \in SUBSET Nat
    OBVIOUS
  <2>2. PICK i \in Differ : \A m \in Differ : ~(m < i)
    <3> HIDE DEF Differ
    <3> QED
      BY <1>1, <2>1, LeastOne
  <2>3. i # a
    OBVIOUS
  <2>4. i \in a..n /\ i - 1 \in a..n /\ i - 1 \notin Differ
    BY <2>2, <2>3
  <2> QED
    BY <2>4
<1> QED
  BY <1>1

\* What joining the sequences in s, one after the other, gives.
Joins(f, s, T) ==
    /\ f \in [0..Len(s) -> Seq(T)]
    /\ f[0] = <<>>
    /\ \A i \in 1..Len(s) : f[i] = f[i - 1] \o s[i]

\* What FlattenSeq's recursion says of its values.
Joined(f, s, n) == \A i \in 1..n : f[i] = IF i = 1 THEN s[i] ELSE f[i - 1] \o s[i]

\* The recursion of FlattenSeq has one solution.
LEMMA JoinedOnce ==
    ASSUME NEW n \in Nat, n # 0, NEW s, NEW f, NEW g,
           Joined(f, s, n), Joined(g, s, n)
    PROVE  f[n] = g[n]
<1>1. f[1] = g[1]
  BY DEF Joined
<1>2. ASSUME NEW i \in 1..n, i # 1, f[i - 1] = g[i - 1] PROVE f[i] = g[i]
  BY <1>2 DEF Joined
<1>3. 1 \in Nat /\ n \in 1..n
  OBVIOUS
<1> QED
  BY ONLY <1>1, <1>2, <1>3, n \in Nat, Alike

\* FlattenSeq: what its recursion computes, ...
LEMMA Flattened ==
    ASSUME NEW T, NEW s \in Seq(Seq(T)), NEW f, Joins(f, s, T)
    PROVE  FlattenSeq(s) = f[Len(s)]
<1>1. PICK n \in Nat : n = Len(s)
  OBVIOUS
<1> DEFINE Step(fl) == [i \in 1..n |-> IF i = 1 THEN s[i] ELSE fl[i - 1] \o s[i]]
           flatten == CHOOSE fl : fl = Step(fl)
<1>2. CASE n = 0
  <2>1. s = <<>>
    BY <1>1, <1>2, EmptySeq
  <2> QED
    BY <1>1, <1>2, <2>1 DEF FlattenSeq, Joins
<1>3. CASE n # 0
  <2>1. FlattenSeq(s) = flatten[n]
    BY <1>1, <1>3 DEF FlattenSeq
  <2> DEFINE h == [i \in 1..n |-> f[i]]
  <2>2. h = Step(h)
    <3>1. ASSUME NEW i \in 1..n PROVE h[i] = Step(h)[i]
      <4>1. f[i] = f[i - 1] \o s[i] /\ s[i] \in Seq(T)
        BY <1>1, ElementOfSeq DEF Joins
      <4>2. CASE i = 1
        <5>1. <<>> \o s[1] = s[1]
          BY <4>1, <4>2, ConcatEmptySeq
        <5>2. f[i - 1] = <<>>
          BY <1>1, <4>2 DEF Joins
        <5> QED
          BY <4>1, <4>2, <5>1, <5>2
      <4>3. CASE i # 1
        <5>1. i - 1 \in 1..n
          BY <4>3, <1>1
        <5> QED
          BY <4>1, <4>3, <5>1
      <4> QED
        BY <4>2, <4>3
    <3> QED
      BY <3>1
  <2>3. flatten = Step(flatten)
    <3> HIDE DEF h, Step
    <3> QED
      BY <2>2
  <2>4. ASSUME NEW i \in 1..n
        PROVE  /\ h[i] = IF i = 1 THEN s[i] ELSE h[i - 1] \o s[i]
               /\ flatten[i] = IF i = 1 THEN s[i] ELSE flatten[i - 1] \o s[i]
    <3>1. h[i] = Step(h)[i] /\ flatten[i] = Step(flatten)[i]
      <4> HIDE DEF h, Step, flatten
      <4> QED
        BY <2>2, <2>3
    <3> HIDE DEF h, flatten
    <3> QED
      BY <3>1
  <2>5. h[n] = flatten[n]
    <3> HIDE DEF h, flatten
    <3>1. Joined(h, s, n) /\ Joined(flatten, s, n)
      BY <2>4 DEF Joined
    <3> QED
      BY <1>3, <3>1, JoinedOnce
  <2> QED
    BY <2>1, <2>5, <1>1, <1>3
<1> QED
  BY <1>2, <1>3

\* ... and what one more sequence adds.
LEMMA FlattenAppend ==
    ASSUME NEW T, NEW s \in Seq(Seq(T)), NEW x \in Seq(T)
    PROVE  /\ FlattenSeq(s) \in Seq(T)
           /\ FlattenSeq(Append(s, x)) = FlattenSeq(s) \o x
<1> DEFINE n == Len(s)
           join == [i \in 1..n |-> [t \in Seq(T) |-> t \o s[i]]]
<1>1. n \in Nat /\ <<>> \in Seq(T)
  OBVIOUS
<1>2. join \in [1..n -> [Seq(T) -> Seq(T)]]
  OBVIOUS
<1>3. PICK f \in [0..n -> Seq(T)] : Computes(f, <<>>, join, n)
  <2> HIDE DEF join, n
  <2> QED
    BY <1>1, <1>2, Computed
<1>4. f[0] = <<>> /\ \A i \in 1..n : f[i] = f[i - 1] \o s[i]
  <2>1. ASSUME NEW i \in 1..n PROVE f[i] = f[i - 1] \o s[i]
    <3>1. i - 1 \in 0..n
      BY <1>1
    <3>2. f[i - 1] \in Seq(T)
      BY <3>1
    <3>3. f[i] = join[i][f[i - 1]]
      BY <1>3 DEF Computes
    <3> QED
      BY <3>2, <3>3
  <2> QED
    BY <2>1, <1>3 DEF Computes
<1>5. FlattenSeq(s) = f[n]
  BY <1>4, Flattened DEF Joins
<1> DEFINE r == Append(s, x)
           g == [i \in 0..(n + 1) |-> IF i = n + 1 THEN f[n] \o x ELSE f[i]]
<1>6. r \in Seq(Seq(T)) /\ Len(r) = n + 1 /\ r[n + 1] = x /\ \A i \in 1..n : r[i] = s[i]
  BY AppendProperties
<1>7. f[n] \in Seq(T)
  BY <1>1
<1>8. g \in [0..(n + 1) -> Seq(T)] /\ g[n + 1] = f[n] \o x /\ g[0] = <<>>
  BY <1>1, <1>4, <1>7
<1>9. ASSUME NEW i \in 1..(n + 1) PROVE g[i] = g[i - 1] \o r[i]
  <2>1. CASE i = n + 1
    BY <2>1, <1>1, <1>6
  <2>2. CASE i # n + 1
    <3>1. i \in 1..n /\ i - 1 \in 0..n
      BY <2>2, <1>1
    <3>2. g[i] = f[i] /\ g[i - 1] = f[i - 1]
      BY <3>1, <1>1
    <3>3. f[i] = f[i - 1] \o s[i] /\ r[i] = s[i]
      BY <3>1, <1>4, <1>6
    <3> QED
      BY <3>2, <3>3
  <2> QED
    BY <2>1, <2>2
<1>10. FlattenSeq(r) = g[n + 1]
  <2> HIDE DEF g, r
  <2>1. Joins(g, r, T)
    BY <1>6, <1>8, <1>9 DEF Joins
  <2> QED
    BY <1>6, <2>1, Flattened
<1> QED
  BY <1>1, <1>5, <1>8, <1>10

(* Lemmas about the stacks of edits.                                        *)

\* What the recursion of Without says of its values.
Filters(f, s, x, n) ==
    /\ f[0] = <<>>
    /\ \A i \in 1..n : f[i] = IF s[i] = x THEN f[i - 1] ELSE Append(f[i - 1], s[i])

\* The recursion of Without has one solution.
LEMMA FilteredOnce ==
    ASSUME NEW n \in Nat, NEW s, NEW x, NEW f, NEW g,
           Filters(f, s, x, n), Filters(g, s, x, n)
    PROVE  f[n] = g[n]
<1>1. f[0] = g[0]
  BY DEF Filters
<1>2. ASSUME NEW i \in 0..n, i # 0, f[i - 1] = g[i - 1] PROVE f[i] = g[i]
  BY <1>2 DEF Filters
<1>3. 0 \in Nat /\ n \in 0..n
  OBVIOUS
<1> QED
  BY ONLY <1>1, <1>2, <1>3, n \in Nat, Alike

\* Without: what its recursion computes.
LEMMA Filtered ==
    ASSUME NEW T, NEW s \in Seq(T), NEW x, NEW f \in [0..Len(s) -> Seq(T)],
           Filters(f, s, x, Len(s))
    PROVE  Without(s, x) = f[Len(s)]
<1>1. PICK n \in Nat : n = Len(s)
  OBVIOUS
<1> DEFINE Step(k) == [i \in 0..n |->
                         IF i = 0 THEN <<>>
                         ELSE IF s[i] = x THEN k[i - 1] ELSE Append(k[i - 1], s[i])]
           kept == CHOOSE k : k = Step(k)
<1>2. Without(s, x) = kept[n]
  BY <1>1 DEF Without
<1>3. f = Step(f)
  <2>1. ASSUME NEW i \in 0..n PROVE f[i] = Step(f)[i]
    <3>1. CASE i = 0
      BY <3>1 DEF Filters
    <3>2. CASE i # 0
      <4>1. i \in 1..Len(s)
        BY <1>1, <3>2
      <4>2. f[i] = IF s[i] = x THEN f[i - 1] ELSE Append(f[i - 1], s[i])
        BY <4>1 DEF Filters
      <4> QED
        BY <3>2, <4>2
    <3> QED
      BY <3>1, <3>2
  <2>2. DOMAIN f = 0..n /\ DOMAIN Step(f) = 0..n
    BY <1>1
  <2> QED
    BY <1>1, <2>1
<1>4. kept = Step(kept)
  <2> HIDE DEF Step
  <2> QED
    BY <1>3
<1>5. Filters(kept, s, x, n)
  <2>1. ASSUME NEW i \in 0..n PROVE kept[i] = Step(kept)[i]
    <3> HIDE DEF Step, kept
    <3> QED
      BY <1>4
  <2> HIDE DEF kept
  <2>2. kept[0] = <<>>
    BY <2>1
  <2>3. ASSUME NEW i \in 1..n
        PROVE  kept[i] = IF s[i] = x THEN kept[i - 1] ELSE Append(kept[i - 1], s[i])
    BY <2>1
  <2> QED
    BY <2>2, <2>3 DEF Filters
<1>6. kept[n] = f[n]
  <2> HIDE DEF kept
  <2> QED
    BY <1>1, <1>5, FilteredOnce
<1> QED
  BY <1>1, <1>2, <1>6

\* A stack without an edit is a stack.
LEMMA WithoutType ==
    ASSUME NEW T, NEW s \in Seq(T), NEW x
    PROVE  Without(s, x) \in Seq(T)
<1>1. PICK n \in Nat : n = Len(s)
  OBVIOUS
<1> DEFINE keep == [i \in 1..n |-> [t \in Seq(T) |-> IF s[i] = x THEN t ELSE Append(t, s[i])]]
<1>2. keep \in [1..n -> [Seq(T) -> Seq(T)]] /\ <<>> \in Seq(T)
  BY <1>1
<1>3. PICK f \in [0..n -> Seq(T)] : Computes(f, <<>>, keep, n)
  <2> HIDE DEF keep
  <2> QED
    BY <1>2, Computed
<1>4. Filters(f, s, x, n)
  <2>1. ASSUME NEW i \in 1..n
        PROVE  f[i] = IF s[i] = x THEN f[i - 1] ELSE Append(f[i - 1], s[i])
    <3>1. f[i - 1] \in Seq(T)
      OBVIOUS
    <3>2. f[i] = keep[i][f[i - 1]]
      BY <1>3 DEF Computes
    <3> QED
      BY <3>1, <3>2
  <2> QED
    BY <2>1, <1>3 DEF Filters, Computes
<1>5. Without(s, x) = f[n]
  BY <1>1, <1>4, Filtered
<1> QED
  BY <1>5

\* An edit that is on a stack once, at its end, is taken off the end.
LEMMA WithoutLast ==
    ASSUME NEW T, NEW s \in Seq(T), s # <<>>,
           \A i, j \in DOMAIN s : s[i] = s[j] => i = j
    PROVE  Without(s, Last(s)) = Front(s)
<1>1. PICK n \in Nat : n = Len(s)
  OBVIOUS
<1>2. n # 0
  BY <1>1, EmptySeq
<1> DEFINE f == [i \in 0..n |-> SubSeq(s, 1, IF i = n THEN n - 1 ELSE i)]
<1>3. ASSUME NEW i \in 0..n
      PROVE  f[i] \in Seq(T) /\ Len(f[i]) = IF i = n THEN n - 1 ELSE i
  <2>1. PICK k \in Nat : k = (IF i = n THEN n - 1 ELSE i) /\ k <= n
    BY <1>2
  <2>2. \A j \in 1..k : s[j] \in T
    BY <2>1, <1>1, ElementOfSeq
  <2>3. SubSeq(s, 1, k) \in Seq(T) /\ Len(SubSeq(s, 1, k)) = k
    BY <2>1, <2>2, SubSeqProperties
  <2> QED
    BY <2>1, <2>3
<1>4. f[0] = <<>>
  <2>1. Len(f[0]) = 0 /\ f[0] \in Seq(T)
    BY <1>2, <1>3
  <2> QED
    BY <2>1, EmptySeq
<1>5. ASSUME NEW i \in 1..n
      PROVE  f[i] = IF s[i] = Last(s) THEN f[i - 1] ELSE Append(f[i - 1], s[i])
  <2>1. s[i] = Last(s) <=> i = n
    BY <1>1, <1>2 DEF Last
  <2>2. CASE i = n
    BY <2>1, <2>2, <1>2
  <2>3. CASE i # n
    <3>1. f[i] = SubSeq(s, 1, i) /\ f[i - 1] = SubSeq(s, 1, i - 1)
      BY <2>3
    <3>2. SubSeq(s, 1, i) = SubSeq(s, 1, i - 1) \o <<s[i]>>
      BY <1>1, SubSeqRecursiveSecond
    <3>3. f[i - 1] \in Seq(T) /\ s[i] \in T
      BY <1>1, <1>3, ElementOfSeq
    <3>4. Append(f[i - 1], s[i]) = f[i - 1] \o <<s[i]>>
      <4> HIDE DEF f
      <4> QED
        BY <3>3, AppendIsConcat
    <3> HIDE DEF f
    <3> QED
      BY <2>1, <2>3, <3>1, <3>2, <3>4
  <2> QED
    BY <2>2, <2>3
<1>6. f \in [0..n -> Seq(T)] /\ Filters(f, s, Last(s), n)
  <2>1. f \in [0..n -> Seq(T)]
    BY <1>3
  <2>2. Filters(f, s, Last(s), n)
    <3> HIDE DEF f
    <3> QED
      BY <1>4, <1>5 DEF Filters
  <2> QED
    BY <2>1, <2>2
<1>7. f[n] = Front(s)
  BY <1>1 DEF Front
<1> HIDE DEF f
<1> QED
  BY <1>1, <1>6, <1>7, Filtered

(* The history and its growth.                                              *)

\* A change of the files in states leads from tree s to tree t.
Leads(s, states, t, here, there) ==
    \A f \in Files : IF f \in DOMAIN states
                     THEN s[f] = states[f][here] /\ t[f] = states[f][there]
                     ELSE s[f] = t[f]

\* A transaction is recorded, with a revision for the tree it leaves.
Commits(e) ==
    /\ e \in Transaction
    /\ HistoryTransactions' = Append(HistoryTransactions, e)
    /\ HistoryRevisions'
           = Append(HistoryRevisions, [tree |-> tree', by |-> HistoryLength + 1])
    /\ tree' \in Trees
    /\ Leads(tree, e.fileStates, tree', "before", "after")

\* Joined sequences make a sequence of the same elements.
LEMMA FlattenType ==
    ASSUME NEW T, NEW s \in Seq(Seq(T))
    PROVE  FlattenSeq(s) \in Seq(T)
<1>1. <<>> \in Seq(T)
  OBVIOUS
<1> QED
  BY <1>1, FlattenAppend

\* The whole history, archives included, has the types of its parts.
LEMMA HistoryType ==
    ASSUME HistoryTypeOK
    PROVE  /\ Archived("transactions") \in Seq(Transaction)
           /\ Archived("revisions") \in Seq(Revision)
           /\ HistoryTransactions \in Seq(Transaction)
           /\ HistoryRevisions \in Seq(Revision)
           /\ HistoryLength \in Nat
<1> DEFINE ts == [i \in DOMAIN archives |-> archives[i].transactions]
           rs == [i \in DOMAIN archives |-> archives[i].revisions]
<1>1. ts \in Seq(Seq(Transaction)) /\ rs \in Seq(Seq(Revision))
  <2>1. PICK n \in Nat : n = Len(archives) /\ DOMAIN archives = 1..n
    BY LenProperties DEF HistoryTypeOK
  <2>2. ASSUME NEW i \in 1..n
        PROVE  archives[i].transactions \in Seq(Transaction)
               /\ archives[i].revisions \in Seq(Revision)
    <3>1. archives[i] \in [transactions : Seq(Transaction), revisions : Seq(Revision)]
      BY <2>1, ElementOfSeq DEF HistoryTypeOK
    <3> QED
      BY <3>1
  <2> QED
    BY <2>1, <2>2
<1>2. Archived("transactions") = FlattenSeq(ts)
      /\ Archived("revisions") = FlattenSeq(rs)
  BY DEF Archived
<1>3. Archived("transactions") \in Seq(Transaction)
      /\ Archived("revisions") \in Seq(Revision)
  <2> HIDE DEF ts, rs
  <2> QED
    BY <1>1, <1>2, FlattenType
<1>4. HistoryTransactions \in Seq(Transaction) /\ HistoryRevisions \in Seq(Revision)
  BY <1>3, ConcatProperties DEF HistoryTypeOK, HistoryTransactions, HistoryRevisions
<1> QED
  BY <1>3, <1>4, LenProperties DEF HistoryLength

\* A new archive comes after the others.
LEMMA ArchivedGrows ==
    ASSUME HistoryTypeOK,
           NEW a \in [transactions : Seq(Transaction), revisions : Seq(Revision)],
           archives' = Append(archives, a)
    PROVE  /\ Archived("transactions")' = Archived("transactions") \o a.transactions
           /\ Archived("revisions")' = Archived("revisions") \o a.revisions
<1>1. PICK n \in Nat : n = Len(archives) /\ DOMAIN archives = 1..n
  BY LenProperties DEF HistoryTypeOK
<1>2. archives' \in Seq([transactions : Seq(Transaction), revisions : Seq(Revision)])
      /\ DOMAIN archives' = 1..(n + 1) /\ archives'[n + 1] = a
      /\ \A i \in 1..n : archives'[i] = archives[i]
  BY <1>1, AppendProperties, LenProperties DEF HistoryTypeOK
<1> DEFINE ts == [i \in 1..n |-> archives[i].transactions]
           rs == [i \in 1..n |-> archives[i].revisions]
<1>3. ts \in Seq(Seq(Transaction)) /\ rs \in Seq(Seq(Revision)) /\ Len(ts) = n
      /\ Len(rs) = n
  <2>1. ASSUME NEW i \in 1..n
        PROVE  archives[i].transactions \in Seq(Transaction)
               /\ archives[i].revisions \in Seq(Revision)
    <3>1. archives[i] \in [transactions : Seq(Transaction), revisions : Seq(Revision)]
      BY <1>1, ElementOfSeq DEF HistoryTypeOK
    <3> QED
      BY <3>1
  <2> QED
    BY <2>1
<1>4. a.transactions \in Seq(Transaction) /\ a.revisions \in Seq(Revision)
  OBVIOUS
<1>5. [i \in 1..(n + 1) |-> archives'[i].transactions] = Append(ts, a.transactions)
  BY <1>2, <1>3, <1>4
<1>6. [i \in 1..(n + 1) |-> archives'[i].revisions] = Append(rs, a.revisions)
  BY <1>2, <1>3, <1>4
<1>7. /\ Archived("transactions") = FlattenSeq(ts)
      /\ Archived("revisions") = FlattenSeq(rs)
      /\ Archived("transactions")' = FlattenSeq(Append(ts, a.transactions))
      /\ Archived("revisions")' = FlattenSeq(Append(rs, a.revisions))
  BY <1>1, <1>2, <1>5, <1>6 DEF Archived
<1> HIDE DEF ts, rs
<1> QED
  BY <1>3, <1>4, <1>7, FlattenAppend

\* Without a new archive, what is archived stays.
LEMMA ArchivedStays ==
    ASSUME UNCHANGED archives
    PROVE  /\ Archived("transactions")' = Archived("transactions")
           /\ Archived("revisions")' = Archived("revisions")
BY DEF Archived

\* What is appended to the second of two sequences is appended to both.
LEMMA ConcatAppend ==
    ASSUME NEW T, NEW s \in Seq(T), NEW t \in Seq(T), NEW x \in T
    PROVE  s \o Append(t, x) = Append(s \o t, x)
<1>1. <<x>> \in Seq(T) /\ s \o t \in Seq(T)
  BY ConcatProperties
<1>2. Append(t, x) = t \o <<x>> /\ Append(s \o t, x) = (s \o t) \o <<x>>
  BY <1>1, AppendIsConcat
<1> QED
  BY <1>1, <1>2, ConcatAssociative

\* What commit records.
LEMMA AcceptedCommits ==
    ASSUME HistoryTypeOK, NEW to, DOMAIN to \subseteq Files, \A f \in DOMAIN to : to[f] \in Contents,
           Record(FileStates(to)), UNCHANGED archives
    PROVE  /\ tree' = [f \in Files |-> IF f \in DOMAIN to THEN to[f] ELSE tree[f]]
           /\ transactions' \in Seq(Transaction)
           /\ revisions' \in Seq(Revision)
           /\ \E e \in Transaction : Commits(e)
<1> DEFINE states == FileStates(to)
           e == [id |-> HistoryLength + 1, accepted |-> TRUE, fileStates |-> states]
           left == [f \in Files |-> IF f \in DOMAIN states THEN states[f].after ELSE tree[f]]
           r == [tree |-> left, by |-> HistoryLength + 1]
<1>1. states = [f \in {g \in DOMAIN to : to[g] # tree[g]} |-> [before |-> tree[f], after |-> to[f]]]
  BY DEF FileStates
<1>2. tree \in [Files -> Contents]
  BY DEF HistoryTypeOK, Trees
<1>3. states \in UNION {[F -> Change] : F \in SUBSET Files}
  <2> DEFINE F == {g \in DOMAIN to : to[g] # tree[g]}
  <2>1. F \in SUBSET Files
    OBVIOUS
  <2>2. ASSUME NEW f \in F PROVE [before |-> tree[f], after |-> to[f]] \in Change
    BY <1>2 DEF Change
  <2>3. states \in [F -> Change]
    BY <1>1, <2>2
  <2> HIDE DEF F
  <2> QED
    BY <2>1, <2>3
<1> HIDE DEF states
<1>4. e \in Transaction
  BY <1>3, HistoryType DEF Transaction
<1>5. left \in Trees
  BY <1>1, <1>2 DEF Trees
<1>6. r \in Revision
  BY <1>5, HistoryType DEF Revision
<1>7. tree' = left /\ transactions' = Append(transactions, e) /\ revisions' = Append(revisions, r)
  BY DEF Record, states
<1>8. left = [f \in Files |-> IF f \in DOMAIN to THEN to[f] ELSE tree[f]]
  BY <1>1
<1>9. Leads(tree, states, left, "before", "after")
  BY <1>1 DEF Leads
<1>10. HistoryTransactions' = Append(HistoryTransactions, e)
  <2>1. transactions \in Seq(Transaction)
        /\ Archived("transactions") \in Seq(Transaction)
    BY HistoryType DEF HistoryTypeOK
  <2>2. HistoryTransactions' = Archived("transactions") \o Append(transactions, e)
    BY <1>7, ArchivedStays DEF HistoryTransactions
  <2>3. Archived("transactions") \o Append(transactions, e)
          = Append(Archived("transactions") \o transactions, e)
    <3> HIDE DEF e
    <3> QED
      BY <1>4, <2>1, ConcatAppend
  <2> HIDE DEF e
  <2> QED
    BY <2>2, <2>3 DEF HistoryTransactions
<1>11. HistoryRevisions' = Append(HistoryRevisions, r)
  <2>1. revisions \in Seq(Revision) /\ Archived("revisions") \in Seq(Revision)
    BY HistoryType DEF HistoryTypeOK
  <2>2. HistoryRevisions' = Archived("revisions") \o Append(revisions, r)
    BY <1>7, ArchivedStays DEF HistoryRevisions
  <2>3. Archived("revisions") \o Append(revisions, r)
          = Append(Archived("revisions") \o revisions, r)
    <3> HIDE DEF r
    <3> QED
      BY <1>6, <2>1, ConcatAppend
  <2> HIDE DEF r
  <2> QED
    BY <2>2, <2>3 DEF HistoryRevisions
<1>12. Commits(e)
  <2>1. e.fileStates = states
    OBVIOUS
  <2> HIDE DEF e, left
  <2> QED
    BY <1>4, <1>5, <1>7, <1>9, <1>10, <1>11, <2>1 DEF Commits
<1>13. transactions' \in Seq(Transaction) /\ revisions' \in Seq(Revision)
  <2> HIDE DEF e, r
  <2> QED
    BY <1>4, <1>6, <1>7, AppendProperties DEF HistoryTypeOK
<1> HIDE DEF e, left
<1> QED
  BY <1>4, <1>7, <1>8, <1>12, <1>13

\* What a compaction records.
LEMMA CompactCommits ==
    ASSUME HistoryTypeOK, Compact
    PROVE  /\ tree' = tree
           /\ archives' \in Seq([transactions : Seq(Transaction), revisions : Seq(Revision)])
           /\ transactions' \in Seq(Transaction)
           /\ revisions' \in Seq(Revision)
           /\ \E e \in Transaction : Commits(e)
<1> DEFINE e == [id |-> HistoryLength + 1, accepted |-> TRUE, fileStates |-> <<>>]
           r == [tree |-> tree, by |-> HistoryLength + 1]
           a == [transactions |-> transactions, revisions |-> Front(revisions)]
<1>1. PICK n \in Nat : n = Len(revisions) /\ n >= 2 /\ revisions \in Seq(Revision)
  BY DEF HistoryTypeOK, Compact
<1>2. e \in Transaction
  <2>1. <<>> \in [{} -> Change] /\ {} \in SUBSET Files
    OBVIOUS
  <2>2. <<>> \in UNION {[F -> Change] : F \in SUBSET Files}
    BY <2>1
  <2>3. PICK states \in UNION {[F -> Change] : F \in SUBSET Files} : states = <<>>
    BY <2>2
  <2>4. [id |-> HistoryLength + 1, accepted |-> TRUE, fileStates |-> states] \in Transaction
    BY HistoryType DEF Transaction
  <2> QED
    BY <2>3, <2>4
<1>3. r \in Revision
  BY HistoryType DEF Revision, HistoryTypeOK
<1>4. /\ Front(revisions) \in Seq(Revision)
      /\ Len(Front(revisions)) = n - 1
      /\ \A i \in 1..(n - 1) : Front(revisions)[i] = revisions[i]
      /\ Last(revisions) = revisions[n]
      /\ Last(revisions) \in Revision
  <2>1. \A i \in 1..(n - 1) : revisions[i] \in Revision
    BY <1>1, ElementOfSeq
  <2> QED
    BY <1>1, <2>1, SubSeqProperties, ElementOfSeq DEF Front, Last
<1>5. a \in [transactions : Seq(Transaction), revisions : Seq(Revision)]
  BY <1>4 DEF HistoryTypeOK
<1>6. /\ tree' = tree
      /\ archives' = Append(archives, a)
      /\ transactions' = <<e>>
      /\ revisions' = <<Last(revisions), r>>
  BY DEF Compact
<1>7. archives' \in Seq([transactions : Seq(Transaction), revisions : Seq(Revision)])
  <2> HIDE DEF a
  <2> QED
    BY <1>5, <1>6, AppendProperties DEF HistoryTypeOK
<1>8. <<e>> \in Seq(Transaction)
  <2> HIDE DEF e
  <2> QED
    BY <1>2
<1>9. <<Last(revisions), r>> \in Seq(Revision)
  <2> HIDE DEF r
  <2> QED
    BY <1>3, <1>4
<1>10. /\ Archived("transactions")' = Archived("transactions") \o transactions
       /\ Archived("revisions")' = Archived("revisions") \o Front(revisions)
  <2>1. a.transactions = transactions /\ a.revisions = Front(revisions)
    OBVIOUS
  <2> HIDE DEF a
  <2> QED
    BY <1>5, <1>6, <2>1, ArchivedGrows
<1>11. HistoryTransactions' = Append(HistoryTransactions, e)
  <2>1. HistoryTransactions' = HistoryTransactions \o <<e>>
    BY <1>6, <1>10 DEF HistoryTransactions
  <2>2. Append(HistoryTransactions, e) = HistoryTransactions \o <<e>>
    <3> HIDE DEF e
    <3> QED
      BY <1>2, HistoryType, AppendIsConcat
  <2> HIDE DEF e
  <2> QED
    BY <2>1, <2>2
<1>12. Front(revisions) \o <<Last(revisions), r>> = Append(revisions, r)
  <2> DEFINE s == Front(revisions) \o <<Last(revisions), r>>
             t == Append(revisions, r)
  <2>1. s \in Seq(Revision) /\ Len(s) = n + 1
        /\ \A i \in 1..(n + 1) : s[i] = IF i <= n - 1 THEN revisions[i]
                                     ELSE <<Last(revisions), r>>[i - (n - 1)]
    <3>1. PICK u \in Seq(Revision) : u = <<Last(revisions), r>> /\ Len(u) = 2
      BY <1>9
    <3>2. PICK v \in Seq(Revision) : v = Front(revisions) /\ Len(v) = n - 1
      BY <1>4
    <3>3. /\ v \o u \in Seq(Revision)
          /\ Len(v \o u) = n + 1
          /\ \A i \in 1..(n + 1) : (v \o u)[i] = IF i <= n - 1 THEN v[i] ELSE u[i - (n - 1)]
      BY <3>1, <3>2, ConcatProperties
    <3>4. \A i \in 1..(n - 1) : v[i] = revisions[i]
      BY <1>4, <3>2
    <3>5. s = v \o u
      BY <3>1, <3>2
    <3> HIDE DEF s, r
    <3> QED
      BY <3>1, <3>3, <3>4, <3>5
  <2>2. t \in Seq(Revision) /\ Len(t) = n + 1 /\ t[n + 1] = r
        /\ \A i \in 1..n : t[i] = revisions[i]
    <3> HIDE DEF r
    <3> QED
      BY <1>1, <1>3, AppendProperties
  <2>3. ASSUME NEW i \in 1..(n + 1) PROVE s[i] = t[i]
    <3> HIDE DEF s, t, r
    <3>1. CASE i <= n - 1
      BY <3>1, <2>1, <2>2
    <3>2. CASE i = n
      BY <3>2, <2>1, <2>2, <1>4
    <3>3. CASE i = n + 1
      BY <3>3, <2>1, <2>2
    <3> QED
      BY <3>1, <3>2, <3>3
  <2> HIDE DEF s, t
  <2>4. s = t
    BY <2>1, <2>2, <2>3, SeqEqual
  <2> QED
    BY <2>4 DEF s, t
<1>13. HistoryRevisions' = Append(HistoryRevisions, r)
  <2>1. HistoryRevisions'
          = (Archived("revisions") \o Front(revisions)) \o <<Last(revisions), r>>
    BY <1>6, <1>10 DEF HistoryRevisions
  <2>2. (Archived("revisions") \o Front(revisions)) \o <<Last(revisions), r>>
        = Archived("revisions") \o Append(revisions, r)
    <3>1. PICK u \in Seq(Revision) : u = <<Last(revisions), r>>
      BY <1>9
    <3>2. (Archived("revisions") \o Front(revisions)) \o u
            = Archived("revisions") \o (Front(revisions) \o u)
      <4>1. /\ Archived("revisions") \in Seq(Revision)
            /\ Front(revisions) \in Seq(Revision)
            /\ u \in Seq(Revision)
        BY <1>4, HistoryType
      <4> QED
        BY ONLY <4>1, ConcatAssociative
    <3> HIDE DEF r
    <3> QED
      BY <1>12, <3>1, <3>2
  <2>3. Archived("revisions") \o Append(revisions, r) = Append(HistoryRevisions, r)
    <3> HIDE DEF r
    <3> QED
      BY <1>1, <1>3, HistoryType, ConcatAppend DEF HistoryRevisions
  <2> HIDE DEF r
  <2> QED
    BY <2>1, <2>2, <2>3
<1>14. Leads(tree, <<>>, tree, "before", "after")
  BY DEF Leads
<1>15. Commits(e)
  <2>1. e.fileStates = <<>> /\ tree \in Trees
    BY DEF HistoryTypeOK
  <2> HIDE DEF e
  <2> QED
    BY <1>2, <1>6, <1>11, <1>13, <1>14, <2>1 DEF Commits
<1> HIDE DEF e, r
<1> QED
  BY <1>2, <1>6, <1>7, <1>8, <1>9, <1>15
-----------------------------------------------------------------------------
(* The inductive invariant.                                                 *)

\* Each revision's transaction leads from the revision before to it, and the
\* last one is the source.
RevisionsInv ==
    LET revs == HistoryRevisions
    IN  /\ Len(revs) # 0
        /\ revs[Len(revs)].tree = tree
        /\ \A k \in 2..Len(revs) :
             /\ revs[k].by \in 1..HistoryLength
             /\ Leads(revs[k - 1].tree, Entry(revs[k].by).fileStates, revs[k].tree,
                      "before", "after")

\* A recorded transaction adds a link to the chain of revisions.
LEMMA RevisionsCommit ==
    ASSUME HistoryTypeOK, RevisionsInv, NEW e, Commits(e)
    PROVE  RevisionsInv'
<1>1. PICK n \in Nat : n = Len(HistoryRevisions) /\ n # 0
  BY HistoryType DEF RevisionsInv
<1>2. PICK m \in Nat : m = Len(HistoryTransactions) /\ m = HistoryLength
  BY HistoryType DEF HistoryLength
<1> DEFINE r == [tree |-> tree', by |-> m + 1]
<1>3. r \in Revision
  BY DEF Revision, Commits
<1>4. /\ Len(HistoryRevisions') = n + 1
      /\ HistoryRevisions'[n + 1] = r
      /\ \A k \in 1..n : HistoryRevisions'[k] = HistoryRevisions[k]
  <2>1. HistoryRevisions' = Append(HistoryRevisions, r)
    BY <1>2 DEF Commits
  <2> HIDE DEF r
  <2> QED
    BY <1>1, <1>3, <2>1, HistoryType, AppendProperties
<1>5. /\ Len(HistoryTransactions') = m + 1 /\ HistoryLength' = m + 1
      /\ HistoryTransactions'[m + 1] = e
      /\ \A k \in 1..m : HistoryTransactions'[k] = HistoryTransactions[k]
  BY <1>2, HistoryType, AppendProperties DEF Commits, HistoryLength
<1>6. ASSUME NEW k \in 2..(n + 1)
      PROVE  /\ HistoryRevisions'[k].by \in 1..(m + 1)
             /\ Leads(HistoryRevisions'[k - 1].tree,
                        HistoryTransactions'[HistoryRevisions'[k].by].fileStates,
                      HistoryRevisions'[k].tree, "before", "after")
  <2>1. CASE k = n + 1
    <3>1. HistoryRevisions'[k - 1].tree = tree
      BY <1>1, <1>4, <2>1 DEF RevisionsInv
    <3>2. HistoryRevisions'[k].by = m + 1 /\ HistoryRevisions'[k].tree = tree'
      BY <1>4, <2>1
    <3>3. HistoryTransactions'[HistoryRevisions'[k].by] = e
      BY <1>5, <3>2
    <3>4. Leads(tree, e.fileStates, tree', "before", "after")
      BY DEF Commits
    <3> QED
      BY <3>1, <3>2, <3>3, <3>4
  <2>2. CASE k # n + 1
    <3>1. k \in 2..n /\ k - 1 \in 1..n /\ k \in 1..n
      BY <2>2
    <3>2. /\ HistoryRevisions[k].by \in 1..m
          /\ Leads(HistoryRevisions[k - 1].tree,
                     HistoryTransactions[HistoryRevisions[k].by].fileStates,
                   HistoryRevisions[k].tree, "before", "after")
      BY <1>1, <1>2, <3>1 DEF RevisionsInv, Entry
    <3>3. HistoryTransactions'[HistoryRevisions[k].by]
            = HistoryTransactions[HistoryRevisions[k].by]
      BY <1>5, <3>2
    <3> QED
      BY <1>4, <3>1, <3>2, <3>3
  <2> QED
    BY <2>1, <2>2
<1> QED
  BY <1>4, <1>5, <1>6 DEF RevisionsInv, Entry

\* A rejected edit leaves the chain of revisions as it is.
LEMMA RevisionsStay ==
    ASSUME HistoryTypeOK, RevisionsInv, NEW e \in Transaction,
           HistoryTransactions' = Append(HistoryTransactions, e),
           HistoryRevisions' = HistoryRevisions, tree' = tree
    PROVE  RevisionsInv'
<1>1. PICK m \in Nat : m = Len(HistoryTransactions) /\ m = HistoryLength
  BY HistoryType DEF HistoryLength
<1>2. /\ HistoryLength' = m + 1
      /\ \A k \in 1..m : HistoryTransactions'[k] = HistoryTransactions[k]
  BY <1>1, HistoryType, AppendProperties DEF HistoryLength
<1>3. ASSUME NEW k \in 2..Len(HistoryRevisions)
      PROVE  /\ HistoryRevisions[k].by \in 1..(m + 1)
             /\ Leads(HistoryRevisions[k - 1].tree,
                        HistoryTransactions'[HistoryRevisions[k].by].fileStates,
                      HistoryRevisions[k].tree, "before", "after")
  <2>1. /\ HistoryRevisions[k].by \in 1..m
        /\ Leads(HistoryRevisions[k - 1].tree,
                   HistoryTransactions[HistoryRevisions[k].by].fileStates,
                 HistoryRevisions[k].tree, "before", "after")
    BY <1>1 DEF RevisionsInv, Entry
  <2>2. HistoryTransactions'[HistoryRevisions[k].by]
          = HistoryTransactions[HistoryRevisions[k].by]
    BY <1>2, <2>1
  <2>3. HistoryRevisions[k].by \in 1..(m + 1)
    BY <2>1
  <2> QED
    BY <2>1, <2>2, <2>3
<1> QED
  BY <1>2, <1>3 DEF RevisionsInv, Entry

\* W holds a tree for each edit on stack s, and t at the end: going down the
\* stack, each edit leads from the tree below it to its own.
Stack(W, s, H, t, here, there) ==
    /\ W \in [0..Len(s) -> Trees]
    /\ W[Len(s)] = t
    /\ \A j \in 1..Len(s) : Leads(W[j - 1], H[s[j]].fileStates, W[j], here, there)

\* Both stacks lead to the source; nothing is on them twice.
Stacks(p, q, H, t, here, there) ==
    /\ \A i \in 1..Len(p) : p[i] \in 1..Len(H)
    /\ \A i \in 1..Len(q) : q[i] \in 1..Len(H)
    /\ \A i, j \in 1..Len(p) : p[i] = p[j] => i = j
    /\ \A i, j \in 1..Len(q) : q[i] = q[j] => i = j
    /\ \A i \in 1..Len(p), j \in 1..Len(q) : p[i] # q[j]
    /\ \E W : Stack(W, p, H, t, here, there)
    /\ \E V : Stack(V, q, H, t, there, here)

\* Restoring needs the chain of revisions, undo and redo the trees of the stacks;
\* neither follows from a step's guards alone.
HistoryInv ==
    /\ HistoryTypeOK
    /\ RevisionsInv
    /\ ~byName => Stacks(past, future, HistoryTransactions, tree, "before", "after")

\* A stack stays as it is when the source does.
LEMMA StackStays ==
    ASSUME NEW s \in Seq(Nat), NEW H \in Seq(Transaction), NEW e \in Transaction,
           NEW t, NEW here, NEW there, NEW W, Stack(W, s, H, t, here, there),
           \A i \in 1..Len(s) : s[i] \in 1..Len(H)
    PROVE  Stack(W, s, Append(H, e), t, here, there)
<1>1. \A k \in 1..Len(H) : Append(H, e)[k] = H[k]
  BY AppendProperties
<1>2. ASSUME NEW j \in 1..Len(s)
      PROVE  Leads(W[j - 1], Append(H, e)[s[j]].fileStates, W[j], here, there)
  <2>1. Append(H, e)[s[j]] = H[s[j]]
    BY <1>1
  <2> QED
    BY <2>1 DEF Stack
<1> QED
  BY <1>2 DEF Stack

\* An edit that leads to the new source is put on a stack.
LEMMA StackGrows ==
    ASSUME NEW s \in Seq(Nat), NEW H, NEW t, NEW here, NEW there, NEW W,
           Stack(W, s, H, t, here, there),
           NEW id \in Nat, NEW u \in Trees, Leads(t, H[id].fileStates, u, here, there)
    PROVE  \E V : Stack(V, Append(s, id), H, u, here, there)
<1>1. PICK n \in Nat : n = Len(s)
  OBVIOUS
<1> DEFINE V == [j \in 0..(n + 1) |-> IF j = n + 1 THEN u ELSE W[j]]
           r == Append(s, id)
<1>2. Len(r) = n + 1 /\ r[n + 1] = id /\ \A j \in 1..n : r[j] = s[j]
  BY <1>1, AppendProperties
<1>3. W \in [0..n -> Trees] /\ W[n] = t
  BY <1>1 DEF Stack
<1>4. V \in [0..(n + 1) -> Trees] /\ V[n + 1] = u /\ \A j \in 0..n : V[j] = W[j]
  BY <1>3
<1>5. ASSUME NEW j \in 1..(n + 1)
      PROVE  Leads(V[j - 1], H[r[j]].fileStates, V[j], here, there)
  <2> HIDE DEF V, r
  <2>1. CASE j = n + 1
    BY <2>1, <1>2, <1>3, <1>4
  <2>2. CASE j # n + 1
    <3>1. j \in 1..n /\ j - 1 \in 0..n /\ j \in 0..n
      BY <2>2
    <3>2. V[j] = W[j] /\ V[j - 1] = W[j - 1] /\ r[j] = s[j]
      BY <3>1, <1>2, <1>4
    <3>3. Leads(W[j - 1], H[s[j]].fileStates, W[j], here, there)
      BY <3>1, <1>1 DEF Stack
    <3> QED
      BY <3>2, <3>3
  <2> QED
    BY <2>1, <2>2
<1> HIDE DEF V, r
<1>6. Stack(V, r, H, u, here, there)
  BY <1>2, <1>4, <1>5 DEF Stack
<1> QED
  BY <1>6 DEF r

\* The last edit of a stack leads from the tree of the stack without it.
LEMMA StackShrinks ==
    ASSUME NEW s \in Seq(Nat), s # <<>>, NEW H, NEW t, NEW here, NEW there, NEW W,
           Stack(W, s, H, t, here, there)
    PROVE  \E u \in Trees : /\ \E V : Stack(V, Front(s), H, u, here, there)
                           /\ Leads(u, H[Last(s)].fileStates, t, here, there)
<1>1. PICK n \in Nat : n = Len(s) /\ n # 0
  BY EmptySeq
<1>2. PICK m \in Nat : m = n - 1
  BY <1>1
<1>3. Len(Front(s)) = m /\ Last(s) = s[n] /\ \A j \in 1..m : Front(s)[j] = s[j]
  <2>1. \A j \in 1..m : s[j] \in Nat
    BY <1>1, <1>2, ElementOfSeq
  <2> QED
    BY <1>1, <1>2, <2>1, SubSeqProperties DEF Front, Last
<1>4. W \in [0..n -> Trees] /\ W[n] = t
  BY <1>1 DEF Stack
<1> DEFINE V == [j \in 0..m |-> W[j]]
<1>5. V \in [0..m -> Trees] /\ V[m] = W[m] /\ W[m] \in Trees
  BY <1>1, <1>2, <1>4
<1>6. ASSUME NEW j \in 1..m
      PROVE  Leads(V[j - 1], H[Front(s)[j]].fileStates, V[j], here, there)
  <2>1. V[j - 1] = W[j - 1] /\ V[j] = W[j] /\ j \in 1..n
    BY <1>2
  <2>2. Leads(W[j - 1], H[s[j]].fileStates, W[j], here, there)
    BY <1>1, <2>1 DEF Stack
  <2> QED
    BY <1>3, <2>1, <2>2
<1>7. Stack(V, Front(s), H, W[m], here, there)
  <2> HIDE DEF V
  <2> QED
    BY <1>3, <1>5, <1>6 DEF Stack
<1>8. Leads(W[m], H[Last(s)].fileStates, t, here, there)
  <2>1. Leads(W[n - 1], H[s[n]].fileStates, W[n], here, there)
    BY <1>1 DEF Stack
  <2> QED
    BY <1>2, <1>3, <1>4, <2>1
<1> QED
  BY <1>3, <1>5, <1>7, <1>8

\* An empty stack leads nowhere.
LEMMA StackEmpty ==
    ASSUME NEW H, NEW u \in Trees, NEW here, NEW there
    PROVE  \E V : Stack(V, <<>>, H, u, here, there)
<1> DEFINE V == [j \in 0..0 |-> u]
<1>1. V \in [0..0 -> Trees] /\ V[0] = u /\ Len(<<>>) = 0
  OBVIOUS
<1> HIDE DEF V
<1>2. Stack(V, <<>>, H, u, here, there)
  BY <1>1 DEF Stack
<1> QED
  BY <1>2

\* A change read backwards.
LEMMA LeadsBack ==
    ASSUME NEW s, NEW states, NEW t, NEW here, NEW there
    PROVE  Leads(s, states, t, here, there) <=> Leads(t, states, s, there, here)
BY DEF Leads

\* A tree whose changed files are put back.
PutBack(t, states, side) ==
    [f \in Files |-> IF f \in DOMAIN states THEN states[f][side] ELSE t[f]]

\* Where a change comes from is known.
LEMMA LeadsFrom ==
    ASSUME NEW s \in Trees, NEW states, NEW t \in Trees, NEW here, NEW there,
           Leads(s, states, t, here, there)
    PROVE  s = PutBack(t, states, here)
<1>1. s \in [Files -> Contents]
  BY DEF Trees
<1>2. \A f \in Files : s[f] = IF f \in DOMAIN states THEN states[f][here] ELSE t[f]
  BY DEF Leads
<1> QED
  BY <1>1, <1>2 DEF PutBack

\* Undo and redo mirror each other.
LEMMA StacksMirror ==
    ASSUME NEW p, NEW q, NEW H, NEW t, NEW here, NEW there, Stacks(p, q, H, t, here, there)
    PROVE  Stacks(q, p, H, t, there, here)
BY DEF Stacks

\* Both stacks stay as they are when the source does.
LEMMA StacksStay ==
    ASSUME NEW p \in Seq(Nat), NEW q \in Seq(Nat), NEW H \in Seq(Transaction),
           NEW e \in Transaction, NEW t, NEW here, NEW there,
           Stacks(p, q, H, t, here, there)
    PROVE  Stacks(p, q, Append(H, e), t, here, there)
<1>1. PICK m \in Nat : m = Len(H) /\ Len(Append(H, e)) = m + 1
  BY AppendProperties
<1>2. /\ \A i \in 1..Len(p) : p[i] \in 1..m
      /\ \A i \in 1..Len(q) : q[i] \in 1..m
  BY <1>1 DEF Stacks
<1>3. /\ \A i \in 1..Len(p) : p[i] \in 1..(m + 1)
      /\ \A i \in 1..Len(q) : q[i] \in 1..(m + 1)
  BY <1>2
<1>4. \E W : Stack(W, p, Append(H, e), t, here, there)
  <2>1. PICK W : Stack(W, p, H, t, here, there)
    BY DEF Stacks
  <2>2. Stack(W, p, Append(H, e), t, here, there)
    BY <2>1, <1>1, <1>2, StackStays
  <2> QED
    BY <2>2
<1>5. \E V : Stack(V, q, Append(H, e), t, there, here)
  <2>1. PICK V : Stack(V, q, H, t, there, here)
    BY DEF Stacks
  <2>2. Stack(V, q, Append(H, e), t, there, here)
    BY <2>1, <1>1, <1>2, StackStays
  <2> QED
    BY <2>2
<1> QED
  BY <1>1, <1>3, <1>4, <1>5 DEF Stacks

\* A new edit is put on the one stack, and the other is given up.
LEMMA StacksPush ==
    ASSUME NEW p \in Seq(Nat), NEW q \in Seq(Nat), NEW H \in Seq(Transaction),
           NEW e \in Transaction, NEW t, NEW here, NEW there,
           Stacks(p, q, H, t, here, there),
           NEW u \in Trees, Leads(t, e.fileStates, u, here, there)
    PROVE  Stacks(Append(p, Len(H) + 1), <<>>, Append(H, e), u, here, there)
<1>1. PICK m \in Nat : m = Len(H) /\ Len(Append(H, e)) = m + 1 /\ Append(H, e)[m + 1] = e
  BY AppendProperties
<1>2. PICK n \in Nat : n = Len(p)
  OBVIOUS
<1> DEFINE r == Append(p, m + 1)
<1>3. Len(r) = n + 1 /\ r[n + 1] = m + 1 /\ \A i \in 1..n : r[i] = p[i]
  BY <1>2, AppendProperties
<1>4. \A i \in 1..n : p[i] \in 1..m
  BY <1>1, <1>2 DEF Stacks
<1>5. \A i, j \in 1..n : p[i] = p[j] => i = j
  BY <1>2 DEF Stacks
<1>6. PICK W : Stack(W, p, Append(H, e), t, here, there)
  <2>1. Stacks(p, q, Append(H, e), t, here, there)
    BY StacksStay
  <2> QED
    BY <2>1 DEF Stacks
<1>7. \E V : Stack(V, r, Append(H, e), u, here, there)
  <2>1. PICK G : G = Append(H, e)
    OBVIOUS
  <2>2. PICK id \in Nat : id = m + 1
    OBVIOUS
  <2>3. Leads(t, G[id].fileStates, u, here, there) /\ Stack(W, p, G, t, here, there)
    BY <1>1, <1>6, <2>1, <2>2
  <2>4. \E V : Stack(V, Append(p, id), G, u, here, there)
    BY <2>3, StackGrows
  <2> QED
    BY <2>1, <2>2, <2>4
<1>8. \E V : Stack(V, <<>>, Append(H, e), u, there, here)
  BY StackEmpty
<1> HIDE DEF r
<1>9. ASSUME NEW i \in 1..(n + 1) PROVE r[i] \in 1..(m + 1)
  <2>1. CASE i = n + 1
    BY <2>1, <1>3
  <2>2. CASE i # n + 1
    <3>1. i \in 1..n
      BY <2>2
    <3>2. p[i] \in 1..m
      BY <3>1, <1>4
    <3> QED
      BY <3>1, <3>2, <1>3
  <2> QED
    BY <2>1, <2>2
<1>10. ASSUME NEW i \in 1..(n + 1), NEW j \in 1..(n + 1), r[i] = r[j] PROVE i = j
  <2>1. ASSUME NEW k \in 1..n PROVE r[k] # m + 1
    <3>1. r[k] = p[k] /\ p[k] \in 1..m
      BY <1>3, <1>4
    <3> QED
      BY ONLY <3>1, m \in Nat
  <2>2. CASE i = n + 1
    BY <2>1, <2>2, <1>3, <1>10
  <2>3. CASE j = n + 1
    BY <2>1, <2>3, <1>3, <1>10
  <2>4. CASE i # n + 1 /\ j # n + 1
    BY <2>4, <1>3, <1>5, <1>10
  <2> QED
    BY <2>2, <2>3, <2>4
<1>11. Len(<<>>) = 0
  OBVIOUS
<1>12. Stacks(r, <<>>, Append(H, e), u, here, there)
  BY <1>1, <1>3, <1>7, <1>8, <1>9, <1>10, <1>11 DEF Stacks
<1> QED
  BY <1>1, <1>12 DEF r

\* The last edit of the one stack is undone and put on the other.
LEMMA StacksMove ==
    ASSUME NEW p \in Seq(Nat), NEW q \in Seq(Nat), NEW H \in Seq(Transaction),
           NEW e \in Transaction, NEW t \in Trees, NEW here, NEW there,
           Stacks(p, q, H, t, here, there), p # <<>>,
           DOMAIN H[Last(p)].fileStates \subseteq Files
    PROVE  Stacks(Front(p), Append(q, Last(p)), Append(H, e),
                  PutBack(t, H[Last(p)].fileStates, here), here, there)
<1> DEFINE states == H[Last(p)].fileStates
           u == PutBack(t, states, here)
<1>1. PICK m \in Nat : m = Len(H) /\ Len(Append(H, e)) = m + 1
                      /\ \A k \in 1..m : Append(H, e)[k] = H[k]
  BY AppendProperties
<1>2. PICK n \in Nat : n = Len(p) /\ n # 0
  BY EmptySeq
<1> HIDE DEF u
<1>3. PICK k \in Nat : k = n - 1
  BY <1>2
<1>4. Len(Front(p)) = k /\ Front(p) \in Seq(Nat) /\ Last(p) = p[n]
      /\ \A j \in 1..k : Front(p)[j] = p[j]
  <2>1. \A j \in 1..k : p[j] \in Nat
    BY <1>2, <1>3, ElementOfSeq
  <2> QED
    BY <1>2, <1>3, <2>1, SubSeqProperties DEF Front, Last
<1>5. \A i \in 1..n : p[i] \in 1..m
  BY <1>1, <1>2 DEF Stacks
<1>6. PICK id \in 1..m : id = Last(p)
  BY <1>2, <1>4, <1>5
<1>7. PICK l \in Nat : l = Len(q)
  OBVIOUS
<1> DEFINE r == Append(q, id)
<1>8. Len(r) = l + 1 /\ r[l + 1] = id /\ \A i \in 1..l : r[i] = q[i]
  BY <1>7, AppendProperties
<1>9. Append(H, e)[id].fileStates = states
  BY <1>1, <1>6
<1> HIDE DEF states
<1>10. Stacks(p, q, Append(H, e), t, here, there)
  BY StacksStay
<1>11. PICK W : Stack(W, p, Append(H, e), t, here, there)
  BY <1>10 DEF Stacks
<1>12. PICK x \in Trees : /\ \E V : Stack(V, Front(p), Append(H, e), x, here, there)
                          /\ Leads(x, states, t, here, there)
  <2>1. PICK x \in Trees : /\ \E V : Stack(V, Front(p), Append(H, e), x, here, there)
                          /\ Leads(x, Append(H, e)[Last(p)].fileStates, t, here, there)
    BY <1>11, StackShrinks
  <2> QED
    BY <1>6, <1>9, <2>1
<1>13. x = u
  <2>1. x = PutBack(t, states, here)
    BY <1>12, LeadsFrom
  <2> QED
    BY <2>1 DEF u
<1>14. PICK V : Stack(V, q, Append(H, e), t, there, here)
  BY <1>10 DEF Stacks
<1>15. Leads(t, states, u, there, here)
  BY <1>12, <1>13, LeadsBack
<1>16. \E Z : Stack(Z, r, Append(H, e), u, there, here)
  <2>1. PICK G : G = Append(H, e)
    OBVIOUS
  <2>2. id \in Nat /\ x \in Trees
    BY <1>12
  <2>3. Leads(t, G[id].fileStates, x, there, here) /\ Stack(V, q, G, t, there, here)
    BY <1>9, <1>13, <1>14, <1>15, <2>1
  <2>4. \E Z : Stack(Z, Append(q, id), G, x, there, here)
    BY <2>2, <2>3, StackGrows
  <2> QED
    BY <1>13, <2>1, <2>4
<1>17. \A i \in 1..l : q[i] \in 1..m
  BY <1>1, <1>7 DEF Stacks
<1>18. \A i, j \in 1..n : p[i] = p[j] => i = j
  BY <1>2 DEF Stacks
<1>19. \A i, j \in 1..l : q[i] = q[j] => i = j
  BY <1>7 DEF Stacks
<1>20. \A i \in 1..n, j \in 1..l : p[i] # q[j]
  BY <1>2, <1>7 DEF Stacks
<1> HIDE DEF r
<1>21. /\ \A i \in 1..k : Front(p)[i] \in 1..(m + 1)
       /\ \A i, j \in 1..k : Front(p)[i] = Front(p)[j] => i = j
  <2>1. ASSUME NEW i \in 1..k PROVE i \in 1..n /\ Front(p)[i] = p[i] /\ p[i] \in 1..(m + 1)
    <3>1. i \in 1..n
      BY <1>2, <1>3
    <3>2. p[i] \in 1..m
      BY <3>1, <1>5
    <3>3. Front(p)[i] = p[i]
      BY <1>4
    <3>4. p[i] \in 1..(m + 1)
      BY ONLY <3>2, m \in Nat
    <3> QED
      BY <3>1, <3>3, <3>4
  <2>2. ASSUME NEW i \in 1..k, NEW j \in 1..k, Front(p)[i] = Front(p)[j] PROVE i = j
    BY <2>1, <2>2, <1>18
  <2> QED
    BY <2>1, <2>2
<1>22. ASSUME NEW i \in 1..(l + 1) PROVE r[i] \in 1..(m + 1)
  <2>1. CASE i = l + 1
    BY <2>1, <1>6, <1>8
  <2>2. CASE i # l + 1
    <3>1. i \in 1..l
      BY <2>2
    <3>2. q[i] \in 1..m
      BY <3>1, <1>17
    <3> QED
      BY <3>1, <3>2, <1>8
  <2> QED
    BY <2>1, <2>2
<1>23. ASSUME NEW i \in 1..(l + 1), NEW j \in 1..(l + 1), r[i] = r[j] PROVE i = j
  <2>1. \A g \in 1..l : r[g] # id
    BY <1>2, <1>4, <1>6, <1>8, <1>20
  <2>2. CASE i = l + 1
    BY <2>1, <2>2, <1>8, <1>23
  <2>3. CASE j = l + 1
    BY <2>1, <2>3, <1>8, <1>23
  <2>4. CASE i # l + 1 /\ j # l + 1
    BY <2>4, <1>8, <1>19, <1>23
  <2> QED
    BY <2>2, <2>3, <2>4
<1>24. ASSUME NEW i \in 1..k, NEW j \in 1..(l + 1) PROVE Front(p)[i] # r[j]
  <2>1. Front(p)[i] = p[i] /\ i \in 1..n /\ n \in 1..n /\ i # n
    BY <1>2, <1>3, <1>4
  <2>2. CASE j = l + 1
    BY <2>1, <2>2, <1>4, <1>6, <1>8, <1>18
  <2>3. CASE j # l + 1
    BY <2>1, <2>3, <1>8, <1>20
  <2> QED
    BY <2>2, <2>3
<1>25. Stacks(Front(p), r, Append(H, e), u, here, there)
  BY <1>1, <1>4, <1>8, <1>12, <1>13, <1>16, <1>21, <1>22, <1>23, <1>24 DEF Stacks
<1> QED
  BY <1>6, <1>25 DEF r, u, states
-----------------------------------------------------------------------------
(* Every step keeps the invariant.                                          *)

\* The files and contents a recorded transaction speaks of exist.
LEMMA EntryStates ==
    ASSUME HistoryTypeOK, NEW id \in 1..HistoryLength, NEW side \in {"before", "after"}
    PROVE  /\ DOMAIN Entry(id).fileStates \subseteq Files
           /\ \A f \in DOMAIN Entry(id).fileStates : Entry(id).fileStates[f][side] \in Contents
<1>1. Entry(id) \in Transaction
  BY HistoryType, ElementOfSeq DEF Entry, HistoryLength
<1>2. Entry(id).fileStates \in UNION {[F -> Change] : F \in SUBSET Files}
  BY <1>1 DEF Transaction
<1>3. PICK F \in SUBSET Files : Entry(id).fileStates \in [F -> Change]
  BY <1>2
<1>4. ASSUME NEW f \in F PROVE Entry(id).fileStates[f][side] \in Contents
  <2>1. Entry(id).fileStates[f] \in Change
    BY <1>3
  <2> QED
    BY <2>1 DEF Change
<1> QED
  BY <1>3, <1>4

\* A save or a restore.
LEMMA PushedStep ==
    ASSUME HistoryInv, NEW to, DOMAIN to \subseteq Files, \A f \in DOMAIN to : to[f] \in Contents,
           Record(FileStates(to)), Pushed, UNCHANGED archives
    PROVE  HistoryInv'
<1>1. HistoryTypeOK
  BY DEF HistoryInv
<1>2. PICK e \in Transaction : Commits(e)
  BY <1>1, AcceptedCommits
<1>3. byName' = byName
  BY DEF Record
<1>4. past \in Seq(Nat) /\ future \in Seq(Nat) /\ byName \in BOOLEAN
  BY DEF HistoryInv, HistoryTypeOK
<1>5. past' = Append(past, HistoryLength + 1) /\ future' = <<>>
  BY DEF Pushed
<1>6. HistoryTypeOK'
  <2>1. tree' \in Trees
    BY <1>2 DEF Commits
  <2>2. past' \in Seq(Nat) /\ future' \in Seq(Nat)
    BY <1>1, <1>4, <1>5, HistoryType, AppendProperties
  <2>3. transactions' \in Seq(Transaction) /\ revisions' \in Seq(Revision)
    BY <1>1, AcceptedCommits
  <2> QED
    BY <1>3, <1>4, <2>1, <2>2, <2>3 DEF HistoryInv, HistoryTypeOK
<1>7. RevisionsInv'
  BY <1>1, <1>2, RevisionsCommit DEF HistoryInv
<1>8. ASSUME ~byName
      PROVE  Stacks(past', future', HistoryTransactions', tree', "before", "after")
  <2>1. Stacks(past, future, HistoryTransactions, tree, "before", "after")
    BY <1>8 DEF HistoryInv
  <2>2. /\ HistoryTransactions' = Append(HistoryTransactions, e)
        /\ tree' \in Trees
        /\ Leads(tree, e.fileStates, tree', "before", "after")
    BY <1>2 DEF Commits
  <2>3. HistoryTransactions \in Seq(Transaction)
        /\ HistoryLength = Len(HistoryTransactions)
    BY <1>1, HistoryType DEF HistoryLength
  <2>4. Stacks(Append(past, Len(HistoryTransactions) + 1), <<>>,
              Append(HistoryTransactions, e),
               tree', "before", "after")
    BY ONLY <1>4, <2>1, <2>2, <2>3, e \in Transaction, StacksPush
  <2> QED
    BY <1>5, <2>2, <2>3, <2>4
<1> QED
  BY <1>3, <1>6, <1>7, <1>8 DEF HistoryInv

\* A step that records a transaction and leaves the source and the stacks.
LEMMA QuietStep ==
    ASSUME HistoryInv, HistoryTypeOK', RevisionsInv', NEW e \in Transaction,
           HistoryTransactions' = Append(HistoryTransactions, e),
           UNCHANGED <<tree, past, future, byName>>
    PROVE  HistoryInv'
<1>1. past \in Seq(Nat) /\ future \in Seq(Nat) /\ HistoryTransactions \in Seq(Transaction)
  BY HistoryType DEF HistoryInv, HistoryTypeOK
<1>2. ASSUME ~byName
      PROVE  Stacks(past, future, Append(HistoryTransactions, e), tree, "before", "after")
  <2>1. Stacks(past, future, HistoryTransactions, tree, "before", "after")
    BY <1>2 DEF HistoryInv
  <2> QED
    BY ONLY <1>1, <2>1, e \in Transaction, StacksStay
<1> QED
  BY <1>2 DEF HistoryInv

\* A checkpoint keeps the invariant.
LEMMA CheckpointStep ==
    ASSUME HistoryInv, Checkpoint
    PROVE  HistoryInv'
<1>1. HistoryTypeOK
  BY DEF HistoryInv
<1>2. PICK to : to = <<>> /\ DOMAIN to = {}
  OBVIOUS
<1>3. Record(FileStates(to)) /\ UNCHANGED <<archives, past, future>>
  BY <1>2 DEF Checkpoint
<1>4. /\ tree' = [f \in Files |-> IF f \in DOMAIN to THEN to[f] ELSE tree[f]]
      /\ transactions' \in Seq(Transaction)
      /\ revisions' \in Seq(Revision)
      /\ \E e \in Transaction : Commits(e)
  BY <1>1, <1>2, <1>3, AcceptedCommits
<1>5. PICK e \in Transaction : Commits(e)
  BY <1>4
<1>6. byName' = byName
  BY <1>3 DEF Record
<1>7. tree' = tree
  <2>1. tree \in [Files -> Contents]
    BY <1>1 DEF HistoryTypeOK, Trees
  <2> QED
    BY <2>1, <1>2, <1>4
<1>8. HistoryTypeOK'
  BY <1>1, <1>3, <1>4, <1>6, <1>7 DEF HistoryTypeOK
<1>9. RevisionsInv'
  BY <1>1, <1>5, RevisionsCommit DEF HistoryInv
<1>10. HistoryTransactions' = Append(HistoryTransactions, e)
  BY <1>5 DEF Commits
<1> QED
  BY <1>3, <1>6, <1>7, <1>8, <1>9, <1>10, QuietStep

\* A compaction keeps the invariant.
LEMMA CompactStep ==
    ASSUME HistoryInv, Compact
    PROVE  HistoryInv'
<1>1. HistoryTypeOK
  BY DEF HistoryInv
<1>2. PICK e \in Transaction : Commits(e)
  BY <1>1, CompactCommits
<1>3. UNCHANGED <<tree, past, future, byName>>
  BY DEF Compact
<1>4. HistoryTypeOK'
  <2>1. /\ archives' \in Seq([transactions : Seq(Transaction), revisions : Seq(Revision)])
        /\ transactions' \in Seq(Transaction)
        /\ revisions' \in Seq(Revision)
    BY <1>1, CompactCommits
  <2> QED
    BY <1>1, <1>3, <2>1 DEF HistoryTypeOK
<1>5. RevisionsInv'
  BY <1>1, <1>2, RevisionsCommit DEF HistoryInv
<1>6. HistoryTransactions' = Append(HistoryTransactions, e)
  BY <1>2 DEF Commits
<1> QED
  BY <1>3, <1>4, <1>5, <1>6, QuietStep

\* What a rejected edit records.
LEMMA RejectRecords ==
    ASSUME HistoryTypeOK, RecordRejection
    PROVE  \E e \in Transaction : /\ transactions' = Append(transactions, e)
                                 /\ HistoryTransactions' = Append(HistoryTransactions, e)
                                 /\ HistoryRevisions' = HistoryRevisions
<1> DEFINE e == [id |-> HistoryLength + 1, accepted |-> FALSE, fileStates |-> <<>>]
<1>1. e \in Transaction
  <2>1. <<>> \in [{} -> Change] /\ {} \in SUBSET Files
    OBVIOUS
  <2>2. <<>> \in UNION {[F -> Change] : F \in SUBSET Files}
    BY <2>1
  <2>3. PICK states \in UNION {[F -> Change] : F \in SUBSET Files} : states = <<>>
    BY <2>2
  <2>4. [id |-> HistoryLength + 1, accepted |-> FALSE, fileStates |-> states] \in Transaction
    BY HistoryType DEF Transaction
  <2> QED
    BY <2>3, <2>4
<1>2. transactions' = Append(transactions, e) /\ UNCHANGED <<revisions, archives>>
  BY DEF RecordRejection
<1>3. HistoryTransactions' = Archived("transactions") \o Append(transactions, e)
  BY <1>2, ArchivedStays DEF HistoryTransactions
<1>4. HistoryRevisions' = HistoryRevisions
  BY <1>2, ArchivedStays DEF HistoryRevisions
<1>5. transactions \in Seq(Transaction) /\ Archived("transactions") \in Seq(Transaction)
  BY HistoryType DEF HistoryTypeOK
<1> HIDE DEF e
<1>6. Archived("transactions") \o Append(transactions, e) = Append(HistoryTransactions, e)
  BY <1>1, <1>5, ConcatAppend DEF HistoryTransactions
<1> QED
  BY <1>1, <1>2, <1>3, <1>4, <1>6

\* A rejected edit keeps the invariant.
LEMMA RejectedStep ==
    ASSUME HistoryInv, RecordRejection
    PROVE  HistoryInv'
<1>1. HistoryTypeOK
  BY DEF HistoryInv
<1>2. PICK e \in Transaction : /\ transactions' = Append(transactions, e)
                              /\ HistoryTransactions' = Append(HistoryTransactions, e)
                              /\ HistoryRevisions' = HistoryRevisions
  BY <1>1, RejectRecords
<1>3. UNCHANGED <<tree, revisions, archives, past, future, byName>>
  BY DEF RecordRejection
<1>4. transactions' \in Seq(Transaction)
  BY <1>1, <1>2, AppendProperties DEF HistoryTypeOK
<1>5. HistoryTypeOK'
  BY <1>1, <1>3, <1>4 DEF HistoryTypeOK
<1>6. RevisionsInv'
  BY <1>1, <1>2, <1>3, RevisionsStay DEF HistoryInv
<1> QED
  BY <1>2, <1>3, <1>5, <1>6, QuietStep

\* An undo or a redo puts the files of an edit back.
LEMMA InverseCommits ==
    ASSUME HistoryTypeOK, NEW id \in 1..HistoryLength, NEW side \in {"before", "after"},
           Record(InverseStates(id, side)), UNCHANGED archives
    PROVE  /\ tree' = PutBack(tree, Entry(id).fileStates, side)
           /\ transactions' \in Seq(Transaction)
           /\ revisions' \in Seq(Revision)
           /\ byName' = byName
           /\ \E e \in Transaction : Commits(e)
<1>1. PICK states : states = Entry(id).fileStates
  OBVIOUS
<1>2. DOMAIN states \subseteq Files /\ \A f \in DOMAIN states : states[f][side] \in Contents
  BY <1>1, EntryStates
<1> DEFINE to == [f \in DOMAIN states |-> states[f][side]]
<1>3. /\ DOMAIN to \subseteq Files
      /\ \A f \in DOMAIN to : to[f] \in Contents
      /\ Record(FileStates(to))
  BY <1>1, <1>2 DEF InverseStates
<1>4. [f \in Files |-> IF f \in DOMAIN to THEN to[f] ELSE tree[f]] = PutBack(tree, states, side)
  BY DEF PutBack
<1> HIDE DEF to
<1>5. byName' = byName
  BY <1>3 DEF Record
<1> QED
  BY <1>1, <1>3, <1>4, <1>5, AcceptedCommits

\* The last of a stack is on it.
LEMMA LastOfStack ==
    ASSUME NEW s \in Seq(Nat), NEW id, Named(s, id)
    PROVE  s # <<>> /\ (~byName => id = Last(s))
<1>1. id \in Range(s)
  BY DEF Named
<1>2. s # <<>>
  BY <1>1 DEF Range
<1> QED
  BY <1>2 DEF Named

\* An undo, of the last edit or by name, keeps the invariant.
LEMMA RevertStep ==
    ASSUME HistoryInv, NEW id \in 1..HistoryLength, Revert(id)
    PROVE  HistoryInv'
<1>1. HistoryTypeOK
  BY DEF HistoryInv
<1>2. /\ past \in Seq(Nat) /\ future \in Seq(Nat) /\ byName \in BOOLEAN
      /\ HistoryTransactions \in Seq(Transaction) /\ tree \in Trees
  BY <1>1, HistoryType DEF HistoryTypeOK
<1>3. /\ Named(past, id)
      /\ Record(InverseStates(id, "before"))
      /\ past' = Without(past, id)
      /\ future' = Append(future, id)
      /\ UNCHANGED archives
  BY DEF Revert
<1>4. /\ tree' = PutBack(tree, Entry(id).fileStates, "before")
      /\ transactions' \in Seq(Transaction)
      /\ revisions' \in Seq(Revision)
      /\ byName' = byName
      /\ \E e \in Transaction : Commits(e)
  BY <1>1, <1>3, InverseCommits
<1>5. PICK e \in Transaction : Commits(e)
  BY <1>4
<1>6. HistoryTransactions' = Append(HistoryTransactions, e) /\ tree' \in Trees
  BY <1>5 DEF Commits
<1>7. HistoryTypeOK'
  <2>1. id \in Nat
    BY <1>1, HistoryType
  <2>2. past' \in Seq(Nat) /\ future' \in Seq(Nat)
    BY <1>2, <1>3, <2>1, WithoutType, AppendProperties
  <2> QED
    BY <1>1, <1>3, <1>4, <1>6, <2>2 DEF HistoryTypeOK
<1>8. RevisionsInv'
  BY <1>1, <1>5, RevisionsCommit DEF HistoryInv
<1>9. ASSUME ~byName
      PROVE  Stacks(past', future', HistoryTransactions', tree', "before", "after")
  <2>1. Stacks(past, future, HistoryTransactions, tree, "before", "after")
    BY <1>9 DEF HistoryInv
  <2>2. past # <<>> /\ id = Last(past)
    BY <1>2, <1>3, <1>9, LastOfStack
  <2>3. past' = Front(past)
    <3>1. \A i, j \in DOMAIN past : past[i] = past[j] => i = j
      BY <1>2, <2>1, LenProperties DEF Stacks
    <3> QED
      BY <1>2, <1>3, <2>2, <3>1, WithoutLast
  <2>4. Entry(id) = HistoryTransactions[Last(past)]
    BY <2>2 DEF Entry
  <2>5. DOMAIN HistoryTransactions[Last(past)].fileStates \subseteq Files
    BY <1>1, <2>4, EntryStates
  <2>6. Stacks(Front(past), Append(future, Last(past)), Append(HistoryTransactions, e),
               PutBack(tree,
                         HistoryTransactions[Last(past)].fileStates, "before"), "before", "after")
    BY ONLY <1>2, <2>1, <2>2, <2>5, e \in Transaction, StacksMove
  <2>7. Stacks(past', future', HistoryTransactions', tree', "before", "after")
    BY <1>3, <1>4, <1>6, <2>2, <2>3, <2>4, <2>6
  <2> QED
    BY <2>7
<1> QED
  BY <1>4, <1>7, <1>8, <1>9 DEF HistoryInv

\* A redo keeps the invariant.
LEMMA RedoStep ==
    ASSUME HistoryInv, NEW id \in 1..HistoryLength, Redo(id)
    PROVE  HistoryInv'
<1>1. HistoryTypeOK
  BY DEF HistoryInv
<1>2. /\ past \in Seq(Nat) /\ future \in Seq(Nat) /\ byName \in BOOLEAN
      /\ HistoryTransactions \in Seq(Transaction) /\ tree \in Trees
  BY <1>1, HistoryType DEF HistoryTypeOK
<1>3. /\ Named(future, id)
      /\ Record(InverseStates(id, "after"))
      /\ future' = Without(future, id)
      /\ past' = Append(past, id)
      /\ UNCHANGED archives
  BY DEF Redo
<1>4. /\ tree' = PutBack(tree, Entry(id).fileStates, "after")
      /\ transactions' \in Seq(Transaction)
      /\ revisions' \in Seq(Revision)
      /\ byName' = byName
      /\ \E e \in Transaction : Commits(e)
  BY <1>1, <1>3, InverseCommits
<1>5. PICK e \in Transaction : Commits(e)
  BY <1>4
<1>6. HistoryTransactions' = Append(HistoryTransactions, e) /\ tree' \in Trees
  BY <1>5 DEF Commits
<1>7. HistoryTypeOK'
  <2>1. id \in Nat
    BY <1>1, HistoryType
  <2>2. future' \in Seq(Nat) /\ past' \in Seq(Nat)
    BY <1>2, <1>3, <2>1, WithoutType, AppendProperties
  <2> QED
    BY <1>1, <1>3, <1>4, <1>6, <2>2 DEF HistoryTypeOK
<1>8. RevisionsInv'
  BY <1>1, <1>5, RevisionsCommit DEF HistoryInv
<1>9. ASSUME ~byName
      PROVE  Stacks(past', future', HistoryTransactions', tree', "before", "after")
  <2>1. Stacks(future, past, HistoryTransactions, tree, "after", "before")
    BY <1>9, StacksMirror DEF HistoryInv
  <2>2. future # <<>> /\ id = Last(future)
    BY <1>2, <1>3, <1>9, LastOfStack
  <2>3. future' = Front(future)
    <3>1. \A i, j \in DOMAIN future : future[i] = future[j] => i = j
      BY <1>2, <2>1, LenProperties DEF Stacks
    <3> QED
      BY <1>2, <1>3, <2>2, <3>1, WithoutLast
  <2>4. Entry(id) = HistoryTransactions[Last(future)]
    BY <2>2 DEF Entry
  <2>5. DOMAIN HistoryTransactions[Last(future)].fileStates \subseteq Files
    BY <1>1, <2>4, EntryStates
  <2>6. Stacks(Front(future), Append(past, Last(future)),
              Append(HistoryTransactions, e),
               PutBack(tree,
                         HistoryTransactions[Last(future)].fileStates, "after"), "after", "before")
    BY ONLY <1>2, <2>1, <2>2, <2>5, e \in Transaction, StacksMove
  <2>7. Stacks(future', past', HistoryTransactions', tree', "after", "before")
    BY <1>3, <1>4, <1>6, <2>2, <2>3, <2>4, <2>6
  <2> QED
    BY <2>7, StacksMirror
<1> QED
  BY <1>4, <1>7, <1>8, <1>9 DEF HistoryInv

-----------------------------------------------------------------------------
(* Restoring a revision.                                                    *)

\* Two functions that end alike, and step down alike as long as they are
\* alike, are alike.
LEMMA AlikeDown ==
    ASSUME NEW a \in Nat, NEW n \in Nat, NEW f, NEW g, a <= n,
           f[n] = g[n],
           \A i \in a..n : i # n /\ f[i + 1] = g[i + 1] => f[i] = g[i]
    PROVE  f[a] = g[a]
<1> DEFINE up == [j \in 0..(n - a) |-> f[n - j]]
           wp == [j \in 0..(n - a) |-> g[n - j]]
<1>1. PICK m \in Nat : m = n - a
  OBVIOUS
<1>2. up[0] = wp[0]
  BY <1>1
<1>3. ASSUME NEW j \in 0..m, j # 0, up[j - 1] = wp[j - 1] PROVE up[j] = wp[j]
  <2>1. n - j \in a..n /\ n - j # n /\ j - 1 \in 0..m /\ n - (j - 1) = (n - j) + 1
    BY <1>1, <1>3
  <2>2. f[(n - j) + 1] = g[(n - j) + 1]
    BY <1>1, <1>3, <2>1
  <2> QED
    BY <1>1, <2>1, <2>2
<1>4. m \in 0..m /\ 0 \in Nat
  OBVIOUS
<1>5. up[m] = wp[m]
  <2> HIDE DEF up, wp
  <2> QED
    BY ONLY <1>2, <1>3, <1>4, m \in Nat, Alike
<1>6. up[m] = f[a] /\ wp[m] = g[a]
  BY <1>1
<1> QED
  BY <1>5, <1>6

\* The walk back meets every revision's tree, and no conflict.
LEMMA WalkMeetsRevisions ==
    ASSUME HistoryTypeOK, RevisionsInv, NEW i \in 1..Len(HistoryRevisions)
    PROVE  /\ WalkBack(i).ok
           /\ WalkBack(i).tree = HistoryRevisions[i].tree
           /\ HistoryRevisions[i].tree \in Trees
<1>1. PICK n \in Nat : n = Len(HistoryRevisions)
  BY HistoryType
<1>2. PICK revs : revs = HistoryRevisions
  OBVIOUS
<1>3. \A k \in 1..n : revs[k].tree \in Trees
  <2>1. ASSUME NEW k \in 1..n PROVE revs[k].tree \in Trees
    <3>1. revs[k] \in Revision
      BY <1>1, <1>2, HistoryType, ElementOfSeq
    <3> QED
      BY <3>1 DEF Revision
  <2> QED
    BY <2>1
<1>4. revs[n].tree = tree
  BY <1>1, <1>2 DEF RevisionsInv
<1> DEFINE Step(w) == [k \in i..n |-> IF k = n THEN [ok |-> TRUE, tree |-> tree]
                                            ELSE StepBack(w[k + 1], revs[k + 1])]
           walk == CHOOSE w : w = Step(w)
           met == [k \in i..n |-> [ok |-> TRUE, tree |-> revs[k].tree]]
<1>5. WalkBack(i) = walk[i]
  BY <1>1, <1>2 DEF WalkBack
<1>6. ASSUME NEW k \in i..n, k # n
      PROVE  StepBack([ok |-> TRUE, tree |-> revs[k + 1].tree], revs[k + 1])
             = [ok |-> TRUE, tree |-> revs[k].tree]
  <2>1. k \in 1..n /\ k + 1 \in 2..n /\ k + 1 \in 1..n /\ (k + 1) - 1 = k
    BY <1>6, <1>1
  <2>2. PICK states : states = Entry(revs[k + 1].by).fileStates
    OBVIOUS
  <2>3. Leads(revs[k].tree, states, revs[k + 1].tree, "before", "after")
        /\ revs[k + 1].by \in 1..HistoryLength
    BY <1>1, <1>2, <2>1, <2>2 DEF RevisionsInv
  <2>4. DOMAIN states \subseteq Files
    BY <2>2, <2>3, EntryStates
  <2>5. revs[k].tree = PutBack(revs[k + 1].tree, states, "before")
    BY <1>3, <2>1, <2>3, LeadsFrom
  <2>6. \A f \in DOMAIN states : revs[k + 1].tree[f] = states[f]["after"]
    BY <2>3, <2>4 DEF Leads
  <2> QED
    BY <2>2, <2>5, <2>6 DEF StepBack, PutBack
<1>7. met = Step(met)
  <2>1. ASSUME NEW k \in i..n PROVE met[k] = Step(met)[k]
    <3>1. CASE k = n
      BY <3>1, <1>4
    <3>2. CASE k # n
      <4>1. k + 1 \in i..n
        BY <3>2, <1>1
      <4>2. met[k + 1] = [ok |-> TRUE, tree |-> revs[k + 1].tree]
        BY <4>1
      <4> QED
        BY <3>2, <4>2, <1>6
    <3> QED
      BY <3>1, <3>2
  <2> QED
    BY <2>1
<1>8. walk = Step(walk)
  <2> HIDE DEF Step, met
  <2> QED
    BY <1>7
<1>9. ASSUME NEW k \in i..n
      PROVE  /\ met[k] = IF k = n THEN [ok |-> TRUE, tree |-> tree]
                                  ELSE StepBack(met[k + 1], revs[k + 1])
             /\ walk[k] = IF k = n THEN [ok |-> TRUE, tree |-> tree]
                                   ELSE StepBack(walk[k + 1], revs[k + 1])
  <2>1. met[k] = Step(met)[k] /\ walk[k] = Step(walk)[k]
    <3> HIDE DEF Step, met, walk
    <3> QED
      BY <1>7, <1>8
  <2> HIDE DEF met, walk
  <2> QED
    BY <2>1
<1>10. i \in Nat /\ i <= n /\ n \in i..n
  BY <1>1
<1>11. walk[i] = met[i]
  <2> HIDE DEF met, walk
  <2>1. walk[n] = met[n]
    BY <1>9, <1>10
  <2>2. ASSUME NEW k \in i..n, k # n, walk[k + 1] = met[k + 1] PROVE walk[k] = met[k]
    BY <2>2, <1>9
  <2> QED
    BY ONLY <1>10, <2>1, <2>2, n \in Nat, AlikeDown
<1>12. met[i] = [ok |-> TRUE, tree |-> revs[i].tree]
  BY <1>10
<1> HIDE DEF walk
<1> QED
  BY <1>1, <1>2, <1>3, <1>5, <1>11, <1>12

\* A save is a step of the kind PushedStep is about.
LEMMA SaveStep ==
    ASSUME HistoryInv, NEW e \in Edits, Save(e)
    PROVE  HistoryInv'
<1>1. DOMAIN e \subseteq Files /\ \A f \in DOMAIN e : e[f] \in Contents
  BY HistoryAssumption
<1>2. Record(FileStates(e)) /\ Pushed /\ UNCHANGED archives
  BY DEF Save
<1> QED
  BY <1>1, <1>2, PushedStep

\* A restore is one too: it saves the tree of the revision.
LEMMA RestoreStep ==
    ASSUME HistoryInv, NEW i \in 1..Len(HistoryRevisions), Restore(i)
    PROVE  HistoryInv'
<1>1. PICK to : to = WalkBack(i).tree
  OBVIOUS
<1>2. to \in [Files -> Contents]
  BY <1>1, WalkMeetsRevisions DEF HistoryInv, Trees
<1>3. Record(FileStates(to)) /\ Pushed /\ UNCHANGED archives
  BY <1>1 DEF Restore
<1> QED
  BY <1>2, <1>3, PushedStep
-----------------------------------------------------------------------------
(* Theorems.                                                                *)

\* The invariant holds when a project has been imported, ...
LEMMA HistoryInitInv ==
    ASSUME HistoryInit
    PROVE  HistoryInv
<1>1. First \in Trees /\ tree = First
  BY HistoryAssumption DEF HistoryInit, Trees
<1> DEFINE r == [tree |-> First, by |-> 0]
<1>2. r \in Revision
  BY <1>1 DEF Revision
<1>3. <<r>> \in Seq(Revision) /\ Len(<<r>>) = 1 /\ <<r>>[1] = r
  <2> HIDE DEF r
  <2> QED
    BY <1>2
<1>4. HistoryTypeOK
  <2>1. revisions \in Seq(Revision)
    BY <1>3 DEF HistoryInit
  <2> QED
    BY <1>1, <2>1 DEF HistoryInit, HistoryTypeOK
<1>5. Archived("transactions") = <<>> /\ Archived("revisions") = <<>>
  <2>1. ASSUME NEW field PROVE Archived(field) = <<>>
    <3>1. [i \in DOMAIN archives |-> archives[i][field]] = <<>>
      BY DEF HistoryInit
    <3> QED
      BY <3>1 DEF Archived, FlattenSeq
  <2> QED
    BY <2>1
<1>6. HistoryTransactions = <<>>
  BY <1>5 DEF HistoryTransactions, HistoryInit
<1>7. HistoryRevisions = <<r>>
  <2>1. HistoryRevisions = <<>> \o <<r>>
    BY <1>5 DEF HistoryRevisions, HistoryInit
  <2> HIDE DEF r
  <2> QED
    BY <1>3, <2>1, ConcatEmptySeq
<1>8. RevisionsInv
  <2>1. Len(HistoryRevisions) = 1 /\ HistoryRevisions[1].tree = tree
    BY <1>1, <1>3, <1>7
  <2> QED
    BY <2>1 DEF RevisionsInv
<1>9. Stacks(past, future, HistoryTransactions, tree, "before", "after")
  <2>1. \E W : Stack(W, <<>>, <<>>, tree, "before", "after")
    BY <1>1, StackEmpty
  <2>2. \E V : Stack(V, <<>>, <<>>, tree, "after", "before")
    BY <1>1, StackEmpty
  <2>3. past = <<>> /\ future = <<>> /\ Len(<<>>) = 0
    BY DEF HistoryInit
  <2> QED
    BY <1>6, <2>1, <2>2, <2>3 DEF Stacks
<1> QED
  BY <1>4, <1>8, <1>9 DEF HistoryInv

\* ... every step keeps it, ...
LEMMA HistoryNextInv ==
    ASSUME HistoryInv, [HistoryNext]_historyVars
    PROVE  HistoryInv'
<1>1. CASE \E e \in Edits : Save(e)
  BY <1>1, SaveStep
<1>2. CASE Checkpoint
  BY <1>2, CheckpointStep
<1>3. CASE RecordRejection
  BY <1>3, RejectedStep
<1>4. CASE Compact
  BY <1>4, CompactStep
<1>5. CASE \E id \in 1..HistoryLength : Revert(id)
  BY <1>5, RevertStep
<1>6. CASE \E id \in 1..HistoryLength : Redo(id)
  BY <1>6, RedoStep
<1>7. CASE \E i \in 1..Len(HistoryRevisions) : Restore(i)
  BY <1>7, RestoreStep
<1>8. CASE UNCHANGED historyVars
  <2>1. UNCHANGED <<tree, transactions, revisions, archives, past, future, byName>>
    BY <1>8 DEF historyVars
  <2>2. HistoryTransactions' = HistoryTransactions
        /\ HistoryRevisions' = HistoryRevisions
    BY <2>1, ArchivedStays DEF HistoryTransactions, HistoryRevisions
  <2>3. HistoryTypeOK'
    BY <2>1 DEF HistoryInv, HistoryTypeOK
  <2>4. RevisionsInv'
    BY <2>1, <2>2 DEF HistoryInv, RevisionsInv, HistoryLength, Entry
  <2> QED
    BY <2>1, <2>2, <2>3, <2>4 DEF HistoryInv
<1> QED
  BY <1>1, <1>2, <1>3, <1>4, <1>5, <1>6, <1>7, <1>8 DEF HistoryNext

\* ... so it holds always.
LEMMA HistoryInvariance == HistorySpec => []HistoryInv
<1>1. HistoryInit => HistoryInv
  BY HistoryInitInv
<1>2. HistoryInv /\ [HistoryNext]_historyVars => HistoryInv'
  BY HistoryNextInv
<1> QED
  BY <1>1, <1>2, PTL DEF HistorySpec

\* The chain of revisions makes every one restorable.
LEMMA AllRestorable ==
    ASSUME HistoryInv
    PROVE  EveryRevisionIsRestorable
<1>1. ASSUME NEW i \in 1..Len(HistoryRevisions) PROVE Restorable(i)
  BY WalkMeetsRevisions DEF HistoryInv, Restorable
<1> QED
  BY <1>1 DEF EveryRevisionIsRestorable

\* The last edit of a stack left what is there now.
LEMMA LastNeverConflicts ==
    ASSUME HistoryTypeOK, NEW s \in Seq(Nat), s # <<>>, NEW W,
           NEW here \in {"before", "after"}, NEW there,
           Stack(W, s, HistoryTransactions, tree, here, there),
           \A i \in 1..Len(s) : s[i] \in 1..HistoryLength
    PROVE  ~Conflicts(Last(s), there)
<1>1. Last(s) \in 1..HistoryLength
  BY EmptySeq DEF Last
<1>2. PICK states : states = Entry(Last(s)).fileStates
  OBVIOUS
<1>3. PICK u \in Trees : Leads(u, states, tree, here, there)
  BY <1>2, StackShrinks DEF Entry
<1>4. DOMAIN states \subseteq Files
  BY <1>1, <1>2, EntryStates
<1>5. \A f \in DOMAIN states : tree[f] = states[f][there]
  BY <1>3, <1>4 DEF Leads
<1> QED
  BY <1>2, <1>5 DEF Conflicts

\* The stacks' trees make undo and redo of the last edit free of conflicts.
LEMMA NeverConflicting ==
    ASSUME HistoryInv
    PROVE  UndoNeverConflicts
<1>1. past \in Seq(Nat) /\ future \in Seq(Nat) /\ HistoryTypeOK
  BY DEF HistoryInv, HistoryTypeOK
<1>2. ASSUME ~byName, past # <<>> PROVE ~Conflicts(Last(past), "after")
  <2>1. Stacks(past, future, HistoryTransactions, tree, "before", "after")
    BY <1>2 DEF HistoryInv
  <2>2. PICK W : Stack(W, past, HistoryTransactions, tree, "before", "after")
    BY <2>1 DEF Stacks
  <2>3. \A i \in 1..Len(past) : past[i] \in 1..HistoryLength
    BY <2>1 DEF Stacks, HistoryLength
  <2> QED
    BY <1>1, <1>2, <2>2, <2>3, LastNeverConflicts
<1>3. ASSUME ~byName, future # <<>> PROVE ~Conflicts(Last(future), "before")
  <2>1. Stacks(past, future, HistoryTransactions, tree, "before", "after")
    BY <1>3 DEF HistoryInv
  <2>2. PICK V : Stack(V, future, HistoryTransactions, tree, "after", "before")
    BY <2>1 DEF Stacks
  <2>3. \A i \in 1..Len(future) : future[i] \in 1..HistoryLength
    BY <2>1 DEF Stacks, HistoryLength
  <2> QED
    BY <1>1, <1>3, <2>2, <2>3, LastNeverConflicts
<1> QED
  BY <1>2, <1>3 DEF UndoNeverConflicts

\* A sequence is a prefix of itself ...
LEMMA PrefixRefl ==
    ASSUME NEW T, NEW s \in Seq(T)
    PROVE  IsPrefix(s, s)
BY LenProperties DEF IsPrefix

\* ... and of itself with one more element.
LEMMA PrefixAppend ==
    ASSUME NEW T, NEW s \in Seq(T), NEW x \in T
    PROVE  IsPrefix(s, Append(s, x))
<1>1. PICK n \in Nat : n = Len(s)
  OBVIOUS
<1>2. /\ Append(s, x) \in Seq(T) /\ Len(Append(s, x)) = n + 1
      /\ \A i \in 1..n : Append(s, x)[i] = s[i]
  BY <1>1, AppendProperties
<1>3. PICK r : r = Append(s, x)
  OBVIOUS
<1>4. \A i \in 1..n : s[i] \in T /\ r[i] \in T /\ r[i] = s[i]
  BY <1>1, <1>2, <1>3, ElementOfSeq
<1>5. /\ SubSeq(s, 1, n) \in Seq(T) /\ Len(SubSeq(s, 1, n)) = n
      /\ \A i \in 1..n : SubSeq(s, 1, n)[i] = s[i]
  BY <1>4, SubSeqProperties
<1>6. /\ SubSeq(r, 1, n) \in Seq(T) /\ Len(SubSeq(r, 1, n)) = n
      /\ \A i \in 1..n : SubSeq(r, 1, n)[i] = r[i]
  BY <1>4, SubSeqProperties
<1>7. SubSeq(s, 1, n) = SubSeq(r, 1, n)
  BY ONLY <1>4, <1>5, <1>6, n \in Nat, SeqEqual
<1> QED
  BY <1>1, <1>2, <1>3, <1>7 DEF IsPrefix

\* Every step adds to the history's end, or leaves it.
LEMMA HistoryGrows ==
    ASSUME HistoryInv, [HistoryNext]_historyVars
    PROVE  /\ IsPrefix(HistoryTransactions, HistoryTransactions')
           /\ IsPrefix(HistoryRevisions, HistoryRevisions')
<1>1. /\ HistoryTypeOK
      /\ HistoryTransactions \in Seq(Transaction) /\ HistoryRevisions \in Seq(Revision)
  BY HistoryType DEF HistoryInv
<1>2. ASSUME NEW e, Commits(e)
      PROVE  /\ IsPrefix(HistoryTransactions, HistoryTransactions')
             /\ IsPrefix(HistoryRevisions, HistoryRevisions')
  <2>1. PICK r : r = [tree |-> tree', by |-> HistoryLength + 1]
    OBVIOUS
  <2>2. r \in Revision
    BY <1>1, <1>2, <2>1, HistoryType DEF Commits, Revision
  <2>3. /\ e \in Transaction
        /\ HistoryTransactions' = Append(HistoryTransactions, e)
        /\ HistoryRevisions' = Append(HistoryRevisions, r)
    BY <1>2, <2>1 DEF Commits
  <2> QED
    BY <1>1, <2>2, <2>3, PrefixAppend
<1>3. ASSUME NEW e \in Edits, Save(e) PROVE \E t : Commits(t)
  <2>1. DOMAIN e \subseteq Files /\ \A f \in DOMAIN e : e[f] \in Contents
    BY HistoryAssumption
  <2>2. Record(FileStates(e)) /\ UNCHANGED archives
    BY <1>3 DEF Save
  <2> QED
    BY <1>1, <2>1, <2>2, AcceptedCommits
<1>4. ASSUME Checkpoint PROVE \E t : Commits(t)
  <2>1. PICK to : to = <<>> /\ DOMAIN to = {}
    OBVIOUS
  <2>2. Record(FileStates(to)) /\ UNCHANGED archives
    BY <1>4, <2>1 DEF Checkpoint
  <2> QED
    BY <1>1, <2>1, <2>2, AcceptedCommits
<1>5. ASSUME NEW i \in 1..Len(HistoryRevisions), Restore(i) PROVE \E t : Commits(t)
  <2>1. PICK to : to = WalkBack(i).tree
    OBVIOUS
  <2>2. to \in [Files -> Contents]
    BY <2>1, WalkMeetsRevisions DEF HistoryInv, Trees
  <2>3. Record(FileStates(to)) /\ UNCHANGED archives
    BY <1>5, <2>1 DEF Restore
  <2> QED
    BY <1>1, <2>2, <2>3, AcceptedCommits
<1>6. ASSUME NEW id \in 1..HistoryLength, Revert(id) \/ Redo(id) PROVE \E t : Commits(t)
  <2>1. CASE Revert(id)
    BY <1>1, <2>1, InverseCommits DEF Revert
  <2>2. CASE Redo(id)
    BY <1>1, <2>2, InverseCommits DEF Redo
  <2> QED
    BY <1>6, <2>1, <2>2
<1>7. ASSUME Compact PROVE \E t : Commits(t)
  BY <1>1, <1>7, CompactCommits
<1>8. CASE RecordRejection
  <2>1. PICK e \in Transaction : /\ HistoryTransactions'
                                            = Append(HistoryTransactions, e)
                                /\ HistoryRevisions' = HistoryRevisions
    BY <1>1, <1>8, RejectRecords
  <2> QED
    BY <1>1, <2>1, PrefixAppend, PrefixRefl
<1>9. CASE UNCHANGED historyVars
  <2>1. HistoryTransactions' = HistoryTransactions
        /\ HistoryRevisions' = HistoryRevisions
    BY <1>9, ArchivedStays DEF historyVars, HistoryTransactions, HistoryRevisions
  <2> QED
    BY <1>1, <2>1, PrefixRefl
<1> QED
  BY <1>2, <1>3, <1>4, <1>5, <1>6, <1>7, <1>8, <1>9 DEF HistoryNext

\* Trees, transactions, revisions, archives and stacks keep their types.
THEOREM HistoryTyped == HistorySpec => []HistoryTypeOK
<1>1. HistoryInv => HistoryTypeOK
  BY DEF HistoryInv
<1> QED
  BY <1>1, HistoryInvariance, PTL

\* Every revision ever accepted, archived ones included, can be restored: the
\* walk of restoreOperations from the source back to it meets no conflict and
\* ends at its tree, whatever was undone, redone, restored or compacted since.
THEOREM RevisionsAreRestorable == HistorySpec => []EveryRevisionIsRestorable
BY HistoryInvariance, AllRestorable, PTL

\* historyInverse never refuses to undo the last edit or to redo the last one
\* undone, as long as nobody reverts an edit by name.
THEOREM NoConflictInUndo == HistorySpec => []UndoNeverConflicts
BY HistoryInvariance, NeverConflicting, PTL

\* No step changes or drops a recorded transaction or revision; compactHistory
\* only moves them into an archive.
THEOREM HistoryIsKept == HistorySpec => HistoryOnlyGrows
<1>1. HistoryInv /\ [HistoryNext]_historyVars => /\ IsPrefix(HistoryTransactions,
                                                    HistoryTransactions')
                           /\ IsPrefix(HistoryRevisions, HistoryRevisions')
  BY HistoryGrows
<1> QED
  BY <1>1, HistoryInvariance, PTL DEF HistorySpec, HistoryOnlyGrows
=============================================================================
