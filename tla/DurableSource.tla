---------------------------- MODULE DurableSource ----------------------------
(***************************************************************************)
(* engine/mutations/durableSource.ts: edits of a project's source files    *)
(* that survive a crash.  A commit writes a journal, then the files one by *)
(* one, then the history; renaming the history file is the commit point.   *)
(* Several servers open one project, one at a time through a lock the      *)
(* kernel drops when its holder dies; whoever takes the lock first brings  *)
(* an interrupted commit to an end.  An editor outside Webcanbe may write  *)
(* into the directory at any moment.                                       *)
(*                                                                         *)
(* One file operation (a rename of a synced temporary file, an unlink) is  *)
(* one action.  The reads of a whole tree between two writes are one       *)
(* action too.                                                             *)
(***************************************************************************)
EXTENDS SourceTree, FiniteSets, Naturals

CONSTANTS
    Keys,      \* idempotency keys, one for each edit
    Edit,      \* the files an edit writes and what it writes
    Servers,   \* processes that open the project
    MaxFaults,  \* bound: failing file operations and withdrawn authorities
    MaxCrashes, \* bound: servers that die
    MaxOutside  \* bound: writes from outside

ASSUME EditAssumption ==
    /\ First \in Trees
    /\ \A k \in Keys : DOMAIN Edit[k] \subseteq Files
    /\ \A k \in Keys : \A f \in DOMAIN Edit[k] : Edit[k][f] \in Contents

ASSUME NoneAssumption == "none" \notin Keys \cup Servers

ASSUME BoundAssumption ==
    /\ MaxFaults \in Nat
    /\ MaxCrashes \in Nat
    /\ MaxOutside \in Nat

VARIABLES
    disk,     \* the source files
    history,  \* history.json: the head revision's tree and the transactions
    journal,  \* pending.json
    lock,     \* who holds writer.sqlite's lock
    server,   \* where each server is in an operation
    base,     \* the revision the client of an edit has seen
    answer,   \* what the client of an edit was told
    touched,  \* files written from outside
    faults, crashes, outside

store == <<disk, history, journal>>
vars == <<store, lock, server, base, answer, touched, faults, crashes, outside>>

None == "none"
NoJournal == [key |-> None]
Journal == [key : Keys, files : SUBSET Files, before : Trees]

\* A revision is named by the transactions behind it.
History == [head : Trees, accepted : SUBSET Keys, rejected : SUBSET Keys]
NoBase == {}  \* else the set of the one revision a client has seen

Steps == {"down", "idle", "open", "restore", "leased", "prepared",
          "journaled", "writing", "written", "checked", "accepted"}
Server == [step : Steps, key : Keys \cup {None}, todo : SUBSET Files,
           failing : BOOLEAN, poisoned : BOOLEAN]
Down == [step |-> "down", key |-> None, todo |-> {}, failing |-> FALSE, poisoned |-> FALSE]

TypeOK ==
    /\ disk \in Trees
    /\ history \in History
    /\ journal \in Journal \cup {NoJournal}
    /\ lock \in Servers \cup {None}
    /\ server \in [Servers -> Server]
    /\ base \in [Keys -> SUBSET SUBSET Keys]
    /\ answer \in [Keys -> {"none", "accepted", "refused", "failed"}]
    /\ touched \in SUBSET Files
    /\ faults \in 0..MaxFaults
    /\ crashes \in 0..MaxCrashes
    /\ outside \in 0..MaxOutside

Init ==
    /\ disk = First
    /\ history = [head |-> First, accepted |-> {}, rejected |-> {}]
    /\ journal = NoJournal
    /\ lock = None
    /\ server = [s \in Servers |-> Down]
    /\ base = [k \in Keys |-> NoBase]
    /\ answer = [k \in Keys |-> "none"]
    /\ touched = {}
    /\ faults = 0
    /\ crashes = 0
    /\ outside = 0
-----------------------------------------------------------------------------
Goto(s, step) == server' = [server EXCEPT ![s].step = step]

\* With files still to write.
Begin(s, step, todo) ==
    server' = [server EXCEPT ![s] = [@ EXCEPT !.step = step, !.todo = todo]]

\* The operation ends and its lease is given back.
Finish(s) ==
    /\ server' = [server EXCEPT ![s] = [@ EXCEPT !.step = "idle", !.key = None,
                                                 !.todo = {}, !.failing = FALSE]]
    /\ lock' = None

Told(k, what) == answer' = [answer EXCEPT ![k] = what]

Changed(k, from) == {f \in DOMAIN Edit[k] : Edit[k][f] # from[f]}
Apply(k, from) == [f \in Files |-> IF f \in Changed(k, from) THEN Edit[k][f] ELSE from[f]]

After(f) == Edit[journal.key][f]
Committed == journal.key \in history.accepted

\* writeChanges looks at every file before it writes the first.
Unrelated == \E f \in journal.files : disk[f] \notin {journal.before[f], After(f)}

Same == UNCHANGED <<base, touched, faults, crashes, outside>>
Fault == faults < MaxFaults /\ faults' = faults + 1
         /\ UNCHANGED <<base, touched, crashes, outside>>
-----------------------------------------------------------------------------
(* Taking the lease, and recovery.                                          *)

\* The constructor of a server that starts, or registry.lock for a request.
TakeLease(s) ==
    /\ server[s].step \in {"down", "idle"}
    /\ lock = None
    /\ lock' = s
    /\ Goto(s, "open")
    /\ UNCHANGED <<store, answer>> /\ Same

\* Faulty: only a server that starts recovers, a lease does not.
LeasedWithoutRecovery(s) ==
    /\ server[s].step = "open"
    /\ ~server[s].failing
    /\ Goto(s, "leased")
    /\ UNCHANGED <<store, lock, answer>> /\ Same

\* recover: without a journal there is nothing to do.
NothingToRecover(s) ==
    /\ server[s].step = "open"
    /\ journal = NoJournal
    /\ ~server[s].failing
    /\ Goto(s, "leased")
    /\ UNCHANGED <<store, lock, answer>> /\ Same

BeginRecovery(s) ==
    /\ server[s].step = "open"
    /\ journal # NoJournal
    /\ ~Unrelated
    /\ Begin(s, "restore", journal.files)
    /\ UNCHANGED <<store, lock, answer>> /\ Same

\* Faulty: a committed edit is rolled back like any other.
AlwaysRolledBack(f) == journal.before[f]

Restored(f) == IF Committed THEN After(f) ELSE journal.before[f]

RestoreFile(s, f) ==
    /\ server[s].step = "restore"
    /\ f \in server[s].todo
    /\ disk' = [disk EXCEPT ![f] = Restored(f)]
    /\ Begin(s, "restore", server[s].todo \ {f})
    /\ UNCHANGED <<history, journal, lock, answer>> /\ Same

\* Faulty: the journal is dropped before the files are back.
EndsRecoveryEarly(s) ==
    /\ server[s].step = "restore"
    /\ journal' = NoJournal
    /\ Goto(s, "open")
    /\ UNCHANGED <<disk, history, lock, answer>> /\ Same

\* Back to "open", where no journal is left.
EndRecovery(s) ==
    /\ server[s].step = "restore"
    /\ server[s].todo = {}
    /\ journal' = NoJournal
    /\ Goto(s, "open")
    /\ UNCHANGED <<disk, history, lock, answer>> /\ Same

\* Recovery finds unrelated changes: the project stays as it is, and a server
\* that got here from its own failed commit serves nothing until it restarts.
Quarantine(s) ==
    /\ server' = [server EXCEPT ![s] =
         [@ EXCEPT !.step = "idle", !.key = None, !.todo = {}, !.failing = FALSE,
                   !.poisoned = server[s].poisoned \/ server[s].failing]]
    /\ lock' = None
    /\ IF server[s].failing THEN Told(server[s].key, "failed") ELSE UNCHANGED answer
    /\ UNCHANGED store

RecoveryRefuses(s) ==
    /\ server[s].step = "open"
    /\ journal # NoJournal
    /\ Unrelated
    /\ Quarantine(s) /\ Same

\* The history is not readable, or a file operation of recovery fails.
RecoveryFails(s) ==
    /\ server[s].step \in {"open", "restore"}
    /\ Quarantine(s) /\ Fault

\* Faulty: the error goes to the client without a look at the history.
Rethrown(s) ==
    /\ server[s].step = "open"
    /\ journal = NoJournal
    /\ server[s].failing
    /\ Told(server[s].key, "refused")
    /\ Finish(s)
    /\ UNCHANGED store /\ Same

\* The catch of commit, after recovery: the history decides what is answered.
Resolve(s) ==
    LET k == server[s].key
    IN  /\ server[s].step = "open"
        /\ journal = NoJournal
        /\ server[s].failing
        /\ Told(k, IF k \in history.accepted THEN "accepted" ELSE "failed")
        /\ Finish(s)
        /\ UNCHANGED store /\ Same
-----------------------------------------------------------------------------
(* Requests.                                                                *)

\* A client prepares an edit of the revision it sees.
Compose(k) ==
    /\ base[k] = NoBase
    /\ base' = [base EXCEPT ![k] = {history.accepted}]
    /\ UNCHANGED <<store, lock, server, answer, touched, faults, crashes, outside>>

\* assertBase: the client's revision is the head, and the files are the head's.
Current(k) == base[k] = {history.accepted} /\ disk = history.head

Full == Cardinality(history.accepted \cup history.rejected) >= Limit

\* A key that is in the history already is answered with what was recorded.
Replay(s, k) ==
    /\ server[s].step = "leased"
    /\ ~server[s].poisoned
    /\ base[k] # NoBase
    /\ k \in history.accepted \cup history.rejected
    /\ Told(k, IF k \in history.accepted THEN "accepted" ELSE "refused")
    /\ Finish(s)
    /\ UNCHANGED store /\ Same

\* Faulty: the revision is compared before the key is looked up.
RefusedBeforeLookup(s, k) ==
    /\ server[s].step = "leased"
    /\ ~server[s].poisoned
    /\ base[k] # NoBase
    /\ ~Current(k) \/ Full \/ Changed(k, history.head) = {}
    /\ Told(k, "refused")
    /\ Finish(s)
    /\ UNCHANGED store /\ Same

Refuse(s, k) ==
    /\ server[s].step = "leased"
    /\ ~server[s].poisoned
    /\ base[k] # NoBase
    /\ k \notin history.accepted \cup history.rejected
    /\ ~Current(k) \/ Full \/ Changed(k, history.head) = {}
    /\ Told(k, "refused")
    /\ Finish(s)
    /\ UNCHANGED store /\ Same

\* prepare accepts the edit; whether the staged source validates is not known yet.
Admitted(s, k) ==
    /\ server[s].step = "leased"
    /\ ~server[s].poisoned
    /\ k \notin history.accepted \cup history.rejected
    /\ Current(k)
    /\ ~Full
    /\ Changed(k, history.head) # {}

\* The staged source does not validate: reject records the transaction.
Recorded(k) == history' = [history EXCEPT !.rejected = @ \cup {k}]

Reject(s, k) ==
    /\ Admitted(s, k)
    /\ Recorded(k)
    /\ Told(k, "refused")
    /\ Finish(s)
    /\ UNCHANGED <<disk, journal>> /\ Same

RejectFails(s, k) ==
    /\ Admitted(s, k)
    /\ Recorded(k) \/ UNCHANGED history
    /\ Told(k, "failed")
    /\ Finish(s)
    /\ UNCHANGED <<disk, journal>> /\ Fault

Prepare(s, k) ==
    /\ Admitted(s, k)
    /\ server' = [server EXCEPT ![s] = [@ EXCEPT !.step = "prepared", !.key = k]]
    /\ Told(k, "none")
    /\ UNCHANGED <<store, lock>> /\ Same

\* The lease ends without an edit: a read, or a server that is poisoned.
GiveBack(s) ==
    /\ server[s].step = "leased"
    /\ Finish(s)
    /\ UNCHANGED <<store, answer>> /\ Same

ChangedMeanwhile(s) ==
    /\ server[s].step = "prepared"
    /\ ~Current(server[s].key)
    /\ Told(server[s].key, "refused")
    /\ Finish(s)
    /\ UNCHANGED store /\ Same

PendingOf(s) ==
    [key |-> server[s].key, before |-> history.head,
     files |-> Changed(server[s].key, history.head)]

\* Faulty: the source is not compared again after the edit was prepared.
JournaledUnchecked(s) ==
    /\ server[s].step = "prepared"
    /\ journal' = PendingOf(s)
    /\ Goto(s, "journaled")
    /\ UNCHANGED <<disk, history, lock, answer>> /\ Same

WriteJournal(s) ==
    /\ server[s].step = "prepared"
    /\ Current(server[s].key)
    /\ journal' = PendingOf(s)
    /\ Goto(s, "journaled")
    /\ UNCHANGED <<disk, history, lock, answer>> /\ Same

\* Outside the try: the journal is there or not, and nobody looks at it now.
JournalFails(s) ==
    /\ server[s].step = "prepared"
    /\ Current(server[s].key)
    /\ journal' \in {NoJournal, PendingOf(s)}
    /\ Told(server[s].key, "failed")
    /\ Finish(s)
    /\ UNCHANGED <<disk, history>> /\ Fault

BeginWrites(s) ==
    /\ server[s].step = "journaled"
    /\ ~Unrelated
    /\ Begin(s, "writing", journal.files)
    /\ UNCHANGED <<store, lock, answer>> /\ Same

WriteFile(s, f) ==
    /\ server[s].step = "writing"
    /\ f \in server[s].todo
    /\ disk' = [disk EXCEPT ![f] = After(f)]
    /\ Begin(s, IF server[s].todo = {f} THEN "written" ELSE "writing", server[s].todo \ {f})
    /\ UNCHANGED <<history, journal, lock, answer>> /\ Same

\* The files are compared with what the revision is going to say.
CheckTree(s) ==
    /\ server[s].step = "written"
    /\ disk = Apply(server[s].key, history.head)
    /\ Goto(s, "checked")
    /\ UNCHANGED <<store, lock, answer>> /\ Same

Accepted(s) ==
    history' = [history EXCEPT !.head = Apply(server[s].key, @),
                               !.accepted = @ \cup {server[s].key}]

RenameHistory(s) ==
    /\ server[s].step = "checked"
    /\ Accepted(s)
    /\ Goto(s, "accepted")
    /\ UNCHANGED <<disk, journal, lock, answer>> /\ Same

UnlinkJournal(s) ==
    /\ server[s].step = "accepted"
    /\ journal' = NoJournal
    /\ Told(server[s].key, "accepted")
    /\ Finish(s)
    /\ UNCHANGED <<disk, history>> /\ Same

\* The catch of commit: recovery runs before the lease is given back.
Catch(s) ==
    server' = [server EXCEPT ![s] = [@ EXCEPT !.step = "open", !.todo = {}, !.failing = TRUE]]

\* Somebody else's change is found before the writes or after them.
CommitRefuses(s) ==
    /\ \/ server[s].step = "journaled" /\ Unrelated
       \/ server[s].step = "written" /\ disk # Apply(server[s].key, history.head)
    /\ Catch(s)
    /\ UNCHANGED <<store, lock, answer>> /\ Same

\* A file operation fails, before or after it took effect, or authorize throws.
CommitFails(s) ==
    /\ \/ /\ server[s].step \in {"journaled", "writing", "written", "checked", "accepted"}
          /\ UNCHANGED store
       \/ server[s].step = "checked" /\ Accepted(s) /\ UNCHANGED <<disk, journal>>
       \/ server[s].step = "accepted" /\ journal' = NoJournal /\ UNCHANGED <<disk, history>>
    /\ Catch(s)
    /\ UNCHANGED <<lock, answer>> /\ Fault
-----------------------------------------------------------------------------
(* The rest of the world.                                                   *)

\* The process dies; the kernel drops its lock.
Crash(s) ==
    /\ server[s].step # "down"
    /\ crashes < MaxCrashes
    /\ crashes' = crashes + 1
    /\ server' = [server EXCEPT ![s] = Down]
    /\ lock' = IF lock = s THEN None ELSE lock
    /\ UNCHANGED <<store, base, answer, touched, faults, outside>>

WriteFromOutside(f, c) ==
    /\ outside < MaxOutside
    /\ c # disk[f]
    /\ outside' = outside + 1
    /\ touched' = touched \cup {f}
    /\ disk' = [disk EXCEPT ![f] = c]
    /\ UNCHANGED <<history, journal, lock, server, base, answer, faults, crashes>>

Recovery(s) ==
    \/ TakeLease(s) \/ NothingToRecover(s) \/ BeginRecovery(s)
    \/ \E f \in Files : RestoreFile(s, f)
    \/ EndRecovery(s) \/ RecoveryRefuses(s) \/ Resolve(s)

Commit(s) ==
    \/ ChangedMeanwhile(s) \/ WriteJournal(s) \/ BeginWrites(s)
    \/ \E f \in Files : WriteFile(s, f)
    \/ CheckTree(s) \/ RenameHistory(s) \/ UnlinkJournal(s) \/ CommitRefuses(s)

Request(s) ==
    \/ GiveBack(s)
    \/ \E k \in Keys : Replay(s, k) \/ Refuse(s, k) \/ Reject(s, k) \/ Prepare(s, k)

Failure(s) ==
    \/ RecoveryFails(s) \/ JournalFails(s) \/ CommitFails(s) \/ Crash(s)
    \/ \E k \in Keys : RejectFails(s, k)

Next ==
    \/ \E s \in Servers : Recovery(s) \/ Request(s) \/ Commit(s) \/ Failure(s)
    \/ \E k \in Keys : Compose(k)
    \/ \E f \in Files, c \in Contents : WriteFromOutside(f, c)

Spec == Init /\ [][Next]_vars

\* An operation that has begun runs to its end, and some server is opened or
\* asked for something again.
Progress == \E s \in Servers : Recovery(s) \/ Request(s) \/ Commit(s)
FairSpec == Spec /\ WF_vars(Progress)
-----------------------------------------------------------------------------
(* Properties.                                                              *)

\* A commit that is journaled counts as before its history is renamed, and as
\* after once it is.
View == [f \in Files |->
    IF journal # NoJournal /\ f \in journal.files THEN Restored(f) ELSE disk[f]]

Source == INSTANCE AtomicSource WITH
    tree <- View, head <- history.head,
    accepted <- history.accepted, rejected <- history.rejected

\* Whatever dies or fails between two file operations, an edit takes effect
\* whole or not at all and at most once for its key, and nobody's outside
\* change enters the accepted source.
ImplementsAtomicSource == Source!Spec

\* With no commit pending the files nobody wrote from outside are the head
\* revision's, so the source a compiler gets to see is an accepted one.
SourceMatchesHead ==
    journal = NoJournal => \A f \in Files \ touched : disk[f] = history.head[f]

\* A client that was told its edit is accepted finds it in the history, and one
\* that was refused does not: a lost answer is repaired by asking again.
AnswersAreTrue ==
    \A k \in Keys :
        /\ answer[k] = "accepted" => k \in history.accepted
        /\ answer[k] = "refused" => k \notin history.accepted

\* An edit that was accepted stays accepted for whoever asks again, at this
\* server or another, whatever died in between.
AnswersStand ==
    [][\A k \in Keys : answer[k] = "accepted" => answer'[k] = "accepted"]_vars

\* A source somebody changed from outside, while no commit was pending, is
\* neither written over nor made the ground of a commit.
OutsideEditStopsCommits ==
    [][journal = NoJournal /\ disk # history.head /\ outside' = outside
         => disk' = disk /\ journal' = NoJournal]_vars

\* A commit that was interrupted is brought to an end, unless somebody has
\* written into its files and an operator has to decide.
RecoveryCompletes == journal # NoJournal ~> journal = NoJournal \/ touched # {}
=============================================================================
