---------------------------- MODULE SourceHistory ----------------------------
(***************************************************************************)
(* The history of a project's source: undo, redo, reverting an edit by     *)
(* name, restoring a revision and compacting the history into archives     *)
(* (durableSource.ts, historyInverse.ts, historyArchive.ts).  One accepted *)
(* request is one step: DurableSource shows that a commit is atomic.  A    *)
(* content stands for its hash, a revision's tree for its contentHash.     *)
(***************************************************************************)
EXTENDS SourceTree, FiniteSets, Naturals, SequencesExt

CONSTANTS
    Edits,         \* what a client may save: contents for some files
    MaxArchives,   \* archives a history may hold
    MaxTransactions  \* bound: transactions ever recorded

ASSUME HistoryAssumption ==
    /\ First \in Trees
    /\ \A e \in Edits : DOMAIN e \subseteq Files /\ \A f \in DOMAIN e : e[f] \in Contents
    /\ {Limit, MaxArchives, MaxTransactions} \subseteq Nat

VARIABLES
    tree,          \* the accepted source
    transactions,  \* recorded since the last compaction
    revisions,     \* the same for revisions, the one before included
    archives,      \* what was compacted
    past, future,  \* the edits that can be undone and redone
    byName         \* do clients revert edits that are not the last one?

historyVars == <<tree, transactions, revisions, archives, past, future, byName>>

\* fileStates: what a transaction found and left in the files it changed.
Change == [before : Contents, after : Contents]
Transaction == [id : Nat, accepted : BOOLEAN,
                fileStates : UNION {[F -> Change] : F \in SUBSET Files}]
Revision == [tree : Trees, by : Nat]  \* by = 0: the import

HistoryTypeOK ==
    /\ tree \in Trees
    /\ transactions \in Seq(Transaction)
    /\ revisions \in Seq(Revision)
    /\ archives \in Seq([transactions : Seq(Transaction), revisions : Seq(Revision)])
    /\ past \in Seq(Nat)
    /\ future \in Seq(Nat)
    /\ byName \in BOOLEAN

HistoryInit ==
    /\ tree = First
    /\ transactions = <<>>
    /\ revisions = <<[tree |-> First, by |-> 0]>>
    /\ archives = <<>>
    /\ past = <<>>
    /\ future = <<>>
    /\ byName \in BOOLEAN
-----------------------------------------------------------------------------
Archived(field) == FlattenSeq([i \in DOMAIN archives |-> archives[i][field]])
HistoryTransactions == Archived("transactions") \o transactions

\* Faulty: archived revisions are forgotten.
ActiveRevisions == revisions

HistoryRevisions == Archived("revisions") \o revisions

HistoryLength == Len(HistoryTransactions)
Entry(id) == HistoryTransactions[id]

HistoryFull == Len(transactions) >= Limit \/ Len(revisions) >= Limit + 1

\* prepare keeps the files that change.
FileStates(to) ==
    [f \in {g \in DOMAIN to : to[g] # tree[g]} |-> [before |-> tree[f], after |-> to[f]]]

\* commit: the entry and its revision.
Record(states) ==
    LET entry == [id |-> HistoryLength + 1, accepted |-> TRUE, fileStates |-> states]
        left == [f \in Files |->
                   IF f \in DOMAIN states THEN states[f].after ELSE tree[f]]
    IN  /\ HistoryLength < MaxTransactions
        /\ tree' = left
        /\ transactions' = Append(transactions, entry)
        /\ revisions' = Append(revisions, [tree |-> left, by |-> entry.id])
        /\ UNCHANGED byName

\* Faulty: what was undone before can still be redone after a new edit.
PushedOnly == past' = Append(past, HistoryLength + 1) /\ UNCHANGED future

\* An edit goes on the undo stack and what was undone before is given up.
Pushed == past' = Append(past, HistoryLength + 1) /\ future' = <<>>

Save(e) ==
    /\ ~HistoryFull
    /\ DOMAIN FileStates(e) # {}
    /\ Record(FileStates(e))
    /\ Pushed
    /\ UNCHANGED archives

\* A checkpoint records the source as it is.
Checkpoint ==
    /\ ~HistoryFull
    /\ Record(FileStates(<<>>))
    /\ UNCHANGED <<archives, past, future>>

\* An edit that does not validate is recorded without a revision.
RecordRejection ==
    /\ ~HistoryFull
    /\ HistoryLength < MaxTransactions
    /\ transactions' = Append(transactions,
         [id |-> HistoryLength + 1, accepted |-> FALSE, fileStates |-> <<>>])
    /\ UNCHANGED <<tree, revisions, archives, past, future, byName>>
-----------------------------------------------------------------------------
(* Undo and redo.                                                           *)

\* historyInverse: a file that is not as the edit left it is a conflict.
Conflicts(id, side) ==
    LET states == Entry(id).fileStates
    IN  \E f \in DOMAIN states : tree[f] # states[f][side]

InverseStates(id, side) ==
    LET states == Entry(id).fileStates
    IN  FileStates([f \in DOMAIN states |-> states[f][side]])

Named(stack, id) ==
    /\ id \in Range(stack)
    /\ byName \/ id = Last(stack)

\* filter: the stack without an edit.
Without(stack, id) ==
    LET kept[i \in 0..Len(stack)] ==
            IF i = 0 THEN <<>>
            ELSE IF stack[i] = id THEN kept[i - 1] ELSE Append(kept[i - 1], stack[i])
    IN  kept[Len(stack)]

Revert(id) ==
    /\ ~HistoryFull
    /\ Named(past, id)
    /\ ~Conflicts(id, "after")
    /\ Record(InverseStates(id, "before"))
    /\ past' = Without(past, id)
    /\ future' = Append(future, id)
    /\ UNCHANGED archives

Redo(id) ==
    /\ ~HistoryFull
    /\ Named(future, id)
    /\ ~Conflicts(id, "before")
    /\ Record(InverseStates(id, "after"))
    /\ past' = Append(past, id)
    /\ future' = Without(future, id)
    /\ UNCHANGED archives
-----------------------------------------------------------------------------
(* Restoring a revision, and compaction.                                    *)

\* One step back over a revision: its transaction's files must be as it left
\* them; a walk that met another content stays in conflict.
StepBack(walk, revision) ==
    LET states == Entry(revision.by).fileStates
    IN  [ok |-> walk.ok /\ \A f \in DOMAIN states : walk.tree[f] = states[f].after,
         tree |-> [f \in Files |->
             IF f \in DOMAIN states THEN states[f].before ELSE walk.tree[f]]]

\* Faulty: the revisions are walked in the order they were made.
WalkForward(i) ==
    LET walk[k \in i..Len(HistoryRevisions)] ==
            IF k = i THEN [ok |-> TRUE, tree |-> tree]
                     ELSE StepBack(walk[k - 1], HistoryRevisions[k])
    IN  walk[Len(HistoryRevisions)]

WalkBack(i) ==
    LET walk[k \in i..Len(HistoryRevisions)] ==
            IF k = Len(HistoryRevisions)
            THEN [ok |-> TRUE, tree |-> tree]
            ELSE StepBack(walk[k + 1], HistoryRevisions[k + 1])
    IN  walk[i]

Restorable(i) == WalkBack(i).ok /\ WalkBack(i).tree = HistoryRevisions[i].tree

\* restoreOperations, saved as an edit: the revision left stays undoable.
Restore(i) ==
    /\ ~HistoryFull
    /\ Restorable(i)
    /\ DOMAIN FileStates(WalkBack(i).tree) # {}
    /\ Record(FileStates(WalkBack(i).tree))
    /\ Pushed
    /\ UNCHANGED archives

\* compactHistory, saved as a checkpoint of its own; a full history may do it.
Compact ==
    /\ transactions # <<>>
    /\ Len(revisions) >= 2
    /\ Len(archives) < MaxArchives
    /\ HistoryLength < MaxTransactions
    /\ archives' = Append(archives, [transactions |-> transactions,
                                     revisions |-> Front(revisions)])
    /\ transactions' = <<[id |-> HistoryLength + 1, accepted |-> TRUE, fileStates |-> <<>>]>>
    /\ revisions' = <<Last(revisions), [tree |-> tree, by |-> HistoryLength + 1]>>
    /\ UNCHANGED <<tree, past, future, byName>>

HistoryNext ==
    \/ \E e \in Edits : Save(e)
    \/ Checkpoint \/ RecordRejection \/ Compact
    \/ \E id \in 1..HistoryLength : Revert(id) \/ Redo(id)
    \/ \E i \in 1..Len(HistoryRevisions) : Restore(i)

HistorySpec == HistoryInit /\ [][HistoryNext]_historyVars
-----------------------------------------------------------------------------
(* Properties.                                                              *)

\* Every revision ever accepted can be restored, whatever was undone, redone,
\* restored or compacted since.
EveryRevisionIsRestorable == \A i \in 1..Len(HistoryRevisions) : Restorable(i)

\* Undo of the last edit, and redo of the last one undone, never conflict as
\* long as nobody reverts by name.
UndoNeverConflicts ==
    \/ byName
    \/ /\ past # <<>> => ~Conflicts(Last(past), "after")
       /\ future # <<>> => ~Conflicts(Last(future), "before")

\* Nothing recorded is lost or changed, by compaction either.
HistoryOnlyGrows ==
    [][ /\ IsPrefix(HistoryTransactions, HistoryTransactions')
        /\ IsPrefix(HistoryRevisions, HistoryRevisions') ]_historyVars
=============================================================================
