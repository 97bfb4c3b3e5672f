# Webcanbe: a TLA+ development

Webcanbe sells front-end projects and lets their buyers edit them in a visual
editor.  This directory models the parts of it that keep state under
concurrency and failure, checks them with TLC and proves the most important
facts with TLAPS.  Every module is written from the code under `src/`;
`PROJECT.json` maps each definition to its lines.

## The system

| part | state it keeps | operations | how it interacts |
| --- | --- | --- | --- |
| payments (`worker/payments`) | orders, entitlements, refunds, creator ledger, payment identities, webhook inbox (PostgreSQL) | checkout, capture, refund, webhooks, subscriptions, AI packs, payouts | calls PayPal; PayPal calls back with webhooks; grants entitlements that materialization reads |
| AI usage (`worker/ai.js`, `ai-usage.js`) | grants, purchased credit, reservations | reserve, commit, release, settle | between the editor and the model provider; packs and subscriptions fill it |
| editor projects (`worker/editor-projects.js`) | project files, revision, history, capabilities | save, undo, redo, AI proposal, visual edit | browser tabs race on one revision |
| sessions and identity (`worker/postgres-session.js`, engine `hostedAuthority.ts`, `hostedIdentity.ts`) | sessions, CSRF tokens, epochs | issue, rotate, revoke | every request is authorised by them |
| durable source (engine `mutations/durableSource.ts`) | source tree, journal, ledger, history | prepare, commit, undo, redo, recover | the local and hosted editors commit through it; a crash can fall between its steps |
| runner leases (engine `runtime/runnerScheduler.ts`, `postgresFencing.ts`) | leases, fencing epochs, capacity | open, close, heartbeat, take over, recover | previews and assessments run on leased runners |
| controlled preview (engine `runtime/controlledPreview.ts`) | preview sessions | start, update, capture, hold, retire | uses runners; held by source commits |
| seller pipeline (engine `postgresProductDomain.ts`, `worker/control-mutations.js`) | applications, submissions, assessments, releases, listings | submit, claim, assess, review, promote, publish | operators, assessment workers and sellers act on the same rows |
| materialization (`worker/materialization.js`, engine registries) | workspace projects | materialize an entitlement | after a purchase |
| source language (engine `mutations/sourceMutations.ts`, `adapters/react`) | none | rewrite one file | called by durable source |
| intake analysis (engine `runtime/*`) | none | parse lockfiles, CSS, assets | called by import |
| browser client (`visual-editor`, `hostedProductClient.ts`) | queue of edits, conversations | save, retry, reload | talks to editor projects and previews |
| site, scripts | little | rendering, deployment, backup | outside the protocols |

What is hard: requests are asynchronous functions cut at every `await`, many
of them run on one database, PayPal redelivers what was not answered, a Worker
may die anywhere, runners outlive the requests that started them, and source
commits must survive a crash between two file writes.  `PROJECT.json` lists
the hazards at their lines.

## Modules

### PurchaseAccess

What the marketplace promises about one order, with requests and webhooks left
out: access is granted at most once, never before the money (unless the
listing is free), and once it ends, for a full refund or a dispute, it never
comes back.

### MarketplaceOrders

The marketplace checkout of `worker/payments`.

State.  `order`, `entitlement`, `identities`, `refundRow`/`refunded`, `ledger`,
`flagged` and `inbox` are the tables `wcb_orders`, `wcb_license_entitlements`,
`wcb_payment_identities`, `wcb_refunds`, `wcb_creator_ledger`,
`wcb_payment_reconciliation` and `wcb_provider_events`, cut down to what
decides a branch: the ledger of an order is "was the sale booked" and the sums
of the fee and creator reversals, since the code only ever sums them.
`request` is what each running buyer or operator request waits for, `handler`
the same for webhooks.  `paypal`, `sent` and `acked` are PayPal.

Actions.  A transaction (`repo.atomic`), an unlocked read or a call to PayPal
is one action; between two of them anything else runs.

| action | code |
| --- | --- |
| `StartCheckout`, `InsertOrder`, `CompleteFree`, `CreateAtProvider`, `LinkOrder` | `createMarketplaceOrder` |
| `StartCapture`, `CaptureAtProvider`, `Finalize`, `FinalizeMismatch` | `captureMarketplaceOrder`, `finalizeCapture` |
| `StartRefund`, `RefundAtProvider`, `ApplyOperatorRefund` | `refundMarketplaceOrder`, `applyRefund` |
| `Deliver`, `HandleCapture`, `HandleRefund`, `HandleDispute`, `MarkProcessed`, `Answer`, `MarkFailed` | `recordVerifiedWebhook` around `processPayPalEvent` |
| `HandlerThrows`, `HandlerDies`, `Abandon` | an exception, a dead Worker |
| `BuyerApproves`, `CaptureSettles`, `ConsoleRefundOrDispute` | PayPal |

An order stands for one buyer and checkout key; `Title` says which orders buy
the same release (the table of entitlements is unique in it).  An operator's
refund key and the provider's refund id are one name: the provider's request
id is derived from the key.  Left out: the fee schedule (the fee of an order is
a constant), dates and holds, currencies, listing validation, and PayPal
captures whose amount differs (they take the same path as a pending capture).

Runs.

| run | bounds | shows |
| --- | --- | --- |
| `orders_money` | two orders for one release, price 3, fee 1, refunds of 1 and 3, one crash, deliveries of one event that overlap | refunds that together pass the price, in every order, keep ledger, status and access together; what is marked processed is recorded; the refused second entitlement is never taken for success; `PurchaseAccess` is implemented |
| `orders_liveness` | a paid and a free order, a partial refund, one dispute, one throw, one delivery of an event at a time | captured money leads to access, a dispute to a record; what was answered with 200 is recorded (`AnsweredIsRecorded`); a dispute on top of a refund takes back what is left and no more |
| `orders_bought_twice` (violation) | two orders for one release | the second one is paid and never completed |

A price of 3 and a fee of 1 make the fee of a partial refund round, two
refunds make a sum, and the second passes the price, so that the second check
of the total, under the lock, decides.  No counter grows without bound except
those `MaxThrows` and `MaxCrashes` cap.  One worker runs requests in the large
instance; that the same holds with any number of them is what the proofs add.

Fairness.  PayPal redelivers until it has a 200 and a webhook request that
runs makes progress (`WebhookProgress`); nothing obliges a buyer, an operator
or a worker's request to continue, so liveness rests on webhooks alone.
`CaptureLeadsToAccess` and `DisputeLeadsToRecord` hold under two assumptions
besides: no handler dies (`MaxCrashes = 0`) and PayPal delivers an event again
only after the first delivery was answered or its handler has ended
(`Overlap = FALSE`).  Neither follows from the code, and without either of them
both are false: a row that is `received` is answered as a duplicate.
`AnsweredIsRecorded` has the same two conditions in its formula; the other
invariants have none, and `orders_money` checks its own with a death and with
overlaps.

Deadlock is not checked in these runs: when every event is answered and every
refund done, the system rests.

What the model showed of the code, beyond the finding:

- An event whose handler died stays `received`: the redelivery is answered as a
  duplicate and never worked on (`webhook.js`).  `orders_liveness` therefore
  lets handlers throw but not die.
- The same takes no death when two deliveries overlap: the second is answered
  with 200 as a duplicate while the first handler runs (`domain.js:379`); when
  that one throws afterwards, its event is marked `failed` and its 503 asks for
  a retry (`webhook.js:92`), but PayPal has its 200, and nothing else in the
  repository works on failed events.
- A checkout that is resumed while its order completes sets the order back to
  `approval_pending` (`domain.js:66` and `:88`); the entitlement stays.
- The status `reconciliation_required` of a mismatching capture is rolled back
  by the exception that follows it (`domain.js:105`); the in-memory repository
  of `domain.test.js:184` keeps it.

### MarketplaceOrdersProofs

Proved for any orders, refunds, disputes, prices, fees, workers and bounds,
from `DistinctIds` (event names are distinct), `MoneyAssumption` (a fee is at
most its price, a refund positive) and `BoundAssumption`:

- `TypeCorrect`, the type invariant;
- `CompletedOrdersAreDelivered`, `ReversalEndsAccess`, `BooksBalance`, the
  three safety invariants of the books;
- `ProcessedEventsAreRecorded`, `AnsweredEventsAreRecorded`, what the inbox and
  the answers to PayPal promise;
- `SettledOrdersMoveForward`, the order of the statuses;
- `OrdersImplementPurchaseAccess`, the refinement.

The argument.  None of the invariants is inductive: a request remembers across
an `await` that PayPal has taken the money, and a webhook that its event was
sent.  `IInv` adds what is remembered (`RequestInv`, `ProviderInv`) and, for
each order, which combinations of status, identity, sale, entitlement and
refund sum exist at all (`BooksInv`, `PriceInv`).  Each transaction is shown to keep
`BooksInv` once (`FinalizeBooks`, `RefundBooks`, `DisputeBooks`, `FreeBooks`),
and each action cites the lemma of its transaction.  `BooksBalance` adds the
arithmetic: the floor of the fee's share is monotone in the refunded sum, so
the differences that `applyRefund` books add up exactly.

`ProcessedMeansRecorded` looks at the inbox only and is not inductive: a
handler marks its event in a transaction of its own, after the one that
applied it.  `RecordInv` says the same of the handlers that are about to mark
or to answer; it lasts because identities, refund rows and flags are only ever
added (`RecordsKept`).  `AnsweredIsRecorded` speaks of PayPal, which has no
other sign than a 200.  `AnswerInv` ties it to the inbox: a row is `received`
only while its handler runs, so a duplicate is answered for a processed row
alone, unless a handler died or two deliveries overlap; with `RecordInv` the
event is then recorded.  `SettlementMovesForward` needs that an order is only
called refunded when its whole price went back (`RefundedInv`), so that a
further refund does not fit; the checkout that is resumed late and sets a
completed order back (`domain.js:66`, `:88`) is in the property as the
exception `ResumedLate`, which one worker cannot reach and two can.

Only model-checked: liveness.

### AtomicSource

What a project's source promises to the editor: an edit is accepted as a whole
or not at all, once for its idempotency key, and the accepted source is the
edits applied in order.  Writes from outside Webcanbe may spoil files
(`touched`), never the accepted source.

### DurableSource

One project's directory, opened by several servers
(`engine/mutations/durableSource.ts`, called by `sourceApi.ts`).

State.  `disk` is the source tree; `history` is `history.json`: the head
revision's tree and the keys of the transactions that were accepted or
rejected; `journal` is `pending.json`; `lock` is the kernel's lock on
`writer.sqlite`, which a dead holder loses.  `server[s]` is where a server is
in an operation; `failing` says that it is in the `catch` of `commit`,
`poisoned` that its recovery failed and it serves nothing until it restarts.
`base` is the revision a client's edit was made on, `answer` what it was last
told.

| action | code |
| --- | --- |
| `TakeLease`, `GiveBack` | the constructor, `registry.lock` |
| `NothingToRecover`, `BeginRecovery`, `RestoreFile`, `EndRecovery`, `RecoveryRefuses`, `RecoveryFails` | `recover` |
| `Replay`, `Refuse`, `Prepare`, `Reject`, `RejectFails` | `prepare`, `reject` |
| `ChangedMeanwhile`, `WriteJournal`, `JournalFails`, `BeginWrites`, `WriteFile`, `CheckTree`, `RenameHistory`, `UnlinkJournal` | `commit` |
| `CommitRefuses`, `CommitFails`, `Resolve` | the `catch` of `commit` |
| `Crash`, `WriteFromOutside`, `Compose` | a server dies, another program writes, a client prepares an edit |

A rename, an unlink or the write of one file is one action, and reading the
whole tree between two writes is another; hashes are the contents themselves.
A failing file operation may or may not have taken effect.  Left out: path
checks, byte limits, staging and validation (whose outcome is a choice between
`Prepare` and `Reject`), and the migration of the source scope.

Run `source`: two files, three edits (one creates a file, one undoes half of
it, one conflicts), two servers, a history that holds two transactions, and
one of each mishap: a crash, a failing file operation, a write from outside.
One crash is enough to stop at every point of a commit or of a recovery, and
the failing operation makes the recovery run a second time before or after it.
The run shows that `AtomicSource` is implemented with `View` as the tree (a
commit in progress counts as before until the history is renamed, then as
after); that between operations the files are the head's
(`SourceMatchesHead`); that a client told "accepted" or "refused" was told the
truth (`AnswersAreTrue`); that "accepted", once answered, stays the answer to
its key, whoever asks again and where (`AnswersStand`, which claims nothing of
other answers); that a
foreign change to a file keeps commits from going through
(`OutsideEditStopsCommits`); and that an interrupted commit is brought to an
end (`RecoveryCompletes`).

Fairness.  `WF_vars(Progress)`: some server goes on or is started.  The code
runs recovery whenever a lease is taken and a lease is taken for every
request, so this says no more than that the project is used and that a running
server is scheduled.  Deadlock is checked.

### DurableSourceProofs

Proved for any files, contents, edits, servers and bounds, from
`EditAssumption` (edits write contents to files), `NoneAssumption` and
`BoundAssumption`: `TypeCorrect`, `SourceIsAccepted`, `AnswersAreRight`,
`AnswersNeverChange`, `OutsideEditsStopCommits` and the refinement
`DurableImplementsAtomic`.

The argument.  `Inv` says what the holder of the lock may rely on at each step
(`LockInv`, `HolderInv`: e.g. before the history is renamed, every file of the
journal that nobody touched has its new content), which revision a journal is
about (`JournalInv`: the head, or the one before it), that a file nobody
touched has the content the head or the pending commit gives it (`FilesInv`),
and that answers are true (`AnswersInv`).  In the refinement, only renaming
the history accepts an edit and only recording a rejection rejects one; every
other step leaves `View` of the untouched files alone, for which `FilesInv`
is needed.

Only model-checked: `RecoveryCompletes`.

### SourceHistory

Of `durableSource.ts` too: undo, redo, revert by name, restore and compaction
(`historyInverse.ts`, `historyArchive.ts`), with an accepted request as one
step, which `DurableSource` justifies.  `transactions` and `revisions` are the
active history, `archives` what was compacted, `past` and `future` the stacks.
`byName` fixes at the start whether clients revert edits other than the last:
`UndoNeverConflicts` only holds if they do not.  `SourceTree` holds
what this module and `DurableSource` share: the files, their contents, the
imported tree and the limit on a history.

| action | code |
| --- | --- |
| `Save`, `Checkpoint`, `RecordRejection` | `prepare`, `commit`, `reject` |
| `Revert`, `Redo` | `prepareUndo`, `prepareRedo`, `historyInverse` |
| `Restore` | `restoreOperations` |
| `Compact` | `compactHistory` |

Run `source_history`: two files, four edits, six transactions, a history of
three, two archives.  Every revision stays restorable through undo, redo,
restore and compaction (`EveryRevisionIsRestorable`), an undo of the last edit
never conflicts (`UndoNeverConflicts`), and nothing recorded is lost
(`HistoryOnlyGrows`).  Six transactions fill a history of three, compact it,
and still leave room for an edit, its undo and a restore across the archive.
A client that reverts another edit than the last by its name
(`historyInverse.ts:15`) compares contents, not revisions: it overwrites later
edits that brought a file back to the same content.

The walk of a restore (`WalkBack`) and the filter of a stack (`Without`) are
recursive functions over an index rather than folds or `SelectSeq`, whose
definitions the prover cannot reason about.

Proved in `DurableSourceProofs`, for any files, contents, edits and limits and
any number of archives and transactions, from `HistoryAssumption` (edits write
contents to files): `HistoryTyped`, `RevisionsAreRestorable`,
`NoConflictInUndo` and `HistoryIsKept`, that is all three properties of the run.

The argument.  `RevisionsInv`: the transaction of each revision leads from the
tree of the revision before it to its own (`Leads`: its files were as it found
them, are as it left them, and no other changed), and the last revision is the
source.  So a walk back undoes exactly one link at each step
(`WalkMeetsRevisions`).  `Stacks`, for clients that do not revert by name: there
are trees, one for each edit on a stack, that the edits undo one after the
other, starting at the source; they are not stored anywhere, so the invariant
says that they exist.  An undo moves the top of `past` to `future` and turns
its link around (`StacksMove`), an edit adds a link and drops `future`.  An id
is on the stacks once, for otherwise `Without` would take out two links.
Every action but `RecordRejection` adds one transaction and its revision
(`Commits`); compaction moves what was recorded without renumbering it, for
which `FlattenAppend` says what one more archive adds to the joined archives.

What speaks of sequences of any length is shown by a least counterexample
(`LeastOne`); a recursive function is shown to be what it computes by giving
its values and showing that the recursion has one solution (`Computed`,
`Alike`, `JoinedOnce`).

### RunnerSlots

What hosted runners promise: a job takes a slot once, runs only while it has
it, and gives it back when nothing of it runs.

### RunnerFencing

Hosted preview and assessment runners: `postgresFencing.ts` (the lease table),
`hostedLinuxRunner.ts` (controllers), `hostedRunnerGateway.ts`,
`linuxHostRunner.ts` and `scripts/runner` (a host).

State.  `lease` is `wcb_runner_leases`; `lapsed` stands for the comparison of
`lease_until` with the clock, which is all the code does with it (it is never
after the execution deadline while the job may run).  `agent[g][e]` is the
controller that works on job `g` under epoch `e`: epoch 1 reserved it, later
ones took it over.  `request`, `work` and `answered` are commands on their way
to a gateway, being carried out, and reported done; a gateway keeps the row
locked while it works, until its connection breaks.  `unit` is the job's
systemd unit and `revoked` the files under `/var/lib/wcb-runner/revoked`.

| action | code |
| --- | --- |
| `Reserve`, `Replay`, `MarkRunning`, `BeginStop`, `TakeOver`, `Lapse` | `reserve`, `running`, `beginStop`, `takeOver`, `heartbeat` of `PostgresLeaseStore` |
| `SendOpen`, `Close`, `StopRefused`, `SendRevoke`, `RecordStopped`, `RevokeFails`, `RecordQuarantined` | `HostedLinuxRunnerProvider` |
| `AdmitOpen`, `AdmitRevoke`, `Refuse`, `OpenSucceeds`, `FinishRevoke` | the gateway around `PostgresLeaseStore.guard` |
| `UnitStarts`, `Touch`, `StopUnit`, `OpenFails`, `UnitEnds` | `launch.sh`, `stop.sh`, `LinuxHostRunnerProvider.open` |
| `AgentDies`, `LoseRequest`, `LoseLock`, `Drop` | processes, messages and connections that are lost |

Left out: commands that sample or drive a running job (when one fails, the
job is closed, which may happen anyway), the graceful shutdown of a gateway,
and its limit of four handles.

Run `runners`: two jobs, one slot for both, one takeover each, one mishap.
It shows that `RunnerSlots` is implemented; that no more units run than jobs
may have leases, also when a cleanup could not be verified
(`QuotaRespected`); that a lease ends only on the host's answer to whoever
holds it then (`HolderSettles`); that a job being stopped is never revived
(`NeverRevived`); and that every slot comes back (`CapacityComesBack`).  Two
epochs are enough for a stale controller beside the current one.  The last to
take a lease over is not interrupted: this bounds the failures, without which
no slot need ever come back.  Deadlock is not checked: jobs end.

Fairness.  `WF_vars(Progress(g))` for each job: every controller looks for
orphans every five seconds (`hostedEditor.ts:76-80`), a lease lapses by its
deadline of at most sixty seconds, a command has a deadline, and a gateway
finishes what it began.  Opening, sampling and closing by the user are not
fair.

### RunnerFencingProofs

Proved for any jobs, quotas and bounds, from `QuotaAssumption` and
`BoundAssumption`: `TypeCorrect`, `QuotaHolds`, `HolderAlwaysSettles`,
`NeverRevivedProved` and the refinement `RunnersImplementSlots`.

The argument.  Locks do not protect a host, since a gateway may lose its row
lock and go on.  What does is the file in `revoked`: a job that has it and
does not run (`Cleaned`) stays so (`CleanStays`), because every start of its
unit looks for the file.  `CleanInv` follows a revoke: after `Touch` the file
is there, after `StopUnit` the job is cleaned, hence so is every job whose
revoke was answered, hence every job recorded as stopped.  `UnitInv` (a unit
has a lease) and `QuotaInv` (leases are within the quotas) complete `Inv`.
`StepKinds` reduces each step to a reservation, a change of one lease or a
change on one host, which the theorems share.

Only model-checked: `CapacityComesBack`.

### LocalScheduler and ControlledPreview

Previews of a local editor: `engine/runtime/controlledPreview.ts` on top of
`runnerScheduler.ts`.  A segment of JavaScript between two awaits is one
action; requests, timers and the sweep meet at every await.

State.  `lease` is the scheduler's table, which survives the process; `job`
its handles, `host` what runs.  `entry` is the transport's map, `req` where
each request waits, `calls` the calls of `retire` that wait for a cleanup,
`observed` what a sweep saw before its lookups, `holding` the holds of a
commit.

| action | code |
| --- | --- |
| `OpenJob`, `OpenReturns`, `StopJobs`, `StopSettles`, `RevokeFails`, `JobLapses` | `open`, `stop`, the timer of `allocate` |
| `BeginRecovery`, `RecoverNext`, `EndRecovery` | `recover` |
| `RetireEntries`, `RetireReturns`, `RetireFails`, `Expire` | `retire` and the timer of an entry |
| `SweepObserves`, `SweepDecides`, `SweepRetries` | `sweep` |
| `StartRequest`, `StartSweeps`, `StartRetiresOwn`, `Reserve`, `Compile`, `OpenRunner`, `Opened`, `Ready`, `StartEnds`, `Ended` | `start`, `typecheck` |
| `UpdateRequest` .. `UpdateDone`, `UpdateRestarts` | `update` after a commit |
| `CaptureRequest`, `Sample`, `Frame` | `capture` |
| `Hold`, `HoldLooksUp` | `holdForSourceCommit` |
| `HostStarts`, `HostEnds`, `HostRevokes`, `Crash`, `SessionEnds` | the host, the process, sessions |

| run | bounds | shows |
| --- | --- | --- |
| `previews` | two generations for one slot, one request beside the timers, one commit, one fault | the scheduler implements `RunnerSlots`, the same promise as the hosted one; the sweep destroys only what is out of date (`SweepSparesCurrent`) |
| `preview_frames` | one generation, two requests | a captured frame shows the revision its answer names (`FramesShowTheirRevision`) |

Two generations are a retiring job beside its successor, and the fault is a
cleanup that fails, a crash or a revoked session.  Two requests on one entry
are what `busy` is for.  Left out: the artifact store and compiler cleanups,
sequences of input (as a capture), and `transport.close`.  A retirement begun
before `entry.execution` was set deletes the entry while the execution still
closes (`controlledPreview.ts:128-129`, `:142`): the map forgets the job, its
lease does not.  Left out of the sweep: a lookup that fails, which
counts as "not current" or quarantines the transport, and a head that goes
back to an earlier revision; `SweepSparesCurrent` says nothing of either.
Deadlock is not checked: generations are used up.

### ControlledPreviewProofs

Proved for any generations, sessions, requests, quotas, capacities and
commits, from `NobodyAssumption` (names are distinct) and `BoundAssumption`:
`CapturesAreOfTheirRevision`, `SweepsSpareTheCurrent`, the refinement
`SchedulerImplementsSlots`, and the types (`TypeCorrect`).

The argument.  The scheduler and the transport have an invariant each, and the
transport's needs nothing of the scheduler's: `SchedulerCalls` shows that
every step of the composed system is one of seven things to the scheduler
(`SchedulerAction`), and `SchedulerNext` that those keep `SchedulerInv` and
are steps of `RunnerSlots`.  `SchedulerInv` ties the three places where a job
is known, lease, handle and host: a job that runs or is being stopped has an
unsettled lease, and a lease ends behind the host's tombstone only.

`TransportInv` has four parts.  `SweepInv`: what a sweep saw stays a reason to
retire the entry while it waits (`Seen`), since an authorization does not come
back and the revision does not fall.  `OwnInv`: no two requests are engaged
with one entry, because an entry that is being opened is pending and one that
is updated or captured is busy, unless it is retired; this is not in the code
as a lock, and `UsableFacts` derives from it that whoever begins is alone.
`ShownInv`: the runner shows the entry's revision, but for the moment between
the push of an update and the write that records it, and `OwnInv` says that
nobody captures then.  `CallInv`: only requests that are engaged with nothing
wait for cleanups.  The actions fall into those that only withdraw
(`Withdrawals`: retirements, sweeps, holds, ends) and those of one request on
its entry (`OneEntry`).

### PaidEdits, AiCredits and AiEdits

`PaidEdits` is what the editor promises about AI edits: an edit needs a claim
on Actions of live sources, a claim is charged at most once, and once the edit
is in the source the claim goes only when its money went back.

`AiCredits` are the Actions: monthly grants, purchased packs with their orders
at PayPal (`worker/payments/ai-packs.js`) and reservations
(`worker/ai-usage.js`).  An Action is a member of `Units`, so that "is spent
twice" is an intersection of sets and not arithmetic.  `AiEdits` composes them
with the requests that run them and with saves by hand (`worker/ai.js`,
`worker/editor-projects.js`).

| action | code |
| --- | --- |
| `Reserve`, `Commit`, `Release`, `RecordPending` | the transactions of `ai-usage.js` |
| `Read`, `ReserveActions`, `Generate`, `Apply`, `CommitActions`, `ReleaseActions`, `NotePending` | `aiProposal` and its `catch` blocks |
| `SaveByHand` | `saveCode`, `saveVisual`, undo and redo |
| `RequestPack`, `VerifyPack`, `WriteVerified`, `CapturePack`, `FinalizePack`, `ReversePack` | `createAiPackOrder`, `verifyOrder`, `captureAiPackOrder`, `finalize`, `applyAiPackReversal` |
| `ApprovePack`, `HeldCaptureSettles`, `NextMonth` | the buyer, PayPal, the clock |
| `TransactionFails`, `RequestDies` | failures |

Run `ai_edits`: two AI requests with two workers, a save by hand, one Action
of the month and one of a pack, two months, one reversal, one failure anywhere.
No Action is spent twice (`NeverOverdrawn`), the history is a chain of edits
each made on the one before (`EditsChain`), and `PaidEdits` is implemented:
an edit in the source was paid for, whichever of its steps failed.  Two keys on
two Actions make every allocation contend; the pack's one Action makes its
reversal meet a reservation, a commit and an edit.

What it showed: the reservation of a request that died stays reserved for
ever, its retries are answered 409, and on the free plan, whose concurrency is
1, it blocks the user (`ai.js:167`), which is why no liveness is claimed here.
A partial refund of a pack's order cannot be stored (`revocation_reason` is
'refund' or 'dispute'); `wcb_payment_reversals` grants SELECT and INSERT while
`finalize` locks its row FOR UPDATE; a stale checkout may set a completed
pack's order back.  The order in which several packs are used is left open.

### AiEditsProofs

Proved for any keys, workers, packs, Actions, costs and bounds, from
`CreditAssumption` and `NameAssumption`: `ActionsAreSpentOnce`,
`HistoryIsAChain` and the refinement `EditorImplementsPaidEdits`.

The argument.  A request decides by what it remembers: between the reservation
and the save, and between the save and the commit, its reservation may be
taken by a reversal of the pack.  `Knows` says for each step what is still
true: before the save the edit is not in the source and the reservation waits
or was taken by a reversal (`Lapsed`); after it the edit is there for good; a
repeated request acts on what it read of a settled reservation.  One request
at most owns a reservation it may still release (`RequestInv`), hence a
release never meets a save.  `PackInv` and `SoldInv` say that what was
allocated was sold and that a live pack has no reversal recorded.  In the
refinement each step is a claim, an edit, a charge, a withdrawal of a claim, a
change of the sources, or nothing.

### Subscriptions

`createPlanSubscription`, the cancel route and `applySubscriptionEvent` for one
user.  A row is named by its idempotency key, an event by its place in the
order in which things happened at PayPal, whatever order it is delivered in.

| action | code |
| --- | --- |
| `ResumeCheckout`, `StartCheckout`, `InsertRow`, `CreateAtProvider`, `LinkRow`, `VerifyPending`, `VerifyFails`, `MarkForReconciliation`, `MarkApprovalPending` | `createPlanSubscription` and its helpers |
| `StartCancel`, `CancelAtProvider`, `StoreCancelled` | the cancel route of `http.js` |
| `Ignore`, `FlagAfterEnd`, `Apply` in `Deliver` | `applySubscriptionEvent` |
| `Happens`, `Vanish`, `PaidTimeEnds`, `Abandon` | PayPal, the clock, requests that end |

Run `subscriptions`: two keys, two requests, five events.  The user is never
billed for two plans (`BilledOnce`); once every event of a plan was delivered,
in whatever order, the row says what PayPal says (`SettledAgrees`).  Five events
are an activation, a renewal, a suspension, its end and the end of the plan.

What it showed: `domain.test.js:249` ("allows a fresh checkout after an unpaid
cancellation") holds only for the in-memory repository, since the index
`wcb_subscriptions_one_current_per_user` counts `cancelled` and `InsertRow` is
refused; a sale that is older than the last applied event is dropped as stale
and never stored in `wcb_subscription_payments`.  Left out: the price check,
payment aliases, refused plan changes, and a checkout under another key that
finds a linked row still being created, which returns the row and changes
nothing (`domain.js:277`).  `Deliver` handles an event as a whole, once or
again: the inbox in front of it is in `MarketplaceOrders`, and what is found
there, an event answered as a duplicate whose handler dies or throws, is not
covered by `SettledAgrees`.
`reconcileMonthlySubscriptionGrant`, `buildPayoutBatch` and
`reconcileManualPayout` have no caller.

### SubscriptionsProofs

Proved for any keys, requests and number of events, from no assumption:
`OnePlanIsBilled`, that is `BilledOnce`, and `SettledPlansAgree`, that is
`SettledAgrees`.

The argument.  `BilledOnce` speaks of PayPal, whose subscriptions no index
keeps apart.  `Inv` ties them to the table: at most one row is current, which
the index gives (`OneCurrent`); the subscription of a row that is no longer
current is over, for good (`EndedStaysEnded`); hence two that may be billed
would have two current rows.  To keep it, `Inv` carries what a request learned
from PayPal before it writes (`RequestsKnow`: who is about to store
"cancelled" has ended it there) and what an event says although it may come
late (`EventsKnow`: a cancellation that was told is one that happened).
`RowStep`, `AgreementStep`, `RequestStep` and `EventStep` reduce every action
to the few ways a row, a subscription, a request or the events can change.

`SettledAgrees` speaks of the moment when everything was delivered.  `Settling`
follows a row up to it, for late events and early ones alike: a row remembers
an event of its own, and once the last event told of the plan was handled, it
is that one and decides the status (`RowFollows`); the end of a plan is the
last thing told of it (`EndsAreTold`), and a row or a request only says that it
is over when PayPal does (`EndsAreTrue`).  Steps that bring no news are shown
once to keep this (`QuietKeeps`).

### AssessedReleases and SellerPipeline

`AssessedReleases`: a work goes to buyers only after a reviewer let it in, an
assessment of exactly this work passed, it was released and its rights were
cleared, and no decision is taken twice.  `SellerPipeline` is the code: the
seller domain of `postgresProductDomain.ts`, the assessment worker
`isolatedAssessmentWorker.ts` and `worker/control-mutations.js`.

| action | code |
| --- | --- |
| `Apply`, `DecideApplication`, `Submit`, `Review`, `AdmitAssessment` | `applySeller` .. `admitSellerAssessment` |
| `Claim`, `TakeSnapshot`, `Renew`, `Check`, `Accept`, `Cancel`, `RunEnds`, `LeaseRunsDown`, `RotateCredential` | the worker's `run` and the lease calls it makes |
| `PublishRelease`, `Promote`, `VerifyRights`, `QualifyReady` | releases |
| `SaveListing`, `PublishPromotedListing`, `UpdateCreatorListing` | listings |

Run `seller`: two revisions of which one is broken, two workers, two of their
processes at a time, two generations of a lease, one rotated credential.  A
result is that of the last holder (`ResultIsTheHolders`) and
`AssessedReleases` is implemented, with the source moving on, leases lapsing,
workers dying and owners releasing by themselves in between.

Two calls that the worker makes in a row (assert and accept, which checks
again) are one action; "draft" and "archived" are "unpublished"; a repeated
call of a key changes nothing and is left out.  The engine's
`publishPromotedListing` needs no rights verification, the Worker's does; it
is the Worker's that is modelled.  A rejected seller's submissions stay
reviewable, a saved draft blocks publication, a renewal adds its five seconds
every second, and `transitionOperator` (`control-mutations.js:62-74`) shadows
its `role` and always throws.  ZIP and GitHub admissions are not modelled.
Nothing schedules claims, so no liveness is claimed.

### SellerPipelineProofs

Proved for any workers, processes, versions, bounds and whichever revisions
are sound, from `NoneAssumption` and `RevisionAssumption`:
`ResultsAreTheHolders` and the refinement `SellersImplementReleases`.

The argument.  A worker's process runs on while its lease lapses, is claimed
again or its credential is rotated.  `Honest` says what it may carry
nevertheless: a snapshot of the submission it claimed and never of the head of
the source, and a verdict that the check can give of that snapshot.  With it a
result that is accepted under the fence speaks of the submitted revision
(`WorkerInv`); `SellerInv` orders submission, decision and admission, and
`MarketInv` ties what is published to a promotion whose result passed.  The
three groups of actions change three groups of variables, so that each keeps
the other parts of `Inv` by a lemma of its own.

### ProjectAccess and Materialization

`ProjectAccess`: who may change a project.  Sessions, memberships with their
epochs, shares, and the transactions of `postgresStores.ts` that read and write
source.  Looking up an authority locks its rows FOR SHARE to the end of the
transaction, which the guards `SessionLocked`, `WorkspaceLocked`,
`MemberLocked` and `ProjectLocked` of the actions that change such rows express.
`Materialization` runs together with it: the working copy of a bought release
is a project like every other, made by a buyer's request, by the Worker or by
a sweeper.

| action | code |
| --- | --- |
| `IssueSession`, `SessionExpires`, `RevokeSession`, `RevokeUser` | `postgresIdentity.ts`, `PostgresAccess` |
| `SetWorkspaceMember`, `SetMember`, `CreateProject`, `RemoveProject`, `CreateShare`, `RevokeShare` | `PostgresAccess`, `PostgresProjectStore`, `createProjectShare`, `revokeProjectShare` |
| `Grant`, `Read`, `BeginWrite`, `Write`, `Commit`, `Abort` | `grant`, `read`, `accept` |
| `GrantEntitlement`, `EndEntitlement` | entitlements, cut down to active or ended |
| `Reserve`, `ReserveReconciles`, `ReserveStops`, `MakeAtOnce` | `materialize`, `worker/materialization.js` |
| `SweepBegins`, `SweepReconciles`, `SweepStumbles`, `SweepMarksFailed` | `reconcilePending`, `markFailed` |

Run `workspaces`: an owner, a guest, two sessions, a project and a copy, two
requests, one operator's change.  Nothing of a revoked share is left
(`RevokedShareGrantsNothing`), and nothing else ends with it: what an operator
or another share gave the recipient stands (`OnlyOwnTenureEnds`); a write becomes durable only under the tenure
it began with (`WritesAreAuthorized`), and a tenure that ended is told from
every later one (`GrantsAreFenced`); a copy is ready exactly when its project
was made (`ReadyMeansMade`).  One project of capacity makes copy and project
compete; epochs up to 3 are a tenure, its end and the next.

Remarks.  Two writers that both hold the project FOR SHARE wait for each other
until PostgreSQL ends one (`Abort`).  A session may expire between the last
check and the commit: only the clock, never a revocation, passes there.  A user
that is disabled is one all of whose sessions are revoked.  A share that was
revoked can never be created again for its pair; deleting a shared project
leaves its recipient a viewer of the workspace; a deleted copy cannot be made
again.  All of this is about the PostgreSQL stores: the class of
`hostedAuthority.ts` that keeps the same rows in SQLite is not modelled, and
`saveCode` of the Worker (`AiEdits`) takes no lock FOR SHARE, so
`WritesAreAuthorized` says nothing of it.  Not modelled: logins and one-time
codes, and the linking of identities.

### MaterializationProofs

Proved for any users, sessions, projects, requests, entitlements and bounds,
from `AccessAssumption` and `CopyAssumption` (a session has one user, copies
have ids of their own): all five properties of run `workspaces`, as
`RevokedSharesAreEmpty`, `TenuresEndWithTheirShare`, `StaleGrantsAreFenced`,
`OnlyAuthorizedWrites` and `ReadyCopiesAreMade`.

The argument.  A membership changes only together with its epoch, which grows
(`Moves`, `RowsMove`); this alone keeps `GrantsAreFenced`.  A share carries the
epochs it gave and, while they stand, its roles (`Shares`): so the end of a
share finds its own tenure or none.  That it touches no other is shown action
by action (`TenuresStand`), with `AbsentInv`: nobody is a member of a project
that was not made.  A write is safe between its last check and
its commit because every action that changes one of its rows asks for the lock
first: that is `LocksHold`, shown action by action, and keeps `Written`.  A
reserved project is made by nobody but its copy (`ReservedStay`).
`AccessStep` and `CopyStep` reduce `Next` to three kinds of steps: those that
change rows (`RowsOnly`), those of one request (`Requested`), and `Commit`.

## The runs

| run | module | properties |
| --- | --- | --- |
| `orders_money` | `MCMarketplaceOrders` | `TypeOK`, `ReversalsBalance`, `CompletedMeansDelivered`, `ProcessedMeansRecorded`, `ImplementsPurchaseAccess`, `SettlementMovesForward` |
| `orders_liveness` | `MCMarketplaceOrders` | `ReversalsBalance`, `AnsweredIsRecorded`, `RecordedReversalEndsAccess`, `CaptureLeadsToAccess`, `DisputeLeadsToRecord` |
| `orders_bought_twice` | `MCMarketplaceOrders` | `CaptureLeadsToAccess` (violated) |
| `subscriptions` | `MCSubscriptions` | `BilledOnce`, `SettledAgrees` |
| `ai_edits` | `MCAiEdits` | `NeverOverdrawn`, `EditsChain`, `ImplementsPaidEdits` |
| `source` | `MCDurableSource` | `SourceMatchesHead`, `AnswersAreTrue`, `ImplementsAtomicSource`, `AnswersStand`, `OutsideEditStopsCommits`, `RecoveryCompletes` |
| `source_history` | `MCSourceHistory` | `EveryRevisionIsRestorable`, `UndoNeverConflicts`, `HistoryOnlyGrows` |
| `runners` | `MCRunnerFencing` | `QuotaRespected`, `ImplementsRunnerSlots`, `HolderSettles`, `NeverRevived`, `CapacityComesBack` |
| `previews`, `preview_frames` | `MCControlledPreview` | `ImplementsRunnerSlots`, `SweepSparesCurrent`, `FramesShowTheirRevision` |
| `seller` | `MCSellerPipeline` | `ResultIsTheHolders`, `ImplementsAssessedReleases` |
| `workspaces` | `MCMaterialization` | `RevokedShareGrantsNothing`, `OnlyOwnTenureEnds`, `ReadyMeansMade`, `GrantsAreFenced`, `WritesAreAuthorized` |

Symmetry is used for names that no definition tells apart (workers, requests,
keys, processes, versions); the runs with liveness use none.

The violation run is a disagreement of the code with its own documents: a
second order of an owned release takes money that is never settled, while
`PROJECT.json` quotes the document under "findings".

## Fairness

Fairness is assumed where the code drives itself: PayPal's redelivery and a
running webhook (`MarketplaceOrders`, where the liveness run also excludes
deliveries that overlap and handlers that die), recovery on every lease of a source
(`DurableSource`), and the orphan search of runner controllers
(`RunnerFencing`).  Nothing else is claimed to end: AI requests may die with
their reservation, nothing schedules assessment claims, and buyers and editors
do as they please.

## What is proved

| module | what holds for every value of the constants |
| --- | --- |
| `MarketplaceOrdersProofs` | types, delivery of what is completed, the books, the end of access, the inbox and its answers, the order of statuses; `PurchaseAccess` is implemented |
| `DurableSourceProofs` | types, source and head agree, answers are true and stand, outside edits stop commits; `AtomicSource` is implemented; of the history: revisions are restorable, undo meets no conflict, nothing recorded is lost |
| `RunnerFencingProofs` | types, quotas, who settles a lease, nothing is revived; `RunnerSlots` is implemented |
| `SubscriptionsProofs` | one plan is billed; a plan whose events were delivered agrees with PayPal |
| `AiEditsProofs` | Actions are spent once, the history is a chain; `PaidEdits` is implemented |
| `SellerPipelineProofs` | results are their holders'; `AssessedReleases` is implemented |
| `ControlledPreviewProofs` | captures and sweeps of previews; the local scheduler implements `RunnerSlots` |
| `MaterializationProofs` | revoked shares and what they spare, stale grants, authorized writes, working copies |

The section of each module gives its assumptions and the argument.  Every
inductive invariant was checked by TLC before it was proved.  The type
invariants of the orders, the durable source and its history, the runners and
the previews are proved; a run checks that of the orders, whose amounts could
leave their range.

Every invariant and action property of the passing runs is proved, and every
refinement.  What stays with TLC is liveness under fairness
(`CaptureLeadsToAccess`, `DisputeLeadsToRecord`, `RecoveryCompletes`,
`CapacityComesBack`), which the prover does not do.

## Not modelled

- Creator payouts: `buildPayoutBatch` and `reconcileManualPayout` have no
  caller, `creator-finance.js` only reads.
- Parsers, syntax trees, compatibility analysis, rendering, routing, headers:
  functions of one input, whose data is strings.
- Drafts and preview secrets: two stores with an expiry, of one editor each.
- The browser's queue of edits and its handshake with the preview; the requests
  it repeats are in `AiEdits` and `DurableSource`.
- Login: verification of tokens, one-time codes, linking of identities, the
  operators' step-up evidence.  Linking holds a session's row while it waits
  for the identity lock, and disabling a user takes them in the other order
  (`identity-link.js:43-48`, `postgresStores.ts:57-59`): PostgreSQL ends one of
  the two.
- Imports from ZIP archives and GitHub; process and virtual-machine control of
  the runner back ends below the gateway.
- In-memory twins of PostgreSQL stores (`productDomain.ts`, the test
  repositories): where they differ from the database, the text above says so.

## Plan

1. Sessions of the Worker (`postgres-session.js`): rotation of the CSRF token
   and linking of identities beside the revocations of `ProjectAccess`.
2. The browser's save queue composed with `AiEdits`.
