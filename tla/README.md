# aws-tui in TLA+

aws-tui is a terminal application: panes on local directories and S3 buckets, with copies, moves and deletes
between them, an Athena query page, EMR Serverless and Glue browsers. This directory models the parts of it that
are hard to test because they interleave, crash or race, checks the models with TLC, and proves with TLAPS what
matters most about copies, transfers, uploads, service navigation and Athena queries. Paths below are relative to `src/src/aws_tui/`.

- [Inventory](#inventory)
- [Modules and the code](#modules-and-the-code)
- [Runs, bounds and fairness](#runs-bounds-and-fairness)
- [What the runs found](#what-the-runs-found)
- [Proofs](#proofs)
- [What is left out](#what-is-left-out)
- [Plan](#plan)

## Inventory

One process, one asyncio event loop. View models call domain services; blocking work (journal writes, local
file calls, boto calls) runs on threads that the loop awaits. Components talk by method calls, by messages on a
hub, and by callbacks handed to a copy (`before_publication`, `progress`). Two things are shared with *other*
processes: the directories being copied into, and the cache directory that holds the journal.

| Component | State | Operations | Hard behaviour | Correct when |
|---|---|---|---|---|
| Cross-filesystem copy and move (`domain/cross_fs.py`) | stage, container, backup, attempt counters, pending failure | copy, move, resolve conflict, publish, overwrite, clean up | others take or replace names between steps; cancellation at every await; a step of many fails | no foreign file is lost, nothing stays behind silently, cancellation surfaces, a move deletes only what was copied |
| Local provider (`domain/local_fs.py`) | files and their revisions | publish without replacing, delete at a revision, write a stage | a check and the rename that relies on it are separate system calls | it keeps the contract of `domain/filesystem.py` |
| Transfer journal and history (`domain/transfer_journal.py`, `domain/transfer_history.py`) | one append-only file per transfer, one summary per finished transfer | begin, mark attempted / destination / terminal, load, clear | torn lines, failed syncs, kills, power loss, clock steps, a second instance | what the next start reads is true |
| Transfer runtime (`vm/file_manager/transfer_runtime.py`) | owned, running and finished ids, cancel events, queued cleanups | begin, claim a retry or an upload, run one, finish, settle batch, shut down | row cancel, worker cancel, copy end and disk failure in one turn | exactly one true outcome per entry, everything is given back |
| Dual pane batches (`vm/file_manager/dual_pane_vm.py`) | entries of one batch | copy, move, delete | as above | a cancelled batch stops |
| Rows and overlay (`transfer_vm.py`, `transfers_vm.py`) | row state, finished rows | cancel, progress, trim | late messages | row and history agree |
| History and recovery (`transfer_history_vm.py`) | visible records, clear and load in flight | load, inspect, retry, clear | load against a running batch | an active transfer is never offered for recovery |
| Service navigation (`service_navigation.py`, `vm/content_host_vm.py`, `vm/root_vm.py`, handlers in `app.py`) | generation and owner, service lock, hosted view model, its setup task, rail selection, mounted view | pick, choose a source, mount, supersede, roll back, quit | navigations overtake each other at every await of a swap; swaps fail half way; quitting in the middle | rail, host and view agree on the newest; no view model is lost, none is disposed of under its setup, the lock always comes back |
| Operation ownership (`vm/operation_owner.py`) | tasks, intake | run, close intake, drain | work arriving during a drain | nothing runs after disposal |
| Athena query (`vm/athena/query_vm.py`, `domain/athena.py`) | generation, execution owned or shown, lifecycle lock, submissions and their finalizers, executions to be stopped; the client's active, retired and stopping executions | run, cancel, change context, shut down, restore, show history | answers after a cancel or replacement, failed stops, a start whose answer is lost | no started execution is forgotten, what is shown of it is true, transitions end |
| Athena drafts (`vm/athena/drafts_vm.py`, `infra/athena_draft_store.py`) | a session per page, current write, revision and obligation per draft, worker queue, store | edit, autosave, restore, hand over, delete, disable, shut down | edits, page swaps and deletions while writes are queued or answered | "saved" is true, deletions last, nothing newer is overwritten, the shutdown report is complete |
| EMR Serverless (`vm/emr_serverless/`) | pollers, submit tokens, log cursors | poll, submit, clone, read logs | overlapping polls, submit retried | one submission, newest answer shown |
| Pane listing (`vm/file_manager/pane_vm.py`) | listing generation, path, marks | list, navigate, filter, refresh | late listings | the listing shown is of the current path |
| S3 provider (`domain/s3_fs.py`, `s3_upload.py`) | multipart uploads | put, abort, conditional copy, rename | parts failing, abort failing, a request repeated because its answer was lost | no upload is leaked, what is reported of an object is true |
| Recursive upload (`domain/upload_batch.py`, `vm/file_manager/recursive_upload_transfer.py`), synchronisation | plan, object statuses and receipts | plan, run, cancel, plan again what failed | workers cancelled in a request, answers lost, the source closed after the write | an object that S3 has is never offered again, the transfer row is true |
| Workspaces, configuration, keymap, theme stores | one file each | load, save, restore | partial restore | a save is all or nothing |
| Connections and credentials | sessions, validation state | resolve, validate, recover | mostly external | - |
| Overview, chrome, settings; application shell; diagnostics; demo back ends; SQL policy; Glue and Iceberg | presentation, text, read-only browsing | - | little of their own | - |

`PROJECT.json` lists every component with its sources and status, and every hazard with the line where it bites
and the properties that would catch it.

## Modules and the code

```
CopyContract  <--implements--  CopyTransaction      one copy or move, inside  <-- CopyTransactionProofs
     ^ assumed by both:
TransferRuntime                 a batch, a retry or an upload, seen from the event loop
  +- UploadBatch                the objects of a recursive upload
     both: <-- TransferRuntimeProofs, which uses UploadBatchProofs
TransferJournal                 what is on disk, over crashes    <-- TransferJournalProofs
ServiceNavigation               swaps of the hosted page         <-- ServiceNavigationProofs
AthenaQuery                     one query page and the executions it starts  <-- AthenaQueryProofs
DraftAutosave                   the drafts of that page, from the editor to the disk
                                                                  <-- DraftAutosaveProofs, which uses DraftLemmas
MCCopyTransaction, MCTransferJournal, MCDraftAutosave constants for TLC
```

The transfer models meet at interfaces that each keeps small. `CopyTransaction` implements `CopyContract` (a checked
refinement); `TransferJournal.Publish` and the copy actions of `TransferRuntime` are what that contract allows.
`TransferRuntime.Save` is `mark_terminal` by its effect, and `TransferJournal` opens that one step into three.
`TransferRuntime` composes `UploadBatch` by INSTANCE: they share a step only where the code calls from one into the
other (`Launch`, `Halt`, and the batch's end). `ServiceNavigation` meets `TransferRuntime` in one await: a swap waits for
the transfer workers to stop (`transfers` in one, `WorkerCancel` in the other). It sees the two Athena modules as the
shutdown and disposal of a page: `AthenaQuery!EnterShutdown` and `Dispose`, `DraftAutosave!ClosePage` and `Detach`; the
snapshot that `DraftAutosave` hands from page to page passes through its swaps.

### CopyTransaction: `domain/cross_fs.py` with `domain/local_fs.py` and `domain/s3_fs.py`

`pc` names the await the copy is at. `fs` maps names to objects: 0 is the requested destination, `i` is
`name (i)` of the RENAME policy, and three private names stand for the staged payload, its container and the
overwrite backup. An object is an identity and the number of times it was renamed, which together are the opaque
revision of `_local_etag` (a rename changes ctime, so a revision taken before it no longer matches). `kind` is the
destination: `local` is LocalFS, `ideal` a publisher that keeps the promise of `AtomicNoReplacePublisher`, `s3` and
`versioned` S3FS on a bucket without and with versions. S3 does not stage: `_copy_file_atomically` writes the object
with one conditional request, or as a multipart upload completed by one.

| Code | Actions |
|---|---|
| `CrossFsMove.move` / `CrossFsCopy.copy`, guard and source stat | `Start` |
| `_resolve_conflict` | `Resolve`, `Probe` |
| `_copy_entry`, `_exists`, `_prepare_publication` | `ExistsCheck`, `Intend` |
| `_write_unique_file_stage`, `_verify_stage_claim` | `ClaimContainer`, `VerifyClaim` |
| `_copy_file`, `LocalFS.write_stream`, `_capture_file_stage` | `OpenPayload`, `FillPayload`, `Capture` |
| `_publish_owned_stage` | `AnnounceAndPublish`, `AfterPublish`, `StageOwned`, `Exhausted` |
| `atomic_publish_no_replace`, as the protocol promises it | `PublishAtomically` |
| the same, as LocalFS does it: lstat, rename, lstat | `PublishCheck`, `PublishRename`, `PublishStat` |
| `_commit_overwrite` | `ObserveVictim`, `PublishedFresh`, `BackedUp`, `Committed`, `Restored`, `DropBackup` |
| `_cleanup_stage_manifest`, `_cleanup_published_container` | `DropPayload`, `DropContainer`, `CloseContainer` |
| `_delete_observed_source` | `DeleteSource` |
| `_copy_file_atomically`, the first read of `S3FS.write_stream` | `FirstChunk` |
| its multipart upload: create, parts, a cancellation in them | `CreateUpload`, `UploadParts`, `CancelledInWrite` |
| the conditional put, or completion, of the object | `SendObject` |
| abort of the upload, `_rollback_cancelled_upload`, the end | `AbortUpload`, `RollBack`, `WriteEnds` |
| `_durably_run`, `_finish_durable` | `Drained`, `Worse`, used by every mutation |
| `copy_task.cancel()` | `Cancel`, `CancelledAtAwait` |
| other processes (external) | `ExternalPut`, `ExternalRemove`, `Tamper`, `EditSource` |

A step that the code runs through `_durably_run` is drained: a cancellation that arrives during it is merged with
its own failure afterwards (`Drained`). At a plain await the cancellation is raised instead of the result
(`Awaiting`, `CancelledAtAwait`). Every step of the copy that asks something of a provider (a stat, an existence check, a
write, a rename, a publication, a deletion) has an alternative in which it raises, and each mutation one for failing
before or after it took effect where the code tells these apart. The other modules say below what they leave out.

`DeleteSource` is the conditional delete. `_delete_observed_source` also has an unconditional one, for a source whose stat
gave no etag (`cross_fs.py:1650-1652`). No provider of the repository reaches it: LocalFS (`local_fs.py:750-752`), S3
(`s3_fs.py:954-964`) and the demo's in-memory one refuse such a move in `preflight_move_revision`, before anything is
copied.

`SendObject` may lose its answer. The ordinary S3 client repeats a request up to six times (`s3_fs.py:187`), so an empty
object that was stored is then refused with 412: SKIP reports a skip, RENAME writes a second name, ERROR raises a
conflict, each although the object is there. `CopyContract` has a variable `lost` for it and promises less then. The
reviewed uploads use a client that does not repeat (`s3_fs.py:242-247`); a multipart upload is saved by its abort,
which fails because the upload is gone. `TransferJournal` and `TransferRuntime` assume a copy that lost no answer:
otherwise `RecordedWherePublished` and a history of "skipped" would be wrong for empty objects in S3.

### TransferJournal: `domain/transfer_journal.py`, `domain/transfer_history.py`

`file[t]` is the journal of a transfer as `_safe_state` reads it: attempted or not, last destination, and whether
it is open, ended or damaged. `summary[t]` is its record in the history store. `linger[t]` is a journal that was
unlinked but whose directory has not been synced, so that a power loss may bring it back. `phase[t]` is what the
owning instance does with it and `world[t]` what the provider really published.

| Code | Actions |
|---|---|
| `TransferJournal.begin` | `Begin` |
| `mark_attempted`, `mark_destination` | `MarkAttempted`, `MarkDestination` |
| `_append`, `_write_journal_line` | `AppendLine`, `AppendFails` |
| `mark_terminal`: summary, end line, purge | `SaveSummary`, `MarkEnd`, `Purge`, `SaveFails` |
| `TransferHistoryStore.save` and its trimming, `load` | `Stored`, `Replaced`, `Later`, `Kept` |
| `load_history` (a read: no step of its own) | `Record` |
| `clear_history`: summaries, then interrupted journals | `ClearSummaries`, `ClearJournals` |
| kill, power loss, wall clock (external) | `Kill`, `PowerLoss`, `ClockStep`, `ClockCatchesUp` |

`mark_terminal` and `clear_history` hold the journal's lock over several disk operations; `lock` is that lock, per
process, because it is a thread lock.

### TransferRuntime: `transfer_runtime.py`, the loops of `dual_pane_vm.py`, `TransferVM`, retries and uploads

`pc` is the await the batch worker is at. `owned`, `running`, `finished`, `events`, `cleanup` are the runtime's
own sets. `copy[t]` is the copy task, `row[t]` the row in the overlay, `journal[t]` and `saved[t]` the disk. `kind` is
who uses the runtime: a copy or delete batch, the retry of an interrupted transfer, or a recursive upload.

| Code | Actions |
|---|---|
| `_pre_register_pending`, `begin` | `Begin` |
| batch loop and head of `run_one` | `NextEntry`, `AwaitCleanup`, `Enter`, `Proceed` |
| `mark_attempted` in `run_one` | `Attempt` |
| the race of copy and cancel event | `Copying`, `Drain`, `Settled` |
| `run_one`'s `finally`, which awaits the cancelled `cancel_task` | `AfterWrite`, `Unwind` |
| `finish` | `Write` (worker), `CleanupStart`/`CleanupDone` (queued by a row's cancel) |
| `settle_batch`, `release` | `Settle`, `SettleWrite`, `Release` |
| `OwnedDiskOperations.call` | `Landed` |
| `TransferVM._cancel`, `_on_message` | `UserCancel` |
| `cancel_group` before a content swap, `shutdown` | `WorkerCancel`, `Shutdown` (both `Stop`) |
| the copy task | `CopyPublishes`, `CopyReports`, `CopyEnds` |
| `TransferHistoryVM._retry`, from `begin` on | the same actions with one entry, and `GiveBack` |
| `execute_upload_transfer` with `claim_running` | `Launch`, `Uploading`, `UploadWrite` |
| the cancel command of the upload's page | `UploadCancel` |

`claim_running` waits for a queued cleanup, which an upload cannot have: its row is shown after the claim. Its entry
has no descriptor, so `finish` only removes its journal and writes no summary, on the early ends too (`Save`): history
does not know of uploads, and `RowMatchesHistory` compares their row with the receipts instead.

### UploadBatch: `domain/upload_batch.py` on `S3FS.write_upload_stream`

Each object of the reviewed plan has a worker of its own, and is at one of that worker's awaits; `receipt[o]` is its
`UploadPublication`, the only thing that decides afterwards whether the object may be sent again.

| Code | Actions |
|---|---|
| `UploadBatch.run`, with the second inspection of the root and the end | `Launch`, `InspectRoot`, `Finish` |
| `_worker`, `_upload`: inspection, name, source, request, close | `Take`, `Inspect`, `Rename`, `Open`, `Send`, `Close` |
| `cancel`, or a cancelled `run` | `Halt` |
| `snapshot`, `UploadOutcome.retryable` | `Snapshot`, `Retryable` |

`Send` is drained: a cancellation is raised after the request ended, with the receipt it left. A refusal that meets a
cancellation leaves an uncertain receipt, which is what the code does; it costs a retry, never an object. The conflict
policy is a choice among the outcomes that some policy gives; the names that RENAME tries, and their reservation among
the workers, are left out.

### ServiceNavigation: `service_navigation.py`, `vm/content_host_vm.py`, `vm/root_vm.py`, `app.py`

Navigation `n` is the one of generation `n`; `pc[n]` is the await its task is at and `cancelled` holds the tasks with
a cancellation they have not met yet. It builds view model `n` (0 is the one of startup). `host`, `live` and `setup`
are the content host: what is hosted, what is constructed and not disposed of, and the setup task of each.
`menu` is the rail, `view` the widget under `#content-host`, `lock` is `service_lock`, `mark` the owner that
`_replace_content_widget` remembers. `choice` and `published` are history: the user's last pick and the last
navigation that mounted its view.

| Code | Actions |
|---|---|
| rail click, `_on_nav_selection_changed`, the exclusive `content-mount` worker | `Pick` |
| `_select_discovery_source` for an S3 pane, `_switch_single_context_source_to` | `ChooseSource`, `EnterSource`, `Rebound` |
| `_mount_external_navigation` up to the mount | `Enter` |
| `mount_service`, `_mount_settings_view`, `RootVM.switch_service`, head of `set_content` | `Stopped` (`Build`, `Retire`, `Adopt`) |
| `_cancel_and_drain_setup`, `_run_setup` | `Drained`, `SetupEnds` |
| `_shutdown_current_for_swap`, `_dispose_current`, adoption | `HostStopped` (`Adopt`, `Dispose`) |
| the rollback of `_adopt_service_vm`, `restore_navigation` | `Unwind`, `menu'` in the failing alternatives |
| `_replace_content_widget`, with the removal and the resets that it awaits | `Remove`, `Replaced`, `Removed`, `Mounted`, `Reset`, `GiveUp` |
| a cancellation met at another await | `Cancelled` |
| `_perform_aws_tui_shutdown` | `CloseIntake`, `StopMounts`, `PassBarrier`, `DisposeTree` |

A cancellation is met where the code meets it: at once at a plain await, after the setup is over in
`_cancel_and_drain_setup`, after the page is disposed of in `_shutdown_current_for_swap`, where it is also lost if
that shutdown fails. The rollback selects an entry of the rail without suppressing the message, so it routes a
navigation of its own.

### AthenaQuery: `vm/athena/query_vm.py` with the client's query registry in `domain/athena.py`

Run `r` is the r-th use of the Run command and makes submission `r`; `pc` is the await its task is at. Athena gives one
execution to a request token however often it is repeated, so an execution has the name of the run that made its
token. `page` is what the view model shows and owns, `pending` what it still has to stop, `client` the client's own
record (`active`, `retired`, `stops`), `remote` Athena's. `lock` is `_lifecycle_lock` with who holds it, `phase` how far
that holder is, `life` the page's way to its end. A submission whose task was cancelled lives on in its finalizer `fin[r]`.

| Code | Actions |
|---|---|
| `execute`, `_run_execution`, `_draft_preflight`, `_validate`, the request token | `Execute`, `Preflight` |
| `_retire_owned_query_before_run` | `EnterRetire`, `Retired`, `Yielded` |
| `submit_current_query`, `AthenaClient.start_query` | `Dispatch`, `StartAnswered`, `StartFails` |
| the run's answer, or its failure; a superseded one is stopped | `Started`, `StartRaised`, `StaleStopped` |
| the poll loop, `_apply_detail`, `_reject_out_of_context`, first page of results | `Polled`, `PollFails`, `Rejected`, `Loaded` |
| a cancellation of the run's task | `Interrupt`, `Deliver`, `Detach`, `Abort`, `Finalized` |
| `_finalize_cancelled_submission` | `Finalize`, `FinalizerStopped` |
| `cancel`, `_cancel_active` | `AskCancel`, `EnterCancel`, `CancelAnswered`, `CancelInterrupted` |
| `set_context` | `AskContext`, `EnterContext` |
| the page's `shutdown`, the query's | `CloseIntake`, `EnterShutdown` |
| what they share: drain the run, the finalizers, stop what is pending | `Drained`, `FinalizersDrained`, `Sweep`, `Swept`, `TransitionOver` |
| the shutdown's own end: the results' workers, the flush of the draft | `CloseResults`, `ResultsClosed` |
| `dispose` | `Dispose` |
| `AthenaClient.stop_query`, `_dispatch_stop_query` | `Ask`, `Hear`, `StopDone`, `StopFails` |
| an edited draft, `restore_snapshot`, results of a history row | `Edit`, `Restore`, `ShowHistory` |
| the history page's own reads; Athena (external) | `HistorySees`, `RemoteEnds` |

A submission that starts too late withdraws itself with a `CancelledError`, which its run takes for its own (`Detach`);
one that finds the reuse of results unavailable is refused with an error that the pane shows (`StartRaised`).

Whether the context resolves and the draft is allowed is a choice in `Preflight` and `Dispatch`, because both read state
that other view models change at any time. What a cancelled command does to its task belongs to VMx and is external.

### DraftAutosave: `vm/athena/drafts_vm.py`, `infra/athena_draft_store.py`

A draft is named by its query context. Texts are numbers in the order they were typed, which lets a property say that
a text is *newer*; 0 is blank, and no record. `session[p]` is the session of page `p`, `writer` the coordinator
(current write, latest revision, timer, obligations and intake), `queue` the jobs of its one worker thread,
`entered` whether that thread is past its last check of the first one, `results` what it has done and the loop has not
yet seen. `pref` is the autosave preference (`confirmed`: it is known; it is not when the configuration could not be
loaded at the start, or a change of it gave no answer), `disk` and `allowed` the store. `snapshot` is the editor handed
from a page to its replacement, as often as the pages last. The coordinator's operations are operators on its record,
which the actions apply. Four variables are history, which no guard reads:

- `wanted`: the text last accepted for a draft, 0 when it was deleted, given up or never taken;
- `covered`: the texts a draft has left behind, namely all typed so far when the coordinator takes a newer one for it,
  or when its deletion is asked for;
- `erased`, `replaced`: those of `covered` that a finished deletion, or a write of another text, has removed from disk.

A user's request may bring a text back, which takes it out of these three sets (`Readmitted`): recovering the draft,
switching drafts on with that text in the live editor, and restoring an editor whose text the coordinator never had
under its draft (`Stranger`: it was typed while drafts were off, or at a switch that failed).

| Code | Actions |
|---|---|
| `set_sql`, `edited` | `Edit` |
| `context_changed` | `ContextChanged` |
| `export_snapshot`, `install_snapshot` | `ExportSnapshot`, `InstallSnapshot` |
| `build_vm`, `build_recovery_vm` of the page | `OpenPage`, `OpenCandidate` |
| `activate`, `_claim_transferred_editor` | `Activate` |
| `flush`, `detach` | `ClosePage`, `Detach` |
| the draft manager and the settings: delete, clear, switch off and on | `DeleteDrafts`, `Disable`, `Enable` |
| `restore_draft`, `recovered` | `Recover` |
| the debounce of `schedule` | `TimerFires` |
| the worker with the store: write, erase, save the preference | `EnterWrite`, `FinishWrite`, `EraseRecords`, `EnableSaving` |
| `apply` and `completed`, `_operation_completed`, `_preference_completed` | `DeliverWrite`, `DeliverDeletion`, `DeliverPreference` |
| `shutdown`, `finish` | `Shutdown`, `Report` |

`EnterWrite` asks `permitted` and `FinishWrite` replaces the record: in between nothing can call the write back, whatever
the loop does. A job that fails does so before or after its effect. The page opened next, and the moment a candidate
becomes live, are those of `ServiceNavigation`: an outgoing page is disposed of before the next one is published.

## Runs, bounds and fairness

| Run | Question | Result |
|---|---|---|
| `CopyTransaction` | One file, all four policies, copy and move, to LocalFS, an ideal publisher and S3 with and without versions, two outsiders (a file and a directory), one cancellation anywhere | `NoLoss`, `NoSilentResidue`, `CancelIsRaised`, `MoveKeepsData`, refinement of `CopyContract`, `Terminates` hold; 774 thousand states |
| `TransferJournal` | Two transfers of one instance, failing writes, one crash, one clock step, clears at any time | the six journal properties hold; 705 thousand states up to symmetry |
| `TransferRuntime` | A batch of two, copy or delete, a retry, or an upload of two objects; two worker cancellations or shutdowns, row and page cancels, failing disk, refused and unanswered requests | `HistoryIsTrue`, `CancelledEarlyNeverRuns`, `RowMatchesHistory`, `NeverReplayed`, `CopyStops`, `AllSettle` hold; 543 thousand states |
| `ServiceNavigation` | Two picks, a source, one failing construction, shutdown or mount, quitting at any moment | `NothingOrphaned`, `DrainedBeforeDisposal`, `NewestSettles`, `CleanAtEnd`, `Settles` hold; 19 thousand states |
| `AthenaQuery` | Two runs of one page, every stop, start and poll in any order, one failing request, cancels, context changes, shutdown and disposal | `NoOrphan`, `ShutdownStopsAll`, `LostStartsAreRetried`, `CancelledIsStopped`, `SettledIsExportable`, `RefusalStays`, `TransitionsEnd` hold; 695 thousand states |
| `DraftAutosave` | Two contexts, two pages that hand each other snapshots, three events in any mix of edits, deletions, recoveries, changes of the preference and failing operations, shutdown at any moment | `SavedIsStored`, `DeletedStaysDeleted`, `NewerDraftIsKept`, `ReportIsComplete` hold; 1.2 million states up to symmetry |
| `CopyUnobserved` | Does LocalFS destroy only what it observed? | violated |
| `TransferJournalTwo` | Is an active journal protected when two instances run? | violated |
| `BatchStops` | Does a cancelled delete batch stop? | violated |
| `BatchOutruns` | Does a copy batch stop when its worker is cancelled at the very end of `run_one`? | violated |
| `BatchDrains` | Does `settle_batch` drain every queued write? | violated |
| `LatestPick` | With nothing failing, does the rail come to rest on the user's last pick? | violated |

What the properties say:

- `NoLoss`: a file of another process is still somewhere, unless an OVERWRITE published over it, and with a
  publisher that keeps its contract only a file `_commit_overwrite` had looked at.
- `NoSilentResidue`: a copy that returns has removed stage, container and backup, and left no multipart upload open;
  otherwise it raises.
- `CancelIsRaised`: when a cancellation reached the copy, what is raised at the end is the `CancelledError` itself, not
  another failure: the caller settles the two differently. The only exception is a `create_multipart_upload` that fails
  while a cancellation of it is drained; the property says that then, and only then, the provider's error is raised.
- `MoveKeepsData`: the source is deleted only at the version that was published.
- `ImplementsContract`: a name is announced (and so journalled) before the payload appears under it, the payload
  appears once, "copied" means it did and "skipped" that it did not.
- `NeverAttemptedIsTrue`, `RecordedWherePublished`, `SummaryIsTrue`: what recovery acts on is true.
- `InterruptedIsFound`: a transfer that published and was cut off is found at the next start, unless its journal is
  damaged or was cleared.
- `ActiveIsProtected`: no clear of its own instance takes an active journal away.
- `SettledStaysKnown`: a fully recorded transfer never comes back as interrupted, even if its purge is undone.
- `HistoryIsTrue`, `RowMatchesHistory`: worker, queued cleanup and `settle` agree with the disk and with each other, and
  a row tells the truth about its destination. A cancellation cannot turn a wholly published upload into a cancelled
  one (`vm/file_manager/recursive_upload_transfer.py:41-43`).
- `CancelledEarlyNeverRuns`: an entry cancelled before its copy started is never touched.
- `NeverReplayed`: an object that S3 has is not offered for another upload, whatever became of the answer, of the
  cleanup or of the worker.
- `AllSettle`: every batch, retry and upload ends with everything given back, no row pending or running, and no entry
  without its terminal record unless the user was told.
- `CopyStops`: a copy or move batch whose worker has heard a cancellation, at any await but a terminal write or the
  last turn of `run_one`, starts no further copy.
- `NothingOrphaned`: a view model not disposed of is hosted or is the candidate of the one running swap.
- `DrainedBeforeDisposal`: a view model is disposed of only when its setup task is over.
- `NewestSettles`: when the newest navigation has mounted its view, rail, host and view agree on it.
- `CleanAtEnd`: wherever quitting finds a swap, no view model and no setup is left at the end.
- `Settles`: every navigation ends and a shutdown that has begun completes, so `service_lock` is never lost. `TypeOK`
  of this module says that the lock is held exactly between acquisition and end.
- `NoOrphan`: an execution that runs and whose id reached the page is owned by it, retained for a stop, about to be
  taken, or was given up with a warning when too many were pending.
- `ShutdownStopsAll`: after a shutdown in which no request failed none of the page's executions goes on, a start in
  flight included.
- `LostStartsAreRetried`: an execution whose start was never answered is reached by the next Run, which repeats its token.
- `CancelledIsStopped`: what is shown as cancelled does not run. `RefusalStays`: while it does run, a refused stop stays
  visible, whichever poll answers next.
- `SettledIsExportable`: a page whose query ended without an error passes its own check of snapshots, so that it can be
  handed to another service. `TransitionsEnd`: a cancel, context change or shutdown gives the lifecycle lock back.
- `SavedIsStored`: while the editor says "saved", the record of its context is its text, whatever older writes are still
  queued or answered.
- `DeletedStaysDeleted`: no late write, snapshot or shutdown brings back text that its draft had before a deletion.
- `NewerDraftIsKept`: text that a newer save of its draft has replaced is not written again, neither by the late write of
  a closed page nor by a restored editor.
- `ReportIsComplete`: a shutdown that reports nothing unconfirmed has stored the last text accepted for every draft.

### Bounds

- `CopyTransaction`: `Attempts = 2` for the code's 1000: both retry loops reach a second round and their end.
  Two outsiders are enough for one to take the name and another to replace it; an outsider that was removed does
  not come back, so the total number of interferences is bounded. `Edits = 1`: only whether the source changed
  matters. One cancellation, as `run_one` cancels its copy task once. An object is renamed at most twice, to the
  backup and back.
- `TransferJournal`: `Retention = 1` for 100, so two transfers already trim each other. One crash: afterwards the
  interrupted transfers are never touched again by this program, and what a second crash could undo (an unsynced
  unlink) belongs to transfers that are still alive. One clock step back, at any time, and catching up.
- `TransferRuntime`: two entries distinguish the current from the queued one (`BatchDrains` has three);
  `MaxStops = 2` because `settle_batch` and `run_one` survive a first cancellation and must survive a second. A retry
  and an upload have one entry, as in the code. The upload has two objects, so that one worker's end meets another's
  request, and `MaxRenames = 1` for 1000: a conflict, another name, and no name left all happen.
- `ServiceNavigation`: two picks, the navigation that a rollback of the first one routes, and a source give four tasks
  in a row, so that a superseded one can itself be superseded; one failure, at any of the places that can fail. The
  guard of `Route` on `MaxNavs` never bites, because a pick makes one rollback at most: `Settles` would fail
  otherwise. Three picks (266 thousand states, 4 minutes) add nothing and are left out of the runs. Three entries of
  the rail: S3, which has sources and shares its transfers' worker; Settings, which has no shutdown and is always
  built anew; and any other service. The page of `EnterSource` is S3 because only its rebinding leaves the swap alone.
- `AthenaQuery`: two runs, the second of which replaces, retires or repeats the first; one place for an execution to be
  stopped later (`MaxPending = 1` for 32), so that a second one evicts it; two edits or context changes and one failing
  request, which is enough for a stop to fail and be asked for again. An execution of an earlier page (`Old`) is there to
  be restored or shown from the history.
- `DraftAutosave`: two contexts (interchangeable: symmetry), two pages one after the other, and three events
  (`MaxEvents`), each an edit, a request or a failing operation. A context's draft is then edited, written late from a
  closed page, and superseded or deleted from the next one; a switching off that fails is followed by a switching on; a
  snapshot is restored over two newer texts. Handovers, context changes and the steps of worker and loop are not
  bounded. Larger instances are left out of the runs for their time and find nothing more: two pages with two edits, a
  request and a failure (3.1 million states), two pages with one edit, three requests and a failure (12.6 million), three
  pages with two edits and a request. No property the run checks depends on the bound: all are proved, for any instance.
- Deadlock is checked in `CopyTransaction`, `TransferRuntime` and `DraftAutosave`, whose only terminal states are the
  intended ends (`Ended`, `Stopped`). The journal really stops when every transfer is over, so its runs do not check
  deadlock. Neither do those of `ServiceNavigation` and `AthenaQuery`: an idle program waits for its user.

### Fairness

`WF(CopyStep)` in `CopyTransaction`: the event loop runs every ready step and disk threads end. `WF(WorkerStep)`,
`WF(CleanupStep(t))`, `WF(CopyEnds(t))`, `WF(UploadStep)` in `TransferRuntime`: the same, with
`CopyTransaction!Terminates` for the copy, and requests to S3, which time out. Nothing is assumed of the user, of
cancellations, or of other processes. `Terminates` holds because each outsider can interfere only so often and the
retry loops are bounded; against an adversary who interferes for ever the code still ends, after `Attempts` rounds.
The journal module states no liveness: nothing in it must happen.

`WF(NavStep(n))` per task in `ServiceNavigation`: the loop runs what is ready, and page shutdowns, mounts and the
transfer workers' end (`TransferRuntime!AllSettle`) come. `service_lock` is taken by any waiter; the code's is first
come, first served, which is one of these orders. Cancelled setups end, an uncancelled one need not; the
steps of a shutdown follow once it has begun, but nothing makes the user quit or pick.

`WF(System)` in `AthenaQuery`, as a whole: while the loop can resume a task or a request to AWS can end (it times out),
one of these happens. That is weaker than fairness for each task, and enough. A query need not end: it is polled for
as long as Athena runs it, and `TransitionsEnd` holds because a transition cancels the run that it waits for.
`DraftAutosave` states no liveness: its shutdown waits up to a deadline, so the report may come at any time.

## What the runs found

1. **LocalFS may destroy a file it never observed** (`CopyUnobserved`). `_rooted_atomic_publish_no_replace` checks the
   revision of the source with a stat, then renames by name. When the source is the public destination that an
   overwrite moves aside, a file put there in between is moved and later deleted. `domain/filesystem.py:218-221`
   says the staged source must still match its expected revision.
2. **A second instance clears the first one's active journal** (`TransferJournalTwo`). `clear_history` is told which ids
   its own process owns; `docs/cookbook.md:529-530` says active metadata remains protected until the transfer settles.
3. **A cancelled delete batch goes on** (`BatchStops`). If the delete in progress fails just as the worker is cancelled,
   `settled()` raises the provider's error, and the loop treats it as an ordinary failure.
   `vm/file_manager/dual_pane_vm.py:587-589` says genuine cancellation stops the batch.
4. **A cancellation in `run_one`'s last turn is lost** (`BatchOutruns`). Its `finally` cancels the task that waited for the
   cancel event and awaits it under `suppress(CancelledError)`, which also takes a cancellation of the worker that
   arrives in that turn; the loop starts the next copy. `app.py:2299` says workers are stopped before the panes are
   disposed.
5. **A queued write outlives its entry** (`BatchDrains`). `settle()` looks for a queued cleanup once, before its own
   write; a row cancelled during that write queues another, which nobody waits for.
   `vm/file_manager/transfer_runtime.py:429` says all queued terminal writes are drained.
6. **A newer pick is undone by the older one's rollback** (`LatestPick`). `_adopt_service_vm` remembers the selection it
   found, which the pick has already set to the service being opened. If that swap is cancelled by a newer pick while the
   old page's setup or shutdown is drained, `vm/root_vm.py:412-419` restores it without asking whether the rail has moved
   (line 421, for a rejected candidate, asks). The rail jumps back, a navigation to the older service is routed and the
   user's newer one is cancelled. `vm/root_vm.py:283-284` says the ribbon reflects user intent instantly.

### Where the properties stop

Some properties are weaker than one might expect. What they leave out is what the code does, and worth knowing.

- `CopyStops` leaves out a cancellation that arrives during a terminal write (`OwnedDiskOperations.call` raises the disk
  error when that write fails, and the cancellation is gone) and the one of finding 4.
- `SettledStaysKnown` leaves out transfers whose `mark_terminal` was cut between summary and purge, which reappear as
  interrupted once retention trims their summary.
- `NoLoss` asks only of the ideal publisher that an overwrite looked at what it replaced: LocalFS does not keep that
  (finding 1), and S3 compares at the moment of the request. `ImplementsContract` allows for a lost answer (above). A
  `create_multipart_upload` that fails while a cancellation is drained is raised in place of the cancellation
  (`cancel = "replaced"`), which `CancelIsRaised` names as its exception.
- `SettledIsExportable` is about pages without an error. A stop that fails after the poll has seen the end writes its
  error over a result that is complete, and a refused stop followed by a successful one leaves "cancelled" with the old
  error: neither page can be handed over until the next Run.
- A run withdrawn at its dispatch, or interrupted at its start, leaves the result pane loading. An execution that the
  history has seen end makes `stop_query` raise a validation error, which the page takes for one worth repeating. A
  submission answered while a transition sweeps waits for the next transition.
- `ReportIsComplete` speaks of text that the coordinator accepted (`wanted`). A restored text that is bound to another
  draft than its outdated origin is only counted, under the origin's name (`drafts_vm.py:953-963`); `wanted` does not
  follow it until its next edit. After a deletion a restored session whose origin is
  stale is not tracked when its next edit cannot be scheduled (`drafts_vm.py:541-542`), nor counted at shutdown,
  although `docs/cookbook.md:999` says that edits not confirmed saved are reported.
- `SavedIsStored` assumes that drafts are on: with drafts off a restored editor keeps the state "saved", which the view
  does not show. It leaves out an editor that was restored while drafts were off over a draft written or erased since
  (`overtaken`, a history field of the session), until that editor saves: `_claim_transferred_editor`
  (`drafts_vm.py:945`) returns before it compares the snapshot's origin with the draft's revision, so the session keeps
  its old saved text. Once drafts are on again, choosing another context and coming back before the new save has run
  shows "saved" (`drafts_vm.py:1083`) with no record on disk, although the comment at `drafts_vm.py:308-309` says that a
  snapshot predating a deletion has no save acknowledgement. The attempt to prove the property found it, and TLC shows it
  with the exception left out. Blanking the text of one context, choosing another and typing within the debounce keeps the first
  one's record. Text edited for a context that was not selected stays "pending" without a timer when that one is
  selected again, until the next edit.
- `DeletedStaysDeleted` and `NewerDraftIsKept` leave out text that the coordinator never had under its draft (`Stranger`).
  Such text was typed while drafts were off, or while a switching on failed; with drafts on again, a page restored from a
  snapshot of it saves it whatever its draft holds or has lost since, because `_claim_transferred_editor` has no origin to
  compare (`drafts_vm.py:953`) and `_retain_unscheduled` makes it the newest (`534-550`). `docs/cookbook.md:1008-1009`
  (deletion does not recreate records from untouched text) and `docs/services/athena.md:318-320` (restored text is not
  saved over another editor's newer draft) know no such exception.
- `SavedIsStored`, `DeletedStaysDeleted` and `NewerDraftIsKept` assume that no save of the draft is under way when
  `restore_draft` installs what it read (guard of `Recover`): its readings, two checks of the context and the user's
  confirmation take longer than the debounce of half a second. The code has nothing that orders the two. If the timer of an
  edit fired between the last reading and the installation (`page_vm.py:468-479`), the record would hold the edit while the
  editor shows the recovered text as saved, until its next edit.
- `ReportIsComplete` does not count the new save of an editor that was restored while drafts were off over a newer draft
  (`overtaken`): its old mark "saved" makes `_session_is_unconfirmed` pass over it until that save has run.
- A table handoff that fails rolls back after the editable page is mounted (`app.py:8870-8891`), so text typed in between
  is replaced.

## Proofs

`TransferJournalProofs` proves, from `JournalAssumption` (a requested name among the names, a retention of
at least one, natural bounds, `Nil` and `"clear"` distinct from ids) and `NilAssumption` (None is no journal, record or
lock holder), for any number of transfers, instances, names, crashes and clock steps:

| Theorem | Statement |
|---|---|
| `TypeCorrect` | `Spec => []TypeOK` |
| `Invariant` | `Spec => []IInv` |
| `NeverAttemptedIsSafe` | `Spec => []NeverAttemptedIsTrue` |
| `RecordsNameTheDestination` | `Spec => []RecordedWherePublished` |
| `SummariesAreTrue` | `Spec => []SummaryIsTrue` |
| `HistoryInvariant` | `Spec => []HInv` |
| `InterruptedAreFound` | `Spec => []InterruptedIsFound` |
| `SettledStayKnown` | `Spec => []SettledStaysKnown` |
| `OneInstanceProtects` | `Instances = {p}` implies `Spec => []ActiveIsProtected` |

The properties are not inductive: they speak of what can be read now, and a step may make something else readable.
`IInv` adds, per transfer:

- `Waiting`: before `mark_attempted` nothing was published and the journal holds the requested name;
- `WrittenAhead`: while the copy may publish, a readable journal has the attempted line and the current name; this
  is the write-ahead rule, without which `Publish` would break `FileTrue`;
- `FileTrue`: what a readable journal says of a published payload is true;
- `LingerTrue`: so is what a journal says that a power loss can bring back, including one that another instance
  cleared while its transfer was still running;
- `SummaryTrue`: so is a summary, which is written only when the copy can no longer publish;
- `Manned`: an active transfer has an owner, so that a kill reaches it.

`InitConsistent` and `NextConsistent` are the two inductive facts, with one step per action and one per part that
the action can disturb; `AppendLeaves` and `StoredKeepsOrTrims` say what an append and a save do to the other
transfers. The proof covers several instances, where TLC's passing run has one.

`HInv` adds to `IInv` what the history variables say, again per transfer (`NextTraced`, one step per action and part):

- `Recorded`: a summary on disk is one that was saved;
- `Findable`: without a saved summary and without a clear, the journal of a transfer that runs or has published is
  there and has no end line; with `FileTrue` that makes it a "possibly published" record unless it is damaged;
- `Settled`: after the end line no readable journal is left, and after the purge none that a power loss could bring
  back as open. This is the reason for the end line before the purge: the unlink is not synced;
- `Excluded`: between the two halves of a clear the instance's own active transfers stay excluded.

`OneInstanceProtects` needs its hypothesis: `Excluded` speaks of the instance that clears, and another one's transfers are
not in its `exclude`; with two instances the property is false (finding 2).

`ServiceNavigationProofs` proves, from the assumptions on the constants alone (natural bounds, a rail with S3 and
Settings, three names distinct from view models), for any rail and any number of picks, sources and failures:

| Theorem | Statement |
|---|---|
| `Invariant` | `Spec => []IInv` |
| `LockIsExact` | `Spec => []TypeOK` |
| `NoneIsLost` | `Spec => []NothingOrphaned` |
| `SetupsAreDrained` | `Spec => []DrainedBeforeDisposal` |
| `NewestIsShown` | `Spec => []NewestSettles` |
| `EndIsClean` | `Spec => []CleanAtEnd` |

`NothingOrphaned` and `TypeOK` are parts of `IInv`, which adds what a swap relies on:

- `Numbered`, `Unadopted`: generations are given in order, and a navigation before its adoption is neither hosted nor
  published, so that its view model is a fresh one;
- `SetupHosted`, `Swapping`: only the hosted view model has a setup, a candidate waits for a hosted one, and by the
  time that shuts down its setup is over; this is why disposing of it is safe;
- `Publishing`, `Shown`: under the lock, what is being published is what is hosted, and the rail shows the owner's
  service;
- `Quiet`: `NewestSettles` with the fact that makes it last, that nobody holds the lock then: a superseded navigation
  would still move rail and view;
- `Barred`: past the shutdown's barrier nobody holds the lock, although queued navigations may still wait for it.

There is one lemma per action or group of actions with a common shape (`LeaveKeeps`, `AdoptKeeps`, `CandidateKeeps`,
`UnwindKeeps`), each with one step per part of `IInv`; `LeaveTyped`, `GotoTyped`, `RouteTyped` and `UnwindTyped`
say what the moves of control do to the lock.

`UploadBatchProofs` proves `Invariant`, `UploadSpec => []UInv`, and from it `NothingIsReplayed`, `UploadSpec =>
[]NeverReplayed`, from no assumption, and `UploadIsTyped` for any bound on renames. `UInv` says that an object is not
stored before its request nor while its receipt is "none", that a receipt "published" is true, and that a conflict leaves
the receipt "none": a worker that tries another name gets a new receipt, and without that last part the new one could hide
what the first request stored. It also fixes what the composition needs: nothing moves before the launch, and when the
batch is over every object is at an end.

`TransferRuntimeProofs` proves, from `RuntimeAssumption` (the four kinds, natural bounds, at least one
entry), for batches of any size:

| Theorem | Statement |
|---|---|
| `UploadRunsAsSpecified` | `Spec => Upload!UploadSpec` |
| `NothingIsReplayed` | `Spec => []NeverReplayed` |
| `RuntimeInvariant` | `Spec => []RInv` |
| `TypeCorrect` | `Spec => []TypeOK` |
| `HistoryTellsTheTruth` | `Spec => []HistoryIsTrue` |
| `CancelledEarlyStaysOut` | `Spec => []CancelledEarlyNeverRuns` |
| `RowsMatchHistory` | `Spec => []RowMatchesHistory` |
| `CancelledCopyStops` | `Spec => CopyStops` |

Every step of the runtime launches, halts or runs the batch of `UploadBatch` or leaves it alone; so `UInv` holds in the
runtime, and `SameBatch` relates the two names under which the module's definitions come in. `RInv` is built in layers,
each inductive given those before it (`NextPlaced` to `NextStopping`, one step per action):

- `Placed`: where the worker is tells how many entries are registered, which one is current, which terminal write is in
  progress, and that an entry is owned until the batch lets go of it;
- `Honest`: journal and copy go together (a journal is attempted before its copy runs), and what summaries, rows, queued
  writes and the write in progress say of an entry is true; `HistoryIsTrue` alone does not survive the step that turns
  a queued write into a summary;
- `Early`: the event of an entry cancelled before its copy is still set wherever `run_one` looks for it;
- `Uploaded`: the batch of an upload is waited for until it is over, and its row is then what the receipts say;
- `Rows`: how far row and summary may be apart, and who is about to bring them together;
- `Stopping`: the ways a cancelled worker may take, on none of which another entry is taken up.

`AthenaQueryProofs` proves, from `BoundsAreNatural` alone, for any number of runs, retained executions, changes and
failed requests, all safety properties that the run `AthenaQuery` checks:

| Theorem | Statement |
|---|---|
| `QueryInvariant` | `Spec => []QueryInv` |
| `TypeCorrect` | `Spec => []TypeOK` |
| `NothingIsOrphaned` | `Spec => []NoOrphan` |
| `CancelledStops` | `Spec => []CancelledIsStopped` |
| `LostStartsComeBack` | `Spec => []LostStartsAreRetried` |
| `SettledCanBeExported` | `Spec => []SettledIsExportable` |
| `ShutdownStops` | `Spec => []ShutdownStopsAll` |
| `RefusalIsKept` | `Spec => RefusalStays` |

`QueryInv` is again built in layers:

- `Typed`: the lock, the phase of its holder and the page's way to its end go together, and a run that still counts owns
  the execution it polls;
- `Awaited`, `Handover`: a start under way has a run or a finalizer that takes its answer, and a run starts nothing while
  the page owns an older query; this is why the page can own one execution only and forget none (`NoOrphan`);
- `Known`: an execution with a known id exists at Athena, a retired one is over, and a stop answered with "ok" ended
  the execution it was asked for, whatever was asked in between; `CancelledIsOver` follows from it;
- `Remembered`: a token that was sent is the intent of the next run, was given up by the user, or has its answer;
- `Shows`: pane, state, error and results agree in the combinations that the snapshot check accepts;
- `Ending`: what a shutdown supersedes, waits for and then goes through. While no request has failed, a running execution
  has an id, the client can find it, and a refused stop means that it is over; so the sweep stops all
  (`ShutdownStopsAll`).

`Writers` says which actions write which variable, proved once; each layer then takes up the actions that write its
variables. Where a fact is about an execution in the hand of one task (`InHandStays`, `RetainedStays`, `IntentStays`), a
lemma says under what condition a step lets it go.

`CopyTransactionProofs` proves, from `CopyAssumption` (policies among the four, at least one attempt, a natural bound on the
source's edits, the copy's own objects distinct from other processes') and `NilAssumption` (None is no version, object
or verdict), for any number of other processes' files, attempts and edits, and on every kind of destination, all safety
properties that the runs of the copy check:

| Theorem | Statement |
|---|---|
| `CopyInvariant` | `Spec => []CopyInv` |
| `TypeCorrect` | `Spec => []TypeOK` |
| `NothingIsLost` | `Spec => []NoLoss` |
| `NoResidueIsSilent` | `Spec => []NoSilentResidue` |
| `CancellationIsRaised` | `Spec => []CancelIsRaised` |
| `MovesKeepData` | `Spec => []MoveKeepsData` |
| `ContractIsKept` | `Spec => ImplementsContract` |

`CopyInv` is a conjunction of layers. They support each other, so that each is shown to survive a step that starts with
all of them (`NextControl` to `NextNoLoss`, one step per action that writes a variable of the layer):

- `Control`, `Publication`: stage steps and S3 writes never mix; a publish under way moves the payload or the original
  between the names its caller asked for, and answers to that caller within its range of attempts;
- `Clean`: after a failure nothing goes on with the copy, a cancellation that was absorbed is the failure that stays (no
  later one takes its place, or turns into a conflict, which a SKIP or RENAME would mend), one that was replaced is an
  ordinary failure for good, and each return has seen no failure; `CancelIsRaised` is what this comes to at the end;
- `BackedUpSafely`: the backup name holds nothing or the original, with exactly the revision that `saved` names, so that
  `Restored` and `DropBackup` act on the original and on nothing else;
- `Privately`: the private names hold something only between claim and cleanup, or the copy raises (`NoSilentResidue`);
- `Unmoved`, `Fresh`, `MovedOnce`: what a publish renames was renamed once at most; this is what bounds the revisions in
  `TypeOK`, and why a stale revision is told from a current one;
- `Observed`: where a publish is indivisible, what is moved aside is what the stat saw;
- `Unpublished`, `Appeared`, `Named`: when the payload has appeared and that its name is on record;
- `Carried`: the versions of the source are read in order, observed, carried, current, with `MoveKeepsData`.

`NoLoss` itself rests on `Survives`, `SurvivesRename` and `NoneLost`: a write at a name whose object is nobody else's,
and a rename to a free name, take nothing away. `ContractIsKept` shows first that a step shows its caller one thing or
nothing (`NextShows`), then that each of these is a step of `CopyContract` (`Agrees`).

`DraftAutosaveProofs`, with the operators' lemmas in `DraftLemmas`, proves from `DraftParameters` (natural bounds, pages
numbered from 1, finitely many contexts) and `NoneIsNoValue` (None is no context, capture or origin), for any number of
contexts, pages, edits, requests and failing operations:

| Theorem | Statement |
|---|---|
| `DraftInvariant` | `Spec => []IInv` |
| `TypeCorrect` | `Spec => []TypeOK` |
| `SavedIsOnDisk` | `Spec => []SavedIsStored` |
| `PastInvariant` | `Spec => []PInv` |
| `DeletedIsGone` | `Spec => []DeletedStaysDeleted` |
| `NewerIsKept` | `Spec => []NewerDraftIsKept` |
| `OwedInvariant` | `Spec => []RInv` |
| `ReportIsTrue` | `Spec => []ReportIsComplete` |

`SavedIsStored` is far from inductive: a write in line, a result on its way, a snapshot or a deletion may each make it
false later. `IInv` says what they can still do, from the coordinator outward:

- `Orderly`: no revision is newer than the coordinator's count, a current write has the latest revision of its draft, and
  a timer runs only for a current write;
- `Stored`, `Lined`, `Awaited`: disk, jobs and results have their types; a write in line that is still wanted has nothing
  behind it that touches its draft, and the answer to such a write is true of the disk; no timer starts either again;
- `Requested`, `Quiet`: one deletion or change of the preference at most is with the worker, the preference is busy for
  as long, and while drafts are off or suspended no draft has a current write;
- `OneLive`: one page at most is live, so that two editors never follow the same draft;
- `Tended`, per page: the session agrees with itself (`Sound`); the current writes of its page have its text and its origin
  (`Owns`); while nobody has taken the draft of an acknowledged text, that text is on disk and nothing on its way changes
  it (`Backed`); nobody has taken that of the live page (`Newest`); and "saved" is said of the acknowledged text, in its
  context (`Honest`);
- `Carried`: the snapshot is a session that a page may take over, `Backed` and `Honest`.

`PInv` is inductive once `IInv` holds. Neither property of the histories is by itself: a text left behind may still be in
a session, in the snapshot or in a write that has passed its last check. `Recorded` says that the texts erased or replaced
were left behind and are neither stored nor in the write under way; `Fresh`, that no current write has a text that its
draft has left behind; `Bypassed`, that a session or snapshot which still shows one is marked deleted, has no origin in
that draft, or is superseded by a newer revision, so that the coordinator will not take its text. The last is where
`Superseded` is needed: without that check `Claim` hands the old text over as the newest.

`RInv`, too, is inductive once `IInv` holds. `ReportIsComplete` compares disk and history at the end only; `RInv` accounts
for the text last given to each draft from the moment it is given, through every write, handover and deletion:

- `Accounted`: it is the text of the draft's current write, and either the coordinator owes it (`unconfirmed`) or it is on
  disk and nothing in line changes that (`Settled`);
- `InLine`, `Answered`: a write of the newest revision that has left the coordinator, and the answer to it, have that text
  and nothing behind them touches the draft. So an obligation that is met (the answer is "ok") leaves the text settled;
- `Mine`: so does the session or snapshot that has the draft (`Has`), and what it calls acknowledged was not overtaken. Its
  later saves, and those of the page that takes it over, give no older text;
- `Blanked`, `Away`: a blank that waits to be saved names the draft it will blank, and a page that was left has no write
  of its own. Without them a closing page or a restored one could owe a blank to nobody.

It is stated until the report has counted something: after that the program has told its user, and writes that were
still in line may yet fail. When it has counted nothing, nothing is owed, so everything is settled, and the worker's
remaining jobs change nothing.

The three proofs have the same shape: first what each operator of the coordinator moves, takes up and owes (`Moves`,
`MayTrack`, `Treats`), then what that does to the line, to a request and to a page, stated for one coordinator, line and
set of sessions and the next; then one lemma per action. The attempt to prove them changed the model and the properties:
the exception `overtaken` comes from it, and so do snapshots that are handed over more than once, the history sets in
place of an order of typing, which an old text that a user recovers does not respect, and `Brings`, which had counted a
text as given to a draft when the coordinator kept it for another one only.

Model-checked only: everything about fairness, for good (`Terminates`, `AllSettle`, `Settles`, `TransitionsEnd`). Every
safety and action property of the passing runs is a theorem.

## What is left out

- In `CopyTransaction`: directories and the recursive walk (with them a directory created at the destination after
  conflict resolution, which an overwrite moves aside, `cross_fs.py:859`); S3 prefixes, and the recovery of an S3 rename;
  the inside of `LocalFS.delete`, which is one revision-checked step although the code renames to a quarantine, checks
  and restores; path containment and Windows variants.
- In `TransferJournal`: the directory entry of a trimmed or cleared summary coming back after a power loss; two
  processes interleaving inside one append; `record_part` and `find_unfinished`, which decide no outcome; a new journal
  lost with its directory entry, when the sync that `begin` attempts fails unnoticed (`_fsync_directory` ignores it)
  and power is lost; a wall clock set back far enough that trimming takes the newest summary
  (`transfer_history.py:424`); history loaded while a batch begins or settles.
- In `TransferRuntime`: byte counts and rates; trimming of finished rows, and a late message that registers a trimmed
  one again (`transfers_vm.py:259`); the refresh of the panes; the inspection before a retry; planning of uploads, their
  names and reservations, synchronisation. A copy batch and a delete batch may run at once; they share sets keyed by transfer
  id and the lock that `begin` takes (a cancellation while waiting for it is modelled), so one batch is modelled.
- In `ServiceNavigation`: table handoffs between Glue and Athena with their own lock and rollbacks; connection switches
  and prepared adoptions (`ownership_is_current`, `claim_input`); sources of single-context services, which build anew;
  the first run, the overview and the restore of a workspace; the retry of a remembered connection; waiting for
  `_swap_lock`, which only callers outside `service_lock` contend for; failing transfer workers. Two states the
  model reaches and no property forbids, because nothing promises otherwise: an empty content area, when a mount is
  cancelled after `remove_children` and the next navigation fails to build; and the view of a disposed view model,
  when a source supersedes a mount between adoption and publication.
- In `AthenaQuery`: paging through results, `AthenaQueryRunner.run` with its own cleanup (the Iceberg page uses it),
  reference catalogues, the cancellation of `shutdown` itself.
- In `DraftAutosave`: incomplete contexts, table documents (`document_pending`, `replace_document`), size limits, damaged
  records and permissions, the list of drafts, edits after the shutdown has begun, a second process on the same store.
- Rendering, formatting, logging and the text of messages, everywhere.
- SQL classification, configuration stores, connections, presentation and demo back ends: text, single-step file
  replacement, external services or little state of their own.

## Plan

Done, in the order of what the program can least afford to get wrong: `CopyContract`, `CopyTransaction` with its S3 path,
`TransferJournal`, `TransferRuntime` with `UploadBatch`, `ServiceNavigation` for picks, S3 sources and quitting,
`AthenaQuery`, `DraftAutosave`. Next:

1. Table handoffs and connection switches in `ServiceNavigation`, and `OperationOwner`: close the intake, drain. The
   handoff composes with the snapshot of `DraftAutosave`.
2. `PaneListing` and `TransferRecovery`: late answers against navigation; loading history against a running batch,
   inspecting a destination before a retry.
3. `EmrPolling`: pollers, submit tokens, log cursors.
4. Directory copies in `CopyTransaction`; planning and names of uploads.
