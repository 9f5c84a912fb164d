--------------------------- MODULE TransferRuntime ---------------------------
(***************************************************************************)
(* One batch of DualPaneVM (copy_across, move_across or delete_in_focused) *)
(* on TransferRuntime: every entry is registered in the journal first,     *)
(* then run one after the other, and every terminal outcome is written     *)
(* from a thread while the event loop goes on.  The user cancels rows, the *)
(* application cancels the worker that runs the batch or shuts the runtime *)
(* down, and any disk operation may fail.  A retry from history and a      *)
(* recursive upload are batches of one entry with endings of their own.    *)
(*                                                                         *)
(* What a copy does inside is CopyTransaction's subject, what the disk     *)
(* holds after a failed write is TransferJournal's.                        *)
(***************************************************************************)
EXTENDS Naturals, FiniteSets

CONSTANTS Kinds,    \* the batches considered
          N,        \* entries in a copy or delete (at most 1000 in the code)
          MaxStops, \* bound: cancellations of the worker
          MaxRenames, \* bound: names an upload tries for an object
          Nil

ASSUME RuntimeAssumption ==
    /\ Kinds \subseteq {"copy", "delete", "retry", "upload"}
    /\ N \in Nat \ {0} /\ MaxStops \in Nat /\ MaxRenames \in Nat

VARIABLES
    kind,      \* the batch: "copy" stands for copy_across and move_across,
               \* "retry" for TransferHistoryVM._retry from begin on, "upload"
               \* for execute_upload_transfer
    pc,        \* the await the worker is at
    count,     \* entries registered: transfer_ids
    now,       \* entries consumed so far, the last one is current
    next,      \* the entry settle() is at
    out,       \* the terminal write in progress and what follows it
    pending,   \* the worker was cancelled and has not seen it yet
    stops,     \* cancellations of the worker so far
    owned, running, finished, events,   \* the sets of TransferRuntime
    cleanup,   \* _queued_cleanup task of each entry
    copy,      \* copy_task of each entry
    journal,   \* "none", "begun", "attempted" or "gone"
    saved,     \* terminal summary of each entry, or Nil
    row,       \* state of the entry's row in the transfers overlay
    published, \* entries whose payload is in place (or that are deleted)
    alarm,     \* the user was told that history could not be saved
    early,     \* history: entries cancelled by the user before they started
    heard,     \* history: the worker was cancelled at an await that passes it on
    batch, halted, asked, at, receipt, raised, unclean, tries, stored  \* of UploadBatch

worker == <<kind, pc, count, now, next, out>>
stopping == <<pending, stops>>
registry == <<owned, running, finished, events>>
disk == <<journal, saved, alarm>>
history == <<early, heard>>
batchVars == <<worker, stopping, registry, cleanup, copy, disk, row, published, history>>
upload == <<batch, halted, asked, at, receipt, raised, unclean, tries, stored>>
vars == <<batchVars, upload>>

Entries == 1 .. N
Size == IF kind \in {"copy", "delete"} THEN N ELSE 1
Terminal == {"completed", "skipped", "failed", "cancelled"}
Outcomes == {"true", "false", "error", "cancelled"}
Upload == INSTANCE UploadBatch WITH Objects <- Entries
Alive(t) == cleanup[t] \in {"queued", "writing", "aborting"}

Init ==
    /\ kind \in Kinds /\ pc = "begin"
    /\ count = 0 /\ now = 0 /\ next = 1 /\ out = Nil
    /\ pending = FALSE /\ stops = 0
    /\ owned = {} /\ running = {} /\ finished = {} /\ events = {}
    /\ cleanup = [t \in Entries |-> "none"] /\ copy = [t \in Entries |-> "idle"]
    /\ journal = [t \in Entries |-> "none"] /\ saved = [t \in Entries |-> Nil]
    /\ row = [t \in Entries |-> "none"] /\ published = {}
    /\ alarm = FALSE /\ early = {} /\ heard = FALSE
    /\ Upload!Init

Goto(label) == pc' = label
Row(t, s) == row' = [row EXCEPT ![t] = s]

\* The batch is over, normally or by an exception: settle_batch, or for a
\* retry its finally.
Leave == Goto(IF kind = "retry" THEN "release" ELSE "settle")

\* A bug: the cancel event of a released entry is kept.
ReleaseKeepingEvent(t) ==
    /\ owned' = owned \ {t} /\ running' = running \ {t}
    /\ finished' = finished \ {t} /\ UNCHANGED events

Release(t) ==
    /\ owned' = owned \ {t} /\ running' = running \ {t}
    /\ finished' = finished \ {t} /\ events' = events \ {t}

\* A bug: a cancellation that arrives during a disk operation is swallowed.
LandedDeaf(ok, cancelled) == cancelled = FALSE /\ pending' = FALSE /\ UNCHANGED stops

\* An OwnedDiskOperations.call ends.  The thread is never abandoned: that the
\* worker was cancelled meanwhile is raised after a success, and lost when the
\* operation itself failed.
Landed(ok, cancelled) ==
    /\ cancelled = (ok /\ pending)
    /\ pending' = FALSE
    /\ UNCHANGED stops

\* mark_terminal by its effect: the summary is saved, the journal removed.  An
\* upload has no descriptor and leaves no summary (mark_aborted).
Save(t, s) ==
    /\ journal[t] \in {"begun", "attempted"}
    /\ saved' = IF kind = "upload" THEN saved
                ELSE [saved EXCEPT ![t] = [status |-> s, attempted |-> journal[t] = "attempted"]]
    /\ journal' = [journal EXCEPT ![t] = "gone"]
    /\ UNCHANGED alarm

\* A bug: the failure is not fed back to the user.
FailsQuietly == UNCHANGED disk
Fails == alarm' = TRUE /\ UNCHANGED <<journal, saved>>
-----------------------------------------------------------------------------
\* _pre_register_pending and begin, one entry.
Begin ==
    /\ pc = "begin"
    /\ LET t == count + 1 IN
       \/ \* cancelled while waiting for the mutation lock
          /\ pending /\ pending' = FALSE
          /\ Leave
          /\ UNCHANGED <<count, out, stops, registry, disk, row>>
       \/ /\ Fails /\ Leave
          /\ Landed(FALSE, FALSE)
          /\ UNCHANGED <<count, out, registry, row>>
       \/ /\ journal' = [journal EXCEPT ![t] = "begun"]
          /\ owned' = owned \cup {t}
          /\ \E cancelled \in BOOLEAN:
               /\ Landed(TRUE, cancelled)
               /\ IF cancelled
                  THEN /\ out' = [t |-> t, status |-> "cancelled", then |-> "unbegun"]
                       /\ Goto("write")
                       /\ UNCHANGED <<count, row>>
                  ELSE /\ Row(t, "pending")
                       /\ count' = t
                       /\ Goto(CASE t < Size -> "begin" [] kind = "upload" -> "launch" [] OTHER -> "next")
                       /\ UNCHANGED out
          /\ UNCHANGED <<saved, alarm, running, finished, events>>
    /\ UNCHANGED <<kind, now, next, cleanup, copy, published, history>>

\* The row shows the outcome, then finish() saves it.
Conclude(t, s, then) ==
    /\ Row(t, s)
    /\ out' = [t |-> t, status |-> s, then |-> then]
    /\ Goto("write")

\* A bug: the event is heeded only once the copy runs.
IsSetTooLate(t) == t \in events /\ copy[t] # "idle"
IsSet(t) == t \in events

\* run_one, once no queued cleanup is in the way.
Enter(t) ==
    IF IsSet(t) THEN Conclude(t, "cancelled", "stopped")
    ELSE Goto("attempt") /\ UNCHANGED <<row, out>>

\* The loop head and the first lines of run_one.
NextEntry ==
    /\ pc = "next"
    /\ IF now = Size
       THEN Leave /\ UNCHANGED <<now, running, row, out>>
       ELSE /\ now' = now + 1
            /\ running' = running \cup {now'}
            /\ IF Alive(now') THEN Goto("await_cleanup") /\ UNCHANGED <<row, out>>
               ELSE Enter(now')
    /\ UNCHANGED <<kind, count, next, stopping, owned, finished, events, cleanup,
                   copy, disk, published, history>>

AwaitCleanup ==
    /\ pc = "await_cleanup"
    /\ \/ pending /\ pending' = FALSE /\ Leave /\ UNCHANGED <<row, out>>
       \/ ~pending /\ ~Alive(now) /\ Enter(now) /\ UNCHANGED pending
    /\ UNCHANGED <<kind, count, now, next, stops, registry, cleanup, copy, disk,
                   published, history>>

\* mark_attempted; the event is looked at again before the copy starts.
Attempt ==
    /\ pc = "attempt"
    /\ \/ /\ journal[now] = "begun"
          /\ journal' = [journal EXCEPT ![now] = "attempted"]
          /\ \E cancelled \in BOOLEAN:
               /\ Landed(TRUE, cancelled)
               /\ IF cancelled THEN Conclude(now, "cancelled", "cancelled") /\ UNCHANGED copy
                  ELSE IF IsSet(now)
                  THEN Conclude(now, "cancelled", "stopped") /\ UNCHANGED copy
                  ELSE /\ copy' = [copy EXCEPT ![now] = "running"]
                       /\ Goto("copying")
                       /\ UNCHANGED <<row, out>>
          /\ UNCHANGED <<saved, alarm>>
       \/ /\ Fails /\ Landed(FALSE, FALSE)
          /\ Conclude(now, "failed", "refused")
          /\ UNCHANGED copy
    /\ UNCHANGED <<kind, count, now, next, registry, cleanup, published, history>>
-----------------------------------------------------------------------------
\* A bug: a skipped copy is taken for a completed one.
SettledTruthy(t, stopped) ==
    CASE copy[t] = "cancelled" -> Conclude(t, "cancelled", "cancelled")
      [] copy[t] = "error" -> Conclude(t, "failed", "error")
      [] copy[t] \in {"false", "true"} -> Conclude(t, "completed", "next")

\* settled(): the copy's own outcome; stopped says that the worker's
\* cancellation is re-raised behind it.
Settled(t, stopped) ==
    CASE copy[t] = "cancelled" -> Conclude(t, "cancelled", IF stopped THEN "cancelled" ELSE "false")
      [] copy[t] = "error" -> Conclude(t, "failed", "error")
      [] copy[t] = "false" -> Conclude(t, "skipped", IF stopped THEN "cancelled" ELSE "false")
      [] copy[t] = "true" /\ stopped -> Conclude(t, "completed", "cancelled")
      [] copy[t] = "true" /\ ~stopped ->
            /\ out' = [t |-> t, status |-> "completed", then |-> "next"]
            /\ Goto("unwind")
            /\ UNCHANGED row

\* asyncio.wait for the copy or the event, under a possible cancellation.
Copying ==
    /\ pc = "copying"
    /\ \/ copy[now] \in Outcomes /\ Settled(now, pending) /\ UNCHANGED copy
       \/ /\ copy[now] = "running" /\ (pending \/ now \in events)
          /\ copy' = [copy EXCEPT ![now] = "cancelling"]
          /\ Goto(IF pending THEN "drain_stopped" ELSE "drain")
          /\ UNCHANGED <<row, out>>
    /\ pending' = FALSE
    /\ UNCHANGED <<kind, count, now, next, stops, registry, cleanup, disk, published, history>>

\* The cancelled copy has ended.  After a row's cancel the worker leaves only
\* if it was itself cancelled at some time (Task.cancelling).
Drain ==
    /\ pc \in {"drain", "drain_stopped"}
    /\ copy[now] \in Outcomes
    /\ LET stopped == \/ pc = "drain_stopped"
                      \/ pending
                      \/ copy[now] = "cancelled" /\ stops > 0
       IN  Conclude(now, "cancelled", IF stopped THEN "cancelled" ELSE "stopped")
    /\ pending' = FALSE
    /\ UNCHANGED <<kind, count, now, next, stops, registry, cleanup, copy, disk,
                   published, history>>

\* The batch goes on after a completed entry, a copy that was skipped or
\* cancelled by its row, and a delete that failed.
GoesOn(then) ==
    \/ then = "next"
    \/ then \in {"false", "stopped"} /\ kind = "copy"
    \/ then = "error" /\ kind = "delete"

\* Only provider errors of a delete are aggregated; any other exception ends it.
Proceed(then) ==
    \/ GoesOn(then) /\ Goto("next")
    \/ ~GoesOn(then) /\ Leave
    \/ then = "error" /\ kind = "delete" /\ Leave

\* The finally of run_one awaits cancel_task under suppress(CancelledError):
\* the worker's own cancellation, arriving in that turn, is suppressed too.
\* There is no such turn when cancel_task had ended with the event.
Unwind ==
    /\ pc = "unwind"
    /\ \/ pending' = FALSE
       \/ now \in events /\ UNCHANGED pending
    /\ IF out.then = "next"
       THEN Conclude(now, out.status, out.then)
       ELSE Proceed(out.then) /\ out' = Nil /\ UNCHANGED row
    /\ UNCHANGED <<kind, count, now, next, stops, registry, cleanup, copy, disk,
                   published, history>>

\* What follows finish(): an item whose copy ended by itself leaves run_one
\* through its finally, the others have no cancel_task left to wait for.
AfterWrite(then) ==
    IF then \in {"false", "error"} THEN Goto("unwind") /\ UNCHANGED out
    ELSE Proceed(then) /\ out' = Nil

\* finish(), for the worker.
Write ==
    /\ pc = "write"
    /\ \/ /\ out.t \in finished
          /\ AfterWrite(out.then)
          /\ UNCHANGED <<stopping, disk, registry>>
       \/ /\ out.t \notin finished
          /\ Save(out.t, out.status)
          /\ \E cancelled \in BOOLEAN:
               /\ Landed(TRUE, cancelled)
               /\ IF cancelled THEN Leave /\ out' = Nil ELSE AfterWrite(out.then)
          /\ IF out.then = "unbegun" THEN Release(out.t)
             ELSE finished' = finished \cup {out.t} /\ UNCHANGED <<owned, running, events>>
       \/ /\ out.t \notin finished
          /\ Fails /\ Landed(FALSE, FALSE)
          /\ AfterWrite(out.then)
          /\ IF out.then = "unbegun" THEN Release(out.t) ELSE UNCHANGED registry
    /\ UNCHANGED <<kind, count, now, next, cleanup, copy, row, published, history>>
-----------------------------------------------------------------------------
\* settle(), one entry: shielded, so that a cancellation waits until the end.
Settle ==
    /\ pc = "settle"
    /\ \/ /\ next > count
          /\ Goto("done")
          /\ UNCHANGED <<next, row, registry>>
       \/ /\ next <= count /\ ~Alive(next)
          /\ IF next <= now \/ next \in finished
             THEN /\ IF next <= now THEN UNCHANGED row ELSE Row(next, "cancelled")
                  /\ Release(next)
                  /\ next' = next + 1
                  /\ UNCHANGED pc
             ELSE Goto("settle_write") /\ UNCHANGED <<next, row, registry>>
    /\ UNCHANGED <<kind, count, now, out, stopping, cleanup, copy, disk, published, history>>

SettleWrite ==
    /\ pc = "settle_write"
    /\ Save(next, "cancelled") \/ Fails
    /\ Row(next, "cancelled")
    /\ Release(next)
    /\ next' = next + 1
    /\ Leave
    /\ UNCHANGED <<kind, count, now, out, stopping, cleanup, copy, published, history>>
-----------------------------------------------------------------------------
\* _retry: the entry is released in the turn in which run_one or complete ends.
GiveBack ==
    /\ pc = "release"
    /\ IF count = 1 THEN Release(1) ELSE UNCHANGED registry
    /\ Goto("done")
    /\ UNCHANGED <<kind, count, now, next, out, stopping, cleanup, copy, disk, row,
                   published, history>>

\* execute_upload_transfer claims its entry before the row can be seen, so that
\* no cleanup is queued for it, and starts the upload batch.
Launch ==
    /\ pc = "launch"
    /\ now' = 1 /\ running' = running \cup {1}
    /\ copy' = [copy EXCEPT ![1] = "running"]
    /\ Upload!Launch
    /\ Goto("uploading")
    /\ UNCHANGED <<kind, count, next, out, stopping, owned, finished, events, cleanup,
                   disk, row, published, history>>

\* The wait for the batch or the event, and the drain after a stop: what is
\* reported is decided once, by the receipts.
Uploading ==
    /\ pc = "uploading"
    /\ \/ /\ batch = "over"
          /\ Row(1, Upload!Reported) /\ Goto("upload_write")
          /\ UNCHANGED upload
       \/ /\ batch # "over" /\ (pending \/ (1 \in events /\ ~halted))
          /\ Upload!Halt
          /\ UNCHANGED <<pc, row>>
    /\ pending' = FALSE
    /\ UNCHANGED <<kind, count, now, next, out, stops, registry, cleanup, copy, disk,
                   published, history>>

\* finish() without a descriptor, in a task nobody cancels: the journal is
\* removed and no summary written.
UploadWrite ==
    /\ pc = "upload_write"
    /\ \/ /\ journal' = [journal EXCEPT ![1] = "gone"]
          /\ finished' = finished \cup {1}
          /\ UNCHANGED <<saved, alarm>>
       \/ Fails /\ UNCHANGED finished
    /\ Leave
    /\ UNCHANGED <<kind, count, now, next, out, stopping, owned, running, events, cleanup,
                   copy, row, published, history>>
-----------------------------------------------------------------------------
\* TransferVM._cancel of a pending or running row, and TransferRuntime's
\* answer: an entry that is not running gets its terminal write at once.
UserCancel(t) ==
    /\ row[t] \in {"pending", "running"}
    /\ Row(t, "cancelled")
    /\ IF t \in owned
       THEN /\ events' = events \cup {t}
            /\ cleanup' = IF t \notin running /\ cleanup[t] = "none"
                          THEN [cleanup EXCEPT ![t] = "queued"] ELSE cleanup
       ELSE UNCHANGED <<events, cleanup>>
    /\ early' = IF copy[t] = "idle" THEN early \cup {t} ELSE early
    /\ UNCHANGED <<worker, stopping, owned, running, finished, copy, disk, published, heard>>

\* The queued finish() runs; an entry released meanwhile has lost its
\* descriptor and takes the mark_aborted branch.
CleanupStart(t) ==
    /\ cleanup[t] = "queued"
    /\ cleanup' = [cleanup EXCEPT ![t] =
                     CASE t \in finished -> "ended"
                       [] t \in owned \ finished -> "writing"
                       [] OTHER -> "aborting"]
    /\ UNCHANGED <<worker, stopping, registry, copy, disk, row, published, history>>

CleanupDone(t) ==
    /\ cleanup[t] \in {"writing", "aborting"}
    /\ \/ Save(t, "cancelled") /\ finished' = finished \cup {t}
       \/ /\ cleanup[t] = "aborting" /\ journal[t] = "gone"
          /\ finished' = finished \cup {t}
          /\ UNCHANGED disk
       \/ Fails /\ UNCHANGED finished
    /\ cleanup' = [cleanup EXCEPT ![t] = "ended"]
    /\ UNCHANGED <<worker, stopping, owned, running, events, copy, row, published, history>>
-----------------------------------------------------------------------------
(* The copy task, as far as the runtime sees it (see CopyContract). *)
Running(t) == copy[t] \in {"running", "cancelling"}
InCopy(t) == Running(t) /\ kind # "upload"

CopyPublishes(t) ==
    /\ InCopy(t) /\ t \notin published
    /\ published' = published \cup {t}
    /\ UNCHANGED <<worker, stopping, registry, cleanup, copy, disk, row, history>>

\* progress(): never revives a cancelled row.
CopyReports(t) ==
    /\ Running(t) /\ t \notin events
    /\ row[t] = "pending" /\ Row(t, "running")
    /\ UNCHANGED <<worker, stopping, registry, cleanup, copy, disk, published, history>>

CopyEnds(t) ==
    /\ InCopy(t)
    /\ \E o \in Outcomes:
         /\ o = "true" => t \in published
         /\ o = "false" => t \notin published /\ kind # "delete"
         /\ o = "cancelled" => copy[t] = "cancelling"
         /\ copy' = [copy EXCEPT ![t] = o]
    /\ UNCHANGED <<worker, stopping, registry, cleanup, disk, row, published, history>>

\* The upload's own page cancels its batch, from the moment it is planned.
UploadCancel ==
    /\ kind = "upload" /\ batch # "over" /\ ~halted
    /\ Upload!Halt
    /\ UNCHANGED batchVars

UploadStep == Upload!Step /\ UNCHANGED batchVars

\* The application cancels the worker (cancel_group), ...
Stop ==
    /\ stops < MaxStops /\ pc # "done"
    /\ pending' = TRUE /\ stops' = stops + 1
    /\ heard' = (heard \/ pc \notin {"write", "unwind"})
    /\ UNCHANGED <<worker, owned, running, finished, cleanup, copy, disk, row,
                   published, early>>

WorkerCancel == Stop /\ UNCHANGED events

\* ... or TransferRuntime.shutdown does, with every event set.
Shutdown == Stop /\ events' = events \cup owned
-----------------------------------------------------------------------------
WorkerStep ==
    \/ /\ \/ Begin \/ NextEntry \/ AwaitCleanup \/ Attempt \/ Copying \/ Drain
          \/ Write \/ Unwind \/ Settle \/ SettleWrite \/ GiveBack \/ UploadWrite
       /\ UNCHANGED upload
    \/ Launch \/ Uploading

CleanupStep(t) == (CleanupStart(t) \/ CleanupDone(t)) /\ UNCHANGED upload

Others ==
    \/ \E t \in Entries: UserCancel(t) \/ CopyPublishes(t) \/ CopyReports(t) \/ CopyEnds(t)
    \/ WorkerCancel \/ Shutdown

Ended == pc = "done" /\ (\A t \in Entries: ~Alive(t)) /\ UNCHANGED vars

\* From one entry to the next, and from there to the end of a retry or the start
\* of an upload, the worker keeps the event loop to itself.
Yielded == pc \notin {"next", "release", "launch"}

Next ==
    \/ WorkerStep
    \/ Yielded /\ \E t \in Entries: CleanupStep(t)
    \/ Yielded /\ Others /\ UNCHANGED upload
    \/ Yielded /\ (UploadCancel \/ UploadStep)
    \/ Ended

\* The event loop runs every ready task, disk threads end, and a copy ends
\* (CopyTransaction!Terminates).  Nothing makes the user act.
Fairness ==
    /\ WF_vars(WorkerStep) /\ WF_vars(UploadStep)
    /\ \A t \in Entries: WF_vars(CleanupStep(t)) /\ WF_vars(CopyEnds(t) /\ UNCHANGED upload)

Spec == Init /\ [][Next]_vars /\ Fairness
-----------------------------------------------------------------------------
\* Every variable keeps its type.
TypeOK ==
    /\ kind \in Kinds
    /\ pc \in {"begin", "next", "await_cleanup", "attempt", "copying", "drain",
               "drain_stopped", "write", "unwind", "settle", "settle_write", "release",
               "launch", "uploading", "upload_write", "done"}
    /\ count \in 0 .. N /\ now \in 0 .. count /\ next \in 1 .. count + 1
    /\ pc \in {"write", "unwind"} =>
         out \in [t: Entries, status: Terminal,
                 then: {"next", "false", "stopped", "error", "cancelled", "refused", "unbegun"}]
    /\ pending \in BOOLEAN /\ stops \in 0 .. MaxStops
    /\ owned \subseteq Entries /\ running \subseteq owned /\ events \subseteq owned
    /\ finished \subseteq Entries
    /\ cleanup \in [Entries -> {"none", "queued", "writing", "aborting", "ended"}]
    /\ copy \in [Entries -> Outcomes \cup {"idle", "running", "cancelling"}]
    /\ journal \in [Entries -> {"none", "begun", "attempted", "gone"}]
    /\ saved \in [Entries -> [status: Terminal, attempted: BOOLEAN] \cup {Nil}]
    /\ row \in [Entries -> Terminal \cup {"none", "pending", "running"}]
    /\ published \subseteq Entries /\ early \subseteq Entries /\ alarm \in BOOLEAN
    /\ heard \in BOOLEAN
    /\ Upload!UploadTypeOK

Delivered(t) == IF kind = "upload" THEN stored # {} ELSE t \in published

\* The summary tells the truth about the destination, whoever wrote it: the
\* worker, a queued cleanup or settle().  So does the row, for an upload too.
HistoryIsTrue ==
    \A t \in Entries:
      /\ saved[t] # Nil =>
           /\ saved[t].status = "completed" => t \in published
           /\ saved[t].status = "skipped" => t \notin published
           /\ ~saved[t].attempted => t \notin published
      /\ row[t] = "completed" => Delivered(t)
      /\ row[t] = "skipped" => ~Delivered(t)

\* An entry the user cancelled before its copy was started is never touched.
CancelledEarlyNeverRuns == \A t \in early: copy[t] = "idle" /\ t \notin published

\* What the overlay shows of a released entry is what history says of it or,
\* of an upload, which has no summary, what its receipts say: a cancellation
\* cannot mark a wholly published upload as cancelled.
RowMatchesHistory ==
    /\ \A t \in Entries \ owned: saved[t] # Nil /\ row[t] # "none" => row[t] = saved[t].status
    /\ pc = "done" /\ unclean = {} /\ (\A o \in Entries: at[o] = "succeeded")
         => row[1] = "completed"

\* No object of an upload is offered for another one that S3 already has.
NeverReplayed == Upload!NeverReplayed

\* A row is over, and its entry has a terminal record unless the user was told.
Accounted(t) ==
    /\ row[t] \in Terminal \cup {"none"}
    /\ journal[t] \in {"begun", "attempted"} => alarm

Starts(t) == copy[t] = "idle" /\ copy'[t] # "idle"

\* A copy or move batch whose worker was cancelled at an await that passes the
\* cancellation on (any but a terminal write, whose failure hides it, and the
\* end of run_one) starts no further copy, whatever fails meanwhile.
CopyStops == [][kind = "copy" /\ heard => \A t \in Entries: ~Starts(t)]_vars

\* Every batch ends, with all its entries released and all cleanups drained; no
\* row is left pending or running, and no entry without its record in silence.
AllSettle ==
    <>[](pc = "done" /\ owned = {} /\ \A t \in Entries: ~Alive(t) /\ Accounted(t))

\* delete_in_focused: "Genuine cancellation stops the batch", wherever it
\* arrived but at the two awaits above.
DeleteStops == [][heard => \A t \in Entries: ~Starts(t)]_vars

\* _cancel_transfer_workers_before_content_swap: "Stop copy and delete workers",
\* at any await, with no disk failure involved.
StopsWhenCancelled == [][stops > 0 /\ ~alarm => \A t \in Entries: ~Starts(t)]_vars

\* settle_batch: "Drain all queued terminal writes despite repeated worker
\* cancellation": no queued write outlives the release of its entry.
DrainedBeforeRelease == \A t \in Entries: Alive(t) => t \in owned
=============================================================================
