--------------------------- MODULE CopyTransaction ---------------------------
(***************************************************************************)
(* CrossFsCopy / CrossFsMove of domain/cross_fs.py for one file: conflict  *)
(* resolution and publication intent, then, on LocalFS, a private stage,   *)
(* its no-replace publication, an overwrite through a backup, rollback and *)
(* cleanup, or, on S3, one conditional write with its multipart upload.    *)
(* Other processes share the destination directory or bucket and may       *)
(* create, replace or remove any public name between two steps; the task   *)
(* may be cancelled once at any step, as transfer_runtime does.            *)
(*                                                                         *)
(* A name is a number: 0 is the requested destination, i is "name (i)",    *)
(* and three private names hold the stage payload, its container and the   *)
(* overwrite backup.  An object carries its identity and how often it was  *)
(* renamed; the pair is the opaque revision (a rename changes ctime).      *)
(***************************************************************************)
EXTENDS Naturals, FiniteSets

CONSTANTS Foreign,      \* files and directories other processes may create
          Directories,  \* those of them that are directories
          Policies,     \* the ConflictResolution values considered
          Attempts,     \* _MAX_RENAME_ATTEMPTS (1000 in the code)
          Edits,        \* bound: edits of the source by other processes
          Nil

ASSUME CopyAssumption ==
    /\ Directories \subseteq Foreign
    /\ Policies \subseteq {"ERROR", "OVERWRITE", "SKIP", "RENAME"}
    /\ Attempts \in Nat \ {0}
    /\ Edits \in Nat
    /\ {"ours", "box"} \cap Foreign = {}

VARIABLES
    fs,         \* the destination directory: name -> object or Nil
    src,        \* version of the source file, Nil once a move deleted it
    policy,     \* on_conflict
    kind,       \* "local": LocalFS, whose publish is three system calls;
                \* "ideal": a provider that publishes in one indivisible step;
                \* "s3", "versioned": S3, its bucket without or with versions
    moving,     \* CrossFsMove rather than CrossFsCopy
    pc,         \* the awaited step
    cur,        \* effective (or probed) destination
    exists,     \* current_exists
    tries,      \* _attempt of _publish_owned_stage
    rounds,     \* _attempt of _commit_overwrite
    claim,      \* what stage_claim recorded: "none", "identity" or "full";
                \* on S3 the upload id held: "upload", or "gone" when S3 has
                \* finished it and the answer was lost
    carried,    \* source version the payload holds
    op,         \* arguments of the publish in progress
    res,        \* its outcome
    saved,      \* revision of the backup; on S3 the version written over
    cancel,     \* "no", "pending", "absorbed" or, once the failure of
                \* create_multipart_upload was raised instead, "replaced"
    fail,       \* the failure composed so far
    sweeps,     \* stage cleanups left before the failure is raised
    srcSeen,    \* source revision observed by _move_entry
    announced, target, verdict, lost,     \* the contract's view
    unborn, alive, seen                   \* history: who exists, who was observed

config == <<policy, kind, moving>>
history == <<unborn, alive, seen>>
contract == <<announced, target, verdict>>  \* lost apart
loop == <<cur, exists, tries, rounds>>
publish == <<op, res, saved>>
stage == <<claim, carried>>
vars == <<fs, src, config, lost, pc, loop, stage, publish, cancel, fail, sweeps,
          srcSeen, contract, history>>

Requested == 0
Public == 0 .. Attempts
Payload == Attempts + 1
Container == Attempts + 2
Backup == Attempts + 3
Private == {Payload, Container, Backup}

Kinds == {"local", "ideal", "s3", "versioned"}

\* atomic_write_replaces: the destination is written without a stage.
Direct == kind \in {"s3", "versioned"}

Objects == [id: Foreign \cup {"ours", "box"}, moves: 0 .. 2]

\* None, which is no version, object, name or verdict.
ASSUME NilAssumption ==
    Nil \notin Nat /\ Nil \notin Objects /\ Nil \notin {"copied", "skipped", "raised"}

New(i) == [id |-> i, moves |-> 0]
Failures == {"none", "conflict", "error", "cancelled"}
Results == {"ok", "conflict", "notfound", "error"}

Put(n, o) == fs' = [fs EXCEPT ![n] = o]
Remove(n) == Put(n, Nil)

\* A failed or cancelled durable step adds to what is raised at the end:
\* cancellation dominates, a second failure turns the first into ProviderError.
Worse(f, g) ==
    CASE "cancelled" \in {f, g} -> "cancelled"
      [] f = "none" -> g
      [] g = "none" -> f
      [] OTHER -> "error"

\* A bug: a drained step's own failure is dropped.
DrainedQuietly(g) ==
    /\ fail' = IF cancel = "pending" THEN Worse(fail, "cancelled") ELSE fail
    /\ cancel' = IF cancel = "pending" THEN "absorbed" ELSE cancel

\* _durably_run: the operation is drained and a cancellation that arrived
\* meanwhile is remembered beside its own failure g.
Composed(g) == Worse(fail, IF cancel = "pending" THEN Worse(g, "cancelled") ELSE g)
Heard == cancel' = IF cancel = "pending" THEN "absorbed" ELSE cancel
Drained(g) == fail' = Composed(g) /\ Heard

AsFailure(r) == CASE r = "ok" -> "none" [] r = "conflict" -> "conflict" [] OTHER -> "error"

\* The bound of both publication loops, range(_MAX_RENAME_ATTEMPTS).
\* A bug: one round more.
MayTryOnceMore(n) == n <= Attempts + 1
MayTry(n) == n <= Attempts

\* before_publication: the name is in the journal before it is used.
\* A bug: only the first name is recorded.
AnnouncedOnce(n) == announced' = IF announced = {} THEN {n} ELSE announced
Announced(n) == announced' = announced \cup {n}

\* Plain awaits: cancellation is raised in place of the result.
Awaiting(label) == pc = label /\ cancel # "pending" /\ UNCHANGED cancel
staged == claim = "full"

\* An exception leaves the copy; past the stage it meets the handler of
\* _publish_staged, which sweeps the stage once more.
Raise(f) ==
    /\ fail' = f
    /\ IF staged
       THEN /\ pc' = "drop_payload" /\ sweeps' = 1
            /\ UNCHANGED verdict
       ELSE /\ pc' = "end" /\ verdict' = "raised"
            /\ UNCHANGED sweeps

\* _cleanup_owned_stage followed by a raise, which meets the same handler.
Sweep(n) == pc' = "drop_payload" /\ sweeps' = n

Publish(from, to, revision, then) ==
    /\ op' = [from |-> from, to |-> to, revision |-> revision, then |-> then]
    /\ pc' = "pub_check"
    /\ UNCHANGED <<res, saved>>
-----------------------------------------------------------------------------
Init ==
    /\ fs = [n \in Public \cup Private |-> Nil]
    /\ src = 0
    /\ policy \in Policies /\ kind \in Kinds /\ moving \in BOOLEAN
    /\ pc = "start"
    /\ cur = Requested /\ exists = FALSE /\ tries = 1 /\ rounds = 1
    /\ claim = "none" /\ carried = Nil
    /\ op = Nil /\ res = "ok" /\ saved = Nil
    /\ cancel = "no" /\ fail = "none" /\ sweeps = 0
    /\ srcSeen = Nil
    /\ announced = {} /\ target = Nil /\ verdict = Nil /\ lost = FALSE
    /\ unborn = Foreign /\ alive = {} /\ seen = {}

\* copy / move: the mutation guard and the source stat.
Start ==
    /\ Awaiting("start")
    /\ \/ Raise("error") /\ UNCHANGED srcSeen
       \/ /\ srcSeen' = IF moving THEN src ELSE Nil
          /\ pc' = "resolve"
          /\ UNCHANGED <<fail, sweeps, verdict>>
    /\ UNCHANGED <<fs, src, config, lost, loop, stage, publish, announced, target, history>>

\* The name is settled: on to the stage, or back into the publication loop.
Chosen(n) ==
    /\ cur' = n
    /\ exists' = FALSE
    /\ pc' = IF staged THEN "announce" ELSE IF Direct THEN "intend" ELSE "exists"
    /\ UNCHANGED <<fail, sweeps, verdict>>

\* _resolve_conflict, the stat of the requested destination.
Resolve ==
    /\ Awaiting("resolve")
    /\ \/ Raise("error") /\ UNCHANGED <<cur, exists>>
       \/ fs[Requested] = Nil /\ Chosen(Requested)
       \/ /\ fs[Requested] # Nil /\ policy = "ERROR"
          /\ Raise("conflict") /\ UNCHANGED <<cur, exists>>
       \/ /\ fs[Requested] # Nil /\ policy = "SKIP"
          /\ verdict' = "skipped" /\ pc' = "end"
          /\ UNCHANGED <<cur, exists, fail, sweeps>>
       \/ /\ fs[Requested] # Nil /\ policy = "OVERWRITE"
          /\ IF fs[Requested].id \in Directories
             THEN Raise("conflict") /\ UNCHANGED <<cur, exists>>
             ELSE Chosen(Requested)
       \/ /\ fs[Requested] # Nil /\ policy = "RENAME"
          /\ cur' = 1 /\ pc' = "probe"
          /\ UNCHANGED <<exists, fail, sweeps, verdict>>
    /\ UNCHANGED <<fs, src, config, lost, tries, rounds, stage, publish, srcSeen,
                   announced, target, history>>

\* _resolve_conflict, one candidate of the RENAME loop.
Probe ==
    /\ Awaiting("probe")
    /\ \/ Raise("error") /\ UNCHANGED <<cur, exists>>
       \/ fs[cur] = Nil /\ Chosen(cur)
       \/ /\ fs[cur] # Nil /\ cur < Attempts
          /\ cur' = cur + 1
          /\ UNCHANGED <<exists, pc, fail, sweeps, verdict>>
       \/ /\ fs[cur] # Nil /\ cur = Attempts
          /\ Raise("conflict")
          /\ UNCHANGED <<cur, exists>>
    /\ UNCHANGED <<fs, src, config, lost, tries, rounds, stage, publish, srcSeen,
                   announced, target, history>>

\* _exists(effective_dst).
ExistsCheck ==
    /\ Awaiting("exists")
    /\ \/ /\ exists' = (fs[cur] # Nil)
          /\ pc' = "intend"
          /\ UNCHANGED <<fail, sweeps, verdict>>
       \/ Raise("error") /\ UNCHANGED exists
    /\ UNCHANGED <<fs, src, config, lost, cur, tries, rounds, stage, publish, srcSeen,
                   announced, target, history>>

\* _prepare_publication before any stage or write: the hook writes the journal.
Intend ==
    /\ Awaiting("intend")
    /\ \/ /\ Announced(cur)
          /\ pc' = IF Direct THEN "read" ELSE "claim"
          /\ UNCHANGED <<fail, sweeps, verdict>>
       \/ Raise("error") /\ UNCHANGED announced
    /\ UNCHANGED <<fs, src, config, lost, loop, stage, publish, srcSeen, target, history>>
-----------------------------------------------------------------------------
\* claim_directory under a fresh name: drained, and undone when cancelled.
ClaimContainer ==
    /\ pc = "claim"
    /\ \/ /\ Put(Container, New("box"))
          /\ Drained("none")
          /\ IF fail' = "none" THEN pc' = "verify" /\ UNCHANGED sweeps
             ELSE pc' = "drop_container" /\ sweeps' = 1
          /\ UNCHANGED verdict
       \/ /\ Drained("error")
          /\ pc' = "end" /\ verdict' = "raised"
          /\ UNCHANGED <<fs, sweeps>>
    /\ UNCHANGED <<src, config, lost, loop, stage, publish, srcSeen, announced, target, history>>

\* _verify_stage_claim: the claim is observed again before it is used.
VerifyClaim ==
    /\ pc = "verify"
    /\ \E g \in {"none", "error"}: Drained(g)
    /\ IF fail' = "none" THEN pc' = "open" /\ UNCHANGED sweeps
       ELSE pc' = "drop_container" /\ sweeps' = 1
    /\ UNCHANGED <<fs, src, config, lost, loop, stage, publish, srcSeen, contract, history>>

\* _copy_file until container/payload is open: the writer reports its identity
\* as soon as the file exists, even when the caller is already cancelled.
OpenPayload ==
    /\ pc = "open"
    /\ \/ /\ fs[Payload] = Nil
          /\ Put(Payload, New("ours"))
          /\ claim' = "identity"
          /\ Drained("none")
          /\ pc' = IF fail' = "none" THEN "fill" ELSE "capture"
       \/ /\ Drained(IF cancel = "pending" THEN "none" ELSE "error")
          /\ pc' = "capture"
          /\ UNCHANGED <<fs, claim>>
    /\ UNCHANGED <<src, config, lost, loop, carried, publish, sweeps, srcSeen, contract, history>>

\* _copy_file, the chunks and the completed revision; closing the source
\* stream is drained.
FillPayload ==
    /\ pc = "fill"
    /\ \/ /\ cancel # "pending"
          /\ claim' = "full" /\ carried' = src
          /\ UNCHANGED <<fail, cancel>>
       \/ /\ Drained(IF cancel = "pending" THEN "none" ELSE "error")
          /\ UNCHANGED stage
    /\ pc' = "capture"
    /\ UNCHANGED <<fs, src, config, lost, loop, publish, sweeps, srcSeen, contract, history>>

\* _capture_file_stage: the stage becomes owned only when nothing failed and
\* the payload still carries the revision its writer reported.
Capture ==
    /\ pc = "capture"
    /\ \/ Drained("error")
       \/ Drained(IF fail = "none" /\ fs[Payload] # New("ours")
                  THEN (IF fs[Payload] = Nil THEN "error" ELSE "conflict") ELSE "none")
    /\ IF fail' = "none"
       THEN pc' = "announce" /\ tries' = 1 /\ UNCHANGED sweeps
       ELSE Sweep(1) /\ UNCHANGED tries
    /\ UNCHANGED <<fs, src, config, lost, cur, exists, rounds, stage, publish, srcSeen,
                   contract, history>>
-----------------------------------------------------------------------------
PublishStage(then) == Publish(Payload, cur, New("ours"), then)

\* The head of the publication loop: intent first, then either a commit over
\* the existing file or a plain no-replace publication.
AnnounceAndPublish ==
    /\ Awaiting("announce")
    /\ MayTry(tries)
    /\ \/ /\ Announced(cur)
          /\ IF policy = "OVERWRITE" /\ exists
             THEN pc' = "ovw_stat" /\ rounds' = 1 /\ UNCHANGED publish
             ELSE PublishStage("published") /\ UNCHANGED rounds
          /\ UNCHANGED <<fail, sweeps>>
       \/ /\ fail' = "error" /\ Sweep(2)
          /\ UNCHANGED <<announced, rounds, publish>>
    /\ UNCHANGED <<fs, src, config, lost, cur, exists, tries, stage, srcSeen, target,
                   verdict, history>>

\* range(_MAX_RENAME_ATTEMPTS) is used up.
Exhausted ==
    /\ \/ pc = "announce" /\ ~MayTry(tries)
       \/ pc = "ovw_stat" /\ ~MayTry(rounds)
    /\ fail' = "conflict" /\ Sweep(2)
    /\ UNCHANGED <<fs, src, config, lost, loop, stage, publish, cancel, srcSeen, contract, history>>

\* A bug: the publication's own cancellation is forgotten.
AnswerForgetful(r) ==
    /\ res' = r /\ pc' = op.then
    /\ cancel' = IF cancel = "pending" THEN "absorbed" ELSE cancel
    /\ UNCHANGED fail

\* The end of a publish: its result, and a cancellation that arrived meanwhile.
Answer(r) ==
    /\ res' = r
    /\ pc' = op.then
    /\ Drained("none")

Validated == fs[op.from] = op.revision
\* A bug: rename(2) without RENAME_NOREPLACE.
FreeOrNot == TRUE
Free == fs[op.to] = Nil
Moved == [fs[op.from] EXCEPT !.moves = @ + 1]
Rename ==
    /\ fs' = [fs EXCEPT ![op.from] = Nil, ![op.to] = Moved]
    /\ target' = IF op.from = Payload /\ op.to \in Public THEN op.to ELSE target

\* A provider that keeps the AtomicNoReplacePublisher contract.
PublishAtomically ==
    /\ pc = "pub_check" /\ kind = "ideal"
    /\ \/ /\ Validated /\ Free
          /\ Rename
          /\ saved' = IF op.from = Payload THEN saved ELSE Moved
          /\ Answer("ok")
       \/ /\ ~Validated \/ ~Free
          /\ Answer(IF fs[op.from] = Nil THEN "notfound" ELSE "conflict")
          /\ UNCHANGED <<fs, target, saved>>
       \/ Answer("error") /\ UNCHANGED <<fs, target, saved>>
    /\ UNCHANGED <<src, config, lost, loop, stage, op, sweeps, srcSeen, announced, verdict, history>>

\* LocalFS.atomic_publish_no_replace: lstat and compare the revision, ...
PublishCheck ==
    /\ pc = "pub_check" /\ kind = "local"
    /\ \/ /\ Validated /\ pc' = "pub_rename"
          /\ UNCHANGED <<res, fail, cancel>>
       \/ ~Validated /\ Answer(IF fs[op.from] = Nil THEN "notfound" ELSE "conflict")
       \/ Answer("error")
    /\ UNCHANGED <<fs, src, config, lost, loop, stage, op, saved, sweeps, srcSeen, contract, history>>

\* ... rename without replacing whatever is at the source name by now, ...
PublishRename ==
    /\ pc = "pub_rename"
    /\ \/ /\ fs[op.from] # Nil /\ Free
          /\ Rename
          /\ pc' = "pub_stat"
          /\ UNCHANGED <<res, fail, cancel>>
       \/ /\ fs[op.from] = Nil \/ ~Free
          /\ Answer(IF fs[op.from] = Nil THEN "notfound" ELSE "conflict")
          /\ UNCHANGED <<fs, target>>
       \/ Answer("error") /\ UNCHANGED <<fs, target>>
    /\ UNCHANGED <<src, config, lost, loop, stage, op, saved, sweeps, srcSeen, announced,
                   verdict, history>>

\* ... and lstat the new name for the returned revision.
PublishStat ==
    /\ pc = "pub_stat"
    /\ \/ Answer(IF fs[op.to] = Nil THEN "notfound" ELSE "error") /\ UNCHANGED saved
       \/ /\ fs[op.to] # Nil
          /\ saved' = IF op.from = Payload THEN saved ELSE fs[op.to]
          /\ Answer("ok")
    /\ UNCHANGED <<fs, src, config, lost, loop, stage, op, sweeps, srcSeen, contract, history>>
-----------------------------------------------------------------------------
Lost == res = "conflict" /\ fail = "none"  \* the name was taken meanwhile

\* A failed publish with no way on: sweep the stage and raise what failed.
GiveUp ==
    /\ fail' = Worse(fail, AsFailure(res))
    /\ Sweep(2)

\* _publish_owned_stage, after _atomic_publish.
AfterPublish ==
    /\ pc = "published"
    /\ \/ res = "ok" /\ pc' = "close" /\ UNCHANGED <<fail, sweeps>>
       \/ Lost /\ pc' = "owned" /\ UNCHANGED <<fail, sweeps>>
       \/ res # "ok" /\ ~Lost /\ GiveUp
    /\ UNCHANGED <<fs, src, config, lost, loop, stage, publish, cancel, srcSeen, contract, history>>

\* What a lost race means is the policy's business.
NextAttempt ==
    CASE op.then = "ovw_fresh" ->
            /\ rounds' = rounds + 1 /\ pc' = "ovw_stat"
            /\ UNCHANGED <<exists, tries, sweeps>>
      [] op.then = "published" /\ policy = "RENAME" ->
            /\ tries' = tries + 1 /\ pc' = "resolve"
            /\ UNCHANGED <<exists, rounds, sweeps>>
      [] op.then = "published" /\ policy = "OVERWRITE" ->
            /\ tries' = tries + 1 /\ exists' = TRUE /\ pc' = "announce"
            /\ UNCHANGED <<rounds, sweeps>>
      [] OTHER -> Sweep(2) /\ UNCHANGED <<exists, tries, rounds>>

\* _stage_is_owned: is the payload still the one that was written?
StageOwned ==
    /\ pc = "owned"
    /\ \/ /\ fs[Payload] = New("ours") /\ cancel # "pending"
          /\ UNCHANGED cancel
          /\ fail' = IF policy = "ERROR" THEN "conflict" ELSE fail
          /\ NextAttempt
       \/ /\ fs[Payload] # New("ours") /\ fs[Payload] # Nil /\ cancel # "pending"
          /\ fail' = "conflict" /\ Sweep(2)
          /\ UNCHANGED <<cancel, exists, tries, rounds>>
       \/ /\ Drained("error") \/ (cancel = "pending" /\ Drained("none"))
          /\ Sweep(1)
          /\ UNCHANGED <<exists, tries, rounds>>
    /\ UNCHANGED <<fs, src, config, lost, cur, stage, publish, srcSeen, contract, history>>

\* _cleanup_published_container, then the verdict or the source deletion.
CloseContainer ==
    /\ pc = "close"
    /\ \/ fs[Payload] = Nil /\ Remove(Container) /\ Drained("none")
       \/ UNCHANGED fs /\ Drained("error")
    /\ IF fail' # "none" THEN Sweep(1) /\ UNCHANGED verdict
       ELSE /\ pc' = IF moving THEN "delete_source" ELSE "end"
            /\ verdict' = IF moving THEN verdict ELSE "copied"
            /\ UNCHANGED sweeps
    /\ UNCHANGED <<src, config, lost, loop, stage, publish, srcSeen, announced, target, history>>

\* A bug: the source is deleted whatever its revision.
SourceAny == TRUE
SourceAsSeen == src = srcSeen

\* CrossFsMove._delete_observed_source: conditional on the observed revision.
DeleteSource ==
    /\ pc = "delete_source"
    /\ \/ SourceAsSeen /\ src' = Nil /\ Drained("none")
       \/ ~SourceAsSeen /\ UNCHANGED src /\ Drained("conflict")
       \/ UNCHANGED src /\ Drained("error")
    /\ pc' = "end"
    /\ verdict' = IF fail' = "none" THEN "copied" ELSE "raised"
    /\ UNCHANGED <<fs, config, lost, loop, stage, publish, sweeps, srcSeen, announced,
                   target, history>>
-----------------------------------------------------------------------------
\* _commit_overwrite, the stat of the destination: publish directly when it
\* vanished, otherwise move what was observed aside, if it can be (swept twice
\* when it cannot, once when the stat fails).
ObserveVictim ==
    /\ Awaiting("ovw_stat")
    /\ MayTry(rounds)
    /\ \/ /\ fs[cur] = Nil
          /\ PublishStage("ovw_fresh")
          /\ UNCHANGED <<seen, fail, sweeps>>
       \/ /\ fs[cur] # Nil
          /\ Publish(cur, Backup, fs[cur], "backed")
          /\ seen' = seen \cup {fs[cur].id}
          /\ UNCHANGED <<fail, sweeps>>
       \/ /\ fail' = "error" /\ \E n \in {1, 2}: Sweep(n)
          /\ UNCHANGED <<publish, seen>>
    /\ UNCHANGED <<fs, src, config, lost, loop, stage, srcSeen, contract, unborn, alive>>

PublishedFresh ==
    /\ pc = "ovw_fresh"
    /\ \/ res = "ok" /\ pc' = "close" /\ UNCHANGED <<fail, sweeps>>
       \/ Lost /\ pc' = "owned" /\ UNCHANGED <<fail, sweeps>>
       \/ res # "ok" /\ ~Lost /\ GiveUp
    /\ UNCHANGED <<fs, src, config, lost, loop, stage, publish, cancel, srcSeen, contract, history>>

\* After the backup publish: look again, give up, commit, or undo when the
\* caller was cancelled while the original was being moved aside.
BackedUp ==
    /\ pc = "backed"
    /\ \/ /\ res \in {"conflict", "notfound"} /\ fail = "none"
          /\ rounds' = rounds + 1 /\ pc' = "ovw_stat"
          /\ UNCHANGED <<publish, fail, sweeps>>
       \/ /\ res # "ok" /\ (res = "error" \/ fail # "none")
          /\ GiveUp /\ UNCHANGED <<publish, rounds>>
       \/ /\ res = "ok"
          /\ IF fail = "none" THEN PublishStage("committed")
             ELSE Publish(Backup, cur, saved, "restored")
          /\ UNCHANGED <<rounds, fail, sweeps>>
    /\ UNCHANGED <<fs, src, config, lost, cur, exists, tries, stage, cancel, srcSeen,
                   contract, history>>

\* The stage took the original's place, or the original is moved back.
Committed ==
    /\ pc = "committed"
    /\ IF res = "ok"
       THEN pc' = "drop_backup" /\ UNCHANGED <<publish, fail>>
       ELSE /\ fail' = Worse(fail, AsFailure(res))
            /\ Publish(Backup, cur, saved, "restored")
    /\ UNCHANGED <<fs, src, config, lost, loop, stage, cancel, sweeps, srcSeen, contract, history>>

Restored ==
    /\ pc = "restored"
    /\ fail' = IF res \in {"ok", "notfound"} THEN fail ELSE Worse(fail, "error")
    /\ Sweep(2)
    /\ UNCHANGED <<fs, src, config, lost, loop, stage, publish, cancel, srcSeen, contract, history>>

\* _cleanup_owned_stage(backup): delete the backup by its own revision.
DropBackup ==
    /\ pc = "drop_backup"
    /\ \/ fs[Backup] = saved /\ Remove(Backup) /\ Drained("none")
       \/ UNCHANGED fs /\ Drained("error")
    /\ pc' = "close"
    /\ UNCHANGED <<src, config, lost, loop, stage, publish, sweeps, srcSeen, contract, history>>
-----------------------------------------------------------------------------
\* _cleanup_stage_manifest, the payload: only what the writer reported goes.
Claimed(o) == CASE claim = "identity" -> o.id = "ours"
                [] claim = "full" -> o = New("ours")
                [] OTHER -> FALSE
DropPayload ==
    /\ pc = "drop_payload"
    /\ \/ fs[Payload] # Nil /\ Claimed(fs[Payload]) /\ Remove(Payload) /\ Drained("none")
       \/ (fs[Payload] = Nil \/ claim = "none") /\ UNCHANGED fs /\ Drained("none")
       \/ fs[Payload] # Nil /\ claim # "none" /\ UNCHANGED fs /\ Drained("error")
    /\ pc' = "drop_container"
    /\ UNCHANGED <<src, config, lost, loop, stage, publish, sweeps, srcSeen, contract, history>>

\* A bug: the cleanup starts over for as long as it is asked to raise.
NeverSwept == UNCHANGED sweeps
Swept == sweeps' = sweeps - 1

\* _cleanup_stage_manifest, the container; then raise, or skip quietly.
DropContainer ==
    /\ pc = "drop_container"
    /\ \/ fs[Container] = Nil /\ UNCHANGED fs /\ Drained("none")
       \/ fs[Payload] = Nil /\ Remove(Container) /\ Drained("none")
       \/ fs[Container] # Nil /\ UNCHANGED fs /\ Drained("error")
    /\ \/ /\ fail' # "none" /\ sweeps > 1
          /\ pc' = "drop_payload" /\ UNCHANGED verdict
       \/ /\ fail' # "none" /\ sweeps = 1
          /\ pc' = "end" /\ verdict' = "raised"
       \/ /\ fail' = "none"
          /\ pc' = "end" /\ verdict' = "skipped"
    /\ Swept
    /\ UNCHANGED <<src, config, lost, loop, stage, publish, srcSeen, announced, target, history>>

\* The cancellation reaches the copy at an await that is not drained.  The
\* intent hook may have recorded the name all the same.
CancelledAtAwait ==
    /\ cancel = "pending"
    /\ pc \in {"start", "resolve", "probe", "exists", "intend", "announce", "ovw_stat"}
    /\ cancel' = "absorbed"
    /\ IF pc = "announce"
       THEN fail' = "cancelled" /\ Sweep(2) /\ UNCHANGED verdict
       ELSE Raise("cancelled")
    /\ IF pc \in {"intend", "announce"}
       THEN announced' \in {announced, announced \cup {cur}}
       ELSE UNCHANGED announced
    /\ UNCHANGED <<fs, src, config, lost, loop, stage, publish, srcSeen, target, history>>

\* copy_task.cancel(), at most once.
Cancel ==
    /\ cancel = "no" /\ pc # "end"
    /\ cancel' = "pending"
    /\ UNCHANGED <<fs, src, config, lost, pc, loop, stage, publish, fail, sweeps, srcSeen,
                   contract, history>>
-----------------------------------------------------------------------------
\* _copy_file_atomically and S3FS.write_stream: the source is read until its
\* first part is known.  An empty object is put in one request.
FirstChunk ==
    /\ Awaiting("read")
    /\ \/ pc' \in {"send", "create"} /\ carried' = src /\ UNCHANGED fail
       \/ pc' = "written" /\ fail' = "error" /\ UNCHANGED carried
    /\ UNCHANGED <<fs, src, config, lost, loop, claim, publish, sweeps, srcSeen, contract, history>>

\* create_multipart_upload is drained for its id; its own failure takes the
\* place of a cancellation that it drained.
CreateUpload ==
    /\ pc = "create"
    /\ \/ /\ claim' = "upload" /\ Drained("none")
          /\ pc' = IF fail' = "none" THEN "parts" ELSE "abort"
       \/ /\ fail' = "error"
          /\ cancel' = IF cancel = "pending" THEN "replaced" ELSE cancel
          /\ pc' = "written" /\ UNCHANGED claim
    /\ UNCHANGED <<fs, src, config, lost, loop, carried, publish, sweeps, srcSeen, contract, history>>

\* The parts: plain awaits, of the source and of S3.
UploadParts ==
    /\ Awaiting("parts")
    /\ \/ pc' = "send" /\ carried' = src /\ UNCHANGED fail
       \/ pc' = "abort" /\ fail' = "error" /\ UNCHANGED carried
    /\ UNCHANGED <<fs, src, config, lost, loop, claim, publish, sweeps, srcSeen, contract, history>>

CancelledInWrite ==
    /\ cancel = "pending" /\ pc \in {"read", "parts"}
    /\ cancel' = "absorbed" /\ fail' = "cancelled"
    /\ pc' = IF pc = "parts" THEN "abort" ELSE "written"
    /\ UNCHANGED <<fs, src, config, lost, loop, stage, publish, sweeps, srcSeen, contract, history>>

\* If-None-Match: the write is conditional unless it may overwrite.
Vacant == policy = "OVERWRITE" \/ fs[cur] = Nil

\* The object is written; S3 keeps what it replaced only in a versioned bucket.
Appears ==
    /\ Vacant /\ Put(cur, New("ours")) /\ target' = cur
    /\ saved' = IF kind = "versioned" THEN fs[cur] ELSE Nil

\* put_object or complete_multipart_upload, drained.  The client repeats a
\* request whose answer it did not get: one that had created the object is
\* then refused because the object exists.
SendObject ==
    /\ pc = "send"
    /\ \/ /\ Appears /\ claim' = "none" /\ UNCHANGED lost
          /\ Drained("none")
          /\ pc' = IF fail' = "none" THEN "written" ELSE "rollback"
       \/ /\ Appears /\ claim' = IF claim = "upload" THEN "gone" ELSE claim
          /\ \/ Drained("error") /\ UNCHANGED lost
             \/ policy # "OVERWRITE" /\ Drained("conflict") /\ lost' = TRUE
          /\ pc' = "abort"
       \/ /\ Drained("error") \/ (~Vacant /\ Drained("conflict"))
          /\ pc' = "abort"
          /\ UNCHANGED <<fs, target, saved, claim, lost>>
    /\ UNCHANGED <<src, config, loop, carried, op, res, sweeps, srcSeen, announced, verdict, history>>

\* abort_multipart_upload, for as long as an id is held; S3 no longer knows the
\* id of an upload that it has finished.
AbortUpload ==
    /\ pc = "abort"
    /\ \/ claim = "none" /\ UNCHANGED <<claim, fail, cancel>>
       \/ claim = "upload" /\ claim' = "none" /\ Drained("none")
       \/ claim # "none" /\ UNCHANGED claim /\ Drained("error")
    /\ pc' = "written"
    /\ UNCHANGED <<fs, src, config, lost, loop, carried, publish, sweeps, srcSeen, contract, history>>

\* _rollback_cancelled_upload: the version written is removed, if S3 named it;
\* otherwise, or if that fails, a note asks for manual cleanup.
RollBack ==
    /\ pc = "rollback"
    /\ \/ /\ kind = "versioned" /\ fs[cur] = New("ours") /\ Put(cur, saved)
       \/ UNCHANGED fs
    /\ pc' = "written"
    /\ UNCHANGED <<src, config, lost, loop, stage, publish, cancel, fail, sweeps, srcSeen,
                   contract, history>>

\* The source stream is closed, drained; then _copy_file_atomically answers,
\* or looks for another name.
WriteEnds ==
    /\ pc = "written" /\ Heard
    /\ \E f \in {Composed("none"), Composed("error")}:
          \/ /\ f = "none" /\ UNCHANGED <<fail, tries>>
             /\ pc' = IF moving THEN "delete_source" ELSE "end"
             /\ verdict' = IF moving THEN verdict ELSE "copied"
          \/ /\ f = "conflict" /\ policy = "RENAME" /\ MayTry(tries + 1)
             /\ fail' = "none" /\ tries' = tries + 1
             /\ pc' = "resolve" /\ UNCHANGED verdict
          \/ /\ f = "conflict" /\ policy = "SKIP"
             /\ fail' = "none" /\ verdict' = "skipped"
             /\ pc' = "end" /\ UNCHANGED tries
          \/ /\ f # "none"
             /\ f = "conflict" => policy # "SKIP" /\ (policy = "RENAME" => ~MayTry(tries + 1))
             /\ fail' = f /\ verdict' = "raised"
             /\ pc' = "end" /\ UNCHANGED tries
    /\ UNCHANGED <<fs, src, config, lost, cur, exists, rounds, stage, publish, sweeps, srcSeen,
                   announced, target, history>>
-----------------------------------------------------------------------------
(* Other processes. *)
Quiet == UNCHANGED <<config, lost, pc, loop, stage, publish, cancel, fail, sweeps, srcSeen,
                     contract, seen>>
IdAt(n) == IF fs[n] = Nil THEN {} ELSE {fs[n].id}

\* Create x at a free public name, or rename it over what is there.  (At S3 a
\* prefix and an object of one name do not meet; prefixes are left out.)
ExternalPut(n, x) ==
    /\ pc # "end" /\ (Direct => x \notin Directories)
    /\ Put(n, New(x))
    /\ unborn' = unborn \ {x}
    /\ alive' = (alive \cup {x}) \ IdAt(n)
    /\ Quiet /\ UNCHANGED src

ExternalRemove(n) ==
    /\ pc # "end" /\ fs[n] # Nil
    /\ Remove(n)
    /\ alive' = alive \ IdAt(n)
    /\ Quiet /\ UNCHANGED <<src, unborn>>

\* The private payload is replaced behind the writer's back.
Tamper(x) ==
    /\ pc # "end" /\ fs[Payload] = New("ours")
    /\ Put(Payload, New(x))
    /\ unborn' = unborn \ {x}
    /\ alive' = alive \cup {x}
    /\ Quiet /\ UNCHANGED src

EditSource ==
    /\ pc # "end" /\ moving /\ src # Nil /\ src < Edits
    /\ src' = src + 1
    /\ Quiet /\ UNCHANGED <<fs, unborn, alive>>
-----------------------------------------------------------------------------
CopyStep ==
    \/ Start \/ Resolve \/ Probe \/ ExistsCheck \/ Intend
    \/ ClaimContainer \/ VerifyClaim \/ OpenPayload \/ FillPayload \/ Capture
    \/ AnnounceAndPublish \/ Exhausted
    \/ PublishAtomically \/ PublishCheck \/ PublishRename \/ PublishStat
    \/ AfterPublish \/ StageOwned \/ CloseContainer \/ DeleteSource
    \/ ObserveVictim \/ PublishedFresh \/ BackedUp \/ Committed \/ Restored
    \/ DropBackup \/ DropPayload \/ DropContainer \/ CancelledAtAwait
    \/ FirstChunk \/ CreateUpload \/ UploadParts \/ SendObject
    \/ AbortUpload \/ RollBack \/ WriteEnds \/ CancelledInWrite

Environment ==
    \/ Cancel
    \/ \E x \in unborn: Tamper(x) \/ \E n \in Public: ExternalPut(n, x)
    \/ \E n \in Public: ExternalRemove(n)
    \/ EditSource

Ended == pc = "end" /\ UNCHANGED vars

Next == CopyStep \/ Environment \/ Ended

\* The event loop runs every ready step; nothing is assumed of other processes.
Spec == Init /\ [][Next]_vars /\ WF_vars(CopyStep)
-----------------------------------------------------------------------------
\* Every variable keeps its type.
TypeOK ==
    /\ fs \in [Public \cup Private -> Objects \cup {Nil}]
    /\ src \in 0 .. Edits \cup {Nil} /\ srcSeen \in 0 .. Edits \cup {Nil}
    /\ policy \in Policies /\ kind \in Kinds /\ moving \in BOOLEAN
    /\ cur \in Public /\ exists \in BOOLEAN
    /\ tries \in 1 .. Attempts + 1 /\ rounds \in 1 .. Attempts + 1
    /\ claim \in {"none", "identity", "full", "upload", "gone"} /\ carried \in 0 .. Edits \cup {Nil}
    /\ res \in Results /\ saved \in Objects \cup {Nil}
    /\ cancel \in {"no", "pending", "absorbed", "replaced"} /\ fail \in Failures
    /\ sweeps \in 0 .. 2
    /\ announced \subseteq Public /\ target \in Public \cup {Nil}
    /\ verdict \in {Nil, "copied", "skipped", "raised"}
    /\ lost \in BOOLEAN
    /\ unborn \subseteq Foreign /\ alive \subseteq Foreign \ unborn /\ seen \subseteq Foreign

Somewhere(x) == \E n \in Public \cup Private: fs[n] # Nil /\ fs[n].id = x

\* Whatever another process owns survives the copy at some name, unless an
\* OVERWRITE published its payload; and a provider that keeps the publication
\* contract lets it destroy only what _commit_overwrite had observed.
NoLoss ==
    \A x \in alive:
        \/ Somewhere(x)
        \/ /\ policy = "OVERWRITE" /\ target # Nil
           /\ kind = "ideal" => x \in seen

\* A copy that returns, rather than raises, leaves no stage, container, backup
\* or open multipart upload behind: what cleanup could not remove is always
\* reported, and never taken for a name that is merely in use.
NoSilentResidue ==
    verdict \in {"copied", "skipped"} => claim # "upload" /\ \A n \in Private: fs[n] = Nil

\* A copy that is cancelled before its end is heard, and raises the cancellation
\* itself, whichever drained mutation it interrupted and whatever failed before
\* or after it.  One exception: when create_multipart_upload fails while it is
\* being drained, that failure is raised in its place.
CancelIsRaised ==
    verdict # Nil /\ cancel # "no" =>
      verdict = "raised" /\ fail = IF cancel = "replaced" THEN "error" ELSE "cancelled"

\* A move deletes its source only when exactly that version was published.
MoveKeepsData == src = Nil => target # Nil /\ carried = srcSeen

\* The copy keeps the contract its caller journals by.
Contract == INSTANCE CopyContract WITH Names <- Public
ImplementsContract == Contract!ContractSpec

\* Once nothing stops the event loop every copy ends.
Terminates == <>(verdict # Nil)

\* The docstring of atomic_publish_no_replace: the source moved is the one
\* whose revision was expected, so only observed files are ever destroyed.
OnlyObservedDestroyed ==
    kind = "local" => \A x \in alive: Somewhere(x) \/ x \in seen
=============================================================================
