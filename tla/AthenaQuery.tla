---------------------------- MODULE AthenaQuery ----------------------------
(***************************************************************************)
(* AthenaQueryVM: one query page that starts, polls, stops and replaces    *)
(* executions of Athena, with the client's record of the executions that   *)
(* it started.  Runs, cancels, context changes and the shutdown are tasks  *)
(* of one event loop; a step of the model is what runs between two of      *)
(* their suspension points.  A stopped or replaced task can leave a start  *)
(* request behind, whose finalizer outlives it.                            *)
(*                                                                         *)
(* Athena gives a request token one execution, whoever repeats it, so an   *)
(* execution is named by its token, and a token by the run that made it.   *)
(***************************************************************************)
EXTENDS Naturals, FiniteSets

CONSTANTS MaxRuns,     \* bound: presses of Run
          MaxPending,  \* _MAX_PENDING_CLEANUP_REFS
          MaxChanges,  \* bound: other things that the user does before the page closes
          MaxFaults    \* bound: requests that fail

ASSUME BoundsAreNatural ==
    MaxRuns \in Nat /\ MaxPending \in Nat \ {0} /\ MaxChanges \in Nat /\ MaxFaults \in Nat

Runs == 1 .. MaxRuns
Old == MaxRuns + 1      \* an execution of an earlier page or session
None == 0

\* Who awaits a StopQueryExecution: the run, the holder of the lifecycle lock,
\* or the finalizer of a run's submission.
Body == 0
Holder == MaxRuns + 1
Callers == 0 .. MaxRuns + 1

VARIABLES
  run,        \* the newest run
  pc,         \* where its task is suspended
  cancelling, \* its task's cancellation: scheduled by a command, or to be met
  stale,      \* its generation is not the current one
  start,      \* the submission task of each run
  token,      \* the request token of each run
  intent,     \* _request_intent_token
  fin,        \* the submission finalizer of each run
  page,       \* what the view model shows
  pending,    \* _pending_cleanup_refs
  lock,       \* who holds _lifecycle_lock
  want,       \* the operations that wait for it
  phase, todo,  \* how far its holder is; the refs it has yet to stop
  life,       \* how far the page's shutdown is
  disposed,
  remote,     \* the executions at Athena
  client,     \* AthenaClient's registry of the executions it started
  asked, answer, \* the stop each caller awaits, and what came of it
  abandoned,  \* history: refs that a cleanup gave up, with a warning in the log
  given,      \* history: tokens forgotten because the user changed something
  changes, faults

task == <<run, pc, cancelling, stale>>
request == <<start, token, fin>>
lifecycle == <<lock, want, phase, todo>>
stopping == <<client, asked, answer>>
cleanup == <<pending, abandoned>>
tokens == <<intent, given>>
ending == <<life, disposed>>
bounds == <<changes, faults>>
vars == <<task, request, tokens, page, cleanup, lifecycle, ending, remote, stopping, bounds>>

Init ==
    /\ run = 0 /\ pc = "idle" /\ cancelling = "no" /\ stale = TRUE
    /\ start = [r \in Runs |-> "none"] /\ token = [r \in Runs |-> None]
    /\ fin = [r \in Runs |-> "none"] /\ intent = None /\ given = {}
    /\ page = [ref |-> None, owns |-> FALSE, state |-> "none", submitting |-> FALSE,
               pane |-> "empty", error |-> FALSE, shown |-> None]
    /\ pending = {} /\ abandoned = {}
    /\ lock = "free" /\ want = {} /\ phase = "none" /\ todo = {}
    /\ life = "open" /\ disposed = FALSE
    /\ remote = [e \in Runs |-> "none"]
    /\ client = [active |-> {}, retired |-> {}, stops |-> {}]
    /\ asked = [w \in Callers |-> None] /\ answer = [w \in Callers |-> "none"]
    /\ changes = 0 /\ faults = 0

\* Neither disposed of, shut down nor reserved for the shutdown.
Open == life = "open"
Stopped == life \in {"stopped", "complete"}

\* _lifecycle_transition.  A shutdown never ends it.
Transition == phase \in {"draining", "finalizers", "sweeping", "results", "flushing"} \/ Stopped

Ended == {"succeeded", "failed", "cancelled"}

CanExecute == Open /\ ~Transition /\ pc = "idle"

CanInterrupt ==
    /\ ~disposed /\ ~Stopped
    /\ page.submitting \/ (page.owns /\ page.ref # None)

\* _execution_request_is_current, but for the context, which is being resolved,
\* is unavailable or is not the draft's at any time: a run may be refused anyway.
IsCurrent ==
    /\ ~stale /\ cancelling # "met" /\ pc # "idle"
    /\ lock # "cancel" /\ "cancel" \notin want
    /\ Open /\ ~Transition

Fault == faults < MaxFaults /\ faults' = faults + 1 /\ UNCHANGED changes
Change == changes < MaxChanges /\ changes' = changes + 1 /\ UNCHANGED faults

\* The text and the pane state of a provider's error.
Failed(p) == [p EXCEPT !.pane = "error", !.error = TRUE]

\* _reset_execution_state.
Reset(p) == [p EXCEPT !.ref = None, !.owns = FALSE, !.state = "none", !.submitting = FALSE,
                      !.pane = "empty", !.error = FALSE, !.shown = None]

\* _retain_cleanup.  Which refs are the oldest is left open.
Retain(e) ==
    LET refs == pending \cup {e}
    IN \E kept \in SUBSET refs:
          /\ e \in kept
          /\ IF Cardinality(refs) > MaxPending THEN Cardinality(kept) = MaxPending
             ELSE kept = refs
          /\ pending' = kept /\ abandoned' = abandoned \cup (refs \ kept)

\* _stop_retained_ref, once the answer is there.
Settle(e, a) ==
    /\ pending' = IF a \in {"ok", "denied"} THEN pending \ {e} ELSE pending
    /\ abandoned' = IF a = "denied" THEN abandoned \cup {e} ELSE abandoned

\* AthenaClient._retire_app_started_query.
Retire(e) == [client EXCEPT !.active = @ \ {e}, !.retired = @ \cup {e}]
-----------------------------------------------------------------------------
\* AthenaClient.stop_query: a caller joins the stop that runs, begins one, or
\* is refused because the client does not hold the execution for active.
Ask(w, e) ==
    /\ asked' = [asked EXCEPT ![w] = e]
    /\ answer' = [answer EXCEPT
         ![w] = IF e \in client.stops \/ e \in client.active THEN "none" ELSE "error"]
    /\ client' = IF e \in client.active /\ e \notin client.stops
                 THEN [client EXCEPT !.active = @ \ {e}, !.stops = @ \cup {e}]
                 ELSE client

Answered(w, e, a) == asked[w] = e /\ e # None /\ answer[w] = a /\ a # "none"

\* The caller goes on; a cancelled one leaves the client's task alone.
Hear(w) ==
    /\ asked' = [asked EXCEPT ![w] = None] /\ answer' = [answer EXCEPT ![w] = "none"]
    /\ UNCHANGED client

Tell(e, a) ==
    /\ answer' = [w \in Callers |-> IF asked[w] = e /\ answer[w] = "none" THEN a ELSE answer[w]]
    /\ UNCHANGED asked

Cut(e) == remote' = [remote EXCEPT ![e] = IF @ = "running" THEN "over" ELSE @]

\* _dispatch_stop_query returns.
StopDone(e) ==
    /\ e \in client.stops
    /\ Cut(e)
    /\ client' = [Retire(e) EXCEPT !.stops = @ \ {e}]
    /\ Tell(e, "ok")
    /\ UNCHANGED <<task, request, tokens, page, cleanup, lifecycle, ending, bounds>>

\* The client holds it for active again, if it has not seen it end.
ActiveAgain(e) ==
    [client EXCEPT !.stops = @ \ {e}, !.active = IF e \in client.retired THEN @ ELSE @ \cup {e}]

\* It raises; the request may have reached Athena all the same.
StopFails(e) ==
    /\ e \in client.stops /\ Fault
    /\ client' = ActiveAgain(e)
    /\ \/ Tell(e, "denied") /\ UNCHANGED remote
       \/ Tell(e, "error") /\ (Cut(e) \/ UNCHANGED remote)
    /\ UNCHANGED <<task, request, tokens, page, cleanup, lifecycle, ending>>
-----------------------------------------------------------------------------
\* Run: the command's delegate begins, up to the check of the draft.
Execute ==
    /\ CanExecute /\ run < MaxRuns
    /\ run' = run + 1 /\ pc' = "preflight" /\ cancelling' = "no" /\ stale' = FALSE
    /\ UNCHANGED <<request, tokens, page, cleanup, lifecycle, ending, remote, stopping, bounds>>

\* The command and its worker cancel the task at an await of its own.
NotMet == cancelling # "met"

Goto(label) == pc' = label /\ UNCHANGED <<run, cancelling, stale>>
EndRun == pc' = "idle" /\ cancelling' = "no" /\ UNCHANGED <<run, stale>>

\* A bug: each run makes a token of its own.
NewToken == run
Token == IF intent = None THEN run ELSE intent

\* _draft_preflight and _validate accept the run, and it gets its token: the
\* one of the last attempt if nothing changed since.
Preflight ==
    /\ pc = "preflight" /\ NotMet
    /\ \/ EndRun /\ UNCHANGED <<token, intent>>
       \/ /\ ~stale
          /\ intent' = Token /\ token' = [token EXCEPT ![run] = Token]
          /\ Goto("queued")
    /\ UNCHANGED <<start, fin, given, page, cleanup, lifecycle, ending, remote, stopping, bounds>>

\* _retire_owned_query_before_run takes the lock.
EnterRetire ==
    /\ pc = "queued" /\ NotMet /\ lock = "free"
    /\ \/ EndRun /\ UNCHANGED <<lock, stopping>>
       \/ /\ IsCurrent /\ lock' = "run"
          /\ IF page.owns /\ page.ref # None
             THEN Ask(Body, page.ref) /\ Goto("retiring")
             ELSE Goto("yielding") /\ UNCHANGED stopping
    /\ UNCHANGED <<request, tokens, page, cleanup, want, phase, todo, ending, remote, bounds>>

\* A bug: a query whose stop failed is replaced all the same.
ReplaceAnyway(a) == TRUE
MayReplace(a) == a = "ok"

Retired ==
    /\ pc = "retiring" /\ NotMet
    /\ \E a \in {"ok", "denied", "error"}:
          /\ Answered(Body, page.ref, a)
          /\ IF MayReplace(a)
             THEN /\ page' = [page EXCEPT !.owns = FALSE, !.state = "cancelled"]
                  /\ Goto("yielding") /\ UNCHANGED lock
             ELSE page' = Failed(page) /\ EndRun /\ lock' = "free"
    /\ Hear(Body)
    /\ UNCHANGED <<request, tokens, cleanup, want, phase, todo, ending, remote, bounds>>

\* After sleep(0) the lock is released and the submission task is made.
Yielded ==
    /\ pc = "yielding" /\ NotMet
    /\ lock' = "free"
    /\ \/ EndRun /\ UNCHANGED <<page, start>>
       \/ /\ IsCurrent
          /\ page' = [Reset(page) EXCEPT !.submitting = TRUE, !.pane = "loading"]
          /\ start' = [start EXCEPT ![run] = "scheduled"]
          /\ Goto("starting")
    /\ UNCHANGED <<token, fin, tokens, cleanup, want, phase, todo, ending, remote, stopping, bounds>>

\* submit_current_query begins.  It withdraws itself if its run is not current any
\* more, and is refused by a ValidationError if the reuse option became unavailable.
Dispatch(r) ==
    /\ start[r] = "scheduled"
    /\ \E s \in {"sent", "refused", "withdrawn"}:
          /\ s # "withdrawn" => r = run /\ IsCurrent
          /\ start' = [start EXCEPT ![r] = s]
    /\ UNCHANGED <<task, token, fin, tokens, page, cleanup, lifecycle, ending, remote, stopping, bounds>>

\* Athena takes the statement, or knows the execution of a repeated token again.
Accept(r) == remote' = [remote EXCEPT ![token[r]] = IF @ = "none" THEN "running" ELSE @]

\* AthenaClient.start_query returns.
StartAnswered(r) ==
    /\ start[r] = "sent"
    /\ start' = [start EXCEPT ![r] = "answered"]
    /\ Accept(r)
    /\ client' = IF token[r] \in client.retired THEN client
                 ELSE [client EXCEPT !.active = @ \cup {token[r]}]
    /\ UNCHANGED <<task, token, fin, tokens, page, cleanup, lifecycle, ending, asked, answer, bounds>>

\* It raises: Athena refused the statement, or its answer was lost.
StartFails(r) ==
    /\ start[r] = "sent" /\ Fault
    /\ start' = [start EXCEPT ![r] = "failed"]
    /\ Accept(r) \/ UNCHANGED remote
    /\ UNCHANGED <<task, token, fin, tokens, page, cleanup, lifecycle, ending, stopping>>
-----------------------------------------------------------------------------
Take(r) == start' = [start EXCEPT ![r] = "taken"]

\* _stop_stale_submission leaves the stop to a transition that runs.
LeftToTransition == Transition /\ ~disposed

\* The run has its execution, unless it was superseded meanwhile.
Started ==
    /\ pc = "starting" /\ NotMet /\ start[run] = "answered"
    /\ Take(run)
    /\ \/ /\ stale
          /\ Retain(token[run])
          /\ IF LeftToTransition THEN EndRun /\ UNCHANGED stopping
             ELSE Goto("stale") /\ Ask(Body, token[run])
          /\ UNCHANGED <<intent, page>>
       \/ /\ ~stale
          /\ intent' = IF intent = token[run] THEN None ELSE intent
          /\ page' = [page EXCEPT !.ref = token[run], !.owns = TRUE, !.state = "active",
                                  !.submitting = FALSE, !.pane = "idle"]
          /\ Goto("polling")
          /\ UNCHANGED <<cleanup, stopping>>
    /\ UNCHANGED <<token, fin, given, lifecycle, ending, remote, bounds>>

Quiet(p) == IF stale THEN p ELSE [p EXCEPT !.submitting = FALSE]

StartRaised ==
    /\ pc = "starting" /\ NotMet /\ start[run] \in {"failed", "refused"}
    /\ page' = IF stale THEN page ELSE Failed(Quiet(page))
    /\ EndRun
    /\ UNCHANGED <<request, tokens, cleanup, lifecycle, ending, remote, stopping, bounds>>

StaleStopped ==
    /\ pc = "stale" /\ NotMet
    /\ \E a \in {"ok", "denied", "error"}: Answered(Body, token[run], a) /\ Settle(token[run], a)
    /\ Hear(Body) /\ EndRun
    /\ UNCHANGED <<request, tokens, page, lifecycle, ending, remote, bounds>>

\* A bug: every detail clears the error, not only that of a settled execution.
ClearError(p) == [p EXCEPT !.pane = "idle", !.error = FALSE]

\* _apply_detail, of an execution that runs on.
Tick(p) == [p EXCEPT !.pane = "idle", !.state = "active"]

\* GetQueryExecution returns to a run that is current or not.
Polled ==
    /\ pc = "polling" /\ NotMet
    /\ \/ stale /\ EndRun /\ UNCHANGED page
       \/ ~stale /\ remote[page.ref] = "running" /\ page' = Tick(page) /\ UNCHANGED task
       \/ /\ ~stale /\ remote[page.ref] = "over"
          /\ \E s \in Ended:
                /\ page' = [page EXCEPT
                     !.state = s, !.pane = "idle", !.error = FALSE, !.owns = FALSE,
                     !.shown = IF s = "succeeded" THEN page.ref ELSE @]
                /\ IF s = "succeeded" THEN Goto("loading") ELSE EndRun
    /\ client' = IF remote[token[run]] = "over" THEN Retire(token[run]) ELSE client
    /\ UNCHANGED <<request, tokens, cleanup, lifecycle, ending, remote, asked, answer, bounds>>

\* It raises, or it answers for another context.
PollFails ==
    /\ pc = "polling" /\ NotMet /\ Fault
    /\ \/ page' = (IF stale THEN page ELSE Failed(page)) /\ EndRun
          /\ UNCHANGED <<cleanup, stopping>>
       \/ /\ ~stale
          /\ Retain(page.ref) /\ Ask(Body, page.ref)
          /\ Goto("rejecting") /\ UNCHANGED page
    /\ UNCHANGED <<request, tokens, lifecycle, ending, remote>>

\* The end of _reject_out_of_context, with _apply_context_error.
Rejected ==
    /\ pc = "rejecting" /\ NotMet
    /\ \E a \in {"ok", "denied", "error"}:
          /\ Answered(Body, token[run], a) /\ Settle(token[run], a)
          /\ page' = IF stale THEN page
                     ELSE [Failed(page) EXCEPT !.owns = a # "ok", !.state = "none",
                             !.submitting = FALSE, !.ref = IF a = "ok" THEN None ELSE token[run]]
    /\ Hear(Body) /\ EndRun
    /\ UNCHANGED <<request, tokens, lifecycle, ending, remote, bounds>>

\* The first page of the results is there, or failed to load.
Loaded ==
    /\ pc = "loading" /\ NotMet /\ EndRun
    /\ UNCHANGED <<request, tokens, page, cleanup, lifecycle, ending, remote, stopping, bounds>>
-----------------------------------------------------------------------------
\* The scheduled cancellation reaches the task.  A second one may be ignored.
Deliver ==
    /\ cancelling = "due" /\ pc # "idle"
    /\ \/ cancelling' = "met"
       \/ pc = "finalizing" /\ cancelling' = "no"
    /\ UNCHANGED <<run, pc, stale, request, tokens, page, cleanup, lifecycle, ending, remote, stopping, bounds>>

\* The worker that awaits the command is cancelled, or an observer cancels it.
Interrupt ==
    /\ pc # "idle" /\ cancelling # "met" /\ cancelling' = "met"
    /\ Change
    /\ UNCHANGED <<run, pc, stale, request, tokens, page, cleanup, lifecycle, ending, remote, stopping>>

\* CancelledError at the start, the task's own or that of a submission that was
\* withdrawn: the submission is left to a finalizer.
Detach ==
    /\ pc = "starting"
    /\ cancelling = "met" \/ start[run] = "withdrawn"
    /\ fin' = [fin EXCEPT ![run] = "waiting"]
    /\ pc' = "finalizing" /\ cancelling' = IF cancelling = "met" THEN "no" ELSE cancelling
    /\ UNCHANGED <<run, stale, start, token, tokens, page, cleanup, lifecycle, ending, remote, stopping, bounds>>

\* A bug: the lock is released by hand, at the end of what it guards.
LockKept == lock
LockAfterAbort == IF lock = "run" THEN "free" ELSE lock

\* CancelledError anywhere else.
Abort ==
    /\ pc \notin {"idle", "starting"} /\ cancelling = "met"
    /\ EndRun /\ Hear(Body)
    /\ page' = IF pc = "finalizing" THEN Quiet(page) ELSE page
    /\ lock' = LockAfterAbort
    /\ UNCHANGED <<request, tokens, cleanup, want, phase, todo, ending, remote, bounds>>

Finalized ==
    /\ pc = "finalizing" /\ NotMet /\ fin[run] = "done"
    /\ EndRun /\ page' = Quiet(page)
    /\ UNCHANGED <<request, tokens, cleanup, lifecycle, ending, remote, stopping, bounds>>

Finish(r, label) == fin' = [fin EXCEPT ![r] = label]

\* _finalize_cancelled_submission: the start it awaits is over.
Finalize(r) ==
    /\ fin[r] = "waiting"
    /\ \/ /\ start[r] \in {"failed", "refused", "withdrawn"} /\ Finish(r, "done")
          /\ UNCHANGED <<start, cleanup, stopping>>
       \/ /\ start[r] = "answered" /\ Take(r)
          /\ Retain(token[r])
          /\ IF LeftToTransition THEN Finish(r, "done") /\ UNCHANGED stopping
             ELSE Finish(r, "stopping") /\ Ask(r, token[r])
    /\ UNCHANGED <<task, token, tokens, page, lifecycle, ending, remote, bounds>>

FinalizerStopped(r) ==
    /\ fin[r] = "stopping" /\ Finish(r, "done")
    /\ \E a \in {"ok", "denied", "error"}: Answered(r, token[r], a) /\ Settle(token[r], a)
    /\ Hear(r)
    /\ UNCHANGED <<task, start, token, tokens, page, lifecycle, ending, remote, bounds>>
-----------------------------------------------------------------------------
\* A bug: a transition does not cancel the run that it waits for.
NotDue == cancelling' = cancelling
Due == cancelling' = (IF pc = "idle" \/ cancelling = "met" THEN cancelling ELSE "due")

Told(e) == \E r \in Runs: token[r] = e /\ start[r] \in {"answered", "taken"}

Forget == intent' = None /\ given' = given \cup {e \in {intent} \ {None}: ~Told(e)}

\* cancel().
AskCancel ==
    /\ CanInterrupt /\ lock # "cancel" /\ want' = want \cup {"cancel"} /\ want' # want
    /\ Change
    /\ UNCHANGED <<task, request, tokens, page, cleanup, lock, phase, todo, ending, remote, stopping>>

\* A bug: a run that is cancelled before it has an execution leaves its spinner.
KeepPane(p) == p.pane
PaneAfterCancel(p) == IF p.ref = None THEN "empty" ELSE p.pane

Supersede == stale' = TRUE /\ UNCHANGED <<run, pc>>

\* The query is cancelled, and the task is waited for.
BeginCancel ==
    /\ Forget /\ Supersede /\ Due
    /\ page' = [page EXCEPT !.owns = FALSE, !.state = "cancelled", !.submitting = FALSE,
                            !.shown = None, !.pane = PaneAfterCancel(page)]
    /\ lock' = "cancel" /\ phase' = "draining"

EnterCancel ==
    /\ "cancel" \in want /\ lock = "free" /\ want' = want \ {"cancel"}
    /\ \/ ~CanInterrupt
          /\ UNCHANGED <<task, tokens, page, lock, phase, stopping>>
       \/ /\ CanInterrupt /\ page.owns /\ page.ref # None
          /\ Ask(Holder, page.ref) /\ lock' = "cancel" /\ phase' = "stopping"
          /\ UNCHANGED <<task, tokens, page>>
       \/ /\ CanInterrupt /\ ~(page.owns /\ page.ref # None)
          /\ BeginCancel
          /\ UNCHANGED stopping
    /\ UNCHANGED <<request, cleanup, todo, ending, remote, bounds>>

CancelAnswered ==
    /\ phase = "stopping" /\ want' = want
    /\ \/ Answered(Holder, page.ref, "ok") /\ BeginCancel
       \/ /\ \E a \in {"denied", "error"}: Answered(Holder, page.ref, a)
          /\ page' = Failed(page) /\ lock' = "free" /\ phase' = "none"
          /\ UNCHANGED <<task, tokens>>
    /\ Hear(Holder)
    /\ UNCHANGED <<request, cleanup, todo, ending, remote, bounds>>

\* Its worker is cancelled, or its command disposed of, before the transition.
CancelInterrupted ==
    /\ \/ /\ "cancel" \in want /\ want' = want \ {"cancel"}
          /\ UNCHANGED <<lock, phase, stopping>>
       \/ /\ phase = "stopping" /\ lock' = "free" /\ phase' = "none"
          /\ Hear(Holder) /\ UNCHANGED want
    /\ UNCHANGED <<task, request, tokens, page, cleanup, todo, ending, remote, bounds>>

\* set_context().
AskContext ==
    /\ Open /\ "context" \notin want /\ lock # "context"
    /\ want' = want \cup {"context"}
    /\ Change
    /\ UNCHANGED <<task, request, tokens, page, cleanup, lock, phase, todo, ending, remote, stopping>>

\* A bug: the query is forgotten with its context.
LetGo == UNCHANGED cleanup
RetainOwned == IF page.owns /\ page.ref # None THEN Retain(page.ref) ELSE UNCHANGED cleanup

EnterContext ==
    /\ "context" \in want /\ lock = "free" /\ want' = want \ {"context"}
    /\ IF Open
       THEN /\ RetainOwned /\ Forget /\ Supersede /\ Due
            /\ page' = Reset(page)
            /\ lock' = "context" /\ phase' = "draining"
       ELSE UNCHANGED <<task, tokens, page, cleanup, lock, phase>>
    /\ UNCHANGED <<request, todo, ending, remote, stopping, bounds>>

\* The page closes the intake, and then shuts the query down.
CloseIntake ==
    /\ Open /\ life' = "closed"
    /\ UNCHANGED <<task, request, tokens, page, cleanup, lifecycle, disposed, remote, stopping, bounds>>

EnterShutdown ==
    /\ life = "closed" /\ lock = "free" /\ life' = "stopped"
    /\ RetainOwned /\ Supersede /\ Due
    /\ page' = [page EXCEPT !.owns = FALSE, !.shown = None]
    /\ lock' = "shutdown" /\ phase' = "draining"
    /\ UNCHANGED <<request, tokens, want, todo, disposed, remote, stopping, bounds>>

\* _drain_execution_task, and for a shutdown _drain_submission_finalizers; the
\* refs to be stopped are those that are pending then.
Drained ==
    /\ phase = "draining" /\ pc = "idle"
    /\ IF lock = "shutdown" THEN phase' = "finalizers" /\ UNCHANGED todo
       ELSE phase' = "sweeping" /\ todo' = pending
    /\ UNCHANGED <<task, request, tokens, page, cleanup, lock, want, ending, remote, stopping, bounds>>

\* A bug: shutdown does not wait for the finalizers.
AnyFinalizers == TRUE
NoFinalizers == \A r \in Runs: fin[r] \in {"none", "done"}

FinalizersDrained ==
    /\ phase = "finalizers" /\ NoFinalizers
    /\ phase' = "sweeping" /\ todo' = pending
    /\ UNCHANGED <<task, request, tokens, page, cleanup, lock, want, ending, remote, stopping, bounds>>

\* _stop_pending_cleanup.
Sweep(e) ==
    /\ phase = "sweeping" /\ asked[Holder] = None /\ e \in todo
    /\ todo' = todo \ {e} /\ Ask(Holder, e)
    /\ UNCHANGED <<task, request, tokens, page, cleanup, lock, want, phase, ending, remote, bounds>>

Swept ==
    /\ phase = "sweeping"
    /\ \E a \in {"ok", "denied", "error"}:
          /\ Answered(Holder, asked[Holder], a) /\ Settle(asked[Holder], a)
          /\ page' = IF a = "ok" \/ lock = "context" THEN page ELSE Failed(page)
    /\ Hear(Holder)
    /\ UNCHANGED <<task, request, tokens, lifecycle, ending, remote, bounds>>

AllSwept == phase = "sweeping" /\ asked[Holder] = None /\ todo = {}

\* A shutdown goes on to await the results' workers, whose errors are gathered,
CloseResults ==
    /\ AllSwept /\ lock = "shutdown" /\ phase' = "results"
    /\ UNCHANGED <<task, request, tokens, page, cleanup, lock, want, todo, ending, remote, stopping, bounds>>

\* and then the flush of the draft, which has a deadline.
ResultsClosed ==
    /\ phase = "results" /\ phase' = "flushing"
    /\ page' = [page EXCEPT !.submitting = FALSE]
    /\ UNCHANGED <<task, request, tokens, cleanup, lock, want, todo, ending, remote, stopping, bounds>>

\* The lock is released; a shutdown is complete.
TransitionOver ==
    /\ \/ AllSwept /\ lock # "shutdown" /\ UNCHANGED life
       \/ phase = "flushing" /\ life' = "complete"
    /\ lock' = "free" /\ phase' = "none"
    /\ UNCHANGED <<task, request, tokens, page, cleanup, want, todo, disposed, remote, stopping, bounds>>

\* The host disposes of an outgoing page, whether its shutdown failed or not.
\* The command's disposal cancels the run; nothing is stopped at Athena.
Dispose ==
    /\ life # "open" /\ ~disposed /\ disposed' = TRUE
    /\ Supersede /\ Due
    /\ UNCHANGED <<request, tokens, page, cleanup, lifecycle, life, remote, stopping, bounds>>
-----------------------------------------------------------------------------
\* The statement is edited or the reuse options change.
Edit ==
    /\ Open /\ intent # None /\ Forget
    /\ Change
    /\ UNCHANGED <<task, request, page, cleanup, lifecycle, ending, remote, stopping>>

\* _snapshot_export_is_busy.
Busy == Transition \/ pc # "idle" \/ page.submitting \/ page.owns

\* restore_snapshot, of a query that succeeded: the host restores a page that it
\* has just made.
Restore ==
    /\ Open /\ lock = "free" /\ ~Busy /\ run = 0
    /\ page' = [Reset(page) EXCEPT !.ref = Old, !.state = "succeeded", !.pane = "idle", !.shown = Old]
    /\ Change
    /\ UNCHANGED <<task, request, tokens, cleanup, lifecycle, ending, remote, stopping>>

\* Results of a row of the history replace those of the query.
ShowHistory ==
    /\ Open /\ page.shown # Old /\ page' = [page EXCEPT !.shown = Old]
    /\ Change
    /\ UNCHANGED <<task, request, tokens, cleanup, lifecycle, ending, remote, stopping>>

\* The history's page of details passes through the same client.
HistorySees(e) ==
    /\ remote[e] = "over" /\ e \notin client.retired
    /\ e \in client.active \cup client.stops
    /\ client' = Retire(e)
    /\ UNCHANGED <<task, request, tokens, page, cleanup, lifecycle, ending, remote, asked, answer, bounds>>

\* An execution ends by itself.
RemoteEnds(e) ==
    /\ remote[e] = "running"
    /\ Cut(e)
    /\ UNCHANGED <<task, request, tokens, page, cleanup, lifecycle, ending, stopping, bounds>>

RunStep ==
    \/ Preflight \/ EnterRetire \/ Retired \/ Yielded \/ Started \/ StartRaised \/ StaleStopped
    \/ Polled \/ PollFails \/ Rejected \/ Loaded \/ Detach \/ Abort \/ Finalized

RequestStep(r) ==
    Dispatch(r) \/ StartAnswered(r) \/ StartFails(r) \/ Finalize(r) \/ FinalizerStopped(r)

LifecycleStep ==
    \/ EnterCancel \/ CancelAnswered \/ EnterContext \/ Drained \/ FinalizersDrained
    \/ (\E e \in Runs: Sweep(e)) \/ Swept \/ CloseResults \/ ResultsClosed \/ TransitionOver

UserStep ==
    \/ Execute \/ AskCancel \/ AskContext \/ CloseIntake \/ Dispose \/ Edit
    \/ Restore \/ ShowHistory \/ Interrupt \/ CancelInterrupted

\* What goes on without the user: the loop resumes what is ready, and a request
\* to AWS ends, because it times out.
System ==
    \/ RunStep \/ Deliver \/ LifecycleStep \/ EnterShutdown
    \/ \E r \in Runs: RequestStep(r)
    \/ \E e \in Runs: StopDone(e) \/ StopFails(e)

Next ==
    \/ UserStep \/ System
    \/ \E e \in Runs: HistorySees(e) \/ RemoteEnds(e)

\* The weakest that the code needs: while one of its steps is possible the loop
\* takes some.
Fairness == WF_vars(System)

Spec == Init /\ [][Next]_vars /\ Fairness
-----------------------------------------------------------------------------
PageOK ==
    page \in [ref: 0 .. Old, owns: BOOLEAN, state: {"none", "active"} \cup Ended,
              submitting: BOOLEAN, pane: {"empty", "loading", "idle", "error"}, error: BOOLEAN,
              shown: 0 .. Old]

TaskOK ==
    /\ run \in 0 .. MaxRuns /\ cancelling \in {"no", "due", "met"} /\ stale \in BOOLEAN
    /\ pc \in {"idle", "preflight", "queued", "retiring", "yielding", "starting", "finalizing",
               "stale", "polling", "rejecting", "loading"}
    /\ start \in [Runs -> {"none", "scheduled", "refused", "withdrawn", "sent",
                           "answered", "failed", "taken"}]
    /\ token \in [Runs -> 0 .. MaxRuns] /\ fin \in [Runs -> {"none", "waiting", "stopping", "done"}]
    /\ intent \in 0 .. MaxRuns /\ given \subseteq Runs

StopsOK ==
    /\ pending \subseteq Runs /\ abandoned \subseteq Runs /\ todo \subseteq Runs
    /\ client \in [active: SUBSET Runs, retired: SUBSET Runs, stops: SUBSET Runs]
    /\ asked \in [Callers -> 0 .. MaxRuns] /\ answer \in [Callers -> {"none", "ok", "denied", "error"}]
    /\ remote \in [Runs -> {"none", "running", "over"}]

LifeOK ==
    /\ lock \in {"free", "run", "cancel", "context", "shutdown"}
    /\ lock = "run" <=> pc \in {"retiring", "yielding"}
    /\ want \subseteq {"cancel", "context"}
    /\ phase \in {"none", "stopping", "draining", "finalizers", "sweeping", "results", "flushing"}
    /\ life \in {"open", "closed", "stopped", "complete"} /\ disposed \in BOOLEAN

\* Every variable keeps its type, the run holds the lifecycle lock exactly while
\* it retires its predecessor.
TypeOK ==
    /\ PageOK /\ TaskOK /\ StopsOK /\ LifeOK
    /\ changes \in 0 .. MaxChanges /\ faults \in 0 .. MaxFaults
\* Run r has an answer in hand that it or its finalizer has yet to take.
InHand(e) ==
    \E r \in Runs: /\ token[r] = e /\ start[r] = "answered"
                  /\ \/ r = run /\ pc = "starting"
                     \/ fin[r] = "waiting"

\* An execution that runs and whose id reached the page is never forgotten:
\* the page owns it, it is retained for a stop, or its cleanup was given up
\* with a warning, whatever was cancelled, replaced or failed in between.
NoOrphan ==
    \A e \in Runs: remote[e] = "running" /\ Told(e) =>
        (page.owns /\ page.ref = e) \/ e \in pending \/ InHand(e) \/ e \in abandoned

\* After a shutdown in which no request failed nothing that the page started
\* goes on scanning, a start that was in flight included.
ShutdownStopsAll ==
    life = "complete" /\ faults = 0 => \A e \in Runs: remote[e] = "running" => e \in abandoned

\* An execution whose start was answered by nothing can still be reached: the
\* next Run repeats its token, unless the user changed something since.
LostStartsAreRetried ==
    \A e \in Runs: remote[e] = "running" /\ ~Told(e) => intent = e \/ e \in given

\* "A failed status read does not settle the remote execution": what the page
\* shows as cancelled is not running.
CancelledIsStopped ==
    page.state = "cancelled" /\ page.ref \in Runs => remote[page.ref] # "running"

\* _snapshot_structure_is_valid, for the fields of the model.
Exportable ==
    IF page.ref = None
    THEN /\ page.state \in {"none", "cancelled"} /\ page.shown \in {None, Old}
         /\ page.pane # "loading" /\ (page.pane = "error") = page.error
    ELSE /\ page.state \in Ended
         /\ IF page.pane # "idle" \/ page.error
            THEN page.state = "cancelled" /\ page.error /\ page.pane = "error" /\ page.shown = None
            ELSE IF page.state = "succeeded" THEN page.shown \in {page.ref, Old}
            ELSE page.shown \in {None, Old}

\* A page whose execution ended and that shows no error can be handed over to
\* another service, whenever the execution was stopped.  (An error that arrives
\* after the end, from a stop that failed late, spoils it: see the README.)
SettledIsExportable == Open /\ ~Busy /\ page.state \in Ended /\ ~page.error => Exportable

\* The refusal of a stop stays on the page as long as the query runs on.
RefusalStays ==
    [][page.owns /\ page.error /\ page'.owns /\ page'.ref = page.ref /\ remote[page.ref] = "running"
       => page'.error]_vars

\* A cancel, a context change or a shutdown that has begun waits for its run, its
\* finalizers and its stops, and completes.
TransitionsEnd == phase = "draining" ~> lock = "free"
=============================================================================
