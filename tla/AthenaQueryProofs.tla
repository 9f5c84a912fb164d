------------------------- MODULE AthenaQueryProofs -------------------------
(***************************************************************************)
(* What the run checks of one query page, for any number of runs, of refs  *)
(* that may be retained, of changes and of failed requests.                *)
(*                                                                         *)
(* The invariant is built in layers, each inductive given those before it: *)
(* where the run and the holder of the lock are (Typed); who waits for a   *)
(* start (Awaited) and what the page owns meanwhile (Handover); that what  *)
(* is known of an execution is true of Athena (Known); that a token which  *)
(* was sent is remembered (Remembered); that the fields of the page agree  *)
(* (Shows); and how a shutdown drains what it then stops (Ending).         *)
(***************************************************************************)
EXTENDS AthenaQuery, TLAPS

\* The lock, the phase of its holder and the shutdown go together.
Locked ==
    /\ phase = "none" <=> lock \in {"free", "run"}
    /\ phase = "stopping" => lock = "cancel"
    /\ phase \in {"finalizers", "results", "flushing"} => lock = "shutdown"
    /\ lock = "shutdown" <=> life = "stopped"
    /\ life = "complete" => lock = "free"

\* A run that is under way has a number, and from its preflight on a token; the
\* later ones have nothing yet.
Numbered ==
    /\ pc # "idle" => run \in Runs
    /\ pc \notin {"idle", "preflight"} => token[run] \in Runs
    /\ pc = "preflight" => token[run] = None
    /\ pc \in {"preflight", "queued", "retiring", "yielding"} =>
          start[run] = "none" /\ fin[run] = "none"
    /\ \A r \in Runs: start[r] # "none" => token[r] \in Runs
    /\ \A r \in Runs: r > run => token[r] = None /\ start[r] = "none" /\ fin[r] = "none"

\* What the page owns is an execution of its own, and a run that still counts
\* owns the one that it polls.
Owned ==
    /\ page.owns => page.ref \in Runs
    /\ pc \in {"polling", "rejecting"} /\ ~stale =>
          page.owns /\ page.ref = token[run] /\ page.state = "active"

Typed == TypeOK /\ Locked /\ Numbered /\ Owned

\* A start that is under way has a run or a finalizer that awaits it, and a run
\* that has its execution has taken the answer.
Awaited ==
    /\ \A r \in Runs: start[r] \in {"scheduled", "sent", "answered"} =>
          (r = run /\ pc = "starting") \/ fin[r] = "waiting"
    /\ pc \in {"stale", "polling", "rejecting", "loading"} => start[run] = "taken"
    /\ \A r \in Runs: fin[r] = "stopping" => start[r] = "taken"

\* A run stops the query that the page owns before it starts its own, which the
\* page owns once it has its id.
Handover ==
    /\ pc = "retiring" => page.owns
    /\ pc \in {"yielding", "starting"} => ~page.owns
    /\ pc = "starting" => page.ref = None
    /\ page.submitting => page.ref = None
    /\ page.ref \in Runs => Told(page.ref)

\* An execution whose id is known, or that the client has recorded, exists; one
\* that it has retired, or whose stop was answered with "ok", has ended.
KnownTold == \A e \in Runs: Told(e) => remote[e] # "none"
KnownClient ==
    /\ \A e \in client.active \cup client.stops: remote[e] # "none"
    /\ \A e \in client.retired: remote[e] = "over"
KnownRefs == \A e \in pending \cup todo: Told(e)
KnownAnswers ==
    \A w \in Callers: answer[w] = "ok" => asked[w] \in Runs /\ remote[asked[w]] = "over"

Known == KnownTold /\ KnownClient /\ KnownRefs /\ KnownAnswers

CancelledIsOver == page.state = "cancelled" /\ page.ref \in Runs => remote[page.ref] = "over"

\* The token of a run is the next run's too, unless its execution became known
\* or the user changed something; and nothing but a run starts an execution.
Kept == \A r \in Runs: token[r] # None => intent = token[r] \/ token[r] \in given \/ Told(token[r])
Sourced == \A e \in Runs: remote[e] # "none" => \E r \in Runs: token[r] = e

Remembered == Kept /\ Sourced

\* The pane, the state and the results that the page shows belong together.
PaneTrue ==
    /\ page.pane = "error" => page.error
    /\ page.pane = "loading" => page.ref = None /\ page.state = "none"
    /\ page.ref # None => page.pane \in {"idle", "error"}
StateTrue ==
    /\ page.ref = None => page.state \in {"none", "cancelled"}
    /\ page.state \in {"succeeded", "failed"} => ~page.owns
ShownTrue ==
    /\ page.shown \in {None, Old} \/ (page.state = "succeeded" /\ page.shown = page.ref)
    /\ Open /\ page.state = "succeeded" => page.shown \in {page.ref, Old}

Shows == PaneTrue /\ StateTrue /\ ShownTrue

\* A shutdown supersedes the run and waits for it and for the finalizers.
Superseded == Stopped => stale /\ ~page.owns
Drains ==
    /\ phase = "finalizers" => pc = "idle"
    /\ life = "complete" \/ (lock = "shutdown" /\ phase \in {"sweeping", "results", "flushing"}) =>
          pc = "idle" /\ NoFinalizers

\* While no request has failed, an execution that runs has an id that the client
\* can stop, and a stop is refused only if there is nothing left to stop.
Running == faults = 0 => \A e \in Runs: remote[e] = "running" => Told(e)
Found ==
    faults = 0 => \A e \in Runs: Told(e) => e \in client.active \cup client.stops \cup client.retired
Refused ==
    faults = 0 => \A w \in Callers:
        /\ answer[w] # "denied"
        /\ answer[w] = "error" => asked[w] \in Runs /\ remote[asked[w]] = "over"

\* The refs that a shutdown has yet to stop are among those that it goes through,
\* and afterwards there are none.
Sweeps ==
    /\ lock = "shutdown" /\ phase = "sweeping" /\ faults = 0 =>
          \A e \in pending: remote[e] = "running" => e \in todo \/ asked[Holder] = e
    /\ phase \in {"results", "flushing"} /\ faults = 0 => \A e \in pending: remote[e] # "running"

Ending == Superseded /\ Drains /\ Running /\ Found /\ Refused /\ Sweeps

QueryInv ==
    /\ Typed /\ Awaited /\ Handover /\ Known /\ CancelledIsOver /\ NoOrphan /\ Remembered
    /\ Shows /\ Ending /\ ShutdownStopsAll
RefsOK == pending \subseteq Runs /\ abandoned \subseteq Runs /\ todo \subseteq Runs
ClientOK == client \in [active: SUBSET Runs, retired: SUBSET Runs, stops: SUBSET Runs]
AnswersOK ==
    /\ asked \in [Callers -> 0 .. MaxRuns]
    /\ answer \in [Callers -> {"none", "ok", "denied", "error"}]
RemoteOK == remote \in [Runs -> {"none", "running", "over"}]
-----------------------------------------------------------------------------
\* The numbers that stand for executions and for callers.
LEMMA Refs ==
  /\ None \in 0 .. Old /\ Old \in 0 .. Old /\ Runs \subseteq 0 .. Old
  /\ None \in 0 .. MaxRuns /\ Runs \subseteq 0 .. MaxRuns
  /\ None \notin Runs /\ Old \notin Runs /\ Old # None
  BY BoundsAreNatural DEF None, Old, Runs

LEMMA CallersAre == Body \in Callers /\ Holder \in Callers /\ Runs \subseteq Callers
  BY BoundsAreNatural DEF Body, Holder, Callers, Runs

LEMMA TokenOfRun ==
  ASSUME Typed, pc \notin {"idle", "preflight"}
  PROVE  token[run] \in 0 .. Old /\ token[run] \in Runs
  BY Refs DEF Typed, Numbered

\* _retain_cleanup forgets nothing: the new ref is kept, and what makes room for
\* it is given up with a warning.
LEMMA RetainKeeps ==
  ASSUME NEW e, Retain(e)
  PROVE  /\ e \in pending' /\ pending' \subseteq pending \cup {e}
         /\ abandoned' = abandoned \cup ((pending \cup {e}) \ pending')
  BY DEF Retain

\* cancel keeps the ref, and owns it no more.
LEMMA CancelPage ==
  ASSUME PageOK, BeginCancel
  PROVE  /\ PageOK' /\ page'.ref = page.ref /\ page'.owns = FALSE /\ page'.state = "cancelled"
         /\ page'.submitting = FALSE
  <1>1. PaneAfterCancel(page) \in {"empty", "loading", "idle", "error"}
    BY DEF PageOK, PaneAfterCancel
  <1>2. page' = [page EXCEPT !.owns = FALSE, !.state = "cancelled", !.submitting = FALSE,
                             !.shown = None, !.pane = PaneAfterCancel(page)]
    BY DEF BeginCancel
  <1>3. PageOK'
    BY <1>1, <1>2, Refs DEF PageOK, Ended
  <1> QED
    BY <1>2, <1>3 DEF PageOK

LEMMA ForgetTyped ==
  ASSUME TaskOK, Forget
  PROVE  intent' \in 0 .. MaxRuns /\ given' \subseteq Runs
  <1>1. intent # None => intent \in Runs
    BY BoundsAreNatural DEF TaskOK, None, Runs
  <1> QED
    BY <1>1, Refs DEF TaskOK, Forget

\* stop_query moves an execution from the active ones to the stops.
LEMMA AskClient ==
  ASSUME client \in [active: SUBSET Runs, retired: SUBSET Runs, stops: SUBSET Runs],
         NEW w, NEW e \in Runs, Ask(w, e)
  PROVE  /\ client' \in [active: SUBSET Runs, retired: SUBSET Runs, stops: SUBSET Runs]
         /\ client'.retired = client.retired
         /\ client'.active \cup client'.stops = client.active \cup client.stops
  BY DEF Ask

LEMMA AnsweredRef ==
  ASSUME StopsOK, NEW w \in Callers, NEW e, NEW a, Answered(w, e, a)
  PROVE  e \in Runs
  BY BoundsAreNatural DEF StopsOK, Answered, Runs, None

\* What stop_query answers with "ok" has ended.
LEMMA OkIsOver ==
  ASSUME KnownAnswers, NEW w \in Callers, NEW e, Answered(w, e, "ok")
  PROVE  e \in Runs /\ remote[e] = "over"
  BY DEF KnownAnswers, Answered

\* Who writes what.  The lemmas below take up the actions that write the variables
\* that they are about.

Writers ==
    /\ UNCHANGED run \/ Execute
    /\ UNCHANGED pc \/ Execute \/ Preflight \/ EnterRetire \/ Retired \/ Yielded \/ Started \/
           StartRaised \/ StaleStopped \/ Polled \/ PollFails \/ Rejected \/ Loaded \/ Detach \/
           Abort \/ Finalized
    /\ UNCHANGED cancelling \/ Execute \/ Preflight \/ EnterRetire \/ Retired \/ Yielded \/
           Started \/ StartRaised \/ StaleStopped \/ Polled \/ PollFails \/ Rejected \/ Loaded
           \/ Detach \/ Abort \/ Finalized \/ Deliver \/ EnterCancel \/ CancelAnswered \/
           EnterContext \/ EnterShutdown \/ Dispose \/ Interrupt
    /\ UNCHANGED stale \/ Execute \/ EnterCancel \/ CancelAnswered \/ EnterContext \/
           EnterShutdown \/ Dispose
    /\ UNCHANGED start \/ Yielded \/ Started \/ (\E r \in Runs: Dispatch(r) \/ StartAnswered(r)
           \/ StartFails(r) \/ Finalize(r))
    /\ UNCHANGED token \/ Preflight
    /\ UNCHANGED intent \/ Preflight \/ Started \/ EnterCancel \/ CancelAnswered \/ EnterContext
           \/ Edit
    /\ UNCHANGED fin \/ Detach \/ (\E r \in Runs: Finalize(r) \/ FinalizerStopped(r))
    /\ UNCHANGED page \/ Retired \/ Yielded \/ Started \/ StartRaised \/ Polled \/ PollFails \/
           Rejected \/ Abort \/ Finalized \/ EnterCancel \/ CancelAnswered \/ EnterContext \/
           Swept \/ ResultsClosed \/ EnterShutdown \/ Restore \/ ShowHistory
    /\ UNCHANGED <<pending, abandoned>> \/ Started \/ StaleStopped \/ PollFails \/ Rejected \/
           EnterContext \/ Swept \/ EnterShutdown \/ (\E r \in Runs: Finalize(r) \/
           FinalizerStopped(r))
    /\ UNCHANGED lock \/ EnterRetire \/ Retired \/ Yielded \/ Abort \/ EnterCancel \/
           CancelAnswered \/ EnterContext \/ TransitionOver \/ EnterShutdown \/
           CancelInterrupted
    /\ UNCHANGED want \/ EnterCancel \/ CancelAnswered \/ EnterContext \/ AskCancel \/
           AskContext \/ CancelInterrupted
    /\ UNCHANGED phase \/ EnterCancel \/ CancelAnswered \/ EnterContext \/ Drained \/
           FinalizersDrained \/ CloseResults \/ ResultsClosed \/ TransitionOver \/
           EnterShutdown \/ CancelInterrupted
    /\ UNCHANGED todo \/ Drained \/ FinalizersDrained \/ (\E e \in Runs: Sweep(e))
    /\ UNCHANGED life \/ TransitionOver \/ CloseIntake \/ EnterShutdown
    /\ UNCHANGED disposed \/ Dispose
    /\ UNCHANGED remote \/ (\E r \in Runs: StartAnswered(r) \/ StartFails(r)) \/
           (\E e \in Runs: StopDone(e) \/ StopFails(e) \/ RemoteEnds(e))
    /\ UNCHANGED client \/ EnterRetire \/ Started \/ Polled \/ PollFails \/ EnterCancel \/
           (\E r \in Runs: StartAnswered(r) \/ Finalize(r)) \/ (\E e \in Runs: Sweep(e) \/
           StopDone(e) \/ StopFails(e) \/ HistorySees(e))
    /\ UNCHANGED asked \/ EnterRetire \/ Retired \/ Started \/ StaleStopped \/ PollFails \/
           Rejected \/ Abort \/ EnterCancel \/ CancelAnswered \/ Swept \/ CancelInterrupted \/
           (\E r \in Runs: Finalize(r) \/ FinalizerStopped(r)) \/ (\E e \in Runs: Sweep(e))
    /\ UNCHANGED answer \/ EnterRetire \/ Retired \/ Started \/ StaleStopped \/ PollFails \/
           Rejected \/ Abort \/ EnterCancel \/ CancelAnswered \/ Swept \/ CancelInterrupted \/
           (\E r \in Runs: Finalize(r) \/ FinalizerStopped(r)) \/ (\E e \in Runs: Sweep(e) \/
           StopDone(e) \/ StopFails(e))
    /\ UNCHANGED given \/ EnterCancel \/ CancelAnswered \/ EnterContext \/ Edit
    /\ UNCHANGED changes \/ AskCancel \/ AskContext \/ Edit \/ Restore \/ ShowHistory \/
           Interrupt
    /\ UNCHANGED faults \/ PollFails \/ (\E r \in Runs: StartFails(r)) \/
           (\E e \in Runs: StopFails(e))

LEMMA WritersAre == [Next]_vars => Writers
  <1> SUFFICES ASSUME [Next]_vars PROVE Writers
    OBVIOUS
  <1> USE DEF Writers
  <1>1. CASE Execute
    BY <1>1 DEF Execute, request, tokens, cleanup, lifecycle, ending, stopping, bounds
  <1>2. CASE Preflight
    BY <1>2 DEF Preflight, EndRun, Goto, cleanup, lifecycle, ending, stopping, bounds
  <1>3. CASE EnterRetire
    BY <1>3 DEF EnterRetire, EndRun, stopping, Ask, Goto, request, tokens, cleanup, ending,
       bounds
  <1>4. CASE Retired
    BY <1>4 DEF Retired, Goto, EndRun, Hear, request, tokens, cleanup, ending, bounds
  <1>5. CASE Yielded
    BY <1>5 DEF Yielded, EndRun, Goto, tokens, cleanup, ending, stopping, bounds
  <1>6. CASE Started
    BY <1>6 DEF Started, Take, EndRun, stopping, Goto, Ask, cleanup, lifecycle, ending, bounds
  <1>7. CASE StartRaised
    BY <1>7 DEF StartRaised, EndRun, request, tokens, cleanup, lifecycle, ending, stopping,
       bounds
  <1>8. CASE StaleStopped
    BY <1>8 DEF StaleStopped, Hear, EndRun, request, tokens, lifecycle, ending, bounds
  <1>9. CASE Polled
    BY <1>9 DEF Polled, EndRun, task, Goto, request, tokens, cleanup, lifecycle, ending, bounds
  <1>10. CASE PollFails
    BY <1>10 DEF PollFails, Fault, EndRun, cleanup, stopping, Ask, Goto, request, tokens,
       lifecycle, ending
  <1>11. CASE Rejected
    BY <1>11 DEF Rejected, Hear, EndRun, request, tokens, lifecycle, ending, bounds
  <1>12. CASE Loaded
    BY <1>12 DEF Loaded, EndRun, request, tokens, cleanup, lifecycle, ending, stopping, bounds
  <1>13. CASE Detach
    BY <1>13 DEF Detach, tokens, cleanup, lifecycle, ending, stopping, bounds
  <1>14. CASE Abort
    BY <1>14 DEF Abort, EndRun, Hear, request, tokens, cleanup, ending, bounds
  <1>15. CASE Finalized
    BY <1>15 DEF Finalized, EndRun, request, tokens, cleanup, lifecycle, ending, stopping,
       bounds
  <1>16. CASE Deliver
    BY <1>16 DEF Deliver, request, tokens, cleanup, lifecycle, ending, stopping, bounds
  <1>17. CASE EnterCancel
    BY <1>17 DEF EnterCancel, task, tokens, stopping, Ask, BeginCancel, Forget, Supersede, Due,
       request, cleanup, ending, bounds
  <1>18. CASE CancelAnswered
    BY <1>18 DEF CancelAnswered, stopping, BeginCancel, Forget, Supersede, Due, task, tokens,
       Hear, request, cleanup, ending, bounds
  <1>19. CASE EnterContext
    BY <1>19 DEF EnterContext, RetainOwned, cleanup, Forget, Supersede, Due, task, tokens,
       request, ending, stopping, bounds
  <1>20. CASE Drained
    BY <1>20 DEF Drained, task, request, tokens, cleanup, ending, stopping, bounds
  <1>21. CASE FinalizersDrained
    BY <1>21 DEF FinalizersDrained, task, request, tokens, cleanup, ending, stopping, bounds
  <1>22. CASE Swept
    BY <1>22 DEF Swept, Hear, task, request, tokens, lifecycle, ending, bounds
  <1>23. CASE CloseResults
    BY <1>23 DEF CloseResults, AllSwept, task, request, tokens, cleanup, stopping, bounds, ending
  <1>24. CASE ResultsClosed
    BY <1>24 DEF ResultsClosed, task, request, tokens, cleanup, stopping, bounds, ending
  <1>25. CASE TransitionOver
    BY <1>25 DEF TransitionOver, AllSwept, task, request, tokens, cleanup, stopping, bounds
  <1>26. CASE AskCancel
    BY <1>26 DEF AskCancel, Change, task, request, tokens, cleanup, ending, stopping
  <1>27. CASE AskContext
    BY <1>27 DEF AskContext, Change, task, request, tokens, cleanup, ending, stopping
  <1>28. CASE CloseIntake
    BY <1>28 DEF CloseIntake, task, request, tokens, cleanup, lifecycle, stopping, bounds
  <1>29. CASE EnterShutdown
    BY <1>29 DEF EnterShutdown, RetainOwned, cleanup, Supersede, Due, request, tokens, stopping,
       bounds
  <1>30. CASE Dispose
    BY <1>30 DEF Dispose, Supersede, Due, request, tokens, cleanup, lifecycle, stopping, bounds
  <1>31. CASE Edit
    BY <1>31 DEF Edit, Forget, Change, task, request, cleanup, lifecycle, ending, stopping
  <1>32. CASE Restore
    BY <1>32 DEF Restore, Change, task, request, tokens, cleanup, lifecycle, ending, stopping
  <1>33. CASE ShowHistory
    BY <1>33 DEF ShowHistory, Change, task, request, tokens, cleanup, lifecycle, ending,
       stopping
  <1>34. CASE Interrupt
    BY <1>34 DEF Interrupt, Change, request, tokens, cleanup, lifecycle, ending, stopping
  <1>35. CASE CancelInterrupted
    BY <1>35 DEF CancelInterrupted, stopping, Hear, task, request, tokens, cleanup, ending,
       bounds
  <1>36. ASSUME NEW r \in Runs, Dispatch(r) PROVE Writers
    BY <1>36 DEF Dispatch, task, tokens, cleanup, lifecycle, ending, stopping, bounds
  <1>37. ASSUME NEW r \in Runs, StartAnswered(r) PROVE Writers
    BY <1>37 DEF StartAnswered, Accept, task, tokens, cleanup, lifecycle, ending, bounds
  <1>38. ASSUME NEW r \in Runs, StartFails(r) PROVE Writers
    BY <1>38 DEF StartFails, Fault, Accept, task, tokens, cleanup, lifecycle, ending, stopping
  <1>39. ASSUME NEW r \in Runs, Finalize(r) PROVE Writers
    BY <1>39 DEF Finalize, Finish, cleanup, stopping, Take, Ask, task, tokens, lifecycle,
       ending, bounds
  <1>40. ASSUME NEW r \in Runs, FinalizerStopped(r) PROVE Writers
    BY <1>40 DEF FinalizerStopped, stopping, Finish, Hear, task, tokens, lifecycle, ending,
       bounds
  <1>41. ASSUME NEW e \in Runs, Sweep(e) PROVE Writers
    BY <1>41 DEF Sweep, Ask, task, request, tokens, cleanup, ending, bounds
  <1>42. ASSUME NEW e \in Runs, StopDone(e) PROVE Writers
    BY <1>42 DEF StopDone, Cut, Tell, task, request, tokens, cleanup, lifecycle, ending, bounds
  <1>43. ASSUME NEW e \in Runs, StopFails(e) PROVE Writers
    BY <1>43 DEF StopFails, Fault, Tell, Cut, task, request, tokens, cleanup, lifecycle, ending
  <1>44. ASSUME NEW e \in Runs, HistorySees(e) PROVE Writers
    BY <1>44 DEF HistorySees, task, request, tokens, cleanup, lifecycle, ending, bounds
  <1>45. ASSUME NEW e \in Runs, RemoteEnds(e) PROVE Writers
    BY <1>45 DEF RemoteEnds, Cut, task, request, tokens, cleanup, lifecycle, ending, stopping,
       bounds
  <1>46. CASE UNCHANGED vars
    BY <1>46 DEF vars, bounds, cleanup, ending, lifecycle, request, stopping, task, tokens
  <1> QED
    BY <1>1, <1>2, <1>3, <1>4, <1>5, <1>6, <1>7, <1>8, <1>9, <1>10, <1>11, <1>12, <1>13,
       <1>14, <1>15, <1>16, <1>17, <1>18, <1>19, <1>20, <1>21, <1>22, <1>23, <1>24, <1>25,
       <1>26, <1>27, <1>28, <1>29, <1>30, <1>31, <1>32, <1>33, <1>34, <1>35, <1>36, <1>37,
       <1>38, <1>39, <1>40, <1>41, <1>42, <1>43, <1>44, <1>45, <1>46 DEF Next, UserStep,
       System, RunStep, RequestStep, LifecycleStep

\* The lock changes hands as the phases of its holder say.
LEMMA LockSteps == Typed /\ [Next]_vars => (LifeOK /\ Locked)'
  <1> SUFFICES ASSUME Typed, [Next]_vars PROVE (LifeOK /\ Locked)'
    OBVIOUS
  <1> USE DEF Typed, TypeOK, LifeOK, Locked, Open, Stopped
  <1>1. CASE Execute
    BY <1>1 DEF Execute, CanExecute, Transition, request, tokens, cleanup, lifecycle, ending,
       stopping, bounds
  <1>2. CASE Preflight
    BY <1>2 DEF Preflight, EndRun, Goto, lifecycle, ending
  <1>3. CASE EnterRetire
    BY <1>3 DEF EnterRetire, NotMet, EndRun, stopping, IsCurrent, Transition, Ask, Body, Goto,
       request, tokens, cleanup, ending, bounds
  <1>4. CASE Retired
    BY <1>4 DEF Retired, Goto, EndRun, ending
  <1>5. CASE Yielded
    BY <1>5 DEF Yielded, EndRun, Goto, ending
  <1>6. CASE Started
    BY <1>6 DEF Started, EndRun, Goto, lifecycle, ending
  <1>7. CASE StartRaised
    BY <1>7 DEF StartRaised, EndRun, lifecycle, ending
  <1>8. CASE StaleStopped
    BY <1>8 DEF StaleStopped, EndRun, lifecycle, ending
  <1>9. CASE Polled
    BY <1>9 DEF Polled, EndRun, task, Goto, lifecycle, ending
  <1>10. CASE PollFails
    BY <1>10 DEF PollFails, EndRun, Goto, lifecycle, ending
  <1>11. CASE Rejected
    BY <1>11 DEF Rejected, EndRun, lifecycle, ending
  <1>12. CASE Loaded
    BY <1>12 DEF Loaded, EndRun, lifecycle, ending
  <1>13. CASE Detach
    BY <1>13 DEF Detach, lifecycle, ending
  <1>14. CASE Abort
    BY <1>14 DEF Abort, EndRun, Hear, Body, Quiet, LockAfterAbort, request, tokens, cleanup,
       ending, bounds
  <1>15. CASE Finalized
    BY <1>15 DEF Finalized, EndRun, lifecycle, ending
  <1>16. CASE EnterCancel
    BY <1>16 DEF EnterCancel, CanInterrupt, task, tokens, stopping, Ask, Holder, BeginCancel,
       Forget, Supersede, Due, PaneAfterCancel, request, cleanup, ending, bounds
  <1>17. CASE CancelAnswered
    BY <1>17 DEF CancelAnswered, BeginCancel, Supersede, task, ending
  <1>18. CASE EnterContext
    BY <1>18 DEF EnterContext, Supersede, task, ending
  <1>19. CASE Drained
    BY <1>19 DEF Drained, task, ending
  <1>20. CASE FinalizersDrained
    BY <1>20 DEF FinalizersDrained, task, ending
  <1>21. CASE CloseResults
    BY <1>21 DEF CloseResults, AllSwept, task, ending
  <1>22. CASE ResultsClosed
    BY <1>22 DEF ResultsClosed, task, ending
  <1>23. CASE TransitionOver
    BY <1>23 DEF TransitionOver, AllSwept, task
  <1>24. CASE AskCancel
    BY <1>24 DEF AskCancel, task, ending
  <1>25. CASE AskContext
    BY <1>25 DEF AskContext, task, ending
  <1>26. CASE CloseIntake
    BY <1>26 DEF CloseIntake, task, lifecycle
  <1>27. CASE EnterShutdown
    BY <1>27 DEF EnterShutdown, Supersede
  <1>28. CASE Dispose
    BY <1>28 DEF Dispose, Supersede, lifecycle
  <1>29. CASE CancelInterrupted
    BY <1>29 DEF CancelInterrupted, task, ending
  <1>30. CASE UNCHANGED <<pc, lock, want, phase, life, disposed>>
    BY <1>30
  <1> QED
    BY <1>1, <1>2, <1>3, <1>4, <1>5, <1>6, <1>7, <1>8, <1>9, <1>10, <1>11, <1>12, <1>13,
       <1>14, <1>15, <1>16, <1>17, <1>18, <1>19, <1>20, <1>21, <1>22, <1>23, <1>24, <1>25,
       <1>26, <1>27, <1>28, <1>29, <1>30, WritersAre DEF Writers

\* The newest run, its requests and its token.
LEMMA TaskSteps == Typed /\ [Next]_vars => TaskOK'
  <1> SUFFICES ASSUME Typed, [Next]_vars PROVE TaskOK'
    OBVIOUS
  <1> USE DEF Typed, TypeOK, TaskOK, Numbered
  <1>1. CASE Execute
    <2>1. run + 1 \in 0 .. MaxRuns
      BY <1>1, BoundsAreNatural DEF Execute
    <2> QED
      BY <1>1, <2>1 DEF Execute, request, tokens
  <1>2. CASE Preflight
    BY <1>2, Refs DEF Preflight, EndRun, Goto, Token
  <1>3. CASE EnterRetire
    BY <1>3, Refs DEF EnterRetire, EndRun, Goto, request, tokens
  <1>4. CASE Retired
    BY <1>4, Refs DEF Retired, Goto, EndRun, request, tokens
  <1>5. CASE Yielded
    BY <1>5, Refs DEF Yielded, EndRun, Goto, tokens
  <1>6. CASE Started
    BY <1>6, Refs DEF Started, Take, EndRun, Goto
  <1>7. CASE StartRaised
    BY <1>7, Refs DEF StartRaised, EndRun, request, tokens
  <1>8. CASE StaleStopped
    BY <1>8, Refs DEF StaleStopped, EndRun, request, tokens
  <1>9. CASE Polled
    BY <1>9, Refs DEF Polled, EndRun, task, Goto, request, tokens
  <1>10. CASE PollFails
    BY <1>10, Refs DEF PollFails, EndRun, Goto, request, tokens
  <1>11. CASE Rejected
    BY <1>11, Refs DEF Rejected, EndRun, request, tokens
  <1>12. CASE Loaded
    BY <1>12, Refs DEF Loaded, EndRun, request, tokens
  <1>13. CASE Detach
    BY <1>13, Refs DEF Detach, tokens
  <1>14. CASE Abort
    BY <1>14, Refs DEF Abort, EndRun, request, tokens
  <1>15. CASE Finalized
    BY <1>15, Refs DEF Finalized, EndRun, request, tokens
  <1>16. CASE Deliver
    BY <1>16, Refs DEF Deliver, request, tokens
  <1>17. CASE EnterCancel
    BY <1>17, Refs, ForgetTyped DEF EnterCancel, task, tokens, BeginCancel, Supersede, Due,
       request
  <1>18. CASE CancelAnswered
    BY <1>18, Refs, ForgetTyped DEF CancelAnswered, BeginCancel, Supersede, Due, task, tokens,
       request
  <1>19. CASE EnterContext
    BY <1>19, Refs, ForgetTyped DEF EnterContext, Supersede, Due, task, tokens, request
  <1>20. CASE EnterShutdown
    BY <1>20, Refs DEF EnterShutdown, Supersede, Due, request, tokens
  <1>21. CASE Dispose
    BY <1>21, Refs DEF Dispose, Supersede, Due, request, tokens
  <1>22. CASE Edit
    BY <1>22, Refs, ForgetTyped DEF Edit, task, request
  <1>23. CASE Interrupt
    BY <1>23, Refs DEF Interrupt, request, tokens
  <1>24. ASSUME NEW r \in Runs, Dispatch(r) PROVE TaskOK'
    BY <1>24, Refs DEF Dispatch, task, tokens
  <1>25. ASSUME NEW r \in Runs, StartAnswered(r) PROVE TaskOK'
    BY <1>25, Refs DEF StartAnswered, task, tokens
  <1>26. ASSUME NEW r \in Runs, StartFails(r) PROVE TaskOK'
    BY <1>26, Refs DEF StartFails, task, tokens
  <1>27. ASSUME NEW r \in Runs, Finalize(r) PROVE TaskOK'
    BY <1>27, Refs DEF Finalize, Finish, Take, task, tokens
  <1>28. ASSUME NEW r \in Runs, FinalizerStopped(r) PROVE TaskOK'
    BY <1>28, Refs DEF FinalizerStopped, Finish, task, tokens
  <1>29. CASE UNCHANGED <<run, pc, cancelling, stale, start, token, intent, fin, given>>
    BY <1>29
  <1> QED
    BY <1>1, <1>2, <1>3, <1>4, <1>5, <1>6, <1>7, <1>8, <1>9, <1>10, <1>11, <1>12, <1>13, <1>14,
       <1>15, <1>16, <1>17, <1>18, <1>19, <1>20, <1>21, <1>22, <1>23, <1>24, <1>25, <1>26,
       <1>27, <1>28, <1>29, WritersAre DEF Writers

LEMMA NumberSteps == Typed /\ [Next]_vars => Numbered'
  <1> SUFFICES ASSUME Typed, [Next]_vars PROVE Numbered'
    OBVIOUS
  <1> USE DEF Typed, TypeOK, TaskOK, Numbered, Runs, None
  <1>1. CASE Execute
    BY <1>1, BoundsAreNatural DEF Execute, request
  <1>2. CASE Preflight
    <2>1. UNCHANGED <<run, start, fin>> /\ pc = "preflight"
      BY <1>2 DEF Preflight, Goto, EndRun
    <2>2. CASE EndRun /\ UNCHANGED token
      BY <2>1, <2>2, BoundsAreNatural DEF EndRun
    <2>3. CASE token' = [token EXCEPT ![run] = Token] /\ Goto("queued")
      <3>1. Token \in Runs
        BY <2>1, BoundsAreNatural DEF Token
      <3> QED
        BY <2>1, <2>3, <3>1, BoundsAreNatural DEF Goto
    <2> QED
      BY <1>2, <2>2, <2>3 DEF Preflight
  <1>3. CASE EnterRetire
    BY <1>3, BoundsAreNatural DEF EnterRetire, EndRun, Goto, request
  <1>4. CASE Retired
    BY <1>4, BoundsAreNatural DEF Retired, Goto, EndRun, request
  <1>5. CASE Yielded
    <2>1. CASE UNCHANGED start /\ EndRun /\ UNCHANGED <<token, fin>>
      BY <1>5, <2>1, BoundsAreNatural DEF EndRun
    <2>2. CASE /\ start' = [start EXCEPT ![run] = "scheduled"] /\ pc = "yielding"
               /\ Goto("starting") /\ UNCHANGED <<token, fin>>
      BY <2>2, BoundsAreNatural DEF Goto
    <2> QED
      BY <1>5, <2>1, <2>2 DEF Yielded
  <1>6. CASE Started
    BY <1>6, BoundsAreNatural DEF Started, Take, EndRun, Goto
  <1>7. CASE StartRaised
    BY <1>7, BoundsAreNatural DEF StartRaised, EndRun, request
  <1>8. CASE StaleStopped
    BY <1>8, BoundsAreNatural DEF StaleStopped, EndRun, request
  <1>9. CASE Polled
    BY <1>9, BoundsAreNatural DEF Polled, EndRun, task, Goto, request
  <1>10. CASE PollFails
    BY <1>10, BoundsAreNatural DEF PollFails, EndRun, Goto, request
  <1>11. CASE Rejected
    BY <1>11, BoundsAreNatural DEF Rejected, EndRun, request
  <1>12. CASE Loaded
    BY <1>12, BoundsAreNatural DEF Loaded, EndRun, request
  <1>13. CASE Detach
    BY <1>13, BoundsAreNatural DEF Detach
  <1>14. CASE Abort
    BY <1>14, BoundsAreNatural DEF Abort, EndRun, request
  <1>15. CASE Finalized
    BY <1>15, BoundsAreNatural DEF Finalized, EndRun, request
  <1>16. ASSUME NEW r \in Runs, Dispatch(r) PROVE Numbered'
    BY <1>16, BoundsAreNatural DEF Dispatch, task
  <1>17. ASSUME NEW r \in Runs, StartAnswered(r) PROVE Numbered'
    BY <1>17, BoundsAreNatural DEF StartAnswered, task
  <1>18. ASSUME NEW r \in Runs, StartFails(r) PROVE Numbered'
    BY <1>18, BoundsAreNatural DEF StartFails, task
  <1>19. ASSUME NEW r \in Runs, Finalize(r) PROVE Numbered'
    BY <1>19, BoundsAreNatural DEF Finalize, Finish, Take, task
  <1>20. ASSUME NEW r \in Runs, FinalizerStopped(r) PROVE Numbered'
    BY <1>20, BoundsAreNatural DEF FinalizerStopped, Finish, task
  <1>21. CASE UNCHANGED <<run, pc, start, token, fin>>
    BY <1>21
  <1> QED
    BY <1>1, <1>2, <1>3, <1>4, <1>5, <1>6, <1>7, <1>8, <1>9, <1>10, <1>11, <1>12, <1>13, <1>14,
       <1>15, <1>16, <1>17, <1>18, <1>19, <1>20, <1>21, WritersAre DEF Writers

\* What the page shows stays of its type.
LEMMA PageSteps == Typed /\ [Next]_vars => PageOK'
  <1> SUFFICES ASSUME Typed, [Next]_vars PROVE PageOK'
    OBVIOUS
  <1> USE DEF Typed, TypeOK, PageOK, Owned
  <1>1. CASE Retired
    <2>1. CASE page' = [page EXCEPT !.owns = FALSE, !.state = "cancelled"]
      BY <2>1 DEF Ended
    <2>2. CASE page' = Failed(page)
      BY <2>2 DEF Failed
    <2> QED
      BY <1>1, <2>1, <2>2 DEF Retired
  <1>2. CASE Yielded
    <2>1. CASE page' = [Reset(page) EXCEPT !.submitting = TRUE, !.pane = "loading"]
      BY <2>1, Refs DEF Reset
    <2>2. CASE UNCHANGED page
      BY <2>2
    <2> QED
      BY <1>2, <2>1, <2>2 DEF Yielded
  <1>3. CASE Started
    BY <1>3, Refs, TokenOfRun DEF Started
  <1>4. CASE StartRaised
    BY <1>4, Refs DEF StartRaised, Failed, Quiet
  <1>5. CASE Polled
    <2>1. CASE UNCHANGED page \/ page' = Tick(page)
      BY <2>1 DEF Tick
    <2>2. ASSUME NEW s \in Ended,
                 page' = [page EXCEPT !.state = s, !.pane = "idle", !.error = FALSE, !.owns = FALSE,
                                      !.shown = IF s = "succeeded" THEN page.ref ELSE page.shown]
          PROVE  PageOK'
      BY <2>2
    <2> QED
      BY <1>5, <2>1, <2>2 DEF Polled
  <1>6. CASE PollFails
    <2>1. CASE UNCHANGED page
      BY <2>1
    <2>2. CASE page' = Failed(page)
      BY <2>2 DEF Failed
    <2> QED
      BY <1>6, <2>1, <2>2 DEF PollFails
  <1>7. CASE Rejected
    <2>1. PICK a \in {"ok", "denied", "error"}:
             page' = IF stale THEN page
                     ELSE [Failed(page) EXCEPT !.owns = a # "ok", !.state = "none",
                             !.submitting = FALSE, !.ref = IF a = "ok" THEN None ELSE token[run]]
      BY <1>7 DEF Rejected
    <2>2. (a # "ok") \in BOOLEAN /\ (IF a = "ok" THEN None ELSE token[run]) \in 0 .. Old
      BY <1>7, Refs, TokenOfRun DEF Rejected
    <2> QED
      BY <2>1, <2>2 DEF Failed
  <1>8. CASE Abort
    BY <1>8, Refs DEF Abort, Quiet
  <1>9. CASE Finalized
    BY <1>9, Refs DEF Finalized, Quiet
  <1>10. CASE EnterCancel
    <2>1. CASE BeginCancel
      BY <2>1, CancelPage
    <2>2. CASE UNCHANGED page
      BY <2>2
    <2> QED
      BY <1>10, <2>1, <2>2 DEF EnterCancel
  <1>11. CASE CancelAnswered
    <2>1. CASE BeginCancel
      BY <2>1, CancelPage
    <2>2. CASE page' = Failed(page)
      BY <2>2 DEF Failed
    <2> QED
      BY <1>11, <2>1, <2>2 DEF CancelAnswered
  <1>12. CASE EnterContext
    <2>1. CASE UNCHANGED page
      BY <2>1
    <2>2. CASE page' = Reset(page)
      BY <2>2, Refs DEF Reset
    <2> QED
      BY <1>12, <2>1, <2>2 DEF EnterContext
  <1>13. CASE Swept
    <2>1. CASE UNCHANGED page
      BY <2>1
    <2>2. CASE page' = Failed(page)
      BY <2>2 DEF Failed
    <2> QED
      BY <1>13, <2>1, <2>2 DEF Swept
  <1>14. CASE ResultsClosed
    BY <1>14, Refs DEF ResultsClosed
  <1>15. CASE EnterShutdown
    BY <1>15, Refs DEF EnterShutdown
  <1>16. CASE Restore
    BY <1>16, Refs DEF Restore, Reset, Ended
  <1>17. CASE ShowHistory
    BY <1>17, Refs DEF ShowHistory
  <1>18. CASE UNCHANGED page
    BY <1>18
  <1> QED
    BY <1>1, <1>2, <1>3, <1>4, <1>5, <1>6, <1>7, <1>8, <1>9, <1>10, <1>11, <1>12, <1>13, <1>14,
       <1>15, <1>16, <1>17, <1>18, WritersAre DEF Writers

LEMMA OwnedSteps == Typed /\ [Next]_vars => Owned'
  <1> SUFFICES ASSUME Typed, [Next]_vars PROVE Owned'
    OBVIOUS
  <1> USE DEF Typed, TypeOK, PageOK, Owned
  <1>1. CASE Execute
    BY <1>1, Refs DEF Execute, request
  <1>2. CASE Preflight
    BY <1>2, Refs DEF Preflight, EndRun, Goto
  <1>3. CASE EnterRetire
    BY <1>3, Refs DEF EnterRetire, EndRun, Goto, request
  <1>4. CASE Retired
    BY <1>4, Refs DEF Retired, Goto, Failed, EndRun, request
  <1>5. CASE Yielded
    BY <1>5, Refs DEF Yielded, EndRun, Reset, Goto
  <1>6. CASE Started
    <2>1. CASE pc' \in {"idle", "stale"} /\ UNCHANGED <<page, stale>>
      BY <1>6, <2>1
    <2>2. CASE /\ page' = [page EXCEPT !.ref = token[run], !.owns = TRUE, !.state = "active",
                                     !.submitting = FALSE, !.pane = "idle"]
               /\ Goto("polling")
      BY <1>6, <2>2, TokenOfRun DEF Goto, Started
    <2> QED
      BY <1>6, <2>1, <2>2 DEF Started, Goto, EndRun
  <1>7. CASE StartRaised
    BY <1>7, Refs DEF StartRaised, Failed, Quiet, EndRun, request
  <1>8. CASE StaleStopped
    BY <1>8, Refs DEF StaleStopped, EndRun, request
  <1>9. CASE Polled
    BY <1>9, Refs DEF Polled, EndRun, Tick, task, Goto, request
  <1>10. CASE PollFails
    BY <1>10, Refs DEF PollFails, Failed, EndRun, Goto, request
  <1>11. CASE Rejected
    BY <1>11, Refs, TokenOfRun DEF Rejected, Failed, EndRun, request
  <1>12. CASE Loaded
    BY <1>12, Refs DEF Loaded, EndRun, request
  <1>13. CASE Detach
    BY <1>13, Refs DEF Detach
  <1>14. CASE Abort
    BY <1>14, Refs DEF Abort, EndRun, Quiet, request
  <1>15. CASE Finalized
    BY <1>15, Refs DEF Finalized, EndRun, Quiet, request
  <1>16. CASE EnterCancel
    <2>1. CASE BeginCancel /\ UNCHANGED request
      BY <1>16, <2>1 DEF BeginCancel, Supersede, request
    <2>2. CASE UNCHANGED <<task, page>> /\ UNCHANGED request
      BY <1>16, <2>2 DEF task, request
    <2> QED
      BY <1>16, <2>1, <2>2 DEF EnterCancel
  <1>17. CASE CancelAnswered
    <2>1. CASE BeginCancel /\ UNCHANGED request
      BY <1>17, <2>1 DEF BeginCancel, Supersede, request
    <2>2. CASE page' = Failed(page) /\ UNCHANGED task /\ UNCHANGED request
      BY <1>17, <2>2 DEF task, request, Failed
    <2> QED
      BY <1>17, <2>1, <2>2 DEF CancelAnswered
  <1>18. CASE EnterContext
    BY <1>18, Refs DEF EnterContext, Supersede, Reset, task, request, Open
  <1>19. CASE Swept
    BY <1>19, Refs DEF Swept, Failed, task, request
  <1>20. CASE ResultsClosed
    BY <1>20, Refs DEF ResultsClosed, task, request
  <1>21. CASE EnterShutdown
    BY <1>21, Refs DEF EnterShutdown, Supersede, request
  <1>22. CASE Dispose
    BY <1>22, Refs DEF Dispose, Supersede, request
  <1>23. CASE Restore
    BY <1>23, Refs DEF Restore, Reset, task, request, Busy
  <1>24. CASE ShowHistory
    BY <1>24, Refs DEF ShowHistory, task, request
  <1>25. CASE UNCHANGED <<run, pc, stale, token, page>>
    BY <1>25
  <1> QED
    BY <1>1, <1>2, <1>3, <1>4, <1>5, <1>6, <1>7, <1>8, <1>9, <1>10, <1>11, <1>12, <1>13, <1>14,
       <1>15, <1>16, <1>17, <1>18, <1>19, <1>20, <1>21, <1>22, <1>23, <1>24, <1>25, WritersAre
       DEF Writers

\* The refs to be stopped are executions of this page.
LEMMA RefsSteps == Typed /\ [Next]_vars => RefsOK'
  <1> SUFFICES ASSUME Typed, [Next]_vars PROVE RefsOK'
    OBVIOUS
  <1> USE DEF Typed, TypeOK, RefsOK, StopsOK, Numbered, Owned
  <1>1. CASE Started
    BY <1>1, RetainKeeps, TokenOfRun DEF Started, cleanup, lifecycle
  <1>2. CASE StaleStopped
    BY <1>2, TokenOfRun DEF StaleStopped, Settle, lifecycle
  <1>3. CASE PollFails
    BY <1>3, RetainKeeps DEF PollFails, cleanup, lifecycle
  <1>4. CASE Rejected
    BY <1>4, TokenOfRun DEF Rejected, Settle, lifecycle
  <1>5. CASE EnterContext
    BY <1>5, RetainKeeps DEF EnterContext, RetainOwned, cleanup
  <1>6. CASE Drained
    BY <1>6 DEF Drained, cleanup
  <1>7. CASE FinalizersDrained
    BY <1>7 DEF FinalizersDrained, cleanup
  <1>8. CASE Swept
    <2>1. PICK a \in {"ok", "denied", "error"}:
             Answered(Holder, asked[Holder], a) /\ Settle(asked[Holder], a)
      BY <1>8 DEF Swept
    <2>2. asked[Holder] \in Runs
      BY <2>1, CallersAre, AnsweredRef DEF Typed, TypeOK
    <2> QED
      BY <1>8, <2>1, <2>2 DEF Swept, Settle, lifecycle
  <1>9. CASE EnterShutdown
    BY <1>9, RetainKeeps DEF EnterShutdown, RetainOwned, cleanup
  <1>10. ASSUME NEW r \in Runs, Finalize(r) PROVE RefsOK'
    BY <1>10, RetainKeeps DEF Finalize, cleanup, lifecycle
  <1>11. ASSUME NEW r \in Runs, FinalizerStopped(r) PROVE RefsOK'
    <2>1. PICK a \in {"ok", "denied", "error"}: Answered(r, token[r], a) /\ Settle(token[r], a)
      BY <1>11 DEF FinalizerStopped
    <2>2. token[r] \in Runs
      BY <2>1, CallersAre, AnsweredRef DEF Typed, TypeOK
    <2> QED
      BY <1>11, <2>1, <2>2 DEF FinalizerStopped, Settle, lifecycle
  <1>12. ASSUME NEW e \in Runs, Sweep(e) PROVE RefsOK'
    BY <1>12 DEF Sweep, cleanup
  <1>13. CASE UNCHANGED <<pending, todo, abandoned>>
    BY <1>13
  <1> QED
    BY <1>1, <1>2, <1>3, <1>4, <1>5, <1>6, <1>7, <1>8, <1>9, <1>10, <1>11, <1>12, <1>13,
       WritersAre DEF Writers

\* What the client has on record are executions of this page.
LEMMA ClientSteps == Typed /\ [Next]_vars => ClientOK'
  <1> SUFFICES ASSUME Typed, [Next]_vars PROVE ClientOK'
    OBVIOUS
  <1> USE DEF Typed, TypeOK, StopsOK, ClientOK, Numbered, Owned
  <1>1. CASE EnterRetire
    BY <1>1, AskClient DEF EnterRetire, stopping
  <1>2. CASE Started
    BY <1>2, AskClient, TokenOfRun DEF Started, stopping
  <1>3. CASE Polled
    <2>1. token[run] \in Runs
      BY <1>3, TokenOfRun DEF Polled
    <2>2. client' = client \/ client' = Retire(token[run])
      BY <1>3 DEF Polled
    <2>3. CASE client' = Retire(token[run])
      BY <2>1, <2>3 DEF Retire
    <2> QED
      BY <2>2, <2>3
  <1>4. CASE PollFails
    BY <1>4, AskClient DEF PollFails, stopping
  <1>5. CASE EnterCancel
    BY <1>5, AskClient DEF EnterCancel, stopping
  <1>6. ASSUME NEW r \in Runs, StartAnswered(r) PROVE ClientOK'
    BY <1>6 DEF StartAnswered
  <1>7. ASSUME NEW r \in Runs, Finalize(r) PROVE ClientOK'
    BY <1>7, AskClient DEF Finalize, stopping
  <1>8. ASSUME NEW e \in Runs, Sweep(e) PROVE ClientOK'
    BY <1>8, AskClient DEF Sweep
  <1>9. ASSUME NEW e \in Runs, StopDone(e) PROVE ClientOK'
    BY <1>9 DEF StopDone, Retire
  <1>10. ASSUME NEW e \in Runs, StopFails(e) PROVE ClientOK'
    BY <1>10 DEF StopFails, ActiveAgain
  <1>11. ASSUME NEW e \in Runs, HistorySees(e) PROVE ClientOK'
    BY <1>11 DEF HistorySees, Retire
  <1>12. CASE UNCHANGED client
    BY <1>12
  <1> QED
    BY <1>1, <1>2, <1>3, <1>4, <1>5, <1>6, <1>7, <1>8, <1>9, <1>10, <1>11, <1>12, WritersAre DEF
       Writers

\* Who asked for a stop, and what came of it.
LEMMA AnswerTypes == Typed /\ [Next]_vars => AnswersOK'
  <1> SUFFICES ASSUME Typed, [Next]_vars PROVE AnswersOK'
    OBVIOUS
  <1> USE DEF Typed, TypeOK, StopsOK, AnswersOK, Numbered, Owned
  <1>1. CASE EnterRetire
    BY <1>1, Refs DEF EnterRetire, stopping, Ask
  <1>2. CASE Retired
    BY <1>2, Refs DEF Retired, Hear
  <1>3. CASE Started
    BY <1>3, Refs, RetainKeeps, TokenOfRun DEF Started, stopping, Ask
  <1>4. CASE StaleStopped
    BY <1>4, Refs, TokenOfRun DEF StaleStopped, Hear
  <1>5. CASE PollFails
    BY <1>5, Refs, RetainKeeps DEF PollFails, stopping, Ask
  <1>6. CASE Rejected
    BY <1>6, Refs, TokenOfRun DEF Rejected, Hear
  <1>7. CASE Abort
    BY <1>7, Refs DEF Abort, Hear
  <1>8. CASE EnterCancel
    BY <1>8, Refs DEF EnterCancel, stopping, Ask
  <1>9. CASE CancelAnswered
    BY <1>9, Refs DEF CancelAnswered, stopping, Hear
  <1>10. CASE Swept
    BY <1>10, Refs DEF Swept, Hear
  <1>11. CASE CancelInterrupted
    BY <1>11, Refs DEF CancelInterrupted, stopping, Hear
  <1>12. ASSUME NEW r \in Runs, Finalize(r) PROVE AnswersOK'
    BY <1>12, Refs, RetainKeeps DEF Finalize, stopping, Ask
  <1>13. ASSUME NEW r \in Runs, FinalizerStopped(r) PROVE AnswersOK'
    BY <1>13, Refs DEF FinalizerStopped, stopping, Hear
  <1>14. ASSUME NEW e \in Runs, Sweep(e) PROVE AnswersOK'
    BY <1>14, Refs DEF Sweep, Ask
  <1>15. ASSUME NEW e \in Runs, StopDone(e) PROVE AnswersOK'
    BY <1>15, Refs DEF StopDone, Tell
  <1>16. ASSUME NEW e \in Runs, StopFails(e) PROVE AnswersOK'
    BY <1>16, Refs DEF StopFails, Tell
  <1>17. CASE UNCHANGED <<asked, answer>>
    BY <1>17
  <1> QED
    BY <1>1, <1>2, <1>3, <1>4, <1>5, <1>6, <1>7, <1>8, <1>9, <1>10, <1>11, <1>12, <1>13, <1>14,
       <1>15, <1>16, <1>17, WritersAre DEF Writers

LEMMA RemoteTypes == Typed /\ [Next]_vars => RemoteOK'
  <1> SUFFICES ASSUME Typed, [Next]_vars PROVE RemoteOK'
    OBVIOUS
  <1> USE DEF Typed, TypeOK, StopsOK, RemoteOK, Numbered
  <1>1. ASSUME NEW r \in Runs, StartAnswered(r) PROVE RemoteOK'
    BY <1>1 DEF StartAnswered, Accept
  <1>2. ASSUME NEW r \in Runs, StartFails(r) PROVE RemoteOK'
    BY <1>2 DEF StartFails, Accept
  <1>3. ASSUME NEW e \in Runs, StopDone(e) PROVE RemoteOK'
    BY <1>3 DEF StopDone, Cut
  <1>4. ASSUME NEW e \in Runs, StopFails(e) PROVE RemoteOK'
    BY <1>4 DEF StopFails, Cut
  <1>5. ASSUME NEW e \in Runs, RemoteEnds(e) PROVE RemoteOK'
    BY <1>5 DEF RemoteEnds, Cut
  <1>6. CASE UNCHANGED remote
    BY <1>6
  <1> QED
    BY <1>1, <1>2, <1>3, <1>4, <1>5, <1>6, WritersAre DEF Writers

LEMMA TypedSteps == Typed /\ [Next]_vars => Typed'
  <1> SUFFICES ASSUME Typed, [Next]_vars PROVE Typed'
    OBVIOUS
  <1>1. StopsOK'
    BY RefsSteps, ClientSteps, AnswerTypes, RemoteTypes DEF StopsOK, RefsOK, ClientOK, AnswersOK, RemoteOK
  <1>2. changes' \in 0 .. MaxChanges
    <2>1. CASE changes' = changes
      BY <2>1 DEF Typed, TypeOK
    <2>2. CASE Change
      BY <2>2, BoundsAreNatural DEF Typed, TypeOK, Change
    <2> QED
      BY <2>1, <2>2, WritersAre
         DEF Writers, AskCancel, AskContext, Edit, Restore, ShowHistory, Interrupt
  <1>3. faults' \in 0 .. MaxFaults
    <2>1. CASE faults' = faults
      BY <2>1 DEF Typed, TypeOK
    <2>2. CASE Fault
      BY <2>2, BoundsAreNatural DEF Typed, TypeOK, Fault
    <2> QED
      BY <2>1, <2>2, WritersAre DEF Writers, PollFails, StartFails, StopFails
  <1> QED
    BY <1>1, <1>2, <1>3, LockSteps, TaskSteps, NumberSteps, PageSteps, OwnedSteps DEF Typed, TypeOK

-----------------------------------------------------------------------------
\* What is once known stays known, and Athena gives a token one execution.
ToldMoves == \A e \in Runs: Told(e) => Told(e)'
TokensMove == \A r \in Runs: token[r] # None => token'[r] = token[r]
RemoteMoves ==
    \A e \in Runs:
       /\ remote[e] # "none" => remote'[e] # "none"
       /\ remote[e] = "over" => remote'[e] = "over"
       /\ remote'[e] # remote[e] =>
             remote[e] = "running" \/ \E r \in Runs: start[r] = "sent" /\ token[r] = e

LEMMA ToldStays == Typed /\ [Next]_vars => ToldMoves
  <1> SUFFICES ASSUME Typed, [Next]_vars PROVE ToldMoves
    OBVIOUS
  <1> USE DEF ToldMoves, Typed, TypeOK, TaskOK, Numbered, Told
  <1>1. CASE Preflight
    BY <1>1 DEF Preflight
  <1>2. CASE Yielded
    BY <1>2 DEF Yielded
  <1>3. CASE Started
    BY <1>3 DEF Started, Take
  <1>4. ASSUME NEW r \in Runs, Dispatch(r) PROVE ToldMoves
    BY <1>4 DEF Dispatch
  <1>5. ASSUME NEW r \in Runs, StartAnswered(r) PROVE ToldMoves
    BY <1>5 DEF StartAnswered
  <1>6. ASSUME NEW r \in Runs, StartFails(r) PROVE ToldMoves
    BY <1>6 DEF StartFails
  <1>7. ASSUME NEW r \in Runs, Finalize(r) PROVE ToldMoves
    BY <1>7 DEF Finalize, Take
  <1>8. CASE UNCHANGED <<start, token>>
    BY <1>8
  <1> QED
    BY <1>1, <1>2, <1>3, <1>4, <1>5, <1>6, <1>7, <1>8, WritersAre DEF Writers

LEMMA TokensStay == Typed /\ [Next]_vars => TokensMove
  <1> SUFFICES ASSUME Typed, [Next]_vars PROVE TokensMove
    OBVIOUS
  <1> USE DEF TokensMove, Typed, TypeOK, TaskOK, Numbered
  <1>1. CASE Preflight
    BY <1>1 DEF Preflight
  <1>2. CASE UNCHANGED token
    BY <1>2
  <1> QED
    BY <1>1, <1>2, WritersAre DEF Writers

LEMMA RemoteStays == Typed /\ [Next]_vars => RemoteMoves
  <1> SUFFICES ASSUME Typed, [Next]_vars PROVE RemoteMoves
    OBVIOUS
  <1> USE DEF RemoteMoves, Typed, TypeOK, StopsOK, Numbered
  <1>1. ASSUME NEW r \in Runs, StartAnswered(r) PROVE RemoteMoves
    BY <1>1 DEF StartAnswered, Accept
  <1>2. ASSUME NEW r \in Runs, StartFails(r) PROVE RemoteMoves
    BY <1>2 DEF StartFails, Accept
  <1>3. ASSUME NEW e \in Runs, StopDone(e) PROVE RemoteMoves
    BY <1>3 DEF StopDone, Cut
  <1>4. ASSUME NEW e \in Runs, StopFails(e) PROVE RemoteMoves
    BY <1>4 DEF StopFails, Cut
  <1>5. ASSUME NEW e \in Runs, RemoteEnds(e) PROVE RemoteMoves
    BY <1>5 DEF RemoteEnds, Cut
  <1>6. CASE UNCHANGED remote
    BY <1>6
  <1> QED
    BY <1>1, <1>2, <1>3, <1>4, <1>5, <1>6, WritersAre DEF Writers

LEMMA AwaitedSteps == Typed /\ Awaited /\ [Next]_vars => Awaited'
  <1> SUFFICES ASSUME Typed, Awaited, [Next]_vars PROVE Awaited'
    OBVIOUS
  <1> USE DEF Typed, TypeOK, TaskOK, Numbered, Awaited
  <1>1. CASE Execute
    BY <1>1 DEF Execute, request, CanExecute
  <1>2. CASE Preflight
    BY <1>2 DEF Preflight, EndRun, Goto
  <1>3. CASE EnterRetire
    BY <1>3 DEF EnterRetire, EndRun, Goto, request
  <1>4. CASE Retired
    BY <1>4 DEF Retired, Goto, EndRun, request
  <1>5. CASE Yielded
    BY <1>5 DEF Yielded, EndRun, Goto
  <1>6. CASE Started
    BY <1>6 DEF Started, Take, EndRun, Goto
  <1>7. CASE StartRaised
    BY <1>7 DEF StartRaised, EndRun, request
  <1>8. CASE StaleStopped
    BY <1>8 DEF StaleStopped, EndRun, request
  <1>9. CASE Polled
    BY <1>9 DEF Polled, EndRun, task, Goto, request
  <1>10. CASE PollFails
    BY <1>10 DEF PollFails, EndRun, Goto, request
  <1>11. CASE Rejected
    BY <1>11 DEF Rejected, EndRun, request
  <1>12. CASE Loaded
    BY <1>12 DEF Loaded, EndRun, request
  <1>13. CASE Detach
    BY <1>13 DEF Detach
  <1>14. CASE Abort
    BY <1>14 DEF Abort, EndRun, request
  <1>15. CASE Finalized
    BY <1>15 DEF Finalized, EndRun, request
  <1>16. ASSUME NEW r \in Runs, Dispatch(r) PROVE Awaited'
    BY <1>16 DEF Dispatch, task
  <1>17. ASSUME NEW r \in Runs, StartAnswered(r) PROVE Awaited'
    BY <1>17 DEF StartAnswered, task
  <1>18. ASSUME NEW r \in Runs, StartFails(r) PROVE Awaited'
    BY <1>18 DEF StartFails, task
  <1>19. ASSUME NEW r \in Runs, Finalize(r) PROVE Awaited'
    BY <1>19 DEF Finalize, Finish, Take, task
  <1>20. ASSUME NEW r \in Runs, FinalizerStopped(r) PROVE Awaited'
    BY <1>20 DEF FinalizerStopped, Finish, task
  <1>21. CASE UNCHANGED <<run, pc, start, fin>>
    BY <1>21
  <1> QED
    BY <1>1, <1>2, <1>3, <1>4, <1>5, <1>6, <1>7, <1>8, <1>9, <1>10, <1>11, <1>12, <1>13, <1>14,
       <1>15, <1>16, <1>17, <1>18, <1>19, <1>20, <1>21, WritersAre DEF Writers

LEMMA HandoverSteps == Typed /\ Awaited /\ Handover /\ [Next]_vars => Handover'
  <1> SUFFICES ASSUME Typed, Awaited, Handover, [Next]_vars PROVE Handover'
    OBVIOUS
  <1> USE DEF Handover, Typed, TypeOK, PageOK, Owned
  <1>0. ToldMoves
    BY ToldStays
  <1> USE DEF ToldMoves
  <1>1. CASE Execute
    BY <1>1, <1>0, Refs DEF Execute, request
  <1>2. CASE Preflight
    BY <1>2, <1>0, Refs DEF Preflight, EndRun, Goto
  <1>3. CASE EnterRetire
    BY <1>3, <1>0, Refs DEF EnterRetire, EndRun, Goto, request
  <1>4. CASE Retired
    <2>1. UNCHANGED request
      BY <1>4 DEF Retired, request
    <2>2. CASE page' = [page EXCEPT !.owns = FALSE, !.state = "cancelled"] /\ pc' = "yielding"
      BY <1>4, <2>2, <2>1, <1>0, Refs DEF Retired
    <2>3. CASE page' = Failed(page) /\ pc' = "idle"
      BY <1>4, <2>3, <2>1, <1>0, Refs DEF Failed
    <2> QED
      BY <1>4, <2>2, <2>3 DEF Retired, Goto, EndRun
  <1>5. CASE Yielded
    <2>1. CASE UNCHANGED page /\ pc' = "idle"
      BY <1>5, <2>1, <1>0, Refs DEF Yielded
    <2>2. CASE page' = [Reset(page) EXCEPT !.submitting = TRUE, !.pane = "loading"] /\ pc' = "starting"
      BY <2>2, Refs DEF Reset
    <2> QED
      BY <1>5, <2>1, <2>2 DEF Yielded, EndRun, Goto
  <1>6. CASE Started
    <2>1. CASE UNCHANGED page
      BY <1>6, <2>1, <1>0 DEF Started, Goto, EndRun
    <2>2. CASE /\ page' = [page EXCEPT !.ref = token[run], !.owns = TRUE, !.state = "active",
                                     !.submitting = FALSE, !.pane = "idle"]
               /\ Goto("polling")
      <3>1. Told(token[run])'
        BY <1>6, <2>2, TokenOfRun DEF Started, Take, Told, Goto, TaskOK, Numbered
      <3> QED
        BY <1>6, <2>2, <3>1, TokenOfRun DEF Goto, Started
    <2> QED
      BY <1>6, <2>1, <2>2 DEF Started
  <1>7. CASE StartRaised
    BY <1>7, <1>0, Refs DEF StartRaised, Failed, Quiet, EndRun, request
  <1>8. CASE StaleStopped
    BY <1>8, <1>0, Refs DEF StaleStopped, EndRun, request
  <1>9. CASE Polled
    <2>1. UNCHANGED request /\ pc' # "retiring" /\ pc' # "starting" /\ pc' # "yielding"
      BY <1>9 DEF Polled, request, task, Goto, EndRun
    <2>2. CASE UNCHANGED page \/ page' = Tick(page)
      BY <1>9, <2>1, <2>2, <1>0, Refs DEF Tick
    <2>3. ASSUME NEW s \in Ended,
                 page' = [page EXCEPT !.state = s, !.pane = "idle", !.error = FALSE, !.owns = FALSE,
                                      !.shown = IF s = "succeeded" THEN page.ref ELSE page.shown]
          PROVE  Handover'
      BY <1>9, <2>1, <2>3, <1>0, Refs
    <2> QED
      BY <1>9, <2>2, <2>3 DEF Polled
  <1>10. CASE PollFails
    BY <1>10, <1>0, Refs DEF PollFails, Failed, EndRun, Goto, request
  <1>11. CASE Rejected
    BY <1>11, <1>0, Refs, TokenOfRun DEF Rejected, Failed, EndRun, request
  <1>12. CASE Loaded
    BY <1>12, <1>0, Refs DEF Loaded, EndRun, request
  <1>13. CASE Detach
    BY <1>13, <1>0, Refs DEF Detach
  <1>14. CASE Abort
    BY <1>14, <1>0, Refs DEF Abort, EndRun, Quiet, request
  <1>15. CASE Finalized
    BY <1>15, <1>0, Refs DEF Finalized, EndRun, Quiet, request
  <1>16. CASE EnterCancel
    <2>1. pc # "retiring" /\ pc' = pc /\ UNCHANGED request
      BY <1>16 DEF EnterCancel, Locked, LifeOK, BeginCancel, Supersede, task, request
    <2>2. CASE BeginCancel
      BY <2>2, <2>1, <1>0, Refs, CancelPage
    <2>3. CASE UNCHANGED page
      BY <2>3, <2>1, <1>0
    <2> QED
      BY <1>16, <2>2, <2>3 DEF EnterCancel
  <1>17. CASE CancelAnswered
    <2>1. pc # "retiring" /\ pc' = pc /\ UNCHANGED request
      BY <1>17 DEF CancelAnswered, Locked, LifeOK, Supersede, BeginCancel, task
    <2> QED
      BY <1>17, <2>1, <1>0, Refs DEF CancelAnswered, Supersede, BeginCancel, task, Failed, request
  <1>18. CASE EnterContext
    <2>1. pc # "retiring" /\ pc' = pc /\ UNCHANGED request
      BY <1>18 DEF EnterContext, Locked, LifeOK, Supersede, task, request
    <2>2. CASE page' = Reset(page)
      BY <1>18, <2>2, <2>1, <1>0, Refs DEF Reset
    <2>3. CASE UNCHANGED page
      BY <2>3, <2>1, <1>0
    <2> QED
      BY <1>18, <2>2, <2>3 DEF EnterContext
  <1>19. CASE Swept
    BY <1>19, <1>0, Refs DEF Swept, Failed, task, request
  <1>20. CASE ResultsClosed
    BY <1>20, <1>0, Refs DEF ResultsClosed, task, request
  <1>21. CASE EnterShutdown
    <2>1. pc # "retiring" /\ pc' = pc /\ UNCHANGED request
      BY <1>21 DEF EnterShutdown, Locked, LifeOK, Supersede, BeginCancel, task
    <2> QED
      BY <1>21, <2>1, <1>0, Refs DEF EnterShutdown, Supersede, request
  <1>22. CASE Restore
    <2>1. page'.ref = Old /\ page'.owns = FALSE /\ page'.submitting = FALSE
      BY <1>22 DEF Restore, Reset
    <2> QED
      BY <1>22, <2>1, Refs DEF Restore, Busy, task
  <1>23. CASE ShowHistory
    BY <1>23, <1>0, Refs DEF ShowHistory, task, request
  <1>24. ASSUME NEW r \in Runs, Dispatch(r) PROVE Handover'
    BY <1>24, <1>0, Refs DEF Dispatch, task
  <1>25. ASSUME NEW r \in Runs, StartAnswered(r) PROVE Handover'
    BY <1>25, <1>0, Refs DEF StartAnswered, task
  <1>26. ASSUME NEW r \in Runs, StartFails(r) PROVE Handover'
    BY <1>26, <1>0, Refs DEF StartFails, task
  <1>27. ASSUME NEW r \in Runs, Finalize(r) PROVE Handover'
    BY <1>27, <1>0, Refs DEF Finalize, Take, task
  <1>28. CASE UNCHANGED <<pc, start, token, page>>
    BY <1>28, <1>0
  <1> QED
    BY <1>1, <1>2, <1>3, <1>4, <1>5, <1>6, <1>7, <1>8, <1>9, <1>10, <1>11, <1>12, <1>13, <1>14,
       <1>15, <1>16, <1>17, <1>18, <1>19, <1>20, <1>21, <1>22, <1>23, <1>24, <1>25, <1>26,
       <1>27, <1>28, WritersAre DEF Writers

-----------------------------------------------------------------------------

LEMMA KnownToldSteps == Typed /\ Awaited /\ Handover /\ Known /\ [Next]_vars => KnownTold'
  <1> SUFFICES ASSUME Typed, Awaited, Handover, Known, [Next]_vars PROVE KnownTold'
    OBVIOUS
  <1> USE DEF Typed, TypeOK, TaskOK, Numbered, StopsOK, Known, KnownTold, Told
  <1>0. ToldMoves /\ RemoteMoves
    BY ToldStays, RemoteStays
  <1> USE DEF ToldMoves, RemoteMoves
  <1>1. CASE Preflight
    BY <1>1, <1>0 DEF Preflight
  <1>2. CASE Yielded
    BY <1>2, <1>0 DEF Yielded
  <1>3. CASE Started
    BY <1>3, <1>0 DEF Started, Take
  <1>4. ASSUME NEW r \in Runs, Dispatch(r) PROVE KnownTold'
    BY <1>4, <1>0 DEF Dispatch
  <1>5. ASSUME NEW r \in Runs, StartAnswered(r) PROVE KnownTold'
    BY <1>5, <1>0 DEF StartAnswered, Accept
  <1>6. ASSUME NEW r \in Runs, StartFails(r) PROVE KnownTold'
    BY <1>6, <1>0 DEF StartFails, Accept
  <1>7. ASSUME NEW r \in Runs, Finalize(r) PROVE KnownTold'
    BY <1>7, <1>0 DEF Finalize, Take
  <1>8. ASSUME NEW e \in Runs, StopDone(e) PROVE KnownTold'
    BY <1>8, <1>0 DEF StopDone, Cut, request
  <1>9. ASSUME NEW e \in Runs, StopFails(e) PROVE KnownTold'
    BY <1>9, <1>0 DEF StopFails, Cut, request
  <1>10. ASSUME NEW e \in Runs, RemoteEnds(e) PROVE KnownTold'
    BY <1>10, <1>0 DEF RemoteEnds, Cut, request
  <1>11. CASE UNCHANGED <<start, token, remote>>
    BY <1>11, <1>0
  <1> QED
    BY <1>1, <1>2, <1>3, <1>4, <1>5, <1>6, <1>7, <1>8, <1>9, <1>10, <1>11, WritersAre DEF
       Writers

LEMMA KnownClientSteps == Typed /\ Awaited /\ Handover /\ Known /\ [Next]_vars => KnownClient'
  <1> SUFFICES ASSUME Typed, Awaited, Handover, Known, [Next]_vars PROVE KnownClient'
    OBVIOUS
  <1> USE DEF Typed, TypeOK, StopsOK, Known, KnownClient, Owned, Numbered
  <1>0. ToldMoves /\ RemoteMoves
    BY ToldStays, RemoteStays
  <1> USE DEF ToldMoves, RemoteMoves
  <1>1. CASE EnterRetire
    BY <1>1, <1>0, AskClient DEF EnterRetire, stopping
  <1>2. CASE Started
    BY <1>2, <1>0, AskClient, TokenOfRun DEF Started, stopping, Take
  <1>3. CASE Polled
    <2>1. token[run] \in Runs
      BY <1>3, TokenOfRun DEF Polled
    <2>2. UNCHANGED remote
      BY <1>3 DEF Polled
    <2>3. client' = client \/ (client' = Retire(token[run]) /\ remote[token[run]] = "over")
      BY <1>3 DEF Polled
    <2>4. CASE client' = Retire(token[run]) /\ remote[token[run]] = "over"
      BY <2>1, <2>2, <2>4 DEF Retire
    <2> QED
      BY <2>2, <2>3, <2>4
  <1>4. CASE PollFails
    BY <1>4, <1>0, AskClient DEF PollFails, stopping
  <1>5. CASE EnterCancel
    BY <1>5, <1>0, AskClient DEF EnterCancel, stopping
  <1>6. ASSUME NEW r \in Runs, StartAnswered(r) PROVE KnownClient'
    <2>1. remote'[token[r]] # "none" /\ token[r] \in Runs
      BY <1>6 DEF StartAnswered, Accept
    <2>2. client'.retired = client.retired /\ client'.stops = client.stops
          /\ client'.active \subseteq client.active \cup {token[r]}
      BY <1>6 DEF StartAnswered
    <2> QED
      BY <2>1, <2>2, <1>0
  <1>7. ASSUME NEW r \in Runs, StartFails(r) PROVE KnownClient'
    BY <1>7, <1>0 DEF StartFails, Accept, stopping
  <1>8. ASSUME NEW r \in Runs, Finalize(r) PROVE KnownClient'
    BY <1>8, <1>0, AskClient DEF Finalize, stopping, Take
  <1>9. ASSUME NEW e \in Runs, Sweep(e) PROVE KnownClient'
    BY <1>9, <1>0, AskClient DEF Sweep
  <1>10. ASSUME NEW e \in Runs, StopDone(e) PROVE KnownClient'
    BY <1>10, <1>0 DEF StopDone, Cut, Retire
  <1>11. ASSUME NEW e \in Runs, StopFails(e) PROVE KnownClient'
    BY <1>11, <1>0 DEF StopFails, ActiveAgain, Cut
  <1>12. ASSUME NEW e \in Runs, HistorySees(e) PROVE KnownClient'
    BY <1>12, <1>0 DEF HistorySees, Retire
  <1>13. ASSUME NEW e \in Runs, RemoteEnds(e) PROVE KnownClient'
    BY <1>13, <1>0 DEF RemoteEnds, Cut, stopping
  <1>14. CASE UNCHANGED <<remote, client>>
    BY <1>14, <1>0
  <1> QED
    BY <1>1, <1>2, <1>3, <1>4, <1>5, <1>6, <1>7, <1>8, <1>9, <1>10, <1>11, <1>12, <1>13, <1>14,
       WritersAre DEF Writers

LEMMA KnownRefsSteps == Typed /\ Awaited /\ Handover /\ Known /\ [Next]_vars => KnownRefs'
  <1> SUFFICES ASSUME Typed, Awaited, Handover, Known, [Next]_vars PROVE KnownRefs'
    OBVIOUS
  <1> USE DEF Typed, TypeOK, StopsOK, Known, KnownRefs, Owned, Handover, Awaited, Numbered,
      TaskOK
  <1>0. ToldMoves /\ RemoteMoves
    BY ToldStays, RemoteStays
  <1> USE DEF ToldMoves, RemoteMoves
  <1>1. CASE Preflight
    BY <1>1, <1>0 DEF Preflight, cleanup, lifecycle
  <1>2. CASE Yielded
    BY <1>2, <1>0 DEF Yielded, cleanup
  <1>3. CASE Started
    <2>1. CASE Retain(token[run])
      <3>1. Told(token[run])'
        BY <1>3, TokenOfRun DEF Started, Take, Told, Goto, EndRun
      <3> QED
        BY <1>3, <1>0, <2>1, <3>1, RetainKeeps DEF Started, lifecycle, Goto, EndRun
    <2>2. CASE UNCHANGED cleanup
      BY <1>3, <1>0, <2>2 DEF Started, cleanup, lifecycle
    <2> QED
      BY <1>3, <2>1, <2>2 DEF Started
  <1>4. CASE StaleStopped
    BY <1>4, <1>0 DEF StaleStopped, Settle, request, lifecycle
  <1>5. CASE PollFails
    BY <1>5, <1>0, RetainKeeps DEF PollFails, cleanup, request, lifecycle
  <1>6. CASE Rejected
    BY <1>6, <1>0 DEF Rejected, Settle, request, lifecycle
  <1>7. CASE EnterContext
    BY <1>7, <1>0, RetainKeeps DEF EnterContext, RetainOwned, cleanup, request
  <1>8. CASE Drained
    BY <1>8, <1>0 DEF Drained, request, cleanup
  <1>9. CASE FinalizersDrained
    BY <1>9, <1>0 DEF FinalizersDrained, request, cleanup
  <1>10. CASE Swept
    BY <1>10, <1>0 DEF Swept, Settle, request, lifecycle
  <1>11. CASE EnterShutdown
    BY <1>11, <1>0, RetainKeeps DEF EnterShutdown, RetainOwned, cleanup, request
  <1>12. ASSUME NEW r \in Runs, Dispatch(r) PROVE KnownRefs'
    BY <1>12, <1>0 DEF Dispatch, cleanup, lifecycle
  <1>13. ASSUME NEW r \in Runs, StartAnswered(r) PROVE KnownRefs'
    BY <1>13, <1>0 DEF StartAnswered, cleanup, lifecycle
  <1>14. ASSUME NEW r \in Runs, StartFails(r) PROVE KnownRefs'
    BY <1>14, <1>0 DEF StartFails, cleanup, lifecycle
  <1>15. ASSUME NEW r \in Runs, Finalize(r) PROVE KnownRefs'
    <2>1. CASE start[r] = "answered" /\ Take(r) /\ Retain(token[r])
      <3>1. Told(token[r])' /\ token[r] \in Runs
        BY <1>15, <2>1 DEF Finalize, Take, Told
      <3> QED
        BY <1>15, <1>0, <2>1, <3>1, RetainKeeps DEF Finalize, lifecycle
    <2>2. CASE UNCHANGED cleanup
      BY <1>15, <1>0, <2>2 DEF Finalize, cleanup, lifecycle
    <2> QED
      BY <1>15, <2>1, <2>2 DEF Finalize
  <1>16. ASSUME NEW r \in Runs, FinalizerStopped(r) PROVE KnownRefs'
    BY <1>16, <1>0 DEF FinalizerStopped, Settle, lifecycle
  <1>17. ASSUME NEW e \in Runs, Sweep(e) PROVE KnownRefs'
    BY <1>17, <1>0 DEF Sweep, request, cleanup
  <1>18. CASE UNCHANGED <<start, token, pending, todo>>
    BY <1>18, <1>0
  <1> QED
    BY <1>1, <1>2, <1>3, <1>4, <1>5, <1>6, <1>7, <1>8, <1>9, <1>10, <1>11, <1>12, <1>13, <1>14,
       <1>15, <1>16, <1>17, <1>18, WritersAre DEF Writers

LEMMA KnownAnswersSteps == Typed /\ Awaited /\ Handover /\ Known /\ [Next]_vars => KnownAnswers'
  <1> SUFFICES ASSUME Typed, Awaited, Handover, Known, [Next]_vars PROVE KnownAnswers'
    OBVIOUS
  <1> USE DEF Typed, TypeOK, StopsOK, Known, KnownAnswers
  <1>0. ToldMoves /\ RemoteMoves
    BY ToldStays, RemoteStays
  <1> USE DEF ToldMoves, RemoteMoves
  <1>1. CASE EnterRetire
    BY <1>1, <1>0 DEF EnterRetire, stopping, Ask
  <1>2. CASE Retired
    BY <1>2, <1>0 DEF Retired, Hear
  <1>3. CASE Started
    BY <1>3, <1>0 DEF Started, stopping, Ask
  <1>4. CASE StaleStopped
    BY <1>4, <1>0 DEF StaleStopped, Hear
  <1>5. CASE PollFails
    BY <1>5, <1>0 DEF PollFails, stopping, Ask
  <1>6. CASE Rejected
    BY <1>6, <1>0 DEF Rejected, Hear
  <1>7. CASE Abort
    BY <1>7, <1>0 DEF Abort, Hear
  <1>8. CASE EnterCancel
    BY <1>8, <1>0 DEF EnterCancel, stopping, Ask
  <1>9. CASE CancelAnswered
    BY <1>9, <1>0 DEF CancelAnswered, stopping, Hear
  <1>10. CASE Swept
    BY <1>10, <1>0 DEF Swept, Hear
  <1>11. CASE CancelInterrupted
    BY <1>11, <1>0 DEF CancelInterrupted, stopping, Hear
  <1>12. ASSUME NEW r \in Runs, StartAnswered(r) PROVE KnownAnswers'
    BY <1>12, <1>0 DEF StartAnswered, Accept
  <1>13. ASSUME NEW r \in Runs, StartFails(r) PROVE KnownAnswers'
    BY <1>13, <1>0 DEF StartFails, Accept, stopping
  <1>14. ASSUME NEW r \in Runs, Finalize(r) PROVE KnownAnswers'
    BY <1>14, <1>0 DEF Finalize, stopping, Ask
  <1>15. ASSUME NEW r \in Runs, FinalizerStopped(r) PROVE KnownAnswers'
    BY <1>15, <1>0 DEF FinalizerStopped, stopping, Hear
  <1>16. ASSUME NEW e \in Runs, Sweep(e) PROVE KnownAnswers'
    BY <1>16, <1>0 DEF Sweep, Ask
  <1>17. ASSUME NEW e \in Runs, StopDone(e) PROVE KnownAnswers'
    <2>1. remote'[e] = "over"
      BY <1>17 DEF StopDone, Cut, KnownClient
    <2> QED
      BY <1>17, <2>1, <1>0 DEF StopDone, Tell
  <1>18. ASSUME NEW e \in Runs, StopFails(e) PROVE KnownAnswers'
    BY <1>18, <1>0 DEF StopFails, Tell, Cut
  <1>19. ASSUME NEW e \in Runs, RemoteEnds(e) PROVE KnownAnswers'
    BY <1>19, <1>0 DEF RemoteEnds, Cut, stopping
  <1>20. CASE UNCHANGED <<remote, asked, answer>>
    BY <1>20, <1>0
  <1> QED
    BY <1>1, <1>2, <1>3, <1>4, <1>5, <1>6, <1>7, <1>8, <1>9, <1>10, <1>11, <1>12, <1>13, <1>14,
       <1>15, <1>16, <1>17, <1>18, <1>19, <1>20, WritersAre DEF Writers

LEMMA KnownSteps == Typed /\ Awaited /\ Handover /\ Known /\ [Next]_vars => Known'
  BY KnownToldSteps, KnownClientSteps, KnownRefsSteps, KnownAnswersSteps DEF Known

\* A query is shown as cancelled only if its stop was answered, or it was never one.
LEMMA CancelledSteps == Typed /\ Handover /\ KnownAnswers /\ CancelledIsOver /\ [Next]_vars =>
    CancelledIsOver'
  <1> SUFFICES ASSUME Typed, Handover, KnownAnswers, CancelledIsOver, [Next]_vars PROVE
         CancelledIsOver'
    OBVIOUS
  <1> USE DEF Typed, TypeOK, PageOK, CancelledIsOver, Handover, Owned
  <1>0. \A e \in Runs: remote[e] = "over" => remote'[e] = "over"
    BY RemoteStays DEF RemoteMoves
  <1>1. CASE Retired
    <2>1. PICK a \in {"ok", "denied", "error"}:
             Answered(Body, page.ref, a) /\ (a = "ok" \/ page' = Failed(page))
      BY <1>1 DEF Retired, MayReplace
    <2>2. CASE a = "ok"
      <3>1. remote'[page.ref] = "over"
        BY <2>1, <2>2, <1>0, OkIsOver, CallersAre
      <3>2. page'.ref = page.ref
        BY <1>1 DEF Retired, Failed
      <3> QED
        BY <3>1, <3>2
    <2>3. CASE page' = Failed(page)
      BY <2>3, <1>0 DEF Failed
    <2> QED
      BY <2>1, <2>2, <2>3
  <1>2. CASE Yielded
    BY <1>2, <1>0, Refs DEF Yielded, Reset
  <1>3. CASE Started
    BY <1>3, <1>0, Refs, TokenOfRun DEF Started
  <1>4. CASE StartRaised
    BY <1>4, <1>0, Refs DEF StartRaised, Failed, Quiet
  <1>5. CASE Polled
    BY <1>5, <1>0, Refs DEF Polled, Tick
  <1>6. CASE PollFails
    BY <1>6, <1>0, Refs DEF PollFails, Failed
  <1>7. CASE Rejected
    BY <1>7, <1>0, Refs, TokenOfRun DEF Rejected, Failed
  <1>8. CASE Abort
    BY <1>8, <1>0, Refs DEF Abort, Quiet
  <1>9. CASE Finalized
    BY <1>9, <1>0, Refs DEF Finalized, Quiet
  <1>10. CASE EnterCancel
    <2>1. CASE BeginCancel /\ page.submitting
      BY <2>1, <1>0, Refs, CancelPage
    <2>2. CASE UNCHANGED page
      BY <2>2, <1>0
    <2> QED
      BY <1>10, <2>1, <2>2 DEF EnterCancel, CanInterrupt
  <1>11. CASE CancelAnswered
    <2>1. CASE Answered(Holder, page.ref, "ok") /\ BeginCancel
      <3>1. remote'[page.ref] = "over" /\ page'.ref = page.ref
        BY <2>1, <1>0, OkIsOver, CallersAre DEF BeginCancel
      <3> QED
        BY <3>1
    <2>2. CASE page' = Failed(page)
      BY <2>2, <1>0 DEF Failed
    <2> QED
      BY <1>11, <2>1, <2>2 DEF CancelAnswered
  <1>12. CASE EnterContext
    BY <1>12, <1>0, Refs DEF EnterContext, Reset, task
  <1>13. CASE Swept
    BY <1>13, <1>0, Refs DEF Swept, Failed
  <1>14. CASE ResultsClosed
    BY <1>14, <1>0, Refs DEF ResultsClosed
  <1>15. CASE EnterShutdown
    BY <1>15, <1>0, Refs DEF EnterShutdown
  <1>16. CASE Restore
    BY <1>16, <1>0, Refs DEF Restore, Reset
  <1>17. CASE ShowHistory
    BY <1>17, <1>0, Refs DEF ShowHistory
  <1>18. ASSUME NEW r \in Runs, StartAnswered(r) PROVE CancelledIsOver'
    BY <1>18, <1>0, Refs DEF StartAnswered, Accept
  <1>19. ASSUME NEW r \in Runs, StartFails(r) PROVE CancelledIsOver'
    BY <1>19, <1>0, Refs DEF StartFails, Accept
  <1>20. ASSUME NEW e \in Runs, StopDone(e) PROVE CancelledIsOver'
    BY <1>20, <1>0, Refs DEF StopDone, Cut
  <1>21. ASSUME NEW e \in Runs, StopFails(e) PROVE CancelledIsOver'
    BY <1>21, <1>0, Refs DEF StopFails, Cut
  <1>22. ASSUME NEW e \in Runs, RemoteEnds(e) PROVE CancelledIsOver'
    BY <1>22, <1>0, Refs DEF RemoteEnds, Cut
  <1>23. CASE UNCHANGED <<page, remote>>
    BY <1>23, <1>0
  <1> QED
    BY <1>1, <1>2, <1>3, <1>4, <1>5, <1>6, <1>7, <1>8, <1>9, <1>10, <1>11, <1>12, <1>13, <1>14,
       <1>15, <1>16, <1>17, <1>18, <1>19, <1>20, <1>21, <1>22, <1>23, WritersAre DEF Writers

-----------------------------------------------------------------------------
\* What becomes of an execution that the page owns, that is retained, or whose id
\* is in hand; and an id becomes known only by coming to hand.
OwnedMoves ==
    page.owns => \/ page'.owns /\ page'.ref = page.ref
                 \/ page.ref \in pending' \/ remote'[page.ref] = "over"
RetainedMoves ==
    \A e \in Runs: e \in pending \cup abandoned => e \in pending' \cup abandoned' \/ remote'[e] = "over"
InHandMoves ==
    \A e \in Runs: InHand(e) => InHand(e)' \/ e \in pending' \/ (page'.owns /\ page'.ref = e)
Arrivals == \A e \in Runs: Told(e)' => Told(e) \/ InHand(e)'

LEMMA ToldArrives == Typed /\ Awaited /\ [Next]_vars => Arrivals
  <1> SUFFICES ASSUME Typed, Awaited, [Next]_vars PROVE Arrivals
    OBVIOUS
  <1> USE DEF Arrivals, Typed, TypeOK, TaskOK, Numbered, Told, InHand, Awaited
  <1>1. CASE Execute
    BY <1>1 DEF Execute, request
  <1>2. CASE Preflight
    BY <1>2 DEF Preflight, EndRun, Goto
  <1>3. CASE EnterRetire
    BY <1>3 DEF EnterRetire, EndRun, Goto, request
  <1>4. CASE Retired
    BY <1>4 DEF Retired, Goto, EndRun, request
  <1>5. CASE Yielded
    BY <1>5 DEF Yielded, EndRun, Goto
  <1>6. CASE Started
    BY <1>6 DEF Started, Take, EndRun, Goto
  <1>7. CASE StartRaised
    BY <1>7 DEF StartRaised, EndRun, request
  <1>8. CASE StaleStopped
    BY <1>8 DEF StaleStopped, EndRun, request
  <1>9. CASE Polled
    BY <1>9 DEF Polled, EndRun, task, Goto, request
  <1>10. CASE PollFails
    BY <1>10 DEF PollFails, EndRun, Goto, request
  <1>11. CASE Rejected
    BY <1>11 DEF Rejected, EndRun, request
  <1>12. CASE Loaded
    BY <1>12 DEF Loaded, EndRun, request
  <1>13. CASE Detach
    BY <1>13 DEF Detach
  <1>14. CASE Abort
    BY <1>14 DEF Abort, EndRun, request
  <1>15. CASE Finalized
    BY <1>15 DEF Finalized, EndRun, request
  <1>16. ASSUME NEW r \in Runs, Dispatch(r) PROVE Arrivals
    BY <1>16 DEF Dispatch, task
  <1>17. ASSUME NEW r \in Runs, StartAnswered(r) PROVE Arrivals
    BY <1>17 DEF StartAnswered, task
  <1>18. ASSUME NEW r \in Runs, StartFails(r) PROVE Arrivals
    BY <1>18 DEF StartFails, task
  <1>19. ASSUME NEW r \in Runs, Finalize(r) PROVE Arrivals
    BY <1>19 DEF Finalize, Finish, Take, task
  <1>20. ASSUME NEW r \in Runs, FinalizerStopped(r) PROVE Arrivals
    BY <1>20 DEF FinalizerStopped, Finish, task
  <1>21. CASE UNCHANGED <<run, pc, start, token, fin>>
    BY <1>21
  <1> QED
    BY <1>1, <1>2, <1>3, <1>4, <1>5, <1>6, <1>7, <1>8, <1>9, <1>10, <1>11, <1>12, <1>13, <1>14,
       <1>15, <1>16, <1>17, <1>18, <1>19, <1>20, <1>21, WritersAre DEF Writers

LEMMA OwnedStays == Typed /\ Handover /\ KnownAnswers /\ [Next]_vars => OwnedMoves
  <1> SUFFICES ASSUME Typed, Handover, KnownAnswers, [Next]_vars PROVE OwnedMoves
    OBVIOUS
  <1> USE DEF OwnedMoves, Typed, TypeOK, PageOK, Owned, Handover, KnownAnswers
  <1>0. \A e \in Runs: remote[e] = "over" => remote'[e] = "over"
    BY RemoteStays DEF RemoteMoves
  <1>1. CASE Retired
    <2>1. PICK a \in {"ok", "denied", "error"}:
             Answered(Body, page.ref, a) /\ (a = "ok" \/ page' = Failed(page))
      BY <1>1 DEF Retired, MayReplace
    <2>2. CASE a = "ok"
      BY <2>1, <2>2, <1>0, OkIsOver, CallersAre
    <2>3. CASE page' = Failed(page)
      BY <2>3 DEF Failed
    <2> QED
      BY <2>1, <2>2, <2>3
  <1>2. CASE Yielded
    BY <1>2, <1>0 DEF Yielded, Reset
  <1>3. CASE Started
    BY <1>3, <1>0 DEF Started
  <1>4. CASE StartRaised
    BY <1>4, <1>0 DEF StartRaised, Failed, Quiet
  <1>5. CASE Polled
    BY <1>5, <1>0 DEF Polled, Tick
  <1>6. CASE PollFails
    BY <1>6, <1>0 DEF PollFails, Failed
  <1>7. CASE Rejected
    <2>1. PICK a \in {"ok", "denied", "error"}:
             /\ Answered(Body, token[run], a)
             /\ page' = IF stale THEN page
                        ELSE [Failed(page) EXCEPT !.owns = a # "ok", !.state = "none",
                                !.submitting = FALSE, !.ref = IF a = "ok" THEN None ELSE token[run]]
      BY <1>7 DEF Rejected
    <2>2. CASE a = "ok" /\ ~stale
      BY <1>7, <2>1, <2>2, <1>0, OkIsOver, CallersAre DEF Rejected
    <2>3. CASE a # "ok" /\ ~stale
      <3>1. (a # "ok") = TRUE
        BY <2>3
      <3> QED
        BY <1>7, <2>1, <2>3, <3>1 DEF Rejected, Failed
    <2> QED
      BY <2>1, <2>2, <2>3
  <1>8. CASE Abort
    BY <1>8, <1>0 DEF Abort, Quiet
  <1>9. CASE Finalized
    BY <1>9, <1>0 DEF Finalized, Quiet
  <1>10. CASE EnterCancel
    BY <1>10, Refs DEF EnterCancel
  <1>11. CASE CancelAnswered
    <2>1. CASE Answered(Holder, page.ref, "ok")
      BY <2>1, <1>0, OkIsOver, CallersAre
    <2>2. CASE page' = Failed(page)
      BY <2>2 DEF Failed
    <2> QED
      BY <1>11, <2>1, <2>2 DEF CancelAnswered
  <1>12. CASE EnterContext
    <2>1. CASE Open
      BY <1>12, <2>1, Refs, RetainKeeps DEF EnterContext, RetainOwned
    <2>2. CASE ~Open
      BY <1>12, <2>2 DEF EnterContext
    <2> QED
      BY <2>1, <2>2
  <1>13. CASE Swept
    BY <1>13, <1>0 DEF Swept, Failed
  <1>14. CASE ResultsClosed
    BY <1>14, <1>0 DEF ResultsClosed
  <1>15. CASE EnterShutdown
    BY <1>15, Refs, RetainKeeps DEF EnterShutdown, RetainOwned
  <1>16. CASE Restore
    BY <1>16 DEF Restore, Busy
  <1>17. CASE ShowHistory
    BY <1>17, <1>0 DEF ShowHistory
  <1>18. CASE UNCHANGED page
    BY <1>18, <1>0
  <1> QED
    BY <1>1, <1>2, <1>3, <1>4, <1>5, <1>6, <1>7, <1>8, <1>9, <1>10, <1>11, <1>12, <1>13, <1>14,
       <1>15, <1>16, <1>17, <1>18, WritersAre DEF Writers

LEMMA RetainedStays == Typed /\ KnownAnswers /\ [Next]_vars => RetainedMoves
  <1> SUFFICES ASSUME Typed, KnownAnswers, [Next]_vars PROVE RetainedMoves
    OBVIOUS
  <1> USE DEF RetainedMoves, Typed, TypeOK, StopsOK, KnownAnswers
  <1>0. \A e \in Runs: remote[e] = "over" => remote'[e] = "over"
    BY RemoteStays DEF RemoteMoves
  <1>1. CASE Started
    BY <1>1, <1>0, RetainKeeps DEF Started, cleanup
  <1>2. CASE StaleStopped
    BY <1>2, <1>0, CallersAre DEF StaleStopped, Settle, Answered
  <1>3. CASE PollFails
    BY <1>3, <1>0, RetainKeeps DEF PollFails, cleanup
  <1>4. CASE Rejected
    BY <1>4, <1>0, CallersAre DEF Rejected, Settle, Answered
  <1>5. CASE EnterContext
    BY <1>5, <1>0, RetainKeeps DEF EnterContext, RetainOwned, cleanup
  <1>6. CASE Swept
    BY <1>6, <1>0, CallersAre DEF Swept, Settle, Answered
  <1>7. CASE EnterShutdown
    BY <1>7, <1>0, RetainKeeps DEF EnterShutdown, RetainOwned, cleanup
  <1>8. ASSUME NEW r \in Runs, Finalize(r) PROVE RetainedMoves
    BY <1>8, <1>0, RetainKeeps DEF Finalize, cleanup
  <1>9. ASSUME NEW r \in Runs, FinalizerStopped(r) PROVE RetainedMoves
    BY <1>9, <1>0, CallersAre DEF FinalizerStopped, Settle, Answered
  <1>10. CASE UNCHANGED <<pending, abandoned>>
    BY <1>10, <1>0
  <1> QED
    BY <1>1, <1>2, <1>3, <1>4, <1>5, <1>6, <1>7, <1>8, <1>9, <1>10, WritersAre DEF Writers

LEMMA InHandStays == Typed /\ [Next]_vars => InHandMoves
  <1> SUFFICES ASSUME Typed, [Next]_vars PROVE InHandMoves
    OBVIOUS
  <1> USE DEF InHandMoves, Typed, TypeOK, TaskOK, Numbered, InHand
  <1>1. CASE Execute
    BY <1>1 DEF Execute, request, CanExecute
  <1>2. CASE Preflight
    BY <1>2 DEF Preflight, EndRun, Goto
  <1>3. CASE EnterRetire
    BY <1>3 DEF EnterRetire, EndRun, Goto, request
  <1>4. CASE Retired
    BY <1>4 DEF Retired, Goto, EndRun, request
  <1>5. CASE Yielded
    BY <1>5 DEF Yielded, EndRun, Goto
  <1>6. CASE Started
    <2>1. start[run] = "answered" /\ Take(run) /\ UNCHANGED <<run, token, fin>>
      BY <1>6 DEF Started, Goto, EndRun
    <2>2. token[run] \in pending' \/ (page'.owns /\ page'.ref = token[run])
      <3>1. CASE Retain(token[run])
        BY <3>1, RetainKeeps
      <3>2. CASE page' = [page EXCEPT !.ref = token[run], !.owns = TRUE, !.state = "active",
                                      !.submitting = FALSE, !.pane = "idle"]
        BY <3>2 DEF PageOK
      <3> QED
        BY <1>6, <3>1, <3>2 DEF Started
    <2>. SUFFICES ASSUME NEW e \in Runs, InHand(e), e # token[run] PROVE InHand(e)'
      BY <2>2
    <2> QED
      BY <2>1 DEF Take
  <1>7. CASE StartRaised
    BY <1>7 DEF StartRaised, EndRun, request
  <1>8. CASE StaleStopped
    BY <1>8 DEF StaleStopped, EndRun, request
  <1>9. CASE Polled
    BY <1>9 DEF Polled, EndRun, task, Goto, request
  <1>10. CASE PollFails
    BY <1>10 DEF PollFails, EndRun, Goto, request
  <1>11. CASE Rejected
    BY <1>11 DEF Rejected, EndRun, request
  <1>12. CASE Loaded
    BY <1>12 DEF Loaded, EndRun, request
  <1>13. CASE Detach
    BY <1>13 DEF Detach
  <1>14. CASE Abort
    BY <1>14 DEF Abort, EndRun, request
  <1>15. CASE Finalized
    BY <1>15 DEF Finalized, EndRun, request
  <1>16. ASSUME NEW r \in Runs, Dispatch(r) PROVE InHandMoves
    BY <1>16 DEF Dispatch, task
  <1>17. ASSUME NEW r \in Runs, StartAnswered(r) PROVE InHandMoves
    BY <1>17 DEF StartAnswered, task
  <1>18. ASSUME NEW r \in Runs, StartFails(r) PROVE InHandMoves
    BY <1>18 DEF StartFails, task
  <1>19. ASSUME NEW r \in Runs, Finalize(r) PROVE InHandMoves
    BY <1>19, RetainKeeps DEF Finalize, Finish, Take, task
  <1>20. ASSUME NEW r \in Runs, FinalizerStopped(r) PROVE InHandMoves
    BY <1>20 DEF FinalizerStopped, Finish, task
  <1>21. CASE UNCHANGED <<run, pc, start, token, fin>>
    BY <1>21
  <1> QED
    BY <1>1, <1>2, <1>3, <1>4, <1>5, <1>6, <1>7, <1>8, <1>9, <1>10, <1>11, <1>12, <1>13, <1>14,
       <1>15, <1>16, <1>17, <1>18, <1>19, <1>20, <1>21, WritersAre DEF Writers

\* An execution that runs and whose id is known is owned, retained, in hand or given
\* up before the step, and whatever the step lets go of is one of these after it.
LEMMA OrphanSteps ==
  Typed /\ Awaited /\ Handover /\ KnownTold /\ KnownAnswers /\ NoOrphan /\ [Next]_vars => NoOrphan'
  <1> SUFFICES ASSUME Typed, Awaited, Handover, KnownTold, KnownAnswers, NoOrphan, [Next]_vars,
                      NEW e \in Runs, remote'[e] = "running", Told(e)'
               PROVE  (page'.owns /\ page'.ref = e) \/ e \in pending' \/ InHand(e)' \/ e \in abandoned'
    BY DEF NoOrphan
  <1>1. CASE InHand(e)'
    BY <1>1
  <1>2. CASE Told(e)
    <2>1. remote[e] = "running"
      BY <1>2, RemoteStays DEF RemoteMoves, KnownTold, Typed, TypeOK, StopsOK
    <2>2. (page.owns /\ page.ref = e) \/ e \in pending \/ InHand(e) \/ e \in abandoned
      BY <1>2, <2>1 DEF NoOrphan
    <2> QED
      BY <2>2, OwnedStays, RetainedStays, InHandStays DEF OwnedMoves, RetainedMoves, InHandMoves
  <1> QED
    BY <1>1, <1>2, ToldArrives DEF Arrivals

-----------------------------------------------------------------------------
\* A token is forgotten when its execution is known or the user changed something,
\* and a run that gets one shares it with the next attempt.
IntentMoves ==
    /\ given \subseteq given'
    /\ \A e \in Runs: intent = e => intent' = e \/ e \in given' \/ Told(e)'
    /\ \A r \in Runs: token[r] # token'[r] => token'[r] = intent'

LEMMA IntentStays == Typed /\ [Next]_vars => IntentMoves
  <1> SUFFICES ASSUME Typed, [Next]_vars PROVE IntentMoves
    OBVIOUS
  <1> USE DEF IntentMoves, Typed, TypeOK, TaskOK, Numbered
  <1>0. ToldMoves
    BY ToldStays
  <1> USE DEF ToldMoves
  <1>1. CASE Preflight
    BY <1>1, <1>0, Refs DEF Preflight, Token
  <1>2. CASE Started
    <2>1. Told(token[run])'
      BY <1>2, TokenOfRun DEF Started, Take, Told, Goto, EndRun
    <2> QED
      BY <1>2, <2>1 DEF Started, Goto, EndRun
  <1>3. CASE EnterCancel
    BY <1>3, <1>0, Refs DEF EnterCancel, tokens, BeginCancel, Forget, request
  <1>4. CASE CancelAnswered
    BY <1>4, <1>0, Refs DEF CancelAnswered, BeginCancel, Forget, tokens, request
  <1>5. CASE EnterContext
    BY <1>5, <1>0, Refs DEF EnterContext, Forget, tokens, request
  <1>6. CASE Edit
    BY <1>6, <1>0, Refs DEF Edit, Forget, request
  <1>7. CASE UNCHANGED <<token, intent, given>>
    BY <1>7, <1>0
  <1> QED
    BY <1>1, <1>2, <1>3, <1>4, <1>5, <1>6, <1>7, WritersAre DEF Writers

LEMMA RememberedSteps == Typed /\ Remembered /\ [Next]_vars => Remembered'
  <1> SUFFICES ASSUME Typed, Remembered, [Next]_vars PROVE Kept' /\ Sourced'
    BY DEF Remembered
  <1>1. \A r \in Runs: token[r] # None => token[r] \in Runs /\ token'[r] = token[r]
    BY TokensStay, BoundsAreNatural DEF TokensMove, Typed, TypeOK, TaskOK, Runs, None
  <1>2. Kept'
    <2> SUFFICES ASSUME NEW r \in Runs, token'[r] # None
                 PROVE  intent' = token'[r] \/ token'[r] \in given' \/ Told(token[r])'
      BY DEF Kept
    <2>1. CASE token[r] # token'[r]
      BY <2>1, IntentStays DEF IntentMoves
    <2>2. CASE token[r] = token'[r]
      <3>1. token[r] \in Runs
        BY <1>1, <2>2
      <3>2. intent = token[r] \/ token[r] \in given \/ Told(token[r])
        BY <2>2 DEF Remembered, Kept
      <3> QED
        BY <2>2, <3>1, <3>2, IntentStays, ToldStays DEF IntentMoves, ToldMoves
    <2> QED
      BY <2>1, <2>2
  <1>3. Sourced'
    <2> SUFFICES ASSUME NEW e \in Runs, remote'[e] # "none" PROVE \E r \in Runs: token'[r] = e
      BY DEF Sourced
    <2>1. (\E r \in Runs: token[r] = e) => \E r \in Runs: token'[r] = e
      BY <1>1, Refs
    <2>2. CASE remote[e] # "none"
      BY <2>1, <2>2 DEF Remembered, Sourced
    <2>3. CASE remote[e] = "none"
      BY <2>1, <2>3, RemoteStays DEF RemoteMoves
    <2> QED
      BY <2>2, <2>3
  <1> QED
    BY <1>2, <1>3

-----------------------------------------------------------------------------

LEMMA PaneSteps == Typed /\ Handover /\ PaneTrue /\ [Next]_vars => PaneTrue'
  <1> SUFFICES ASSUME Typed, Handover, PaneTrue, [Next]_vars PROVE PaneTrue'
    OBVIOUS
  <1> USE DEF Typed, TypeOK, PageOK, Owned, Handover, PaneTrue
  <1>1. CASE Retired
    <2>1. CASE page' = [page EXCEPT !.owns = FALSE, !.state = "cancelled"]
      BY <1>1, <2>1, Refs DEF Retired
    <2>2. CASE page' = Failed(page)
      BY <1>1, <2>2, Refs DEF Failed, Retired
    <2> QED
      BY <1>1, <2>1, <2>2 DEF Retired
  <1>2. CASE Yielded
    <2>1. CASE UNCHANGED page
      BY <2>1
    <2>2. CASE page' = [Reset(page) EXCEPT !.submitting = TRUE, !.pane = "loading"]
      BY <2>2, Refs DEF Reset
    <2> QED
      BY <1>2, <2>1, <2>2 DEF Yielded
  <1>3. CASE Started
    BY <1>3, Refs, TokenOfRun DEF Started
  <1>4. CASE StartRaised
    BY <1>4, Refs DEF StartRaised, Failed, Quiet
  <1>5. CASE Polled
    <2>1. CASE UNCHANGED page
      BY <2>1
    <2>2. CASE ~stale /\ page' = Tick(page)
      BY <1>5, <2>2, Refs, TokenOfRun DEF Tick, Polled
    <2>3. ASSUME ~stale, NEW s \in {"succeeded", "failed", "cancelled"},
                 page' = [page EXCEPT !.state = s, !.pane = "idle", !.error = FALSE, !.owns = FALSE,
                                      !.shown = IF s = "succeeded" THEN page.ref ELSE page.shown]
          PROVE  PaneTrue'
      BY <1>5, <2>3, Refs, TokenOfRun DEF Polled
    <2> QED
      BY <1>5, <2>1, <2>2, <2>3 DEF Polled, Ended
  <1>6. CASE PollFails
    BY <1>6, Refs DEF PollFails, Failed
  <1>7. CASE Rejected
    BY <1>7, Refs, TokenOfRun DEF Rejected, Failed
  <1>8. CASE Abort
    BY <1>8, Refs DEF Abort, Quiet
  <1>9. CASE Finalized
    BY <1>9, Refs DEF Finalized, Quiet
  <1>10. CASE EnterCancel
    BY <1>10, Refs DEF EnterCancel, BeginCancel, PaneAfterCancel
  <1>11. CASE CancelAnswered
    BY <1>11, Refs DEF CancelAnswered, BeginCancel, PaneAfterCancel, Failed
  <1>12. CASE EnterContext
    <2>1. CASE UNCHANGED page
      BY <2>1
    <2>2. CASE page' = Reset(page)
      BY <2>2, Refs DEF Reset
    <2> QED
      BY <1>12, <2>1, <2>2 DEF EnterContext
  <1>13. CASE Swept
    BY <1>13, Refs DEF Swept, Failed
  <1>14. CASE ResultsClosed
    BY <1>14, Refs DEF ResultsClosed
  <1>15. CASE EnterShutdown
    BY <1>15, Refs DEF EnterShutdown
  <1>16. CASE Restore
    BY <1>16, Refs DEF Restore, Reset
  <1>17. CASE ShowHistory
    BY <1>17, Refs DEF ShowHistory
  <1>18. CASE UNCHANGED page
    BY <1>18
  <1> QED
    BY <1>1, <1>2, <1>3, <1>4, <1>5, <1>6, <1>7, <1>8, <1>9, <1>10, <1>11, <1>12, <1>13, <1>14,
       <1>15, <1>16, <1>17, <1>18, WritersAre DEF Writers

LEMMA StateSteps == Typed /\ Handover /\ StateTrue /\ [Next]_vars => StateTrue'
  <1> SUFFICES ASSUME Typed, Handover, StateTrue, [Next]_vars PROVE StateTrue'
    OBVIOUS
  <1> USE DEF Typed, TypeOK, PageOK, Owned, Handover, StateTrue
  <1>1. CASE Retired
    <2>1. CASE page' = [page EXCEPT !.owns = FALSE, !.state = "cancelled"]
      BY <2>1
    <2>2. CASE page' = Failed(page)
      BY <2>2 DEF Failed
    <2> QED
      BY <1>1, <2>1, <2>2 DEF Retired
  <1>2. CASE Yielded
    <2>1. CASE page' = [Reset(page) EXCEPT !.submitting = TRUE, !.pane = "loading"]
      BY <2>1, Refs DEF Reset
    <2>2. CASE UNCHANGED page
      BY <2>2
    <2> QED
      BY <1>2, <2>1, <2>2 DEF Yielded
  <1>3. CASE Started
    <2>1. CASE UNCHANGED page
      BY <2>1
    <2>2. CASE page' = [page EXCEPT !.ref = token[run], !.owns = TRUE, !.state = "active",
                                    !.submitting = FALSE, !.pane = "idle"]
      BY <1>3, <2>2, Refs, TokenOfRun DEF Started
    <2> QED
      BY <1>3, <2>1, <2>2 DEF Started
  <1>4. CASE StartRaised
    BY <1>4, Refs DEF StartRaised, Failed, Quiet
  <1>5. CASE Polled
    <2>1. CASE UNCHANGED page
      BY <2>1
    <2>2. CASE ~stale /\ page' = Tick(page)
      BY <1>5, <2>2, Refs, TokenOfRun DEF Tick, Polled
    <2>3. ASSUME ~stale, NEW s \in {"succeeded", "failed", "cancelled"},
                 page' = [page EXCEPT !.state = s, !.pane = "idle", !.error = FALSE, !.owns = FALSE,
                                      !.shown = IF s = "succeeded" THEN page.ref ELSE page.shown]
          PROVE  StateTrue'
      BY <1>5, <2>3, Refs, TokenOfRun DEF Polled
    <2> QED
      BY <1>5, <2>1, <2>2, <2>3 DEF Polled, Ended
  <1>6. CASE PollFails
    BY <1>6, Refs DEF PollFails, Failed
  <1>7. CASE Rejected
    BY <1>7, Refs, TokenOfRun DEF Rejected, Failed
  <1>8. CASE Abort
    BY <1>8, Refs DEF Abort, Quiet
  <1>9. CASE Finalized
    BY <1>9, Refs DEF Finalized, Quiet
  <1>10. CASE EnterCancel
    BY <1>10, Refs DEF EnterCancel, BeginCancel, PaneAfterCancel
  <1>11. CASE CancelAnswered
    BY <1>11, Refs DEF CancelAnswered, BeginCancel, PaneAfterCancel, Failed
  <1>12. CASE EnterContext
    <2>1. CASE page' = Reset(page)
      BY <2>1, Refs DEF Reset
    <2>2. CASE UNCHANGED page
      BY <2>2
    <2> QED
      BY <1>12, <2>1, <2>2 DEF EnterContext
  <1>13. CASE Swept
    BY <1>13, Refs DEF Swept, Failed
  <1>14. CASE ResultsClosed
    BY <1>14, Refs DEF ResultsClosed
  <1>15. CASE EnterShutdown
    BY <1>15, Refs DEF EnterShutdown
  <1>16. CASE Restore
    <2>1. page' = [ref |-> Old, owns |-> FALSE, state |-> "succeeded", submitting |-> FALSE,
                   pane |-> "idle", error |-> FALSE, shown |-> Old]
      BY <1>16 DEF Restore, Reset, PageOK
    <2> QED
      BY <1>16, <2>1, Refs
  <1>17. CASE ShowHistory
    BY <1>17, Refs DEF ShowHistory
  <1>18. CASE UNCHANGED page
    BY <1>18
  <1> QED
    BY <1>1, <1>2, <1>3, <1>4, <1>5, <1>6, <1>7, <1>8, <1>9, <1>10, <1>11, <1>12, <1>13, <1>14,
       <1>15, <1>16, <1>17, <1>18, WritersAre DEF Writers

LEMMA ShownSteps == Typed /\ Handover /\ StateTrue /\ ShownTrue /\ [Next]_vars => ShownTrue'
  <1> SUFFICES ASSUME Typed, Handover, StateTrue, ShownTrue, [Next]_vars PROVE ShownTrue'
    OBVIOUS
  <1> USE DEF Typed, TypeOK, PageOK, Owned, Handover, StateTrue, ShownTrue, Open, Stopped
  <1>1. CASE Retired
    <2>1. CASE page' = [page EXCEPT !.owns = FALSE, !.state = "cancelled"]
      BY <1>1, <2>1, Refs DEF Retired
    <2>2. CASE page' = Failed(page)
      BY <1>1, <2>2, Refs DEF Failed, Retired, ending
    <2> QED
      BY <1>1, <2>1, <2>2 DEF Retired
  <1>2. CASE Yielded
    <2>1. CASE UNCHANGED page
      BY <1>2, <2>1 DEF Yielded, ending
    <2>2. CASE page' = [Reset(page) EXCEPT !.submitting = TRUE, !.pane = "loading"]
      BY <1>2, <2>2, Refs DEF Reset, Yielded, ending
    <2> QED
      BY <1>2, <2>1, <2>2 DEF Yielded
  <1>3. CASE Started
    BY <1>3, Refs, TokenOfRun DEF Started, ending
  <1>4. CASE StartRaised
    BY <1>4, Refs DEF StartRaised, Failed, Quiet, ending
  <1>5. CASE Polled
    <2>1. CASE UNCHANGED page
      BY <1>5, <2>1 DEF Polled, ending
    <2>2. CASE ~stale /\ page' = Tick(page)
      BY <1>5, <2>2, Refs, TokenOfRun DEF Tick, Polled, ending
    <2>3. ASSUME ~stale, NEW s \in {"succeeded", "failed", "cancelled"},
                 page' = [page EXCEPT !.state = s, !.pane = "idle", !.error = FALSE, !.owns = FALSE,
                                      !.shown = IF s = "succeeded" THEN page.ref ELSE page.shown]
          PROVE  ShownTrue'
      <3>1. page.shown \in {None, Old} /\ page'.ref = page.ref /\ page'.state = s
        BY <1>5, <2>3 DEF Polled
      <3>2. page'.shown = IF s = "succeeded" THEN page.ref ELSE page.shown
        BY <2>3
      <3> QED
        BY <2>3, <3>1, <3>2
    <2> QED
      BY <1>5, <2>1, <2>2, <2>3 DEF Polled, Ended
  <1>6. CASE PollFails
    <2>1. CASE UNCHANGED page
      BY <1>6, <2>1 DEF PollFails, ending
    <2>2. CASE page' = Failed(page)
      BY <1>6, <2>2 DEF Failed, PollFails, ending
    <2> QED
      BY <1>6, <2>1, <2>2 DEF PollFails
  <1>7. CASE Rejected
    BY <1>7, Refs, TokenOfRun DEF Rejected, Failed, ending
  <1>8. CASE Abort
    BY <1>8, Refs DEF Abort, Quiet, ending
  <1>9. CASE Finalized
    BY <1>9, Refs DEF Finalized, Quiet, ending
  <1>10. CASE EnterCancel
    BY <1>10, Refs DEF EnterCancel, BeginCancel, PaneAfterCancel, ending
  <1>11. CASE CancelAnswered
    BY <1>11, Refs DEF CancelAnswered, BeginCancel, PaneAfterCancel, Failed, ending
  <1>12. CASE EnterContext
    <2>1. CASE page' = Reset(page)
      BY <2>1, Refs DEF Reset
    <2>2. CASE UNCHANGED page
      BY <1>12, <2>2 DEF EnterContext, ending
    <2> QED
      BY <1>12, <2>1, <2>2 DEF EnterContext
  <1>13. CASE Swept
    BY <1>13, Refs DEF Swept, Failed, ending
  <1>14. CASE ResultsClosed
    BY <1>14, Refs DEF ResultsClosed, ending
  <1>15. CASE TransitionOver
    BY <1>15, Refs DEF TransitionOver, AllSwept
  <1>16. CASE CloseIntake
    BY <1>16, Refs DEF CloseIntake
  <1>17. CASE EnterShutdown
    BY <1>17, Refs DEF EnterShutdown
  <1>18. CASE Restore
    BY <1>18, Refs DEF Restore, Reset, ending
  <1>19. CASE ShowHistory
    BY <1>19, Refs DEF ShowHistory, ending
  <1>20. CASE UNCHANGED <<page, life>>
    BY <1>20
  <1> QED
    BY <1>1, <1>2, <1>3, <1>4, <1>5, <1>6, <1>7, <1>8, <1>9, <1>10, <1>11, <1>12, <1>13,
       <1>14, <1>15, <1>16, <1>17, <1>18, <1>19, <1>20, WritersAre DEF Writers

LEMMA ShowsSteps == Typed /\ Handover /\ Shows /\ [Next]_vars => Shows'
  BY PaneSteps, StateSteps, ShownSteps DEF Shows

\* A page whose fields agree can be handed over once its query has ended.
LEMMA Exports == Typed /\ Shows => SettledIsExportable
  <1> SUFFICES ASSUME Typed, Shows, Open, page.state \in Ended, ~page.error PROVE Exportable
    BY DEF SettledIsExportable
  <1>1. CASE page.ref = None
    BY <1>1, Refs DEF Shows, PaneTrue, StateTrue, ShownTrue, Exportable, Ended, Typed, TypeOK, PageOK
  <1>2. CASE page.ref # None
    BY <1>2, Refs DEF Shows, PaneTrue, StateTrue, ShownTrue, Exportable, Ended, Typed, TypeOK, PageOK
  <1> QED
    BY <1>1, <1>2

-----------------------------------------------------------------------------

LEMMA SupersededSteps == Typed /\ Superseded /\ [Next]_vars => Superseded'
  <1> SUFFICES ASSUME Typed, Superseded, [Next]_vars PROVE Superseded'
    OBVIOUS
  <1> USE DEF Typed, TypeOK, PageOK, Superseded, Stopped
  <1>1. CASE Execute
    BY <1>1 DEF Execute, ending, CanExecute, Open, Transition
  <1>2. CASE Retired
    BY <1>2 DEF Retired, Goto, Failed, EndRun, ending
  <1>3. CASE Yielded
    <2>1. page'.owns => page.owns
      BY <1>3 DEF Yielded, Reset
    <2>2. stale' = stale /\ life' = life
      BY <1>3 DEF Yielded, EndRun, Goto, task, ending
    <2> QED
      BY <2>1, <2>2
  <1>4. CASE Started
    BY <1>4 DEF Started, EndRun, Goto, ending
  <1>5. CASE StartRaised
    BY <1>5 DEF StartRaised, Failed, Quiet, EndRun, ending
  <1>6. CASE Polled
    <2>1. page'.owns => page.owns
      BY <1>6 DEF Polled, Tick
    <2>2. stale' = stale /\ life' = life
      BY <1>6 DEF Polled, EndRun, Goto, task, ending
    <2> QED
      BY <2>1, <2>2
  <1>7. CASE PollFails
    BY <1>7 DEF PollFails, Failed, EndRun, Goto, ending
  <1>8. CASE Rejected
    BY <1>8 DEF Rejected, Failed, EndRun, ending
  <1>9. CASE Abort
    BY <1>9 DEF Abort, EndRun, Quiet, ending
  <1>10. CASE Finalized
    BY <1>10 DEF Finalized, EndRun, Quiet, ending
  <1>11. CASE EnterCancel
    BY <1>11 DEF EnterCancel, task, BeginCancel, Supersede, PaneAfterCancel, ending,
       CanInterrupt
  <1>12. CASE CancelAnswered
    <2>1. page'.owns => page.owns
      BY <1>12 DEF CancelAnswered, BeginCancel, Failed
    <2>2. (stale => stale') /\ life' = life
      BY <1>12 DEF CancelAnswered, BeginCancel, Supersede, task, ending
    <2> QED
      BY <2>1, <2>2
  <1>13. CASE EnterContext
    BY <1>13 DEF EnterContext, Supersede, Reset, task, ending
  <1>14. CASE Swept
    BY <1>14 DEF Swept, Failed, task, ending
  <1>15. CASE ResultsClosed
    <2>1. stale' = stale /\ life' = life /\ page'.owns = page.owns
      BY <1>15 DEF ResultsClosed, task, ending
    <2> QED
      BY <2>1
  <1>16. CASE TransitionOver
    BY <1>16 DEF TransitionOver, AllSwept, Locked, task
  <1>17. CASE CloseIntake
    BY <1>17 DEF CloseIntake, task
  <1>18. CASE EnterShutdown
    BY <1>18 DEF EnterShutdown, Supersede
  <1>19. CASE Dispose
    BY <1>19 DEF Dispose, Supersede
  <1>20. CASE Restore
    BY <1>20 DEF Restore, Reset, task, ending
  <1>21. CASE ShowHistory
    BY <1>21 DEF ShowHistory, task, ending
  <1>22. CASE UNCHANGED <<stale, page, life>>
    BY <1>22
  <1> QED
    BY <1>1, <1>2, <1>3, <1>4, <1>5, <1>6, <1>7, <1>8, <1>9, <1>10, <1>11, <1>12, <1>13,
       <1>14, <1>15, <1>16, <1>17, <1>18, <1>19, <1>20, <1>21, <1>22, WritersAre DEF
       Writers

LEMMA DrainsSteps == Typed /\ Drains /\ [Next]_vars => Drains'
  <1> SUFFICES ASSUME Typed, Drains, [Next]_vars PROVE Drains'
    OBVIOUS
  <1> USE DEF Typed, TypeOK, TaskOK, LifeOK, Locked, Drains, Stopped, Open, NoFinalizers
  <1>1. CASE Execute
    BY <1>1 DEF Execute, request, lifecycle, ending, CanExecute, Transition
  <1>2. CASE Preflight
    BY <1>2 DEF Preflight, EndRun, Goto, lifecycle, ending
  <1>3. CASE EnterRetire
    BY <1>3 DEF EnterRetire, EndRun, Goto, request, ending
  <1>4. CASE Retired
    BY <1>4 DEF Retired, Goto, EndRun, request, ending
  <1>5. CASE Yielded
    BY <1>5 DEF Yielded, EndRun, Goto, ending
  <1>6. CASE Started
    BY <1>6 DEF Started, EndRun, Goto, lifecycle, ending
  <1>7. CASE StartRaised
    BY <1>7 DEF StartRaised, EndRun, request, lifecycle, ending
  <1>8. CASE StaleStopped
    BY <1>8 DEF StaleStopped, EndRun, request, lifecycle, ending
  <1>9. CASE Polled
    BY <1>9 DEF Polled, EndRun, task, Goto, request, lifecycle, ending
  <1>10. CASE PollFails
    BY <1>10 DEF PollFails, EndRun, Goto, request, lifecycle, ending
  <1>11. CASE Rejected
    BY <1>11 DEF Rejected, EndRun, request, lifecycle, ending
  <1>12. CASE Loaded
    BY <1>12 DEF Loaded, EndRun, request, lifecycle, ending
  <1>13. CASE Detach
    BY <1>13 DEF Detach, lifecycle, ending
  <1>14. CASE Abort
    BY <1>14 DEF Abort, EndRun, request, ending, LockAfterAbort, lifecycle
  <1>15. CASE Finalized
    BY <1>15 DEF Finalized, EndRun, request, lifecycle, ending
  <1>16. CASE EnterCancel
    BY <1>16 DEF EnterCancel, task, BeginCancel, Supersede, request, ending
  <1>17. CASE CancelAnswered
    BY <1>17 DEF CancelAnswered, BeginCancel, Supersede, task, request, ending
  <1>18. CASE EnterContext
    BY <1>18 DEF EnterContext, Supersede, task, request, ending
  <1>19. CASE Drained
    BY <1>19 DEF Drained, task, request, ending
  <1>20. CASE FinalizersDrained
    BY <1>20 DEF FinalizersDrained, task, request, ending
  <1>21. CASE CloseResults
    BY <1>21 DEF CloseResults, AllSwept, task, request, ending
  <1>22. CASE ResultsClosed
    BY <1>22 DEF ResultsClosed, task, request, ending
  <1>23. CASE TransitionOver
    BY <1>23 DEF TransitionOver, AllSwept, task, request
  <1>24. CASE CloseIntake
    BY <1>24 DEF CloseIntake, task, request, lifecycle
  <1>25. CASE EnterShutdown
    BY <1>25 DEF EnterShutdown, Supersede, request
  <1>26. CASE CancelInterrupted
    BY <1>26 DEF CancelInterrupted, task, request, ending
  <1>27. ASSUME NEW r \in Runs, Finalize(r) PROVE Drains'
    BY <1>27 DEF Finalize, Finish, task, lifecycle, ending
  <1>28. ASSUME NEW r \in Runs, FinalizerStopped(r) PROVE Drains'
    BY <1>28 DEF FinalizerStopped, Finish, task, lifecycle, ending
  <1>29. CASE UNCHANGED <<pc, fin, lock, phase, life>>
    BY <1>29
  <1> QED
    BY <1>1, <1>2, <1>3, <1>4, <1>5, <1>6, <1>7, <1>8, <1>9, <1>10, <1>11, <1>12, <1>13,
       <1>14, <1>15, <1>16, <1>17, <1>18, <1>19, <1>20, <1>21, <1>22, <1>23, <1>24, <1>25,
       <1>26, <1>27, <1>28, <1>29, WritersAre DEF Writers

LEMMA FoundSteps == Typed /\ Found /\ [Next]_vars => Found'
  <1> SUFFICES ASSUME Typed, Found, [Next]_vars PROVE Found'
    OBVIOUS
  <1> USE DEF Typed, TypeOK, TaskOK, StopsOK, Numbered, Owned, Found, Told
  <1>1. CASE Preflight
    BY <1>1, Refs, BoundsAreNatural DEF Preflight, stopping, bounds
  <1>2. CASE EnterRetire
    BY <1>2, Refs, BoundsAreNatural, AskClient DEF EnterRetire, stopping, request, bounds
  <1>3. CASE Yielded
    BY <1>3, Refs, BoundsAreNatural DEF Yielded, stopping, bounds
  <1>4. CASE Started
    BY <1>4, Refs, BoundsAreNatural, AskClient, TokenOfRun DEF Started, Take, stopping, bounds
  <1>5. CASE Polled
    BY <1>5, Refs, BoundsAreNatural DEF Polled, Retire, request, bounds
  <1>6. CASE PollFails
    BY <1>6, Refs, BoundsAreNatural, AskClient DEF PollFails, Fault, stopping, request
  <1>7. CASE EnterCancel
    BY <1>7, Refs, BoundsAreNatural, AskClient DEF EnterCancel, stopping, request, bounds
  <1>8. ASSUME NEW r \in Runs, Dispatch(r) PROVE Found'
    BY <1>8, Refs, BoundsAreNatural DEF Dispatch, stopping, bounds
  <1>9. ASSUME NEW r \in Runs, StartAnswered(r) PROVE Found'
    BY <1>9, Refs, BoundsAreNatural DEF StartAnswered, bounds
  <1>10. ASSUME NEW r \in Runs, StartFails(r) PROVE Found'
    BY <1>10, Refs, BoundsAreNatural DEF StartFails, Fault, stopping
  <1>11. ASSUME NEW r \in Runs, Finalize(r) PROVE Found'
    BY <1>11, Refs, BoundsAreNatural, AskClient DEF Finalize, stopping, Take, bounds
  <1>12. ASSUME NEW e \in Runs, Sweep(e) PROVE Found'
    BY <1>12, Refs, BoundsAreNatural, AskClient DEF Sweep, request, bounds
  <1>13. ASSUME NEW e \in Runs, StopDone(e) PROVE Found'
    BY <1>13, Refs, BoundsAreNatural DEF StopDone, Retire, request, bounds
  <1>14. ASSUME NEW e \in Runs, StopFails(e) PROVE Found'
    BY <1>14, Refs, BoundsAreNatural DEF StopFails, Fault, ActiveAgain, request
  <1>15. ASSUME NEW e \in Runs, HistorySees(e) PROVE Found'
    BY <1>15, Refs, BoundsAreNatural DEF HistorySees, Retire, request, bounds
  <1>16. CASE UNCHANGED <<start, token, client, faults>>
    BY <1>16
  <1> QED
    BY <1>1, <1>2, <1>3, <1>4, <1>5, <1>6, <1>7, <1>8, <1>9, <1>10, <1>11, <1>12, <1>13, <1>14,
       <1>15, <1>16, WritersAre DEF Writers

LEMMA RunningSteps == Typed /\ Running /\ [Next]_vars => Running'
  <1> SUFFICES ASSUME Typed, Running, [Next]_vars PROVE Running'
    OBVIOUS
  <1> USE DEF Typed, TypeOK, TaskOK, StopsOK, Numbered, Running
  <1>0. ToldMoves
    BY ToldStays
  <1> USE DEF ToldMoves
  <1>1. CASE Preflight
    BY <1>1, <1>0 DEF Preflight, bounds
  <1>2. CASE Yielded
    BY <1>2, <1>0 DEF Yielded, bounds
  <1>3. CASE Started
    BY <1>3, <1>0 DEF Started, Take, bounds
  <1>4. CASE PollFails
    BY <1>4, <1>0 DEF PollFails, Fault, request
  <1>5. ASSUME NEW r \in Runs, Dispatch(r) PROVE Running'
    BY <1>5, <1>0 DEF Dispatch, bounds
  <1>6. ASSUME NEW r \in Runs, StartAnswered(r) PROVE Running'
    <2>1. Told(token[r])' /\ UNCHANGED token
      BY <1>6 DEF StartAnswered, Told
    <2>2. \A e \in Runs: e # token[r] => remote'[e] = remote[e]
      BY <1>6 DEF StartAnswered, Accept
    <2>3. faults' = faults
      BY <1>6 DEF StartAnswered, bounds
    <2>. SUFFICES ASSUME faults = 0, NEW e \in Runs, remote'[e] = "running" PROVE Told(e)'
      BY <2>3
    <2>4. CASE e = token[r]
      BY <2>1, <2>4
    <2>5. CASE e # token[r]
      BY <1>0, <2>2, <2>5
    <2> QED
      BY <2>4, <2>5
  <1>7. ASSUME NEW r \in Runs, StartFails(r) PROVE Running'
    BY <1>7, <1>0 DEF StartFails, Fault, Accept
  <1>8. ASSUME NEW r \in Runs, Finalize(r) PROVE Running'
    BY <1>8, <1>0 DEF Finalize, Take, bounds
  <1>9. ASSUME NEW e \in Runs, StopDone(e) PROVE Running'
    BY <1>9, <1>0 DEF StopDone, Cut, request, bounds
  <1>10. ASSUME NEW e \in Runs, StopFails(e) PROVE Running'
    BY <1>10, <1>0 DEF StopFails, Fault, Cut, request
  <1>11. ASSUME NEW e \in Runs, RemoteEnds(e) PROVE Running'
    BY <1>11, <1>0 DEF RemoteEnds, Cut, request, bounds
  <1>12. CASE UNCHANGED <<start, token, remote, faults>>
    BY <1>12, <1>0
  <1> QED
    BY <1>1, <1>2, <1>3, <1>4, <1>5, <1>6, <1>7, <1>8, <1>9, <1>10, <1>11, <1>12, WritersAre DEF
       Writers

LEMMA RefusedSteps == Typed /\ Handover /\ Awaited /\ Known /\ Found /\ Refused /\ [Next]_vars
    => Refused'
  <1> SUFFICES ASSUME Typed, Handover, Awaited, Known, Found, Refused, [Next]_vars PROVE
         Refused'
    OBVIOUS
  <1> USE DEF Typed, TypeOK, StopsOK, Owned, Numbered, TaskOK, Handover, Awaited, Refused,
      Known, KnownRefs, KnownClient, Found
  <1>0. \A e \in Runs: remote[e] = "over" => remote'[e] = "over"
    BY RemoteStays DEF RemoteMoves
  <1>1. CASE EnterRetire
    BY <1>1, <1>0 DEF EnterRetire, stopping, Ask, bounds
  <1>2. CASE Retired
    BY <1>2, <1>0 DEF Retired, Hear, bounds
  <1>3. CASE Started
    <2>1. CASE start[run] = "answered" /\ Ask(Body, token[run])
      <3>1. Told(token[run]) /\ token[run] \in Runs
        BY <1>3, <2>1, TokenOfRun DEF Started, Told
      <3> QED
        BY <1>3, <1>0, <2>1, <3>1 DEF Started, Ask, Body, bounds
    <2>2. CASE UNCHANGED stopping
      BY <1>3, <1>0, <2>2 DEF Started, stopping, bounds
    <2> QED
      BY <1>3, <2>1, <2>2 DEF Started
  <1>4. CASE StaleStopped
    BY <1>4, <1>0 DEF StaleStopped, Hear, bounds
  <1>5. CASE PollFails
    BY <1>5, <1>0 DEF PollFails, Fault, stopping, Ask
  <1>6. CASE Rejected
    BY <1>6, <1>0 DEF Rejected, Hear, bounds
  <1>7. CASE Abort
    BY <1>7, <1>0 DEF Abort, Hear, bounds
  <1>8. CASE EnterCancel
    BY <1>8, <1>0 DEF EnterCancel, stopping, Ask, bounds, CanInterrupt
  <1>9. CASE CancelAnswered
    BY <1>9, <1>0 DEF CancelAnswered, stopping, Hear, bounds
  <1>10. CASE Swept
    BY <1>10, <1>0 DEF Swept, Hear, bounds
  <1>11. CASE CancelInterrupted
    BY <1>11, <1>0 DEF CancelInterrupted, stopping, Hear, bounds
  <1>12. ASSUME NEW r \in Runs, StartAnswered(r) PROVE Refused'
    BY <1>12, <1>0 DEF StartAnswered, Accept, bounds
  <1>13. ASSUME NEW r \in Runs, StartFails(r) PROVE Refused'
    BY <1>13, <1>0 DEF StartFails, Fault, Accept, stopping
  <1>14. ASSUME NEW r \in Runs, Finalize(r) PROVE Refused'
    <2>1. CASE start[r] = "answered" /\ Ask(r, token[r])
      <3>1. Told(token[r]) /\ token[r] \in Runs
        BY <1>14, <2>1 DEF Finalize, Told
      <3> QED
        BY <1>14, <1>0, <2>1, <3>1 DEF Finalize, Ask, Body, bounds
    <2>2. CASE UNCHANGED stopping
      BY <1>14, <1>0, <2>2 DEF Finalize, stopping, bounds
    <2> QED
      BY <1>14, <2>1, <2>2 DEF Finalize
  <1>15. ASSUME NEW r \in Runs, FinalizerStopped(r) PROVE Refused'
    BY <1>15, <1>0 DEF FinalizerStopped, stopping, Hear, bounds
  <1>16. ASSUME NEW e \in Runs, Sweep(e) PROVE Refused'
    BY <1>16, <1>0 DEF Sweep, Ask, bounds
  <1>17. ASSUME NEW e \in Runs, StopDone(e) PROVE Refused'
    BY <1>17, <1>0 DEF StopDone, Cut, Tell, bounds
  <1>18. ASSUME NEW e \in Runs, StopFails(e) PROVE Refused'
    BY <1>18, <1>0 DEF StopFails, Fault, Tell, Cut
  <1>19. ASSUME NEW e \in Runs, RemoteEnds(e) PROVE Refused'
    BY <1>19, <1>0 DEF RemoteEnds, Cut, stopping, bounds
  <1>20. CASE UNCHANGED <<remote, asked, answer, faults>>
    BY <1>20, <1>0
  <1> QED
    BY <1>1, <1>2, <1>3, <1>4, <1>5, <1>6, <1>7, <1>8, <1>9, <1>10, <1>11, <1>12, <1>13, <1>14,
       <1>15, <1>16, <1>17, <1>18, <1>19, <1>20, WritersAre DEF Writers

LEMMA SweepsSteps == Typed /\ Awaited /\ KnownAnswers /\ Superseded /\ Drains /\ Refused /\
    Sweeps /\ [Next]_vars => Sweeps'
  <1> SUFFICES ASSUME Typed, Awaited, KnownAnswers, Superseded, Drains, Refused, Sweeps,
         [Next]_vars PROVE Sweeps'
    OBVIOUS
  <1> USE DEF Typed, TypeOK, StopsOK, LifeOK, Locked, Drains, Stopped, Superseded, Sweeps,
      NoFinalizers
  <1>0. \A e \in Runs: remote[e] = "over" => remote'[e] = "over"
    BY RemoteStays DEF RemoteMoves
  <1>1. CASE EnterRetire
    BY <1>1, <1>0 DEF EnterRetire, stopping, Ask, cleanup, bounds
  <1>2. CASE Retired
    BY <1>2, <1>0 DEF Retired, Hear, cleanup, bounds
  <1>3. CASE Yielded
    BY <1>3, <1>0 DEF Yielded, cleanup, stopping, bounds
  <1>4. CASE Started
    BY <1>4, <1>0 DEF Started, stopping, Ask, cleanup, lifecycle, bounds
  <1>5. CASE StaleStopped
    BY <1>5, <1>0 DEF StaleStopped, Settle, Hear, lifecycle, bounds
  <1>6. CASE PollFails
    BY <1>6, <1>0 DEF PollFails, Fault, cleanup, stopping, Ask, lifecycle
  <1>7. CASE Rejected
    BY <1>7, <1>0 DEF Rejected, Settle, Hear, lifecycle, bounds
  <1>8. CASE Abort
    BY <1>8, <1>0 DEF Abort, Hear, cleanup, bounds, LockAfterAbort, lifecycle
  <1>9. CASE EnterCancel
    BY <1>9, <1>0 DEF EnterCancel, stopping, Ask, BeginCancel, cleanup, bounds
  <1>10. CASE CancelAnswered
    BY <1>10, <1>0 DEF CancelAnswered, stopping, BeginCancel, Hear, cleanup, bounds
  <1>11. CASE EnterContext
    BY <1>11, <1>0 DEF EnterContext, RetainOwned, cleanup, stopping, bounds
  <1>12. CASE Drained
    BY <1>12, <1>0 DEF Drained, cleanup, stopping, bounds
  <1>13. CASE FinalizersDrained
    BY <1>13, <1>0 DEF FinalizersDrained, cleanup, stopping, bounds
  <1>14. CASE Swept
    <2>1. PICK a \in {"ok", "denied", "error"}:
             Answered(Holder, asked[Holder], a) /\ Settle(asked[Holder], a)
      BY <1>14 DEF Swept
    <2>2. faults = 0 => remote[asked[Holder]] = "over"
      BY <2>1, CallersAre DEF Answered, Refused, KnownAnswers
    <2>3. pending' \subseteq pending
      BY <2>1 DEF Settle
    <2> QED
      BY <1>14, <2>2, <2>3, CallersAre DEF Swept, Hear, lifecycle, bounds
  <1>15. CASE CloseResults
    BY <1>15, <1>0, Refs DEF CloseResults, AllSwept, cleanup, stopping, bounds, ending
  <1>16. CASE ResultsClosed
    BY <1>16, <1>0 DEF ResultsClosed, cleanup, stopping, bounds, ending
  <1>17. CASE TransitionOver
    BY <1>17, <1>0 DEF TransitionOver, AllSwept, cleanup, stopping, bounds
  <1>18. CASE EnterShutdown
    BY <1>18, <1>0 DEF EnterShutdown, RetainOwned, cleanup, stopping, bounds
  <1>19. CASE CancelInterrupted
    BY <1>19, <1>0 DEF CancelInterrupted, stopping, Hear, cleanup, bounds
  <1>20. ASSUME NEW r \in Runs, StartAnswered(r) PROVE Sweeps'
    <2>1. phase \notin {"results", "flushing"} /\ (phase # "sweeping" \/ lock # "shutdown")
      BY <1>20 DEF StartAnswered, Awaited
    <2> QED
      BY <1>20, <2>1 DEF StartAnswered, lifecycle
  <1>21. ASSUME NEW r \in Runs, StartFails(r) PROVE Sweeps'
    BY <1>21, <1>0 DEF StartFails, Fault, Accept, cleanup, lifecycle, stopping
  <1>22. ASSUME NEW r \in Runs, Finalize(r) PROVE Sweeps'
    BY <1>22, <1>0 DEF Finalize, cleanup, stopping, Ask, lifecycle, bounds
  <1>23. ASSUME NEW r \in Runs, FinalizerStopped(r) PROVE Sweeps'
    BY <1>23, <1>0 DEF FinalizerStopped, stopping, Settle, Hear, lifecycle, bounds
  <1>24. ASSUME NEW e \in Runs, Sweep(e) PROVE Sweeps'
    BY <1>24, <1>0, Refs, CallersAre DEF Sweep, Ask, cleanup, bounds
  <1>25. ASSUME NEW e \in Runs, StopDone(e) PROVE Sweeps'
    BY <1>25, <1>0 DEF StopDone, Cut, Tell, cleanup, lifecycle, bounds
  <1>26. ASSUME NEW e \in Runs, StopFails(e) PROVE Sweeps'
    BY <1>26, <1>0 DEF StopFails, Fault, Tell, Cut, cleanup, lifecycle
  <1>27. ASSUME NEW e \in Runs, RemoteEnds(e) PROVE Sweeps'
    BY <1>27, <1>0 DEF RemoteEnds, Cut, cleanup, lifecycle, stopping, bounds
  <1>28. CASE UNCHANGED <<pending, lock, phase, todo, remote, asked, faults>>
    BY <1>28, <1>0
  <1> QED
    BY <1>1, <1>2, <1>3, <1>4, <1>5, <1>6, <1>7, <1>8, <1>9, <1>10, <1>11, <1>12, <1>13,
       <1>14, <1>15, <1>16, <1>17, <1>18, <1>19, <1>20, <1>21, <1>22, <1>23, <1>24, <1>25,
       <1>26, <1>27, <1>28, WritersAre DEF Writers

LEMMA EndingSteps == Typed /\ Awaited /\ Handover /\ Known /\ Ending /\ [Next]_vars => Ending'
  BY SupersededSteps, DrainsSteps, RunningSteps, FoundSteps, RefusedSteps, SweepsSteps DEF Ending, Known

LEMMA ShutdownSteps == Typed /\ Awaited /\ Drains /\ Superseded /\ Sweeps /\ Running /\ NoOrphan
    /\ ShutdownStopsAll /\ [Next]_vars => ShutdownStopsAll'
  <1> SUFFICES ASSUME Typed, Awaited, Drains, Superseded, Sweeps, Running, NoOrphan,
         ShutdownStopsAll, [Next]_vars PROVE ShutdownStopsAll'
    OBVIOUS
  <1> USE DEF ShutdownStopsAll
  <1>0. life = "complete" => \A e \in Runs: remote'[e] = "running" => remote[e] = "running"
    BY RemoteStays DEF RemoteMoves, Drains, Awaited, NoFinalizers
  <1>f. faults + 1 # 0
    BY BoundsAreNatural DEF Typed, TypeOK
  <1>1. CASE Started
    BY <1>1, <1>0, <1>f, RetainKeeps DEF Started, cleanup, ending, bounds
  <1>2. CASE StaleStopped
    BY <1>2, <1>0, <1>f DEF StaleStopped, Settle, ending, bounds
  <1>3. CASE PollFails
    BY <1>3, <1>0, <1>f, RetainKeeps DEF PollFails, Fault, cleanup, ending
  <1>4. CASE Rejected
    BY <1>4, <1>0, <1>f DEF Rejected, Settle, ending, bounds
  <1>5. CASE EnterContext
    BY <1>5, <1>0, <1>f, RetainKeeps DEF EnterContext, RetainOwned, cleanup, ending, bounds
  <1>6. CASE Swept
    BY <1>6, <1>0, <1>f DEF Swept, Settle, ending, bounds
  <1>7. CASE TransitionOver
    <2>1. remote' = remote /\ abandoned' = abandoned /\ faults' = faults
      BY <1>7 DEF TransitionOver, cleanup, bounds
    <2>2. CASE life' = life
      BY <2>1, <2>2
    <2>3. CASE phase = "flushing"
      <3>1. lock = "shutdown" /\ ~page.owns
        BY <2>3 DEF Superseded, Stopped, Locked, Typed
      <3>. SUFFICES ASSUME faults = 0, NEW e \in Runs, remote[e] = "running" PROVE e \in abandoned
        BY <2>1
      <3>2. ~InHand(e)
        BY <2>3, <3>1 DEF InHand, Drains, NoFinalizers
      <3>3. e \notin pending
        BY <2>3 DEF Sweeps
      <3> QED
        BY <3>1, <3>2, <3>3 DEF NoOrphan, Running
    <2> QED
      BY <1>7, <2>2, <2>3 DEF TransitionOver
  <1>8. CASE CloseIntake
    BY <1>8, <1>0, <1>f DEF CloseIntake, cleanup, bounds
  <1>9. CASE EnterShutdown
    BY <1>9, <1>0, <1>f, RetainKeeps DEF EnterShutdown, RetainOwned, cleanup, bounds
  <1>10. ASSUME NEW r \in Runs, StartAnswered(r) PROVE ShutdownStopsAll'
    BY <1>10, <1>0, <1>f DEF StartAnswered, Accept, cleanup, ending, bounds
  <1>11. ASSUME NEW r \in Runs, StartFails(r) PROVE ShutdownStopsAll'
    BY <1>11, <1>0, <1>f DEF StartFails, Fault, Accept, cleanup, ending
  <1>12. ASSUME NEW r \in Runs, Finalize(r) PROVE ShutdownStopsAll'
    BY <1>12, <1>0, <1>f, RetainKeeps DEF Finalize, cleanup, ending, bounds
  <1>13. ASSUME NEW r \in Runs, FinalizerStopped(r) PROVE ShutdownStopsAll'
    BY <1>13, <1>0, <1>f DEF FinalizerStopped, Settle, ending, bounds
  <1>14. ASSUME NEW e \in Runs, StopDone(e) PROVE ShutdownStopsAll'
    BY <1>14, <1>0, <1>f DEF StopDone, Cut, cleanup, ending, bounds
  <1>15. ASSUME NEW e \in Runs, StopFails(e) PROVE ShutdownStopsAll'
    BY <1>15, <1>0, <1>f DEF StopFails, Fault, Cut, cleanup, ending
  <1>16. ASSUME NEW e \in Runs, RemoteEnds(e) PROVE ShutdownStopsAll'
    BY <1>16, <1>0, <1>f DEF RemoteEnds, Cut, cleanup, ending, bounds
  <1>17. CASE UNCHANGED <<life, remote, abandoned, faults>>
    BY <1>17, <1>0, <1>f
  <1> QED
    BY <1>1, <1>2, <1>3, <1>4, <1>5, <1>6, <1>7, <1>8, <1>9, <1>10, <1>11, <1>12, <1>13, <1>14,
       <1>15, <1>16, <1>17, WritersAre DEF Writers

LEMMA RefusalSteps == Typed /\ [Next]_vars => (page.error /\ page'.owns /\ page'.ref = page.ref
    => page'.error)
  <1> SUFFICES ASSUME Typed, [Next]_vars PROVE (page.error /\ page'.owns /\ page'.ref = page.ref
         => page'.error)
    OBVIOUS
  <1> USE DEF Typed, TypeOK, PageOK
  <1>1. CASE Retired
    BY <1>1 DEF Retired, Failed
  <1>2. CASE Yielded
    BY <1>2 DEF Yielded, Reset
  <1>3. CASE Started
    BY <1>3 DEF Started
  <1>4. CASE StartRaised
    BY <1>4 DEF StartRaised, Failed, Quiet
  <1>5. CASE Polled
    BY <1>5 DEF Polled, Tick
  <1>6. CASE PollFails
    BY <1>6 DEF PollFails, Failed
  <1>7. CASE Rejected
    BY <1>7 DEF Rejected, Failed
  <1>8. CASE Abort
    BY <1>8 DEF Abort, Quiet
  <1>9. CASE Finalized
    BY <1>9 DEF Finalized, Quiet
  <1>10. CASE EnterCancel
    BY <1>10 DEF EnterCancel, BeginCancel, PaneAfterCancel
  <1>11. CASE CancelAnswered
    BY <1>11 DEF CancelAnswered, BeginCancel, PaneAfterCancel, Failed
  <1>12. CASE EnterContext
    BY <1>12 DEF EnterContext, Reset
  <1>13. CASE Swept
    BY <1>13 DEF Swept, Failed
  <1>14. CASE ResultsClosed
    BY <1>14 DEF ResultsClosed
  <1>15. CASE EnterShutdown
    BY <1>15 DEF EnterShutdown
  <1>16. CASE Restore
    BY <1>16 DEF Restore, Reset
  <1>17. CASE ShowHistory
    BY <1>17 DEF ShowHistory
  <1>18. CASE UNCHANGED page
    BY <1>18
  <1> QED
    BY <1>1, <1>2, <1>3, <1>4, <1>5, <1>6, <1>7, <1>8, <1>9, <1>10, <1>11, <1>12, <1>13, <1>14,
       <1>15, <1>16, <1>17, <1>18, WritersAre DEF Writers

-----------------------------------------------------------------------------

LEMMA InitHolds == Init => QueryInv
  <1> SUFFICES ASSUME Init PROVE QueryInv
    OBVIOUS
  <1> USE DEF Init
  <1>1. Typed
    <2>1. PageOK
      BY Refs DEF PageOK
    <2>2. TaskOK
      BY Refs, BoundsAreNatural DEF TaskOK
    <2>3. StopsOK
      BY Refs DEF StopsOK
    <2>4. LifeOK
      BY DEF LifeOK
    <2>5. changes \in 0 .. MaxChanges /\ faults \in 0 .. MaxFaults
      BY BoundsAreNatural
    <2>6. Locked /\ Numbered /\ Owned
      BY Refs DEF Locked, Numbered, Owned
    <2> QED
      BY <2>1, <2>2, <2>3, <2>4, <2>5, <2>6 DEF Typed, TypeOK
  <1>2. Awaited /\ Handover
    BY Refs DEF Awaited, Handover
  <1>3. Known /\ CancelledIsOver /\ NoOrphan /\ Remembered
    BY Refs DEF Known, KnownTold, KnownClient, KnownRefs, KnownAnswers, Told, CancelledIsOver,
                NoOrphan, Remembered, Kept, Sourced
  <1>4. Shows
    BY Refs DEF Shows, PaneTrue, StateTrue, ShownTrue
  <1>5. Ending /\ ShutdownStopsAll
    BY Refs DEF Ending, Superseded, Drains, Running, Found, Refused, Sweeps, Told, Stopped,
                ShutdownStopsAll
  <1> QED
    BY <1>1, <1>2, <1>3, <1>4, <1>5 DEF QueryInv

LEMMA StepHolds == QueryInv /\ [Next]_vars => QueryInv'
  <1> SUFFICES ASSUME QueryInv, [Next]_vars PROVE QueryInv'
    OBVIOUS
  <1> USE DEF QueryInv
  <1>1. Typed' /\ Awaited' /\ Handover'
    BY TypedSteps, AwaitedSteps, HandoverSteps
  <1>2. Known' /\ CancelledIsOver' /\ NoOrphan' /\ Remembered'
    BY KnownSteps, CancelledSteps, OrphanSteps, RememberedSteps DEF Known
  <1>3. Shows' /\ Ending' /\ ShutdownStopsAll'
    BY ShowsSteps, EndingSteps, ShutdownSteps DEF Ending
  <1> QED
    BY <1>1, <1>2, <1>3

-----------------------------------------------------------------------------
\* AthenaQueryVM, with whatever its tasks, its user and Athena do between two of its
\* awaits: the layers of the invariant hold together.
THEOREM QueryInvariant == Spec => []QueryInv
  <1>1. Init => QueryInv
    BY InitHolds
  <1>2. QueryInv /\ [Next]_vars => QueryInv'
    BY StepHolds
  <1> QED
    BY <1>1, <1>2, PTL DEF Spec

\* Every variable keeps its type, and the run holds _lifecycle_lock exactly while it
\* retires its predecessor.
THEOREM TypeCorrect == Spec => []TypeOK
  <1>1. QueryInv => TypeOK
    BY DEF QueryInv, Typed
  <1> QED
    BY <1>1, QueryInvariant, PTL

\* execute, cancel, set_context and shutdown lose no execution that runs and whose id
\* was answered: it is owned, retained, in the hand of a task, or given up with a warning.
THEOREM NothingIsOrphaned == Spec => []NoOrphan
  <1>1. QueryInv => NoOrphan
    BY DEF QueryInv
  <1> QED
    BY <1>1, QueryInvariant, PTL

\* What _cancel_running_locked and _retire_owned_query_before_run show as cancelled
\* does not scan any more at Athena.
THEOREM CancelledStops == Spec => []CancelledIsStopped
  <1>1. QueryInv => CancelledIsStopped
    BY DEF QueryInv, CancelledIsOver, CancelledIsStopped
  <1> QED
    BY <1>1, QueryInvariant, PTL

\* An execution whose StartQueryExecution was never answered has the token that the next
\* Run repeats, unless the user edited the statement or left the context meanwhile.
THEOREM LostStartsComeBack == Spec => []LostStartsAreRetried
  <1>1. QueryInv => LostStartsAreRetried
    <2> SUFFICES ASSUME QueryInv, NEW e \in Runs, remote[e] = "running", ~Told(e)
                 PROVE  intent = e \/ e \in given
      BY DEF LostStartsAreRetried
    <2>1. PICK r \in Runs: token[r] = e
      BY DEF QueryInv, Remembered, Sourced
    <2> QED
      BY <2>1, Refs DEF QueryInv, Remembered, Kept
  <1> QED
    BY <1>1, QueryInvariant, PTL

\* snapshot_for_handoff accepts a page whose execution ended and that shows no error.
THEOREM SettledCanBeExported == Spec => []SettledIsExportable
  <1>1. QueryInv => SettledIsExportable
    BY Exports DEF QueryInv
  <1> QED
    BY <1>1, QueryInvariant, PTL

\* After a shutdown in which no request failed, no execution that the page started runs
\* on, not even one whose start was in flight; but one may be given up with a warning.
THEOREM ShutdownStops == Spec => []ShutdownStopsAll
  <1>1. QueryInv => ShutdownStopsAll
    BY DEF QueryInv
  <1> QED
    BY <1>1, QueryInvariant, PTL

\* _apply_detail, shutdown and the rest leave the message of a refused stop on the page for
\* as long as the query that it is about runs on.
THEOREM RefusalIsKept == Spec => RefusalStays
  <1>1. QueryInv /\ [Next]_vars
          => [page.owns /\ page.error /\ page'.owns /\ page'.ref = page.ref
              /\ remote[page.ref] = "running" => page'.error]_vars
    BY RefusalSteps DEF QueryInv
  <1> QED
    BY <1>1, QueryInvariant, PTL DEF Spec, RefusalStays
=============================================================================
