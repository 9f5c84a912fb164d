------------------------- MODULE ServiceNavigation -------------------------
(***************************************************************************)
(* The navigation rail, ServiceNavigation, and the ContentHostVM they swap *)
(* services in.  A pick on the rail starts a "content-mount" worker, which *)
(* takes service_lock, waits for the transfer workers, builds a view       *)
(* model, swaps it for the hosted one and replaces the widget.  A newer    *)
(* pick cancels the worker; a source chosen in the palette takes the       *)
(* ownership but cancels nothing.  Quitting closes the intake, passes the  *)
(* lock and shuts the hosted view model down.                              *)
(*                                                                         *)
(* A step of the model is what runs between two suspension points of the   *)
(* event loop.  A cancellation is a flag that the worker meets at its next *)
(* resumption.  Navigation n builds view model n; 0 is the one of startup. *)
(***************************************************************************)
EXTENDS Naturals, FiniteSets

CONSTANTS Services,     \* entries of the rail: "s3", "settings" and others
          MaxPicks,     \* bound: picks of the user
          MaxSources,   \* bound: sources chosen in the palette
          MaxFaults,    \* bound: constructions, shutdowns and mounts that fail
          None, Blank, Broken

ASSUME BoundsAreNatural == MaxPicks \in Nat /\ MaxSources \in Nat /\ MaxFaults \in Nat
ASSUME RailHasBoth == {"s3", "settings"} \subseteq Services /\ None \notin Services

\* Each pick makes one rollback route a navigation at most, so that the bound in
\* Route never bites (Settles would show it).
MaxNavs == 2 * MaxPicks + MaxSources
Navs == 1 .. MaxNavs
Vms == 0 .. MaxNavs

ASSUME NamesDiffer == None \notin Vms /\ Blank \notin Vms /\ Broken \notin Vms

VARIABLES
  menu,       \* NavMenuVM.selected_id
  gen,        \* ServiceNavigation._generation; the owner is ("external", gen)
  svc,        \* the service each navigation asks for, and its view model serves
  origin,     \* of a chosen source: the hosted view model it was offered for
  pc,         \* where each navigation's task is suspended
  cancelled,  \* tasks with a cancellation they have not met yet
  lock,       \* service_lock
  host,       \* ContentHostVM.current
  live,       \* view models constructed and not disposed of
  setup,      \* the setup task of each view model
  view,       \* what #content-host shows: a view model, nothing or the error surface
  mark,       \* navigation_owner in _replace_content_widget
  quit,       \* how far _perform_aws_tui_shutdown is
  choice,     \* history: what the user last picked
  published,  \* history: the last navigation that mounted its view
  picks, faults

control == <<gen, svc, pc, cancelled>>
hosting == <<host, live, setup>>
history == <<choice, published, picks>>
vars == <<menu, control, origin, lock, hosting, view, mark, quit, history, faults>>

Closed == quit # "open"
Source(n) == n \in DOMAIN origin
Pending == {n \in Navs: pc[n] \notin {"unborn", "done"}}
Superseded(n) == Closed \/ gen # n

\* The awaits at which a navigation holds service_lock.
Critical == {"rebinding", "transfers", "draining", "stopping",
             "replacing", "removing", "mounting", "resetting"}

Init ==
    /\ menu = "s3" /\ gen = 0 /\ origin = << >>
    /\ svc = [v \in Vms |-> IF v = 0 THEN "s3" ELSE None]
    /\ pc = [n \in Navs |-> "unborn"] /\ cancelled = {} /\ lock = None
    /\ host = 0 /\ live = {0} /\ view = 0 /\ mark = 0
    /\ setup = [v \in Vms |-> IF v = 0 THEN "running" ELSE "none"]
    /\ quit = "open" /\ choice = "s3" /\ published = 0 /\ picks = 0 /\ faults = 0

Hosted == IF host = None THEN None ELSE svc[host]

Fault == faults < MaxFaults /\ faults' = faults + 1

Goto(n, label) == pc' = [pc EXCEPT ![n] = label] /\ UNCHANGED <<gen, svc, cancelled>>

\* A bug: a task that ends keeps service_lock.
LeaveLocked(n) ==
    /\ pc' = [pc EXCEPT ![n] = "done"] /\ cancelled' = cancelled \ {n}
    /\ UNCHANGED <<gen, svc, lock>>

\* The task is over; if it held service_lock it releases it.
Leave(n) ==
    /\ pc' = [pc EXCEPT ![n] = "done"] /\ cancelled' = cancelled \ {n}
    /\ lock' = IF lock = n THEN None ELSE lock
    /\ UNCHANGED <<gen, svc>>

\* supersede(): the next generation is navigation gen + 1, and the tasks in
\* stopped are those with a cancellation on them now.
Route(s, stopped) ==
    /\ gen < MaxNavs
    /\ gen' = gen + 1
    /\ svc' = [svc EXCEPT ![gen + 1] = s]
    /\ cancelled' = stopped
-----------------------------------------------------------------------------
\* The user picks another entry of the rail; _on_nav_selection_changed then
\* starts an exclusive worker.
Pick(s) ==
    /\ quit # "over" /\ picks < MaxPicks /\ menu # s
    /\ menu' = s /\ choice' = s /\ picks' = picks + 1
    /\ Route(s, Pending)
    /\ pc' = [pc EXCEPT ![gen + 1] = "queued"]
    /\ UNCHANGED <<origin, lock, hosting, view, mark, quit, published, faults>>

\* _select_discovery_source before the lock: only tracked tasks are cancelled.
ChooseSource ==
    /\ quit = "open" /\ Cardinality(DOMAIN origin) < MaxSources
    /\ Hosted = "s3" /\ view = host
    /\ Route("s3", cancelled \cup {n \in Pending: Source(n)})
    /\ origin' = [n \in DOMAIN origin \cup {gen + 1} |->
                    IF n = gen + 1 THEN host ELSE origin[n]]
    /\ pc' = [pc EXCEPT ![gen + 1] = "queued"]
    /\ UNCHANGED <<menu, lock, hosting, view, mark, quit, history, faults>>

\* A bug: the rail is left where a failed adoption restored it.
LeaveSelection(n) == UNCHANGED menu
Reselect(n) == menu' = svc[n]

\* _mount_external_navigation takes the lock.
Enter(n) ==
    /\ pc[n] = "queued" /\ n \notin cancelled /\ ~Source(n) /\ lock = None
    /\ \/ /\ Superseded(n)
          /\ Leave(n)
          /\ UNCHANGED menu
       \/ /\ ~Superseded(n)
          /\ lock' = n
          /\ Reselect(n)
          /\ Goto(n, "transfers")
    /\ UNCHANGED <<origin, hosting, view, mark, quit, history, faults>>

\* The source is refused (it may also be gone by now) or the focused pane is
\* bound to it, which leaves the navigation's state alone.
EnterSource(n) ==
    /\ pc[n] = "queued" /\ n \notin cancelled /\ Source(n) /\ lock = None
    /\ \/ Leave(n)
       \/ /\ ~Superseded(n) /\ host = origin[n] /\ view = host
          /\ lock' = n
          /\ Goto(n, "rebinding")
    /\ UNCHANGED <<menu, origin, hosting, view, mark, quit, history, faults>>

\* The cancellation arrives where nothing was changed yet, or any more.
Cancelled(n) ==
    /\ n \in cancelled
    /\ pc[n] \in {"queued", "transfers", "replacing", "removing", "mounting", "resetting"}
    /\ Leave(n)
    /\ UNCHANGED <<menu, origin, hosting, view, mark, quit, history, faults>>

Rebound(n) ==
    /\ pc[n] = "rebinding"
    /\ Leave(n)
    /\ UNCHANGED <<menu, origin, hosting, view, mark, quit, history, faults>>
-----------------------------------------------------------------------------
\* _replace_content_widget: the children of the host are taken out first, after
\* the host itself was replaced if an earlier mount is still registered for it.
Remove(n) ==
    /\ mark' = gen /\ view' = Blank /\ UNCHANGED lock
    /\ Goto(n, "replacing") \/ Goto(n, "removing")

\* set_content adopts the candidate, starts its setup, and the navigation goes
\* on to publish it.  Only a service asks whether it still owns the mount.
Adopt(n, others) ==
    /\ host' = n
    /\ live' = others \cup {n}
    /\ setup' = [setup EXCEPT ![n] = "running"]
    /\ IF svc[n] # "settings" /\ Superseded(n)
       THEN Leave(n) /\ UNCHANGED <<view, mark>>
       ELSE Remove(n)

\* _shutdown_current_for_swap.  The settings page has no shutdown.
Retire(n) ==
    IF host # None /\ Hosted # "settings"
    THEN /\ Goto(n, "stopping")
         /\ live' = live \cup {n}
         /\ UNCHANGED <<host, setup, lock, view, mark>>
    ELSE Adopt(n, live \ {host})

\* The candidate is built and constructed, and the setup of the hosted view
\* model is cancelled if it still runs.
Build(n) ==
    IF host # None /\ setup[host] # "none"
    THEN /\ setup' = [setup EXCEPT ![host] = "cancelled"]
         /\ live' = live \cup {n}
         /\ Goto(n, "draining")
         /\ UNCHANGED <<host, lock, view, mark>>
    ELSE Retire(n)

\* The transfer workers have stopped: mount_service, _mount_settings_view.
Stopped(n) ==
    /\ pc[n] = "transfers" /\ n \notin cancelled
    /\ \/ /\ svc[n] # "settings" /\ Superseded(n)
          /\ Leave(n)
          /\ UNCHANGED <<menu, hosting, view, mark, faults>>
       \/ /\ svc[n] # "settings" => ~Superseded(n)
          /\ \/ \* the service is hosted already
                /\ svc[n] # "settings" /\ Hosted = svc[n]
                /\ Remove(n)
                /\ UNCHANGED <<menu, hosting, faults>>
             \/ /\ svc[n] = "settings" \/ Hosted # svc[n]
                /\ \/ Build(n) /\ UNCHANGED <<menu, faults>>
                   \/ \* build_vm or construct raises; restore_navigation
                      /\ Fault
                      /\ menu' = Hosted
                      /\ Leave(n)
                      /\ UNCHANGED <<hosting, view, mark>>
    /\ UNCHANGED <<origin, quit, history>>

\* A bug: a candidate that is not adopted is not disposed of.
KeepCandidate(n, others) == live' = others \cup {n}
Dispose(n, others) == live' = others \ {n}

\* _adopt_service_vm puts the selection back that it found, which is the one
\* of this very navigation: a newer pick is overwritten, and routed again.
RollsBack(n) == svc[n] # "settings" /\ menu # svc[n]
Unwind(n) ==
    IF RollsBack(n)
    THEN /\ Route(svc[n], Pending \ {n})
         /\ pc' = [pc EXCEPT ![n] = "done", ![gen + 1] = "queued"]
         /\ lock' = None
    ELSE Leave(n)

\* A bug: a setup is over as soon as its cancellation was asked for.
OverWhenAsked(v) == setup[v] # "running"
SetupOver(v) == setup[v] = "none"

\* _cancel_and_drain_setup returns, or raises the cancellation of its caller.
Drained(n) ==
    /\ pc[n] = "draining" /\ SetupOver(host)
    /\ \/ /\ n \in cancelled
          /\ Dispose(n, live)
          /\ Unwind(n)
          /\ menu' = IF RollsBack(n) THEN svc[n] ELSE menu
          /\ UNCHANGED <<host, setup, view, mark>>
       \/ /\ n \notin cancelled
          /\ Retire(n)
          /\ UNCHANGED menu
    /\ UNCHANGED <<origin, quit, history, faults>>

\* The shutdown of the hosted view model is over.  It is never abandoned: a
\* cancellation is raised once the view model is disposed of, and is lost if
\* the shutdown failed.
HostStopped(n) ==
    /\ pc[n] = "stopping"
    /\ \/ /\ Fault
          /\ Dispose(n, live)
          /\ Unwind(n)
          /\ menu' = Hosted
          /\ UNCHANGED <<host, setup, view, mark>>
       \/ /\ n \in cancelled
          /\ Dispose(n, live \ {host})
          /\ host' = None
          /\ Unwind(n)
          /\ menu' = IF RollsBack(n) THEN svc[n] ELSE menu
          /\ UNCHANGED <<setup, view, mark, faults>>
       \/ /\ n \notin cancelled
          /\ Adopt(n, live \ {host})
          /\ UNCHANGED <<menu, faults>>
    /\ UNCHANGED <<origin, quit, history>>
-----------------------------------------------------------------------------
\* An exception leaves _replace_content_widget; Settings then put the rail on
\* the hosted service.
GiveUp(n) ==
    /\ menu' = IF svc[n] = "settings" THEN Hosted ELSE menu
    /\ Leave(n)

\* _reset_content_host returns, or fails.
Replaced(n) ==
    /\ pc[n] = "replacing" /\ n \notin cancelled
    /\ \/ /\ Closed \/ gen # mark
          /\ Leave(n)
          /\ UNCHANGED <<menu, faults>>
       \/ /\ ~Closed /\ gen = mark
          /\ Goto(n, "removing")
          /\ UNCHANGED <<menu, lock, faults>>
       \/ Fault /\ GiveUp(n)
    /\ UNCHANGED <<origin, hosting, view, mark, quit, history>>

\* remove_children returns, or fails.
Removed(n) ==
    /\ pc[n] = "removing" /\ n \notin cancelled
    /\ \/ /\ Closed \/ gen # mark
          /\ Leave(n)
          /\ UNCHANGED <<menu, view, faults>>
       \/ /\ ~Closed /\ gen = mark
          /\ view' = host
          /\ Goto(n, "mounting")
          /\ UNCHANGED <<menu, lock, faults>>
       \/ Fault /\ GiveUp(n) /\ UNCHANGED view
    /\ UNCHANGED <<origin, hosting, mark, quit, history>>

\* mount returns, or fails and the host is reset for the error surface.
Mounted(n) ==
    /\ pc[n] = "mounting" /\ n \notin cancelled
    /\ \/ /\ published' = n
          /\ Leave(n)
          /\ UNCHANGED <<view, faults>>
       \/ /\ Fault
          /\ view' = Blank
          /\ Goto(n, "resetting")
          /\ UNCHANGED <<lock, published>>
    /\ UNCHANGED <<menu, origin, hosting, mark, quit, choice, picks>>

\* The error surface is mounted and the failure raised; it is swallowed when the
\* navigation was superseded.  The surface may fail to mount, too.
Reset(n) ==
    /\ pc[n] = "resetting" /\ n \notin cancelled
    /\ \/ (Closed \/ gen # mark) /\ Leave(n) /\ UNCHANGED <<menu, view>>
       \/ ~Closed /\ gen = mark /\ GiveUp(n) /\ view' = Broken
       \/ GiveUp(n) /\ UNCHANGED view
    /\ UNCHANGED <<origin, hosting, mark, quit, history, faults>>

\* A setup ends, by itself or because it was cancelled.
SetupEnds(v) ==
    /\ setup[v] # "none"
    /\ setup' = [setup EXCEPT ![v] = "none"]
    /\ UNCHANGED <<menu, control, origin, lock, host, live, view, mark, quit, history, faults>>
-----------------------------------------------------------------------------
\* close_intake.
CloseIntake ==
    /\ quit = "open" /\ quit' = "closing"
    /\ UNCHANGED <<menu, control, origin, lock, hosting, view, mark, history, faults>>

\* The content-mount workers and the tasks of the palette are cancelled.
StopMounts ==
    /\ quit = "closing" /\ quit' = "stopping"
    /\ cancelled' = cancelled \cup Pending
    /\ UNCHANGED <<menu, gen, svc, pc, origin, lock, hosting, view, mark, history, faults>>

\* A bug: shutdown does not pass the service-lock barrier.
NoBarrier == Pending \cap DOMAIN origin = {}

\* The palette's tasks are drained and the lock was free once.
BarrierPassed == Pending \cap DOMAIN origin = {} /\ lock = None

\* ContentHostVM.shutdown begins by cancelling the setup.
PassBarrier ==
    /\ quit = "stopping" /\ BarrierPassed
    /\ quit' = "passed"
    /\ setup' = IF host # None /\ setup[host] = "running"
                THEN [setup EXCEPT ![host] = "cancelled"] ELSE setup
    /\ UNCHANGED <<menu, control, origin, lock, host, live, view, mark, history, faults>>

\* The hosted view model is shut down, whether that fails or not, and the tree
\* is disposed of.
DisposeTree ==
    /\ quit = "passed" /\ (host # None => SetupOver(host))
    /\ quit' = "over"
    /\ live' = live \ {host} /\ host' = None
    /\ UNCHANGED <<menu, control, origin, lock, setup, view, mark, history, faults>>

Shutdown == CloseIntake \/ StopMounts \/ PassBarrier \/ DisposeTree

NavStep(n) ==
    \/ Enter(n) \/ EnterSource(n) \/ Cancelled(n) \/ Rebound(n) \/ Stopped(n)
    \/ Drained(n) \/ HostStopped(n) \/ Replaced(n) \/ Removed(n) \/ Mounted(n) \/ Reset(n)

Next ==
    \/ \E s \in Services: Pick(s)
    \/ ChooseSource
    \/ \E n \in Navs: NavStep(n)
    \/ \E v \in Vms: SetupEnds(v)
    \/ Shutdown

\* The event loop resumes every ready task; a cancelled setup and a shutdown
\* of a view model end; nothing makes the user quit.
Fairness ==
    /\ \A n \in Navs: WF_vars(NavStep(n))
    /\ \A v \in Vms: WF_vars(setup[v] = "cancelled" /\ SetupEnds(v))
    /\ WF_vars(StopMounts \/ PassBarrier \/ DisposeTree)

Spec == Init /\ [][Next]_vars /\ Fairness
-----------------------------------------------------------------------------
NavigationOK ==
    /\ gen \in Vms /\ svc \in [Vms -> Services \cup {None}]
    /\ DOMAIN origin \subseteq Navs /\ \A n \in DOMAIN origin: origin[n] \in Vms
    /\ pc \in [Navs -> {"unborn", "queued", "done"} \cup Critical]
    /\ lock \in Navs \cup {None} /\ \A n \in Navs: lock = n <=> pc[n] \in Critical
    /\ cancelled \subseteq Pending

HostingOK ==
    /\ host \in Vms \cup {None} /\ live \subseteq Vms
    /\ setup \in [Vms -> {"none", "running", "cancelled"}]
    /\ view \in Vms \cup {Blank, Broken} /\ mark \in Vms

UserOK ==
    /\ menu \in Services \cup {None} /\ choice \in Services /\ published \in Vms
    /\ quit \in {"open", "closing", "stopping", "passed", "over"}
    /\ picks \in 0 .. MaxPicks /\ faults \in 0 .. MaxFaults

\* Every variable keeps its type, and service_lock is held exactly by the
\* navigation that is between its acquisition and its end.
TypeOK == NavigationOK /\ HostingOK /\ UserOK

\* The candidates that a swap has built and not adopted yet.
Candidates == {n \in Navs: pc[n] \in {"draining", "stopping"}}

\* "The host disposes an unadopted candidate": whatever is cancelled or fails,
\* a view model that is not disposed of is hosted or is the candidate of the
\* swap that runs.
NothingOrphaned == live = ({host} \ {None}) \cup Candidates

\* A view model is disposed of only when its setup is over: the task would go
\* on with a dead view model.
DrainedBeforeDisposal == \A v \in Vms: setup[v] # "none" => v \in live

\* When the newest navigation has mounted its view, the rail, the host and the
\* view agree on it, whatever the superseded ones did before and do still.
NewestSettles ==
    ~Closed /\ gen = published => view = host /\ Hosted = svc[gen] /\ menu = Hosted

\* Quitting leaves nothing behind, in whatever state of a swap it comes.
CleanAtEnd == quit = "over" => live = {} /\ \A v \in Vms: setup[v] = "none"

\* Every navigation ends, and a shutdown that was begun completes.
Settles ==
    /\ \A n \in Navs: pc[n] = "queued" ~> pc[n] = "done"
    /\ quit = "closing" ~> quit = "over"

\* RootVM.switch_service: "the nav-rail ribbon reflects user intent": with
\* nothing failing, the rail comes to rest on the user's last pick.
LatestPickWins == ~Closed /\ faults = 0 /\ Pending = {} => menu = choice
=============================================================================
