---------------------- MODULE ServiceNavigationProofs ----------------------
(***************************************************************************)
(* Proofs about ServiceNavigation for any rail and any number of picks,    *)
(* chosen sources and failures.                                            *)
(***************************************************************************)
EXTENDS ServiceNavigation, TLAPS

\* Navigations are numbered as they are routed.
Numbered == \A n \in Navs:
    /\ n > gen <=> pc[n] = "unborn"
    /\ n <= gen => svc[n] \in Services

\* Nothing is hosted or published before its swap went through.
Unadopted == \A n \in Navs:
    pc[n] \in {"unborn", "queued", "rebinding", "transfers", "draining", "stopping"} =>
        n # host /\ n # published

\* Only the hosted view model has a setup, and its shutdown waits for it.
SetupHosted == \A v \in Vms: setup[v] # "none" => v = host
Swapping == \A n \in Candidates:
    host # None /\ (pc[n] = "stopping" => setup[host] = "none")

\* Past the barrier no navigation is under way; at the end nothing is hosted.
Barred ==
    /\ quit \in {"passed", "over"} => lock = None
    /\ quit = "over" => host = None

\* The rail shows the service of the navigation that owns the generation.
Shown == \A n \in Navs:
    pc[n] \in Critical \ {"rebinding"} /\ gen = n => menu = svc[n]

\* What is being published is what is hosted.
Publishing == \A n \in Navs:
    /\ pc[n] \in {"replacing", "removing", "mounting", "resetting"} => host # None /\ Hosted = svc[n]
    /\ pc[n] = "mounting" => view = host

\* Once the newest navigation has published, none holds the lock.
Quiet == ~Closed /\ gen = published =>
    lock = None /\ view = host /\ host # None /\ Hosted = svc[gen] /\ menu = Hosted

IInv ==
    /\ TypeOK /\ NothingOrphaned /\ Numbered /\ Unadopted /\ SetupHosted
    /\ Swapping /\ Barred /\ Shown /\ Publishing /\ Quiet
-----------------------------------------------------------------------------
USE BoundsAreNatural, RailHasBoth, NamesDiffer
USE DEF MaxNavs, Navs, Vms, Critical, Pending, Candidates, Closed, Hosted, Source,
        control, hosting, history, TypeOK, IInv

\* A task that ends gives the lock back and keeps the control state typed.
LEMMA LeaveTyped ==
    ASSUME NavigationOK, NEW n \in Navs, pc[n] # "unborn", Leave(n), UNCHANGED origin
    PROVE  NavigationOK'
<1>1. pc' \in [Navs -> {"unborn", "queued", "done"} \cup Critical]
  BY DEF NavigationOK, Leave
<1>2. lock' \in Navs \cup {None} /\ \A m \in Navs: lock' = m <=> pc'[m] \in Critical
  BY DEF NavigationOK, Leave
<1>3. cancelled' \subseteq Pending'
  BY DEF NavigationOK, Leave
<1>4. QED
  BY <1>1, <1>2, <1>3 DEF NavigationOK, Leave

\* The lock holder goes on to another await, or a queued one gets the lock.
LEMMA GotoTyped ==
    ASSUME NavigationOK, NEW n \in Navs, NEW label \in Critical, Goto(n, label),
           \/ pc[n] \in Critical /\ lock' = lock
           \/ pc[n] = "queued" /\ lock = None /\ lock' = n,
           UNCHANGED origin
    PROVE  NavigationOK'
<1>1. pc' \in [Navs -> {"unborn", "queued", "done"} \cup Critical]
  BY DEF NavigationOK, Goto
<1>2. lock' \in Navs \cup {None} /\ \A m \in Navs: lock' = m <=> pc'[m] \in Critical
  BY DEF NavigationOK, Goto
<1>3. cancelled' \subseteq Pending'
  BY DEF NavigationOK, Goto
<1>4. QED
  BY <1>1, <1>2, <1>3 DEF NavigationOK, Goto

\* A routed navigation is a fresh one.
LEMMA RouteTyped ==
    ASSUME NavigationOK, Numbered, NEW s \in Services, NEW stopped \in SUBSET Pending,
           Route(s, stopped), pc' = [pc EXCEPT ![gen + 1] = "queued"], UNCHANGED lock,
           DOMAIN origin' \subseteq Navs, \A n \in DOMAIN origin': origin'[n] \in Vms
    PROVE  NavigationOK'
<1>1. gen + 1 \in Navs /\ pc[gen + 1] = "unborn"
  BY DEF NavigationOK, Numbered, Route
<1>2. pc' \in [Navs -> {"unborn", "queued", "done"} \cup Critical]
  BY <1>1 DEF NavigationOK
<1>3. lock' \in Navs \cup {None} /\ \A m \in Navs: lock' = m <=> pc'[m] \in Critical
  BY <1>1 DEF NavigationOK
<1>4. cancelled' \subseteq Pending'
  BY <1>1 DEF NavigationOK, Route
<1>5. svc' \in [Vms -> Services \cup {None}] /\ gen' \in Vms
  BY <1>1 DEF NavigationOK, Route
<1>6. QED
  BY <1>2, <1>3, <1>4, <1>5 DEF NavigationOK

\* The same, as a navigation that is rolled back ends.
LEMMA UnwindTyped ==
    ASSUME NavigationOK, Numbered, NEW n \in Navs, pc[n] \in Critical, svc[n] \in Services,
           Unwind(n), UNCHANGED origin
    PROVE  NavigationOK'
<1>1. CASE ~RollsBack(n)
  BY <1>1, LeaveTyped DEF Unwind
<1>2. CASE RollsBack(n)
  <2>1. gen + 1 \in Navs /\ pc[gen + 1] = "unborn" /\ gen + 1 # n
    BY <1>2 DEF NavigationOK, Numbered, Route, Unwind
  <2>2. pc' \in [Navs -> {"unborn", "queued", "done"} \cup Critical]
    BY <1>2, <2>1 DEF NavigationOK, Unwind
  <2>3. lock' \in Navs \cup {None} /\ \A m \in Navs: lock' = m <=> pc'[m] \in Critical
    BY <1>2, <2>1 DEF NavigationOK, Unwind
  <2>4. cancelled' \subseteq Pending'
    BY <1>2, <2>1 DEF NavigationOK, Unwind, Route
  <2>5. svc' \in [Vms -> Services \cup {None}] /\ gen' \in Vms
    BY <1>2, <2>1 DEF NavigationOK, Unwind, Route
  <2>6. QED
    BY <2>2, <2>3, <2>4, <2>5 DEF NavigationOK
<1>3. QED
  BY <1>1, <1>2

-----------------------------------------------------------------------------
\* The initial state.
LEMMA InitKeeps == Init => IInv
<1> SUFFICES ASSUME Init PROVE IInv
  OBVIOUS
<1> USE DEF Init
<1>1. NavigationOK
  BY DEF NavigationOK
<1>2. HostingOK
  BY DEF HostingOK
<1>3. UserOK
  BY DEF UserOK
<1>4. NothingOrphaned
  BY DEF NothingOrphaned
<1>5. Numbered
  BY DEF Numbered
<1>6. Unadopted
  BY DEF Unadopted
<1>7. SetupHosted
  BY DEF SetupHosted
<1>8. Swapping
  BY DEF Swapping
<1>9. Barred
  BY DEF Barred
<1>10. Shown
  BY DEF Shown
<1>11. Publishing
  BY DEF Publishing
<1>12. Quiet
  BY DEF Quiet
<1>13. QED
  BY <1>1, <1>2, <1>3, <1>4, <1>5, <1>6, <1>7, <1>8, <1>9, <1>10, <1>11, <1>12

\* A pick touches nothing that a running navigation relies on.
LEMMA PickKeeps ==
    ASSUME IInv, NEW s \in Services, Pick(s)
    PROVE  IInv'
<1> USE DEF NavigationOK, HostingOK, UserOK, NothingOrphaned, Pick, Route
<1>a. gen + 1 \in Navs /\ pc[gen + 1] = "unborn" /\ gen + 1 # host /\ gen + 1 # published
  BY DEF Numbered, Unadopted
<1>1. NavigationOK'
  BY RouteTyped
<1>2. HostingOK'
  BY <1>a DEF HostingOK
<1>3. UserOK'
  BY <1>a DEF UserOK
<1>4. NothingOrphaned'
  BY <1>a DEF NothingOrphaned
<1>5. Numbered'
  BY <1>a DEF Numbered
<1>6. Unadopted'
  BY <1>a DEF Unadopted
<1>7. SetupHosted'
  BY <1>a DEF SetupHosted
<1>8. Swapping'
  BY <1>a DEF Swapping
<1>9. Barred'
  BY <1>a DEF Barred
<1>10. Shown'
  BY <1>a DEF Shown
<1>11. Publishing'
  BY <1>a DEF Publishing
<1>12. Quiet'
  BY <1>a DEF Quiet
<1>13. QED
  BY <1>1, <1>2, <1>3, <1>4, <1>5, <1>6, <1>7, <1>8, <1>9, <1>10, <1>11, <1>12

\* Neither does a chosen source.
LEMMA ChooseSourceKeeps ==
    ASSUME IInv, ChooseSource
    PROVE  IInv'
<1> USE DEF NavigationOK, HostingOK, UserOK, NothingOrphaned, ChooseSource, Route
<1>a. gen + 1 \in Navs /\ pc[gen + 1] = "unborn" /\ gen + 1 # host /\ gen + 1 # published
  BY DEF Numbered, Unadopted
<1>1. NavigationOK'
  <2>1. cancelled \cup {n \in Pending: Source(n)} \subseteq Pending
    OBVIOUS
  <2>2. DOMAIN origin' \subseteq Navs /\ \A n \in DOMAIN origin': origin'[n] \in Vms
    BY <1>a
  <2>3. QED
    BY <2>1, <2>2, RouteTyped
<1>2. HostingOK'
  BY <1>a DEF HostingOK
<1>3. UserOK'
  BY <1>a DEF UserOK
<1>4. NothingOrphaned'
  BY <1>a DEF NothingOrphaned
<1>5. Numbered'
  BY <1>a DEF Numbered
<1>6. Unadopted'
  BY <1>a DEF Unadopted
<1>7. SetupHosted'
  BY <1>a DEF SetupHosted
<1>8. Swapping'
  BY <1>a DEF Swapping
<1>9. Barred'
  BY <1>a DEF Barred
<1>10. Shown'
  BY <1>a DEF Shown
<1>11. Publishing'
  BY <1>a DEF Publishing
<1>12. Quiet'
  BY <1>a DEF Quiet
<1>13. QED
  BY <1>1, <1>2, <1>3, <1>4, <1>5, <1>6, <1>7, <1>8, <1>9, <1>10, <1>11, <1>12

\* A navigation ends with nothing to undo: whatever it left on the rail, it held
\* the lock, so that a newer one comes and selects anew.
LEMMA LeaveKeeps ==
    ASSUME IInv, NEW n \in Navs, pc[n] \notin {"unborn", "draining", "stopping"}, Leave(n),
           menu' \in Services \cup {None} /\ (menu' = menu \/ pc[n] \in Critical),
           view' = view \/ (pc[n] = "resetting" /\ view' = Broken),
           published' = published \/ (pc[n] = "mounting" /\ published' = n),
           pc[n] = "mounting" => menu' = menu,
           faults' \in 0 .. MaxFaults, UNCHANGED <<origin, hosting, mark, quit, choice, picks>>
    PROVE  IInv'
<1> USE DEF NavigationOK, HostingOK, UserOK, NothingOrphaned, Leave
<1>1. NavigationOK'
  BY LeaveTyped
<1>2. HostingOK'
  BY DEF HostingOK
<1>3. UserOK'
  BY DEF UserOK
<1>4. NothingOrphaned'
  BY DEF NothingOrphaned
<1>5. Numbered'
  BY DEF Numbered
<1>6. Unadopted'
  BY DEF Unadopted
<1>7. SetupHosted'
  BY DEF SetupHosted
<1>8. Swapping'
  BY DEF Swapping
<1>9. Barred'
  BY DEF Barred
<1>10. Shown'
  BY DEF Shown
<1>11. Publishing'
  BY DEF Publishing
<1>12. Quiet'
  BY DEF Quiet, Publishing, Shown
<1>13. QED
  BY <1>1, <1>2, <1>3, <1>4, <1>5, <1>6, <1>7, <1>8, <1>9, <1>10, <1>11, <1>12

\* The lock is given to the newest navigation only.
LEMMA EnterKeeps ==
    ASSUME IInv, NEW n \in Navs, pc[n] = "queued", lock = None, lock' = n, ~Superseded(n),
           NEW label \in {"transfers", "rebinding"}, Goto(n, label),
           menu' = IF label = "transfers" THEN svc[n] ELSE menu, menu' \in Services \cup {None},
           UNCHANGED <<origin, hosting, view, mark, quit, history, faults>>
    PROVE  IInv'
<1> USE DEF NavigationOK, HostingOK, UserOK, NothingOrphaned, Superseded, Goto
<1>1. NavigationOK'
  BY GotoTyped
<1>2. HostingOK'
  BY DEF HostingOK
<1>3. UserOK'
  BY DEF UserOK
<1>4. NothingOrphaned'
  BY DEF NothingOrphaned
<1>5. Numbered'
  BY DEF Numbered
<1>6. Unadopted'
  BY DEF Unadopted
<1>7. SetupHosted'
  BY DEF SetupHosted
<1>8. Swapping'
  BY DEF Swapping
<1>9. Barred'
  BY DEF Barred
<1>10. Shown'
  BY DEF Shown
<1>11. Publishing'
  BY DEF Publishing
<1>12. Quiet'
  BY DEF Quiet, Unadopted
<1>13. QED
  BY <1>1, <1>2, <1>3, <1>4, <1>5, <1>6, <1>7, <1>8, <1>9, <1>10, <1>11, <1>12

\* A navigation begins to publish what is hosted.
LEMMA RemoveKeeps ==
    ASSUME IInv, NEW n \in Navs, pc[n] = "transfers", host # None, Hosted = svc[n],
           Remove(n), UNCHANGED <<menu, origin, hosting, quit, history, faults>>
    PROVE  IInv'
<1> USE DEF NavigationOK, HostingOK, UserOK, NothingOrphaned, Remove, Goto
<1>1. NavigationOK'
  BY GotoTyped
<1>2. HostingOK'
  BY DEF HostingOK
<1>3. UserOK'
  BY DEF UserOK
<1>4. NothingOrphaned'
  BY DEF NothingOrphaned
<1>5. Numbered'
  BY DEF Numbered
<1>6. Unadopted'
  BY DEF Unadopted
<1>7. SetupHosted'
  BY DEF SetupHosted
<1>8. Swapping'
  BY DEF Swapping
<1>9. Barred'
  BY DEF Barred
<1>10. Shown'
  BY DEF Shown
<1>11. Publishing'
  BY DEF Publishing
<1>12. Quiet'
  BY DEF Quiet
<1>13. QED
  BY <1>1, <1>2, <1>3, <1>4, <1>5, <1>6, <1>7, <1>8, <1>9, <1>10, <1>11, <1>12

\* A candidate takes the place of the hosted view model, whose setup is over.
LEMMA AdoptKeeps ==
    ASSUME IInv, NEW n \in Navs, pc[n] \in {"transfers", "draining", "stopping"},
           host # None => setup[host] = "none", Adopt(n, live \ {host}),
           UNCHANGED <<menu, origin, quit, history, faults>>
    PROVE  IInv'
<1> USE DEF NavigationOK, HostingOK, UserOK, NothingOrphaned, Adopt, Remove, Superseded, Leave, Goto
<1>1. NavigationOK'
  <2>1. CASE Leave(n)
    BY <2>1, LeaveTyped
  <2>2. CASE Remove(n)
    BY <2>2, GotoTyped
  <2>3. QED
    <3> HIDE DEF Leave, Remove, Goto
    <3>1. QED
      BY <2>1, <2>2
<1>2. HostingOK'
  <2>1. view' \in {view, Blank} /\ mark' \in {mark, gen}
    OBVIOUS
  <2>2. host' \in Vms /\ live' \subseteq Vms
    OBVIOUS
  <2>3. setup' \in [Vms -> {"none", "running", "cancelled"}]
    OBVIOUS
  <2>4. QED
    BY <2>1, <2>2, <2>3 DEF HostingOK
<1>3. UserOK'
  BY DEF UserOK
<1>4. NothingOrphaned'
  BY DEF NothingOrphaned
<1>5. Numbered'
  BY DEF Numbered
<1>6. Unadopted'
  BY DEF Unadopted
<1>7. SetupHosted'
  BY DEF SetupHosted
<1>8. Swapping'
  BY DEF Swapping
<1>9. Barred'
  BY DEF Barred
<1>10. Shown'
  BY DEF Shown
<1>11. Publishing'
  BY DEF Publishing
<1>12. Quiet'
  BY DEF Quiet
<1>13. QED
  BY <1>1, <1>2, <1>3, <1>4, <1>5, <1>6, <1>7, <1>8, <1>9, <1>10, <1>11, <1>12

\* A candidate waits for the hosted view model's setup, or its shutdown.
LEMMA CandidateKeeps ==
    ASSUME IInv, NEW n \in Navs, pc[n] \in {"transfers", "draining"}, host # None,
           NEW label \in {"draining", "stopping"}, Goto(n, label), live' = live \cup {n},
           \/ setup[host] = "none" /\ UNCHANGED setup
           \/ label = "draining" /\ setup' = [setup EXCEPT ![host] = "cancelled"],
           UNCHANGED <<menu, origin, lock, host, view, mark, quit, history, faults>>
    PROVE  IInv'
<1> USE DEF NavigationOK, HostingOK, UserOK, NothingOrphaned, Goto
<1>1. NavigationOK'
  BY GotoTyped
<1>2. HostingOK'
  <2>1. live' \subseteq Vms
    OBVIOUS
  <2>2. setup' \in [Vms -> {"none", "running", "cancelled"}]
    OBVIOUS
  <2>3. QED
    BY <2>1, <2>2
<1>3. UserOK'
  BY DEF UserOK
<1>4. NothingOrphaned'
  BY DEF NothingOrphaned
<1>5. Numbered'
  BY DEF Numbered
<1>6. Unadopted'
  BY DEF Unadopted
<1>7. SetupHosted'
  BY DEF SetupHosted
<1>8. Swapping'
  BY DEF Swapping
<1>9. Barred'
  BY DEF Barred
<1>10. Shown'
  BY DEF Shown
<1>11. Publishing'
  BY DEF Publishing
<1>12. Quiet'
  BY DEF Quiet
<1>13. QED
  BY <1>1, <1>2, <1>3, <1>4, <1>5, <1>6, <1>7, <1>8, <1>9, <1>10, <1>11, <1>12

\* A rejected candidate is disposed of, alone or with the hosted view model.
LEMMA UnwindKeeps ==
    ASSUME IInv, NEW n \in Navs, pc[n] \in {"draining", "stopping"}, Unwind(n),
           menu' \in Services \cup {None}, faults' \in 0 .. MaxFaults,
           \/ live' = live \ {n} /\ host' = host
           \/ pc[n] = "stopping" /\ live' = (live \ {host}) \ {n} /\ host' = None,
           UNCHANGED <<origin, setup, view, mark, quit, history>>
    PROVE  IInv'
<1> USE DEF NavigationOK, HostingOK, UserOK, NothingOrphaned
<1>1. CASE ~RollsBack(n)
  <2> Leave(n)
    BY <1>1 DEF Unwind
  <2> USE DEF Leave
  <2>1. NavigationOK'
    BY LeaveTyped
  <2>2. HostingOK'
    BY DEF HostingOK
  <2>3. UserOK'
    BY DEF UserOK
  <2>4. NothingOrphaned'
    BY DEF Unadopted, Swapping
  <2>5. Numbered'
    BY DEF Numbered
  <2>6. Unadopted'
    BY DEF Unadopted
  <2>7. SetupHosted'
    BY DEF SetupHosted, Swapping
  <2>8. Swapping'
    BY DEF Swapping
  <2>9. Barred'
    BY DEF Barred
  <2>10. Shown'
    BY DEF Shown
  <2>11. Publishing'
    BY DEF Publishing
  <2>12. Quiet'
    BY DEF Quiet
  <2>13. QED
    BY <2>1, <2>2, <2>3, <2>4, <2>5, <2>6, <2>7, <2>8, <2>9, <2>10, <2>11, <2>12
<1>2. CASE RollsBack(n)
  <2> USE <1>2 DEF Unwind, RollsBack, Route
  <2>a. gen + 1 \in Navs /\ pc[gen + 1] = "unborn" /\ gen + 1 # n
        /\ gen + 1 # host /\ gen + 1 # published
    BY DEF Numbered, Unadopted
  <2>1. NavigationOK'
    <3>1. svc[n] \in Services
      BY DEF Numbered
    <3>2. QED
      BY <3>1, UnwindTyped
  <2>2. HostingOK'
    BY <2>a DEF HostingOK
  <2>3. UserOK'
    BY <2>a DEF UserOK
  <2>4. NothingOrphaned'
    BY <2>a DEF Unadopted, Swapping
  <2>5. Numbered'
    BY <2>a DEF Numbered
  <2>6. Unadopted'
    BY <2>a DEF Unadopted
  <2>7. SetupHosted'
    BY <2>a DEF SetupHosted, Swapping
  <2>8. Swapping'
    BY <2>a DEF Swapping
  <2>9. Barred'
    BY <2>a DEF Barred
  <2>10. Shown'
    BY <2>a DEF Shown
  <2>11. Publishing'
    <3>1. \A m \in Navs: m # n => pc[m] \notin Critical
      OBVIOUS
    <3>2. \A m \in Navs: pc'[m] \notin {"replacing", "removing", "mounting", "resetting"}
      BY <2>a, <3>1
    <3>3. QED
      BY <3>2 DEF Publishing
  <2>12. Quiet'
    BY <2>a DEF Quiet
  <2>13. QED
    BY <2>1, <2>2, <2>3, <2>4, <2>5, <2>6, <2>7, <2>8, <2>9, <2>10, <2>11, <2>12
<1>3. QED
  BY <1>1, <1>2

\* The hosted view model's shutdown begins, if it has one.
LEMMA RetireKeeps ==
    ASSUME IInv, NEW n \in Navs, pc[n] \in {"transfers", "draining"},
           host # None => setup[host] = "none", Retire(n),
           UNCHANGED <<menu, origin, quit, history, faults>>
    PROVE  IInv'
<1>1. CASE host # None /\ Hosted # "settings"
  BY <1>1, CandidateKeeps DEF Retire
<1>2. CASE ~(host # None /\ Hosted # "settings")
  BY <1>2, AdoptKeeps DEF Retire
<1>3. QED
  BY <1>1, <1>2

\* The transfers have stopped: the four ways on of mount_service.
LEMMA StoppedKeeps == ASSUME IInv, NEW n \in Navs, Stopped(n) PROVE IInv'
<1>1. pc[n] = "transfers" /\ UNCHANGED <<origin, quit, history>> /\ Hosted \in Services \cup {None}
      /\ faults \in 0 .. MaxFaults /\ menu \in Services \cup {None}
  BY DEF Stopped, NavigationOK, HostingOK, UserOK
<1>2. CASE Leave(n) /\ UNCHANGED <<menu, hosting, view, mark, faults>>
  <2>1. faults' \in 0 .. MaxFaults /\ menu' \in Services \cup {None} /\ UNCHANGED published
        /\ UNCHANGED <<origin, hosting, mark, quit, choice, picks>>
    BY <1>1, <1>2
  <2>2. QED
    BY <1>1, <1>2, <2>1, LeaveKeeps
<1>3. CASE Hosted = svc[n] /\ svc[n] # "settings" /\ Remove(n) /\ UNCHANGED <<menu, hosting, faults>>
  <2>1. host # None
    BY <1>3, <1>1 DEF Numbered, NavigationOK
  <2>2. QED
    BY <1>1, <1>3, <2>1, RemoveKeeps
<1>4. CASE Build(n) /\ UNCHANGED <<menu, faults>>
  <2>1. CASE host # None /\ setup[host] # "none"
    BY <1>1, <1>4, <2>1, CandidateKeeps DEF Build
  <2>2. CASE ~(host # None /\ setup[host] # "none")
    BY <1>1, <1>4, <2>2, RetireKeeps DEF Build
  <2>3. QED
    BY <2>1, <2>2
<1>5. CASE Fault /\ menu' = Hosted /\ Leave(n) /\ UNCHANGED <<hosting, view, mark>>
  <2>1. faults' \in 0 .. MaxFaults /\ menu' \in Services \cup {None} /\ UNCHANGED published
        /\ UNCHANGED <<origin, hosting, mark, quit, choice, picks>>
    BY <1>1, <1>5 DEF Fault
  <2>2. QED
    BY <1>1, <1>5, <2>1, LeaveKeeps
<1>6. QED
  BY <1>2, <1>3, <1>4, <1>5 DEF Stopped

\* The setup is over: the candidate is rejected or goes on.
LEMMA DrainedKeeps == ASSUME IInv, NEW n \in Navs, Drained(n) PROVE IInv'
<1>1. pc[n] = "draining" /\ host # None /\ setup[host] = "none" /\ svc[n] \in Services
      /\ faults \in 0 .. MaxFaults /\ menu \in Services \cup {None}
  BY DEF Drained, SetupOver, Swapping, Numbered, NavigationOK, UserOK
<1>2. CASE n \in cancelled
  BY <1>1, <1>2, UnwindKeeps DEF Drained, Dispose
<1>3. CASE n \notin cancelled
  BY <1>1, <1>3, RetireKeeps DEF Drained
<1>4. QED
  BY <1>2, <1>3

\* The shutdown failed, was overtaken by a cancellation, or gives way.
LEMMA HostStoppedKeeps == ASSUME IInv, NEW n \in Navs, HostStopped(n) PROVE IInv'
<1>1. pc[n] = "stopping" /\ host # None /\ setup[host] = "none" /\ svc[n] \in Services
      /\ faults \in 0 .. MaxFaults /\ menu \in Services \cup {None}
      /\ Hosted \in Services \cup {None} /\ UNCHANGED <<origin, quit, history>>
  BY DEF HostStopped, Swapping, Numbered, NavigationOK, HostingOK, UserOK
<1>2. CASE Fault /\ Dispose(n, live) /\ Unwind(n) /\ menu' = Hosted
           /\ UNCHANGED <<host, setup, view, mark>>
  <2>1. faults' \in 0 .. MaxFaults
    BY <1>1, <1>2 DEF Fault
  <2>2. QED
    BY <1>1, <1>2, <2>1, UnwindKeeps DEF Dispose
<1>3. CASE Dispose(n, live \ {host}) /\ host' = None /\ Unwind(n)
           /\ menu' = (IF RollsBack(n) THEN svc[n] ELSE menu)
           /\ UNCHANGED <<setup, view, mark, faults>>
  BY <1>1, <1>3, UnwindKeeps DEF Dispose
<1>4. CASE Adopt(n, live \ {host}) /\ UNCHANGED <<menu, faults>>
  BY <1>1, <1>4, AdoptKeeps
<1>5. QED
  BY <1>2, <1>3, <1>4 DEF HostStopped

-----------------------------------------------------------------------------
\* The lock is taken, or the navigation has been superseded.
LEMMA QueuedKeeps ==
    ASSUME IInv, NEW n \in Navs, Enter(n) \/ EnterSource(n)
    PROVE  IInv'
<1>1. pc[n] = "queued" /\ lock = None /\ svc[n] \in Services
      /\ faults' \in 0 .. MaxFaults /\ menu \in Services \cup {None} /\ UNCHANGED published
      /\ UNCHANGED <<origin, hosting, view, mark, quit, choice, picks, faults>>
  BY DEF Enter, EnterSource, Numbered, NavigationOK, UserOK
<1>2. CASE Leave(n) /\ UNCHANGED menu
  BY <1>1, <1>2, LeaveKeeps
<1>3. CASE ~Superseded(n) /\ lock' = n /\ menu' = svc[n] /\ Goto(n, "transfers")
  BY <1>1, <1>3, EnterKeeps
<1>4. CASE ~Superseded(n) /\ lock' = n /\ UNCHANGED menu /\ Goto(n, "rebinding")
  BY <1>1, <1>4, EnterKeeps
<1>5. QED
  BY <1>2, <1>3, <1>4 DEF Enter, EnterSource, Reselect

\* What is removed, mounted or given up is the hosted view model's widget.
LEMMA PublishKeeps ==
    ASSUME IInv, NEW n \in Navs,
           Cancelled(n) \/ Rebound(n) \/ Replaced(n) \/ Removed(n) \/ Mounted(n) \/ Reset(n)
    PROVE  IInv'
<1>1. pc[n] \notin {"unborn", "draining", "stopping"} /\ Hosted \in Services \cup {None}
      /\ menu \in Services \cup {None} /\ faults' \in 0 .. MaxFaults
      /\ UNCHANGED <<origin, hosting, mark, quit, choice, picks>>
  <2>1. Hosted \in Services \cup {None} /\ menu \in Services \cup {None}
        /\ faults \in 0 .. MaxFaults
    BY DEF NavigationOK, HostingOK, UserOK
  <2>2. pc[n] \notin {"unborn", "draining", "stopping"}
    BY DEF Cancelled, Rebound, Replaced, Removed, Mounted, Reset, GiveUp
  <2>3. faults' \in 0 .. MaxFaults
    BY <2>1 DEF Cancelled, Rebound, Replaced, Removed, Mounted, Reset, GiveUp, Fault
  <2>4. UNCHANGED <<origin, hosting, mark, quit, choice, picks>>
    BY DEF Cancelled, Rebound, Replaced, Removed, Mounted, Reset, GiveUp
  <2>5. QED
    BY <2>1, <2>2, <2>3, <2>4
<1>2. CASE Leave(n)
  <2>1. view' = view \/ (pc[n] = "resetting" /\ view' = Broken)
    BY <1>2 DEF Cancelled, Rebound, Replaced, Removed, Mounted, Reset, GiveUp, Leave, Goto, NavigationOK
  <2>2. published' = published \/ (pc[n] = "mounting" /\ published' = n)
    BY DEF Cancelled, Rebound, Replaced, Removed, Mounted, Reset, GiveUp
  <2>3. menu' \in Services \cup {None} /\ (menu' = menu \/ pc[n] \in {"replacing", "removing", "resetting"})
    BY <1>1 DEF Cancelled, Rebound, Replaced, Removed, Mounted, Reset, GiveUp
  <2>4. QED
    BY <1>1, <1>2, <2>1, <2>2, <2>3, LeaveKeeps
<1>3. CASE Removed(n) /\ Goto(n, "mounting")
  <2>a. pc[n] = "removing" /\ view' = host /\ UNCHANGED <<lock, menu, faults>>
    <3>1. ~Leave(n)
      BY <1>3 DEF Leave, Goto, NavigationOK
    <3>2. QED
      BY <1>3, <3>1 DEF Removed, GiveUp
  <2>1. NavigationOK'
    BY <1>1, <1>3, <2>a, GotoTyped
  <2> USE <1>1, <1>3, <2>a DEF Removed, Goto, NavigationOK, HostingOK, UserOK, NothingOrphaned
  <2>2. HostingOK'
    BY DEF Publishing
  <2>3. UserOK'
    BY DEF UserOK
  <2>4. NothingOrphaned'
    BY DEF NothingOrphaned
  <2>5. Numbered'
    BY DEF Numbered
  <2>6. Unadopted'
    BY DEF Unadopted
  <2>7. SetupHosted'
    BY DEF SetupHosted
  <2>8. Swapping'
    BY DEF Swapping
  <2>9. Barred'
    BY DEF Barred
  <2>10. Shown'
    BY DEF Shown
  <2>11. Publishing'
    <3>1. \A m \in Navs: m # n => pc'[m] = pc[m] /\ pc[m] \notin Critical
      BY <1>1, <1>3, <2>a DEF Goto, NavigationOK
    <3>2. host # None /\ Hosted = svc[n] /\ UNCHANGED <<host, svc>>
      BY <1>1, <1>3, <2>a DEF Goto, Publishing
    <3>3. QED
      BY <3>1, <3>2, <2>a DEF Publishing
  <2>12. Quiet'
    BY DEF Quiet
  <2>13. QED
    BY <2>1, <2>2, <2>3, <2>4, <2>5, <2>6, <2>7, <2>8, <2>9, <2>10, <2>11, <2>12
<1>4. CASE Mounted(n) /\ Goto(n, "resetting")
  <2>a. pc[n] = "mounting" /\ lock = n /\ lock' = lock /\ published' = published /\ menu' = menu
    BY <1>4 DEF Mounted, Leave, Goto, NavigationOK
  <2>1. NavigationOK'
    BY <1>1, <1>4, <2>a, GotoTyped
  <2> USE <1>1, <1>4, <2>a DEF Mounted, Goto, NavigationOK, HostingOK, UserOK, NothingOrphaned
  <2>2. HostingOK'
    BY DEF HostingOK
  <2>3. UserOK'
    BY DEF UserOK
  <2>4. NothingOrphaned'
    BY DEF NothingOrphaned
  <2>5. Numbered'
    BY DEF Numbered
  <2>6. Unadopted'
    BY DEF Unadopted
  <2>7. SetupHosted'
    BY DEF SetupHosted
  <2>8. Swapping'
    BY DEF Swapping
  <2>9. Barred'
    BY DEF Barred
  <2>10. Shown'
    BY DEF Shown
  <2>11. Publishing'
    BY DEF Publishing
  <2>12. Quiet'
    BY DEF Quiet
  <2>13. QED
    BY <2>1, <2>2, <2>3, <2>4, <2>5, <2>6, <2>7, <2>8, <2>9, <2>10, <2>11, <2>12
<1>5. CASE Replaced(n) /\ Goto(n, "removing")
  <2>a. pc[n] = "replacing" /\ UNCHANGED <<lock, view, menu, published, faults>>
    BY <1>5 DEF Replaced, GiveUp, Leave, Goto, NavigationOK
  <2>1. NavigationOK'
    BY <1>1, <1>5, <2>a, GotoTyped
  <2> USE <1>1, <1>5, <2>a DEF Replaced, Goto, NavigationOK, HostingOK, UserOK, NothingOrphaned
  <2>2. HostingOK'
    BY DEF HostingOK
  <2>3. UserOK'
    BY DEF UserOK
  <2>4. NothingOrphaned'
    BY DEF NothingOrphaned
  <2>5. Numbered'
    BY DEF Numbered
  <2>6. Unadopted'
    BY DEF Unadopted
  <2>7. SetupHosted'
    BY DEF SetupHosted
  <2>8. Swapping'
    BY DEF Swapping
  <2>9. Barred'
    BY DEF Barred
  <2>10. Shown'
    BY DEF Shown
  <2>11. Publishing'
    BY DEF Publishing
  <2>12. Quiet'
    BY DEF Quiet
  <2>13. QED
    BY <2>1, <2>2, <2>3, <2>4, <2>5, <2>6, <2>7, <2>8, <2>9, <2>10, <2>11, <2>12
<1>6. QED
  BY <1>2, <1>3, <1>4, <1>5 DEF Cancelled, Rebound, Replaced, Removed, Mounted, Reset, GiveUp

\* A setup that ends only makes room.
LEMMA SetupEndsKeeps == ASSUME IInv, NEW v \in Vms, SetupEnds(v) PROVE IInv'
<1> USE DEF SetupEnds, NavigationOK, HostingOK, UserOK, NothingOrphaned
<1>1. NavigationOK'
  BY DEF NavigationOK
<1>2. HostingOK'
  BY DEF HostingOK
<1>3. UserOK'
  BY DEF UserOK
<1>4. NothingOrphaned'
  BY DEF NothingOrphaned
<1>5. Numbered'
  BY DEF Numbered
<1>6. Unadopted'
  BY DEF Unadopted
<1>7. SetupHosted'
  BY DEF SetupHosted
<1>8. Swapping'
  BY DEF Swapping
<1>9. Barred'
  BY DEF Barred
<1>10. Shown'
  BY DEF Shown
<1>11. Publishing'
  BY DEF Publishing
<1>12. Quiet'
  BY DEF Quiet
<1>13. QED
  BY <1>1, <1>2, <1>3, <1>4, <1>5, <1>6, <1>7, <1>8, <1>9, <1>10, <1>11, <1>12

\* The shutdown: past the barrier nothing is under way any more.
LEMMA ShutdownKeeps == ASSUME IInv, Shutdown PROVE IInv'
<1> USE DEF Shutdown, CloseIntake, StopMounts, PassBarrier, BarrierPassed, DisposeTree, SetupOver, NavigationOK, HostingOK, UserOK, NothingOrphaned
<1>1. NavigationOK'
  BY DEF NavigationOK
<1>2. HostingOK'
  BY DEF HostingOK
<1>3. UserOK'
  BY DEF UserOK
<1>4. NothingOrphaned'
  BY DEF Barred
<1>5. Numbered'
  BY DEF Numbered
<1>6. Unadopted'
  BY DEF Unadopted
<1>7. SetupHosted'
  BY DEF SetupHosted
<1>8. Swapping'
  BY DEF Swapping, Barred, SetupHosted
<1>9. Barred'
  BY DEF Barred
<1>10. Shown'
  BY DEF Shown
<1>11. Publishing'
  BY DEF Publishing, Barred
<1>12. Quiet'
  BY DEF Quiet
<1>13. QED
  BY <1>1, <1>2, <1>3, <1>4, <1>5, <1>6, <1>7, <1>8, <1>9, <1>10, <1>11, <1>12

\* A step that changes nothing.
LEMMA StutterKeeps == ASSUME IInv, UNCHANGED vars PROVE IInv'
  BY DEF vars, NavigationOK, HostingOK, UserOK, NothingOrphaned, Numbered, Unadopted,
     SetupHosted, Swapping, Barred, Shown, Publishing, Quiet

\* The inductive invariant: who holds the lock, what is hosted, what is alive
\* and what is shown fit together.
THEOREM Invariant == Spec => []IInv
<1>1. Init => IInv
  BY InitKeeps
<1>2. IInv /\ [Next]_vars => IInv'
  <2> SUFFICES ASSUME IInv, [Next]_vars PROVE IInv'
    OBVIOUS
  <2>1. CASE \E s \in Services: Pick(s)
    BY <2>1, PickKeeps
  <2>2. CASE ChooseSource
    BY <2>2, ChooseSourceKeeps
  <2>3. CASE \E n \in Navs: NavStep(n)
    BY <2>3, QueuedKeeps, PublishKeeps, StoppedKeeps, DrainedKeeps, HostStoppedKeeps DEF NavStep
  <2>4. CASE \E v \in Vms: SetupEnds(v)
    BY <2>4, SetupEndsKeeps
  <2>5. CASE Shutdown
    BY <2>5, ShutdownKeeps
  <2>6. CASE UNCHANGED vars
    BY <2>6, StutterKeeps
  <2>7. QED
    BY <2>1, <2>2, <2>3, <2>4, <2>5, <2>6 DEF Next
<1>3. QED
  BY <1>1, <1>2, PTL DEF Spec

\* The types, and service_lock held exactly between acquisition and end.
THEOREM LockIsExact == Spec => []TypeOK
<1>1. IInv => TypeOK
  OBVIOUS
<1>2. QED
  BY <1>1, Invariant, PTL

\* No view model is ever lost: it is hosted, or the candidate of one swap.
THEOREM NoneIsLost == Spec => []NothingOrphaned
<1>1. IInv => NothingOrphaned
  OBVIOUS
<1>2. QED
  BY <1>1, Invariant, PTL

\* No view model is disposed of under its running setup.
THEOREM SetupsAreDrained == Spec => []DrainedBeforeDisposal
<1>1. IInv => DrainedBeforeDisposal
  BY DEF SetupHosted, NothingOrphaned, DrainedBeforeDisposal
<1>2. QED
  BY <1>1, Invariant, PTL

\* Rail, host and view agree once the newest navigation has published.
THEOREM NewestIsShown == Spec => []NewestSettles
<1>1. IInv => NewestSettles
  BY DEF Quiet, NewestSettles
<1>2. QED
  BY <1>1, Invariant, PTL

\* Whatever quitting interrupts, nothing lives on.
THEOREM EndIsClean == Spec => []CleanAtEnd
<1>1. IInv => CleanAtEnd
  BY DEF Barred, NothingOrphaned, NavigationOK, SetupHosted, HostingOK, CleanAtEnd
<1>2. QED
  BY <1>1, Invariant, PTL
=============================================================================
