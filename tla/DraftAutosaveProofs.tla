------------------------ MODULE DraftAutosaveProofs ------------------------
(***************************************************************************)
(* What the run checks of the drafts, proved for any number of contexts,   *)
(* pages, edits, requests and failing operations, from three invariants    *)
(* that every action keeps.                                                *)
(*                                                                         *)
(*   IInv  the coordinator, the worker's line, the preference, the pages   *)
(*         and the snapshot agree: text that is said to be saved is stored *)
(*   PInv  the histories agree with them: what was deleted or replaced     *)
(*         does not come back                                              *)
(*   RInv  the text last given to a draft is owed or on disk: the shutdown *)
(*         report misses no edit                                           *)
(*                                                                         *)
(* Each part has one lemma per action and ends with its theorems.  PInv    *)
(* and RInv hold once IInv does.  DraftLemmas has the invariants and what  *)
(* the operators that the actions are made of do to them.                  *)
(***************************************************************************)
EXTENDS DraftLemmas

-----------------------------------------------------------------------------
(* The actions: first those of a page.                                     *)

LEMMA StepKeeps ==
  ASSUME IInv, edits' = edits, allowed' \in BOOLEAN, report' = report,
         writer'.intake = writer.intake,
         InvOf(edits + 1, writer', Line', pref', session', snapshot')
  PROVE  IInv'
BY DEF IInv, Running

(* What the actions start from.                                            *)
LEMMA Known ==
  ASSUME IInv
  PROVE  /\ edits + 1 \in Texts /\ edits + 1 \in Nat /\ edits \in Nat
         /\ InvOf(edits + 1, writer, Line, pref, session, snapshot)
         /\ session \in [Pages -> SessionsTo(edits + 1)] /\ allowed \in BOOLEAN
         /\ Line.disk = disk /\ Line.queue = queue /\ Line.entered = entered
         /\ Line.results = results
BY DraftParameters DEF IInv, Texts, InvOf, Line

LEMMA LineStays ==
  ASSUME UNCHANGED <<disk, queue, entered, results>>
  PROVE  Line' = Line
BY DEF Line

LEMMA EditStep ==
  ASSUME IInv, NEW p \in Pages, Edit(p)
  PROVE  IInv'
<1> DEFINE n == edits + 1
           s == session[p]
<1>1. PICK text \in {0, edits + 2} \ {s.sql} :
        LET u == Edited(writer, pref, s, p, text)
        IN  writer' = u.w /\ session' = [session EXCEPT ![p] = u.s]
  BY DEF Edit
<1>2. /\ Running /\ s.open /\ s.active /\ edits < MaxEdits /\ edits' = edits + 1
      /\ allowed' = allowed /\ report' = report /\ pref' = pref /\ snapshot' = snapshot
      /\ UNCHANGED <<disk, queue, entered, results>>
  BY DEF Edit, Live, storage, store
<1>3. Line' = Line
  BY <1>2, LineStays
<1>4. edits \in Nat /\ n \in Nat /\ n + 1 \in Texts /\ n + 1 = edits + 2 /\ s \in SessionsTo(n)
  BY <1>2, Known, DraftParameters DEF Texts
<1>5. InvOf(n + 1, writer, Line, pref, session, snapshot)
  BY <1>4, Known, MoreIsKept
<1>6. text \in 0 .. n + 1 /\ (text = 0 \/ text # s.savedSql)
  <2>1. s.savedSql \in 0 .. n
    BY <1>4 DEF SessionsTo
  <2>2. QED
    BY <1>4, <2>1
<1> DEFINE u == Edited(writer, pref, s, p, text)
<1>7. writer.intake
  BY <1>2 DEF IInv
<1>8. InvOf(n + 1, u.w, Line, pref, [session EXCEPT ![p] = u.s], snapshot) /\ u.w.intake = writer.intake
  <2> DEFINE M == n + 1
             v == u.w
             tt == Replaced(session, p, u.s)
  <2>1. /\ M \in Texts /\ text \in 0 .. M /\ InvOf(M, writer, Line, pref, session, snapshot)
        /\ session[p].open /\ session[p].active /\ (text = 0 \/ text # session[p].savedSql)
    BY <1>2, <1>4, <1>5, <1>6
  <2>2. /\ v = Edited(writer, pref, session[p], p, text).w
        /\ tt = Replaced(session, p, Edited(writer, pref, session[p], p, text).s)
    OBVIOUS
  <2> HIDE DEF M, v, tt
  <2>3. Leads(M, writer, v, Line, pref, tt, snapshot)
    BY <1>7, <2>1, <2>2, EditKeeps, Zenon
  <2>4. QED
    BY <2>3 DEF M, v, tt, Replaced, Leads
<1>9. writer' = u.w /\ session' = [session EXCEPT ![p] = u.s]
  BY <1>1
<1> HIDE DEF u
<1>10. InvOf(edits' + 1, writer', Line', pref', session', snapshot')
  BY <1>2, <1>3, <1>4, <1>8, <1>9
<1>11. edits' \in 0 .. MaxEdits
  BY <1>2, <1>4, DraftParameters
<1>12. QED
  BY <1>2, <1>7, <1>8, <1>9, <1>10, <1>11 DEF IInv, Running

LEMMA ContextStep ==
  ASSUME IInv, NEW p \in Pages, ContextChanged(p)
  PROVE  IInv'
<1> DEFINE Said(c) ==
             LET s == [session[p] EXCEPT !.context = c]
                 state == IF pref.enabled /\ NeedsGuard(s) THEN "context_required"
                          ELSE IF s.state # "context_required" \/ s.bound # c THEN s.state
                          ELSE IF s.failed THEN "error"
                          ELSE IF Unsaved(s, c) THEN "pending" ELSE "saved"
             IN  [s EXCEPT !.state = state]
<1>1. PICK c \in Contexts : session' = [session EXCEPT ![p] = Said(c)]
  BY DEF ContextChanged
<1>2. /\ session[p].open /\ session[p].active /\ edits' = edits /\ writer' = writer
      /\ allowed' = allowed /\ report' = report /\ pref' = pref /\ snapshot' = snapshot
      /\ UNCHANGED <<disk, queue, entered, results>>
  BY DEF ContextChanged, Live, storage, store
<1>3. Line' = Line
  BY <1>2, LineStays
<1>4. InvOf(edits + 1, writer, Line, pref, [session EXCEPT ![p] = Said(c)], snapshot)
  BY <1>2, Known, ContextKeeps
<1> HIDE DEF Said
<1>5. InvOf(edits + 1, writer', Line', pref', session', snapshot')
  BY <1>1, <1>2, <1>3, <1>4
<1>6. QED
  BY <1>2, <1>5, Known, StepKeeps

LEMMA ExportStep ==
  ASSUME IInv, NEW p \in Pages, ExportSnapshot(p)
  PROVE  IInv'
<1> DEFINE s == session[p]
           d == IF s.capture # None /\ s.capture.editor = s.editor THEN s.capture.draft ELSE s.pending
           x == [s EXCEPT !.pending = d, !.capture = None]
<1>1. s \in SessionsTo(edits + 1) /\ s.open /\ s.active
  BY Known DEF ExportSnapshot, Live
<1>2. ValidSnapshot(x) /\ snapshot' = [page |-> p, s |-> x]
  BY DEF ExportSnapshot
<1>3. d \in Contexts \union {None}
  BY <1>1 DEF SessionsTo, CapturesTo
<1> HIDE DEF d
<1>4. InvOf(edits + 1, writer, Line, pref, session, [page |-> p, s |-> x])
  BY <1>1, <1>2, <1>3, Known, ExportKeeps
<1>5. /\ edits' = edits /\ writer' = writer /\ session' = session
      /\ allowed' = allowed /\ report' = report /\ pref' = pref
      /\ UNCHANGED <<disk, queue, entered, results>>
  BY DEF ExportSnapshot, storage, store
<1>6. Line' = Line
  BY <1>5, LineStays
<1>7. InvOf(edits + 1, writer', Line', pref', session', snapshot')
  BY <1>2, <1>4, <1>5, <1>6
<1>8. QED
  BY <1>5, <1>7, Known, StepKeeps

LEMMA InstallStep ==
  ASSUME IInv, NEW p \in Pages, InstallSnapshot(p)
  PROVE  IInv'
<1> DEFINE s == session[p]
           v == Release(Revoke(writer, s), s)
           u == Claim(v, pref, Installed(s, snapshot.s), p)
<1>1. writer' = u.w /\ session' = [session EXCEPT ![p] = u.s] /\ snapshot' = None
  BY DEF InstallSnapshot
<1>2. /\ s.open /\ s.active /\ snapshot # None /\ Running /\ edits' = edits
      /\ allowed' = allowed /\ report' = report /\ pref' = pref
      /\ UNCHANGED <<disk, queue, entered, results>>
  BY DEF InstallSnapshot, Live, storage, store
<1>3. Line' = Line /\ writer.intake
  BY <1>2, LineStays DEF IInv
<1>4. InvOf(edits + 1, u.w, Line, pref, [session EXCEPT ![p] = u.s], None) /\ u.w.intake = writer.intake
  <2> DEFINE M == edits + 1
  <2>1. M \in Texts /\ InvOf(M, writer, Line, pref, session, snapshot)
    BY Known
  <2> DEFINE tt == Replaced(session, p, u.s)
  <2>2. /\ session[p].open /\ session[p].active /\ v = Release(Revoke(writer, session[p]), session[p])
        /\ u = Claim(v, pref, Installed(session[p], snapshot.s), p)
        /\ tt = Replaced(session, p, u.s)
    BY <1>2
  <2> HIDE DEF M, s, v, u, tt
  <2>3. Leads(M, writer, u.w, Line, pref, tt, None)
    BY <1>2, <1>3, <2>1, <2>2, InstallKeeps, Zenon
  <2>4. QED
    BY <2>3 DEF M, tt, Replaced, Leads
<1> HIDE DEF u
<1>5. InvOf(edits + 1, writer', Line', pref', session', snapshot')
  BY <1>1, <1>2, <1>3, <1>4
<1>6. QED
  BY <1>1, <1>2, <1>4, <1>5, Known, StepKeeps

LEMMA OpenStep ==
  ASSUME IInv, NEW p \in Pages, OpenPage(p)
  PROVE  IInv'
<1>1. PICK c \in Contexts : session' = [session EXCEPT ![p] = NewSession(TRUE, TRUE, c)]
  BY DEF OpenPage
<1>2. /\ session[p] = Detached /\ HostEmpty /\ edits' = edits /\ writer' = writer
      /\ allowed' = allowed /\ report' = report /\ pref' = pref /\ snapshot' = snapshot
      /\ UNCHANGED <<disk, queue, entered, results>>
  BY DEF OpenPage, Unopened, storage, store
<1>3. Line' = Line
  BY <1>2, LineStays
<1>4. \A q \in Pages : ~(session[q].open /\ session[q].active)
  BY <1>2 DEF HostEmpty
<1>5. InvOf(edits + 1, writer, Line, pref, [session EXCEPT ![p] = NewSession(TRUE, TRUE, c)], snapshot)
  BY <1>2, <1>4, Known, OpenKeeps
<1>6. InvOf(edits + 1, writer', Line', pref', session', snapshot')
  BY <1>1, <1>2, <1>3, <1>5
<1>7. QED
  BY <1>2, <1>6, Known, StepKeeps

LEMMA CandidateStep ==
  ASSUME IInv, NEW p \in Pages, OpenCandidate(p)
  PROVE  IInv'
<1> DEFINE s == NewSession(TRUE, FALSE, None)
           t == Installed(s, snapshot.s)
<1>1. session' = [session EXCEPT ![p] = t] /\ snapshot' = None
  BY DEF OpenCandidate
<1>2. /\ session[p] = Detached /\ snapshot # None /\ edits' = edits /\ writer' = writer
      /\ allowed' = allowed /\ report' = report /\ pref' = pref
      /\ UNCHANGED <<disk, queue, entered, results>>
  BY DEF OpenCandidate, Unopened, storage, store
<1>3. Line' = Line
  BY <1>2, LineStays
<1>4. InvOf(edits + 1, writer, Line, pref, [session EXCEPT ![p] = t], None)
  BY <1>2, Known, CandidateKeeps
<1> HIDE DEF t
<1>5. InvOf(edits + 1, writer', Line', pref', session', snapshot')
  BY <1>1, <1>2, <1>3, <1>4
<1>6. QED
  BY <1>2, <1>5, Known, StepKeeps

LEMMA ActivateStep ==
  ASSUME IInv, NEW p \in Pages, Activate(p)
  PROVE  IInv'
<1> DEFINE u == Claim(writer, pref, [session[p] EXCEPT !.active = TRUE], p)
           tt == Replaced(session, p, u.s)
           n == edits + 1
<1>1. writer' = u.w /\ session' = tt
  BY DEF Activate, Replaced
<1>2. /\ session[p].open /\ ~session[p].active /\ HostEmpty /\ Running /\ edits' = edits
      /\ allowed' = allowed /\ report' = report /\ pref' = pref /\ snapshot' = snapshot
      /\ UNCHANGED <<disk, queue, entered, results>>
  BY DEF Activate, storage, store
<1>3. Line' = Line /\ writer.intake
  BY <1>2, LineStays DEF IInv
<1>4. \A q \in Pages : ~(session[q].open /\ session[q].active)
  BY <1>2 DEF HostEmpty
<1>5. n \in Texts /\ InvOf(n, writer, Line, pref, session, snapshot)
  BY Known
<1>6. u = Claim(writer, pref, [session[p] EXCEPT !.active = TRUE], p) /\ tt = Replaced(session, p, u.s)
  OBVIOUS
<1> HIDE DEF u, tt, n
<1>7. Leads(n, writer, u.w, Line, pref, tt, snapshot)
  BY <1>2, <1>3, <1>4, <1>5, <1>6, ActivateKeeps, Zenon
<1>8. InvOf(edits + 1, writer', Line', pref', session', snapshot')
  BY <1>1, <1>2, <1>3, <1>7 DEF Leads, n
<1>9. QED
  BY <1>1, <1>2, <1>7, <1>8, Known, StepKeeps DEF Leads

(* The jobs of a page that goes away are put in line.                      *)
LEMMA JobsFollow ==
  ASSUME NEW jobs, queue' = queue \o jobs, UNCHANGED <<disk, entered, results>>
  PROVE  /\ Line'.disk = Line.disk /\ Line'.entered = Line.entered /\ Line'.results = Line.results
         /\ Chained(Line.queue, jobs, Line'.queue)
<1>1. /\ Line'.disk = Line.disk /\ Line'.entered = Line.entered /\ Line'.results = Line.results
      /\ Line.queue = queue /\ Line'.queue = queue'
  BY DEF Line
<1>2. Chained(queue, jobs, queue')
  BY ChainedBy, Zenon
<1>3. QED
  BY <1>1, <1>2, Zenon

LEMMA CloseStep ==
  ASSUME IInv, NEW p \in Pages, ClosePage(p)
  PROVE  IInv'
<1> DEFINE s == session[p]
           u == IF pref.enabled THEN PrepareFinal(writer, pref, s, p)
                ELSE [w |-> writer, s |-> s, jobs |-> << >>]
           t == [u.s EXCEPT !.closing = TRUE]
           tt == Replaced(session, p, t)
           n == edits + 1
<1>1. writer' = u.w /\ session' = tt /\ queue' = queue \o u.jobs
  BY DEF ClosePage, Replaced
<1>2. /\ s.open /\ edits' = edits /\ UNCHANGED <<disk, entered, results>>
      /\ allowed' = allowed /\ report' = report /\ pref' = pref /\ snapshot' = snapshot
  BY DEF ClosePage, Live, storage, store
<1>3. n \in Texts /\ InvOf(n, writer, Line, pref, session, snapshot)
  BY Known
<1>4. Ends(n, Line, writer, pref, s, p, u)
  <2>1. CASE pref.enabled
    BY <1>2, <1>3, <2>1, FinalEnds
  <2>2. CASE ~pref.enabled
    <3>1. u = [w |-> writer, s |-> s, jobs |-> << >>]
      BY <2>2
    <3>2. u.w = writer /\ u.s = s /\ u.jobs = << >>
      BY <3>1
    <3>3. Orderly(n, writer) /\ Quiet(writer, pref) /\ Tended(n, Line, writer, pref, s, p)
      BY <1>3 DEF InvOf
    <3> HIDE DEF u, s, n
    <3>4. Ends(n, Line, writer, pref, s, p, u)
      BY <3>2, <3>3, StandsEnds, Zenon
    <3>5. QED
      BY <3>4 DEF u, s, n
  <2>3. QED
    BY <2>1, <2>2
<1> HIDE DEF u
<1>5. \A v : Tended(n, Line, v, pref, u.s, p) => Tended(n, Line, v, pref, t, p)
  BY ClosingTended
<1>6. t.open /\ t.active => u.s.open /\ u.s.active
  <2>1. \E v : Tended(n, Line, v, pref, u.s, p)
    BY <1>4 DEF Ends
  <2>2. QED
    BY <2>1, ClosingTended
<1>7. /\ Line'.disk = Line.disk /\ Line'.entered = Line.entered /\ Line'.results = Line.results
      /\ Chained(Line.queue, u.jobs, Line'.queue)
  BY <1>1, <1>2, JobsFollow, Zenon
<1>8. Ends(n, Line, writer, pref, session[p], p, u) /\ session[p].open /\ tt = Replaced(session, p, t)
  BY <1>2, <1>4
<1> HIDE DEF t, tt, n, s
<1>9. Leads(n, writer, u.w, Line', pref, tt, snapshot)
  BY <1>3, <1>5, <1>6, <1>7, <1>8, EndsKeeps, Zenon
<1>10. /\ InvOf(edits + 1, writer', Line', pref', session', snapshot')
       /\ writer'.intake = writer.intake
  <2>1. writer' = u.w /\ session' = tt /\ pref' = pref /\ snapshot' = snapshot
    BY <1>1, <1>2, Zenon
  <2>2. QED
    BY <1>9, <2>1 DEF Leads, n
<1>11. edits' = edits /\ allowed' \in BOOLEAN /\ report' = report
  BY <1>2, Known
<1>12. QED
  BY <1>10, <1>11, StepKeeps

LEMMA DetachStep ==
  ASSUME IInv, NEW p \in Pages, Detach(p)
  PROVE  IInv'
<1> DEFINE s == session[p]
           u == PrepareFinal(writer, pref, s, p)
           tt == Replaced(session, p, Retired)
           n == edits + 1
<1>1. writer' = u.w /\ session' = tt /\ queue' = queue \o u.jobs
  BY DEF Detach, Replaced
<1>2. /\ s.open /\ edits' = edits /\ UNCHANGED <<disk, entered, results>>
      /\ allowed' = allowed /\ report' = report /\ pref' = pref /\ snapshot' = snapshot
  BY DEF Detach, storage, store
<1>3. n \in Texts /\ InvOf(n, writer, Line, pref, session, snapshot)
  BY Known
<1>4. Ends(n, Line, writer, pref, s, p, u)
  BY <1>2, <1>3, FinalEnds
<1> HIDE DEF u
<1>5. \A v : Tended(n, Line, v, pref, u.s, p) => Tended(n, Line, v, pref, Retired, p)
  BY <1>3, RetiredIsTended
<1>6. Retired.open /\ Retired.active => u.s.open /\ u.s.active
  BY <1>3, RetiredIsTended
<1>7. /\ Line'.disk = Line.disk /\ Line'.entered = Line.entered /\ Line'.results = Line.results
      /\ Chained(Line.queue, u.jobs, Line'.queue)
  BY <1>1, <1>2, JobsFollow, Zenon
<1>8. Ends(n, Line, writer, pref, session[p], p, u) /\ session[p].open /\ tt = Replaced(session, p, Retired)
  BY <1>2, <1>4
<1> HIDE DEF tt, n, s
<1>9. Leads(n, writer, u.w, Line', pref, tt, snapshot)
  BY <1>3, <1>5, <1>6, <1>7, <1>8, EndsKeeps, Zenon
<1>10. /\ InvOf(edits + 1, writer', Line', pref', session', snapshot')
       /\ writer'.intake = writer.intake
  <2>1. writer' = u.w /\ session' = tt /\ pref' = pref /\ snapshot' = snapshot
    BY <1>1, <1>2, Zenon
  <2>2. QED
    BY <1>9, <2>1 DEF Leads, n
<1>11. edits' = edits /\ allowed' \in BOOLEAN /\ report' = report
  BY <1>2, Known
<1>12. QED
  BY <1>10, <1>11, StepKeeps

LEMMA RecoverStep ==
  ASSUME IInv, NEW p \in Pages, Recover(p)
  PROVE  IInv'
<1> DEFINE s == session[p]
           d == s.context
           g == Release(writer, s)
           t == Renewed(g, d)
           y == Recovered(s, d, disk[d], t.sequence)
           tt == Replaced(session, p, y)
           n == edits + 1
<1>1. writer' = t /\ session' = tt
  BY DEF Recover, Recovered, Replaced, Renewed
<1>2. /\ s.open /\ s.active /\ disk[d] # 0 /\ queue = << >> /\ edits' = edits
      /\ allowed' = allowed /\ report' = report /\ pref' = pref /\ snapshot' = snapshot
      /\ UNCHANGED <<disk, queue, entered, results>>
  BY Zenon DEF Recover, Live, Request, storage, store
<1>3. Line' = Line
  BY <1>2, LineStays, Zenon
<1>4. n \in Texts /\ InvOf(n, writer, Line, pref, session, snapshot)
  BY Known
<1>5. DOMAIN Line.queue = {} /\ Line.disk[d] # 0 /\ y = Recovered(s, d, Line.disk[d], t.sequence)
  BY <1>2, Known, EmptySeq
<1>6. s = session[p] /\ d = s.context /\ g = Release(writer, s) /\ t = Renewed(g, d)
      /\ tt = Replaced(session, p, y)
  OBVIOUS
<1> HIDE DEF s, d, g, t, y, tt, n
<1>7. Leads(n, writer, t, Line, pref, tt, snapshot)
  BY <1>2, <1>4, <1>5, <1>6, RecoverKeeps, Zenon
<1>8. InvOf(edits + 1, writer', Line', pref', session', snapshot')
  <2>1. pref' = pref /\ snapshot' = snapshot
    BY <1>2, Zenon
  <2>2. QED
    BY <1>1, <1>3, <1>7, <2>1 DEF Leads, n
<1>9. edits' = edits /\ allowed' \in BOOLEAN /\ report' = report /\ writer'.intake = writer.intake
  <2>1. edits' = edits /\ allowed' = allowed /\ report' = report
    BY <1>2, Zenon
  <2>2. QED
    BY <1>1, <1>7, <2>1, Known DEF Leads
<1>10. QED
  BY <1>8, <1>9, StepKeeps
-----------------------------------------------------------------------------
(* The actions of the timers and of the requests.                          *)

LEMMA TimerStep ==
  ASSUME IInv, TimerFires
  PROVE  IInv'
<1>1. PICK d \in writer.timers :
        writer' = Launch(writer, {d}) /\ queue' = Append(queue, WriteJob(writer.current[d]))
  BY DEF TimerFires
<1>2. /\ edits' = edits /\ UNCHANGED <<disk, entered, results>>
      /\ allowed' = allowed /\ report' = report /\ pref' = pref /\ snapshot' = snapshot
      /\ session' = session
  BY DEF TimerFires, storage, store
<1> DEFINE n == edits + 1
           e == WriteJob(writer.current[d])
           jobs == <<e>>
           ids == {d} \cap writer.timers
<1>3. n \in Texts /\ InvOf(n, writer, Line, pref, session, snapshot)
  BY Known
<1>4. Orderly(n, writer)
  BY <1>3 DEF InvOf
<1>5. queue' = queue \o jobs
  <2>1. e \in JobsTo(n) /\ queue \in Seq(JobsTo(n))
    BY <1>3, <1>4, Known, TimedWrites DEF InvOf, Stored
  <2> HIDE DEF e, n
  <2>2. Append(queue, e) = queue \o <<e>>
    BY <2>1, AppendIsConcat
  <2>3. queue' = Append(queue, e)
    BY <1>1 DEF e
  <2>4. QED
    BY <2>2, <2>3, Zenon
<1>6. jobs \in Seq(JobsTo(n)) /\ Starts(writer, ids, jobs)
  <2>1. jobs = IF d \in writer.timers THEN <<WriteJob(writer.current[d])>> ELSE << >>
    OBVIOUS
  <2> HIDE DEF jobs, n
  <2>2. QED
    BY <1>4, <2>1, OneWrite, Zenon
<1> HIDE DEF jobs
<1>7. /\ Line'.disk = Line.disk /\ Line'.entered = Line.entered /\ Line'.results = Line.results
      /\ Chained(Line.queue, jobs, Line'.queue)
  BY <1>2, <1>5, JobsFollow, Zenon
<1>8. Follows(JobsTo(n), Line.queue, jobs, Line'.queue)
  BY <1>3, <1>6, <1>7 DEF InvOf, Stored, Chained
<1> HIDE DEF n, ids
<1>9. InvOf(n, Launch(writer, ids), Line', pref, session, snapshot)
  BY <1>3, <1>6, <1>7, <1>8, WritesFollow, Zenon
<1>10. Launch(writer, ids) = writer'
  BY <1>1, OneLaunched DEF ids
<1>11. InvOf(edits + 1, writer', Line', pref', session', snapshot')
  BY <1>2, <1>9, <1>10 DEF n
<1>12. writer'.intake = writer.intake
  BY <1>1, <1>4 DEF Launch, Orderly, WritersTo
<1>13. QED
  BY <1>2, <1>11, <1>12, Known, StepKeeps

(* A request is put in line.                                               *)
LEMMA JobJoins ==
  ASSUME NEW n, NEW e \in JobsTo(n), queue \in Seq(JobsTo(n)), queue' = Append(queue, e),
         UNCHANGED <<disk, entered, results>>
  PROVE  Joins(n, Line, e, Line')
<1>1. Grown(JobsTo(n), queue, e, queue')
  BY AppendGrows, Zenon
<1>2. /\ Line'.disk = Line.disk /\ Line'.entered = Line.entered /\ Line'.results = Line.results
      /\ Line.queue = queue /\ Line'.queue = queue'
  BY DEF Line
<1>3. QED
  BY <1>1, <1>2, Zenon DEF Joins

LEMMA DestroyStep ==
  ASSUME IInv, NEW op \in {"delete", "clear", "disable"}, NEW ids \in SUBSET Contexts, Destroy(op, ids),
         op # "delete" => ids = Contexts, ~pref.busy, pref' \in Preferences, pref'.busy,
         pref'.enabled = pref.enabled,
         IF op = "disable" THEN pref'.suspended ELSE pref'.suspended = pref.suspended
  PROVE  IInv'
<1> DEFINE known == IF op = "delete" THEN ids ELSE {d \in Contexts : writer.latest[d] # 0}
           v == Fence(Outdate(writer, known), ids, TRUE, TRUE)
           e == [op |-> op, capture |-> None, ids |-> ids]
           tt == [p \in Pages |-> Tombstone(session[p], ids)]
           n == edits + 1
<1>1. writer' = v /\ session' = tt /\ queue' = Append(queue, e)
  BY DEF Destroy
<1>2. /\ edits' = edits /\ UNCHANGED <<disk, entered, results>>
      /\ allowed' = allowed /\ report' = report /\ snapshot' = snapshot
  BY DEF Destroy, storage, store
<1>3. n \in Texts /\ n \in Nat /\ InvOf(n, writer, Line, pref, session, snapshot)
  BY Known
<1>4. Orderly(n, writer) /\ queue \in Seq(JobsTo(n))
  BY <1>3, Known DEF InvOf, Stored
<1>5. known \subseteq ids /\ known \subseteq Contexts /\ \A d \in ids : d \in known \/ writer.latest[d] = 0
  OBVIOUS
<1> HIDE DEF known
<1>6. \A p : Moves(n, writer, v, p) /\ Destroyed(writer, v, known, ids)
  BY <1>3, <1>4, <1>5, DestroyMoves, Zenon
<1> HIDE DEF v
<1>7. e \in JobsTo(n) /\ e.op = op /\ e.ids = ids
  BY <1>3 DEF JobsTo
<1>8. Asked(e, pref') /\ e.op # "write"
  BY <1>7 DEF Asked
<1> HIDE DEF e, n
<1>9. Joins(n, Line, e, Line')
  BY <1>1, <1>2, <1>4, <1>7, JobJoins
<1>10. InvOf(n, v, Line', pref', [p \in Pages |-> Tombstone(session[p], e.ids)], snapshot)
  <2>1. known \subseteq e.ids /\ \A d \in e.ids : d \in known \/ writer.latest[d] = 0
    BY <1>5, <1>7
  <2>2. Destroyed(writer, v, known, e.ids) /\ \A p : Moves(n, writer, v, p)
    BY <1>6, <1>7
  <2>3. pref'.suspended /\ ~pref.suspended => e.ids = Contexts
    BY <1>7
  <2>4. QED
    BY <1>3, <1>7, <1>8, <1>9, <2>1, <2>2, <2>3, DestroyKeeps, SMTT(30)
<1>11. InvOf(edits + 1, writer', Line', pref', session', snapshot')
  BY <1>1, <1>2, <1>7, <1>10 DEF n
<1>12. writer'.intake = writer.intake
  BY <1>1, <1>6 DEF Moves
<1>13. QED
  BY <1>2, <1>11, <1>12, Known, StepKeeps

LEMMA DeleteStep ==
  ASSUME IInv, DeleteDrafts
  PROVE  IInv'
<1>1. pref \in Preferences
  BY Known DEF InvOf
<1>2. ~pref.busy /\ pref' = [pref EXCEPT !.busy = TRUE]
  BY DEF DeleteDrafts, Request
<1>3. /\ pref' \in Preferences /\ pref'.busy /\ pref'.enabled = pref.enabled
      /\ pref'.suspended = pref.suspended
  BY <1>1, <1>2 DEF Preferences
<1>4. CASE \E d \in Contexts : Destroy("delete", {d})
  <2>1. PICK d \in Contexts : Destroy("delete", {d})
    BY <1>4
  <2>2. QED
    BY <1>2, <1>3, <2>1, DestroyStep
<1>5. CASE Destroy("clear", Contexts)
  BY <1>2, <1>3, <1>5, DestroyStep
<1>6. QED
  BY <1>4, <1>5 DEF DeleteDrafts

LEMMA DisableStep ==
  ASSUME IInv, Disable
  PROVE  IInv'
<1>1. pref \in Preferences
  BY Known DEF InvOf
<1>2. ~pref.busy /\ pref' = [pref EXCEPT !.busy = TRUE, !.suspended = TRUE] /\ Destroy("disable", Contexts)
  BY DEF Disable, Request
<1>3. /\ pref' \in Preferences /\ pref'.busy /\ pref'.enabled = pref.enabled /\ pref'.suspended
  BY <1>1, <1>2 DEF Preferences
<1>4. QED
  BY <1>2, <1>3, DestroyStep

LEMMA EnableStep ==
  ASSUME IInv, Enable
  PROVE  IInv'
<1> DEFINE v == Fence(writer, Contexts, FALSE, FALSE)
           e == [op |-> "enable", capture |-> None, ids |-> {}]
           n == edits + 1
<1>1. writer' = v /\ queue' = Append(queue, e)
  BY DEF Enable
<1>2. /\ edits' = edits /\ UNCHANGED <<disk, entered, results>> /\ session' = session
      /\ allowed' = allowed /\ report' = report /\ snapshot' = snapshot
  BY DEF Enable, storage, store
<1>3. n \in Texts /\ n \in Nat /\ InvOf(n, writer, Line, pref, session, snapshot)
  BY Known
<1>4. Orderly(n, writer) /\ queue \in Seq(JobsTo(n)) /\ pref \in Preferences
  BY <1>3, Known DEF InvOf, Stored
<1>5. ~pref.busy /\ pref' = [pref EXCEPT !.busy = TRUE, !.suspended = TRUE]
  BY DEF Enable, Request
<1>6. /\ pref' \in Preferences /\ pref'.busy /\ pref'.enabled = pref.enabled /\ pref'.suspended
  BY <1>4, <1>5 DEF Preferences
<1>7. Moves(n, writer, v, 0) /\ v.latest = writer.latest /\ \A d \in Contexts : v.current[d] = None
  BY <1>3, <1>4, AllFenced, ZenonT(60)
<1> HIDE DEF v
<1>8. e \in JobsTo(n) /\ e.op # "write" /\ e.ids = {}
  BY <1>3 DEF JobsTo
<1>9. Asked(e, pref')
  BY <1>6 DEF Asked
<1> HIDE DEF e, n
<1>10. Joins(n, Line, e, Line')
  BY <1>1, <1>2, <1>4, <1>8, JobJoins
<1>11. InvOf(n, v, Line', pref', session, snapshot)
  BY <1>3, <1>5, <1>6, <1>7, <1>8, <1>9, <1>10, EnableKeeps
<1>12. InvOf(edits + 1, writer', Line', pref', session', snapshot')
  BY <1>1, <1>2, <1>11 DEF n
<1>13. writer'.intake = writer.intake
  BY <1>1, <1>7 DEF Moves
<1>14. QED
  BY <1>2, <1>12, <1>13, Known, StepKeeps
-----------------------------------------------------------------------------
(* The actions of the worker.                                              *)

LEMMA LoopStays ==
  ASSUME UNCHANGED Loop
  PROVE  /\ writer' = writer /\ pref' = pref /\ session' = session /\ snapshot' = snapshot
         /\ report' = report /\ edits' = edits
BY Zenon DEF Loop

LEMMA ResultGrows ==
  ASSUME NEW n, NEW job \in JobsTo(n), NEW code \in {"ok", "io", "disabled"},
         NEW told \in BOOLEAN \union {None}, NEW q \in Seq(ResultsTo(n))
  PROVE  Grown(ResultsTo(n), q, ResultOf(job, code, told), Append(q, ResultOf(job, code, told)))
<1>1. ResultOf(job, code, told) \in ResultsTo(n)
  BY DEF ResultOf, ResultsTo
<1>2. QED
  BY <1>1, AppendGrows, Zenon

\* The worker is done with the oldest job, one way or another.
Leaving ==
    /\ UNCHANGED Loop /\ allowed' \in BOOLEAN
    /\ \E code, told : Leaves(edits + 1, Line, Line', queue[1], code, told)

LEMMA DoneLeaves ==
  ASSUME IInv, queue # << >>, NEW code \in {"ok", "io", "disabled", "cancelled"},
         NEW told \in BOOLEAN \union {None}, Done(code, told),
         disk' \in [Contexts -> 0 .. edits + 1],
         \A d \in Contexts : d \notin queue[1].ids => disk'[d] = disk[d],
         queue[1].op = "write" =>
           LET cap == queue[1].capture
           IN  /\ \/ disk'[cap.draft] = disk[cap.draft]
                  \/ entered /\ disk'[cap.draft] = cap.sql
               /\ code = "ok" => disk'[cap.draft] = cap.sql,
         allowed' \in BOOLEAN, UNCHANGED Loop
  PROVE  Leaving
<1> DEFINE n == edits + 1
           job == queue[1]
           e == ResultOf(job, code, told)
<1>1. InvOf(n, writer, Line, pref, session, snapshot) /\ Stored(n, Line)
  BY Known DEF InvOf
<1>2. /\ Line.disk = disk /\ Line.queue = queue /\ Line.entered = entered /\ Line.results = results
      /\ Line'.disk = disk' /\ Line'.queue = queue' /\ Line'.entered = entered' /\ Line'.results = results'
  BY DEF Line
<1>3. queue \in Seq(JobsTo(n)) /\ results \in Seq(ResultsTo(n))
  BY <1>1, <1>2 DEF Stored
<1>4. Shortened(JobsTo(n), queue, Tail(queue)) /\ Head(queue) = job
  BY <1>3, TailShortens
<1>5. queue' = Tail(queue) /\ entered' = FALSE
  BY DEF Done
<1>6. job \in JobsTo(n)
  BY <1>1, <1>2, <1>4, JobsAndResults DEF Shortened
<1>7. results' = results \/ Grown(ResultsTo(n), results, e, results')
  <2>1. \/ results' = results
        \/ /\ results' = Append(results, [job |-> Head(queue), code |-> code, enabled |-> told])
           /\ code # "cancelled"
    BY DEF Done
  <2>2. \/ results' = results
        \/ results' = Append(results, e) /\ code # "cancelled"
    <3>1. [job |-> Head(queue), code |-> code, enabled |-> told] = e
      BY <1>4, Zenon DEF ResultOf
    <3> HIDE DEF e
    <3>2. QED
      BY <2>1, <3>1, Zenon
  <2>3. code # "cancelled" => Grown(ResultsTo(n), results, e, Append(results, e))
    <3> HIDE DEF n, job
    <3>1. SUFFICES ASSUME code \in {"ok", "io", "disabled"} PROVE Grown(ResultsTo(n), results, e, Append(results, e))
      OBVIOUS
    <3>2. QED
      BY <1>3, <1>6, <3>1, ResultGrows, Zenon
  <2> HIDE DEF e, n, job
  <2>4. QED
    BY <2>2, <2>3, Zenon
<1>8. Leaves(n, Line, Line', job, code, told)
  <2> DEFINE m == Line
             k == Line'
  <2>1. /\ job = m.queue[1] /\ Shortened(JobsTo(n), m.queue, k.queue) /\ k.entered = FALSE
        /\ k.disk \in [Contexts -> 0 .. n]
        /\ \A d \in Contexts : d \notin job.ids => k.disk[d] = m.disk[d]
    BY <1>2, <1>4, <1>5
  <2>2. \/ k.results = m.results
        \/ Grown(ResultsTo(n), m.results, ResultOf(job, code, told), k.results)
    BY <1>2, <1>7, Zenon
  <2>3. job.op = "write" =>
          LET cap == job.capture
          IN  /\ \/ k.disk[cap.draft] = m.disk[cap.draft]
                 \/ m.entered /\ k.disk[cap.draft] = cap.sql
              /\ code = "ok" => k.disk[cap.draft] = cap.sql
    BY <1>2
  <2> HIDE DEF m, k, n, job
  <2>4. QED
    BY <2>1, <2>2, <2>3, Zenon DEF Leaves, m, k
<1>9. QED
  BY <1>8, Zenon DEF Leaving

LEMMA LeavingStep ==
  ASSUME IInv, Leaving
  PROVE  IInv'
<1> DEFINE n == edits + 1
           m == Line
           k == Line'
           w == writer
           r == pref
           ss == session
           x == snapshot
           job == queue[1]
<1>1. PICK code, told : Leaves(n, m, k, job, code, told)
  BY Zenon DEF Leaving
<1>2. /\ writer' = writer /\ pref' = pref /\ session' = session /\ snapshot' = snapshot
      /\ edits' = edits /\ report' = report /\ allowed' \in BOOLEAN
  BY LoopStays DEF Leaving
<1>3. InvOf(n, w, m, r, ss, x)
  BY Known
<1> HIDE DEF m, k, w, r, ss, x, n, job
<1>4. InvOf(n, w, k, r, ss, x)
  BY <1>1, <1>3, JobLeaves, Zenon
<1>5. InvOf(edits + 1, writer', Line', pref', session', snapshot')
  BY <1>2, <1>4 DEF n, k, w, r, ss, x
<1>6. QED
  BY <1>2, <1>5, StepKeeps

(* The oldest job.                                                         *)
LEMMA OldestJob ==
  ASSUME IInv, queue # << >>
  PROVE  /\ Head(queue) = queue[1] /\ queue[1] \in JobsTo(edits + 1)
         /\ queue[1].op = "write" =>
              /\ queue[1].capture \in CapturesTo(edits + 1)
              /\ queue[1].ids = {queue[1].capture.draft}
         /\ disk \in [Contexts -> 0 .. edits + 1]
<1>1. /\ Stored(edits + 1, Line) /\ Lined(writer, Line)
      /\ Line.queue = queue /\ Line.disk = disk
  BY Known DEF InvOf
<1>2. queue \in Seq(JobsTo(edits + 1)) /\ disk \in [Contexts -> 0 .. edits + 1]
  BY <1>1 DEF Stored
<1>3. 1 \in DOMAIN queue /\ Head(queue) = queue[1]
  BY <1>2, TailShortens DEF Shortened
<1>4. QED
  BY <1>1, <1>2, <1>3, JobsAndResults DEF Lined

\* It gets past the last check of that job, a write, or is done with it.
Entering ==
    /\ UNCHANGED Loop /\ disk' = disk /\ allowed' = allowed
    /\ queue # << >> /\ queue[1].op = "write" /\ Permitted(queue[1].capture)
    /\ entered' = TRUE /\ UNCHANGED <<queue, results>>

LEMMA EnterLeaves ==
  ASSUME IInv, EnterWrite
  PROVE  Entering \/ Leaving
<1>1. queue # << >> /\ Head(queue).op = "write" /\ UNCHANGED Loop /\ disk' = disk /\ allowed' = allowed
  BY Zenon DEF EnterWrite
<1>2. Head(queue) = queue[1] /\ disk \in [Contexts -> 0 .. edits + 1] /\ allowed \in BOOLEAN
  BY <1>1, OldestJob, Known
<1>3. CASE Permitted(queue[1].capture) /\ entered' = TRUE /\ UNCHANGED <<queue, results>>
  BY <1>1, <1>2, <1>3, Zenon DEF Entering
<1>4. CASE \E code \in {"disabled", "cancelled"} : Done(code, None)
  <2>1. PICK code \in {"disabled", "cancelled"} : Done(code, None)
    BY <1>4
  <2>2. QED
    BY <1>1, <1>2, <2>1, DoneLeaves
<1>5. \/ Permitted(Head(queue).capture) /\ entered' = TRUE /\ UNCHANGED <<queue, results>>
      \/ \E code \in {"disabled", "cancelled"} : Done(code, None)
  BY ZenonT(60) DEF EnterWrite
<1>6. QED
  BY <1>2, <1>3, <1>4, <1>5, Zenon

LEMMA EnteringStep ==
  ASSUME IInv, Entering
  PROVE  IInv'
<1> DEFINE n == edits + 1
           m == Line
           k == Line'
           w == writer
           r == pref
           ss == session
           x == snapshot
<1>1. /\ writer' = writer /\ pref' = pref /\ session' = session /\ snapshot' = snapshot
      /\ edits' = edits /\ report' = report /\ allowed' = allowed
  BY LoopStays DEF Entering
<1>2. InvOf(n, w, m, r, ss, x) /\ allowed \in BOOLEAN
  BY Known
<1>3. /\ m.queue # << >> /\ m.queue[1].op = "write" /\ Holds(w, m.queue[1].capture)
      /\ k.disk = m.disk /\ k.queue = m.queue /\ k.results = m.results /\ k.entered = TRUE
  BY DEF Entering, Line, Permitted
<1> HIDE DEF m, k, w, r, ss, x, n
<1>4. InvOf(n, w, k, r, ss, x)
  BY <1>2, <1>3, JobEnters, Zenon
<1>5. InvOf(edits + 1, writer', Line', pref', session', snapshot')
  BY <1>1, <1>4 DEF n, m, k, w, r, ss, x
<1>6. QED
  BY <1>1, <1>2, <1>5, StepKeeps

LEMMA FinishLeaves ==
  ASSUME IInv, FinishWrite
  PROVE  Leaving
<1> DEFINE cap == queue[1].capture
           written == [disk EXCEPT ![cap.draft] = cap.sql]
<1>1. entered /\ UNCHANGED Loop /\ allowed' = allowed
  BY Zenon DEF FinishWrite
<1>2. queue # << >> /\ queue[1].op = "write"
  BY <1>1, Known DEF InvOf, Stored
<1>3. /\ Head(queue) = queue[1] /\ cap \in CapturesTo(edits + 1) /\ queue[1].ids = {cap.draft}
      /\ disk \in [Contexts -> 0 .. edits + 1] /\ allowed \in BOOLEAN
  BY <1>2, OldestJob, Known
<1>4. PICK code \in {"ok", "io"} : Done(code, None) /\ disk' \in {disk, written} /\ (code = "ok" => disk' = written)
  BY <1>3 DEF FinishWrite, Write
<1>5. cap.draft \in Contexts /\ cap.sql \in 0 .. edits + 1
  BY <1>3 DEF CapturesTo
<1> HIDE DEF cap
<1>6. disk' \in [Contexts -> 0 .. edits + 1] /\ \A d \in Contexts \ {cap.draft} : disk'[d] = disk[d]
  BY <1>3, <1>4, <1>5
<1>7. /\ \/ disk'[cap.draft] = disk[cap.draft]
         \/ entered /\ disk'[cap.draft] = cap.sql
      /\ code = "ok" => disk'[cap.draft] = cap.sql
  BY <1>1, <1>3, <1>4, <1>5
<1>8. \A d \in Contexts : d \notin queue[1].ids => disk'[d] = disk[d]
  BY <1>3, <1>6
<1>9. QED
  BY <1>1, <1>2, <1>3, <1>4, <1>6, <1>7, <1>8, DoneLeaves DEF cap

LEMMA EraseLeaves ==
  ASSUME IInv, EraseRecords
  PROVE  Leaving
<1>1. queue # << >> /\ Head(queue).op \in {"delete", "clear", "disable"} /\ UNCHANGED Loop
  BY Zenon DEF EraseRecords
<1>2. /\ Head(queue) = queue[1] /\ disk \in [Contexts -> 0 .. edits + 1]
      /\ allowed \in BOOLEAN
  BY <1>1, OldestJob, Known
<1>3. /\ allowed' = allowed \/ allowed' = (allowed /\ queue[1].op # "disable")
      /\ disk' = disk \/ \E ids \in SUBSET queue[1].ids : disk' = [d \in Contexts |-> IF d \in ids THEN 0 ELSE disk[d]]
      /\ \E code \in {"ok", "io"}, told \in {FALSE, None, allowed'} : Done(code, told)
  BY <1>2 DEF EraseRecords, Erase
<1>4. allowed' \in BOOLEAN
  BY <1>2, <1>3
<1>5. PICK code \in {"ok", "io"}, told \in {FALSE, None, allowed'} : Done(code, told)
  BY <1>3
<1>6. /\ disk' \in [Contexts -> 0 .. edits + 1]
      /\ \A d \in Contexts : d \notin queue[1].ids => disk'[d] = disk[d]
  BY <1>2, <1>3, Known
<1>7. QED
  BY <1>1, <1>2, <1>4, <1>5, <1>6, DoneLeaves

LEMMA EnableSavingLeaves ==
  ASSUME IInv, EnableSaving
  PROVE  Leaving
<1>1. queue # << >> /\ Head(queue).op = "enable" /\ UNCHANGED Loop /\ disk' = disk
  BY Zenon DEF EnableSaving
<1>2. Head(queue) = queue[1] /\ disk \in [Contexts -> 0 .. edits + 1]
  BY <1>1, OldestJob
<1>3. allowed' \in BOOLEAN
  BY DEF EnableSaving
<1>4. PICK code \in {"ok", "io"}, told \in {TRUE, None, allowed'} : Done(code, told)
  BY DEF EnableSaving
<1>5. QED
  BY <1>1, <1>2, <1>3, <1>4, DoneLeaves

LEMMA WorkerStep ==
  ASSUME IInv, Worker
  PROVE  IInv'
<1>1. Entering \/ Leaving
  BY EnterLeaves, FinishLeaves, EraseLeaves, EnableSavingLeaves, Zenon DEF Worker
<1>2. QED
  BY <1>1, EnteringStep, LeavingStep, Zenon
-----------------------------------------------------------------------------
(* The actions of the event loop.                                          *)

(* The session learns what became of its write.                            *)
LEMMA CompletedKeeps ==
  ASSUME NEW n \in Texts, NEW k, NEW w, NEW r, NEW ss, NEW x, NEW cap \in CapturesTo(n), NEW code,
         NEW p, p = cap.page, InvOf(n, w, k, r, ss, x), ss[p].open, r.enabled, Holds(w, cap),
         \A j \in DOMAIN k.queue : cap.draft \notin k.queue[j].ids,
         code = "ok" => k.disk[cap.draft] = cap.sql,
         NEW v, v = Confirmed(w, cap, code),
         NEW tt, tt = Replaced(ss, p, Completed(ss[p], cap, code))
  PROVE  Leads(n, w, v, k, r, tt, x)
<1> DEFINE s == ss[p]
           t == Completed(s, cap, code)
<1>1. Orderly(n, w) /\ p \in Pages /\ cap.draft \in Contexts
  BY DEF InvOf, CapturesTo
<1>2. Tended(n, k, w, r, s, p) /\ s.active
  <2>1. Tended(n, k, w, r, s, p)
    BY <1>1 DEF InvOf
  <2>2. QED
    BY <1>1, <2>1, NoneIsNone DEF Tended, Owns, Holds
<1>3. Moves(n, w, v, p) /\ v.latest = w.latest /\ v.current = w.current
  BY <1>1, ConfirmedMoves
<1>4. Tended(n, k, v, r, t, p)
  BY <1>1, <1>2, <1>3, CompletedTended
<1>5. tt = [ss EXCEPT ![p] = t]
  BY DEF Replaced
<1>6. Quiet(v, r) /\ Requested(k, r) /\ r \in Preferences
  BY <1>3 DEF InvOf, Quiet
<1>7. \A q \in Pages \ {p} : ~(ss[q].open /\ ss[q].active)
  BY <1>1, <1>2 DEF InvOf, OneLive
<1> HIDE DEF t, s
<1>8. InvOf(n, v, k, r, [ss EXCEPT ![p] = t], x)
  BY <1>1, <1>3, <1>4, <1>6, <1>7, PageMoves
<1>9. QED
  BY <1>3, <1>5, <1>8 DEF Leads, Moves

(* The line once the oldest result has been taken.                         *)
LEMMA OldestResult ==
  ASSUME IInv, results # << >>, results' = Tail(results), UNCHANGED <<disk, queue, entered>>
  PROVE  LET n == edits + 1
             e == results[1]
         IN  /\ InvOf(n, writer, Line', pref, session, snapshot)
             /\ Head(results) = e /\ e \in ResultsTo(n) /\ e.job \in JobsTo(n)
             /\ Line'.queue = queue /\ Line'.disk = disk
             /\ e.job.op # "write" => /\ \A z : Requested(Line', z)
                                      /\ Asked(e.job, pref)
             /\ e.job.op = "write" =>
                  LET cap == e.job.capture
                  IN  /\ cap \in CapturesTo(n)
                      /\ Holds(writer, cap) =>
                           /\ \A j \in DOMAIN queue : cap.draft \notin queue[j].ids
                           /\ e.code = "ok" => disk[cap.draft] = cap.sql
<1> DEFINE n == edits + 1
           m == Line
           k == Line'
<1>1. InvOf(n, writer, m, pref, session, snapshot)
  BY Known
<1>2. /\ m.results = results /\ k.results = results' /\ k.disk = disk /\ k.queue = queue
      /\ k.disk = m.disk /\ k.queue = m.queue /\ k.entered = m.entered
  BY DEF Line
<1>3. Stored(n, m) /\ Awaited(writer, m) /\ Requested(m, pref)
  BY <1>1 DEF InvOf
<1>4. results \in Seq(ResultsTo(n))
  BY <1>2, <1>3 DEF Stored
<1>5. Shortened(ResultsTo(n), m.results, k.results) /\ Head(results) = results[1] /\ 1 \in DOMAIN m.results
  BY <1>2, <1>4, TailShortens DEF Shortened
<1> HIDE DEF n, k, m
<1>6. /\ InvOf(n, writer, k, pref, session, snapshot)
      /\ m.results[1].job.op # "write" => \A z : Requested(k, z)
  BY <1>1, <1>2, <1>5, ResultLeaves
<1>7. /\ results[1] \in ResultsTo(n) /\ results[1].job \in JobsTo(n)
      /\ results[1].job.op = "write" => results[1].job.capture \in CapturesTo(n)
  BY <1>2, <1>3, <1>5, JobsAndResults
<1>8. results[1].job.op # "write" => Asked(results[1].job, pref)
  BY <1>2, <1>3, <1>5 DEF Requested
<1>9. results[1].job.op = "write" =>
        LET cap == results[1].job.capture
        IN  Holds(writer, cap) =>
              /\ \A j \in DOMAIN queue : cap.draft \notin queue[j].ids
              /\ results[1].code = "ok" => disk[cap.draft] = cap.sql
  BY <1>2, <1>3, <1>5 DEF Awaited
<1>10. QED
  BY <1>2, <1>5, <1>6, <1>7, <1>8, <1>9 DEF n, k

LEMMA DeliverWriteStep ==
  ASSUME IInv, DeliverWrite
  PROVE  IInv'
<1> DEFINE n == edits + 1
           e == results[1]
           cap == e.job.capture
           code == e.code
           p == cap.page
           k == Line'
<1>1. /\ results # << >> /\ Head(results).job.op = "write" /\ results' = Tail(results)
      /\ UNCHANGED <<disk, queue, entered>>
  BY DEF DeliverWrite, storage, store
<1>2. /\ edits' = edits /\ allowed' = allowed /\ report' = report /\ pref' = pref
      /\ snapshot' = snapshot
  BY Zenon DEF DeliverWrite, storage, store
<1>3. InvOf(n, writer, k, pref, session, snapshot) /\ Head(results) = e /\ k.queue = queue /\ k.disk = disk
  BY <1>1, OldestResult
<1>4. /\ cap \in CapturesTo(n)
      /\ Holds(writer, cap) => /\ \A j \in DOMAIN queue : cap.draft \notin queue[j].ids
                               /\ code = "ok" => disk[cap.draft] = cap.sql
  BY <1>1, <1>3, OldestResult
<1>5. n \in Texts /\ allowed \in BOOLEAN
  BY Known
<1>6. /\ writer' = Confirmed(writer, cap, code)
      /\ session' = IF StillCurrent(session[p], cap)
                    THEN [session EXCEPT ![p] = Completed(@, cap, code)]
                    ELSE session
  BY <1>3 DEF DeliverWrite
<1> HIDE DEF n, cap, code, k
<1>7. CASE StillCurrent(session[p], cap)
  <2> DEFINE tt == Replaced(session, p, Completed(session[p], cap, code))
             v == Confirmed(writer, cap, code)
  <2>1. session[p].open /\ pref.enabled /\ Holds(writer, cap)
    BY <1>7 DEF StillCurrent
  <2>2. session' = tt
    BY <1>6, <1>7 DEF Replaced
  <2>3. /\ \A j \in DOMAIN k.queue : cap.draft \notin k.queue[j].ids
        /\ code = "ok" => k.disk[cap.draft] = cap.sql
    BY <1>3, <1>4, <2>1
  <2> HIDE DEF v, tt
  <2>4. Leads(n, writer, v, k, pref, tt, snapshot)
    <3>1. /\ n \in Texts /\ cap \in CapturesTo(n) /\ InvOf(n, writer, k, pref, session, snapshot)
          /\ v = Confirmed(writer, cap, code) /\ tt = Replaced(session, p, Completed(session[p], cap, code))
      BY <1>3, <1>4, <1>5 DEF v, tt
    <3>2. QED
      BY <2>1, <2>3, <3>1, CompletedKeeps
  <2>5. /\ InvOf(edits + 1, writer', Line', pref', session', snapshot')
        /\ writer'.intake = writer.intake
    BY <1>2, <1>6, <2>2, <2>4 DEF Leads, n, k, v
  <2>6. QED
    BY <1>2, <1>5, <2>5, StepKeeps
<1>8. CASE ~StillCurrent(session[p], cap)
  <2> DEFINE v == Confirmed(writer, cap, code)
  <2>1. Orderly(n, writer)
    BY <1>3 DEF InvOf
  <2>2. Moves(n, writer, v, p) /\ v.latest = writer.latest
    BY <1>4, <2>1, ConfirmedMoves
  <2> HIDE DEF v
  <2>3. InvOf(n, v, k, pref, session, snapshot)
    BY <1>3, <2>2, NobodyMoves
  <2>4. InvOf(edits + 1, writer', Line', pref', session', snapshot') /\ writer'.intake = writer.intake
    BY <1>2, <1>6, <1>8, <2>2, <2>3 DEF Moves, n, k, v
  <2>5. QED
    BY <1>2, <1>5, <2>4, StepKeeps
<1>9. QED
  BY <1>7, <1>8

LEMMA DeliverDeletionStep ==
  ASSUME IInv, DeliverDeletion
  PROVE  IInv'
<1> DEFINE n == edits + 1
           k == Line'
<1>1. /\ results # << >> /\ Head(results).job.op \in {"delete", "clear"} /\ results' = Tail(results)
      /\ UNCHANGED <<disk, queue, entered>>
  BY DEF DeliverDeletion, storage, store
<1>2. /\ edits' = edits /\ allowed' = allowed /\ report' = report /\ writer' = writer
      /\ snapshot' = snapshot /\ session' = session
  BY Zenon DEF DeliverDeletion, storage, store
<1>3. pref' = [pref EXCEPT !.busy = FALSE]
  BY DEF DeliverDeletion
<1>4. InvOf(n, writer, k, pref, session, snapshot) /\ \A z : Requested(k, z)
  <2>1. Head(results) = results[1]
    BY <1>1, OldestResult
  <2>2. QED
    BY <1>1, <2>1, OldestResult
<1> HIDE DEF n, k
<1>5. pref \in Preferences /\ Quiet(writer, pref) /\ Stored(n, k) /\ Lined(writer, k) /\ Awaited(writer, k)
  BY <1>4 DEF InvOf
<1>6. pref' \in Preferences /\ pref'.enabled = pref.enabled /\ pref'.suspended = pref.suspended
  BY <1>3, <1>5 DEF Preferences
<1>7. Quiet(writer, pref')
  BY <1>5, <1>6 DEF Quiet
<1>8. InvOf(n, writer, k, pref', session, snapshot)
  BY <1>4, <1>5, <1>6, <1>7, LineChanges
<1>9. InvOf(edits + 1, writer', Line', pref', session', snapshot')
  BY <1>2, <1>8 DEF n, k
<1>10. QED
  BY <1>2, <1>9, Known, StepKeeps

(* What the event loop believes once the preference has settled.           *)
LEMMA SettledPreference ==
  ASSUME NEW r \in Preferences, NEW told \in BOOLEAN \union {None}, NEW on \in BOOLEAN, NEW ok \in BOOLEAN,
         ok => told = on, NEW z,
         z = [enabled |-> IF told = None THEN r.enabled ELSE told,
              suspended |-> ~(on /\ ok), busy |-> FALSE,
              owed |-> IF ok THEN "none" ELSE IF on THEN "enable" ELSE "cleanup",
              confirmed |-> told # None]
  PROVE  z \in Preferences /\ (on /\ ok => z.enabled /\ ~z.suspended)
<1>1. (IF told = None THEN r.enabled ELSE told) \in BOOLEAN
  BY DEF Preferences
<1>2. on /\ ok => told # None /\ told
  BY NoneIsNoValue
<1>3. QED
  BY <1>1, <1>2 DEF Preferences

(* The live text, if any, is saved again.                                  *)
LEMMA ResaveKeeps ==
  ASSUME NEW n \in Texts, NEW k, NEW r, NEW z, NEW x, InvOf(n, writer, k, r, session, x), writer.intake,
         z \in Preferences, z.enabled, ~z.suspended, Requested(k, z), Resave(z)
  PROVE  InvOf(n, writer', k, z, session', x) /\ writer'.intake = writer.intake
<1>1. CASE \E p \in Pages : session[p].open /\ session[p].active /\ session[p].sql # 0
  <2> DEFINE p == CHOOSE p \in Pages : session[p].open /\ session[p].active /\ session[p].sql # 0
             u == Edited(writer, z, session[p], p, session[p].sql)
             tt == Replaced(session, p, u.s)
  <2>1. p \in Pages /\ session[p].open /\ session[p].active
    BY <1>1
  <2>2. writer' = u.w /\ session' = tt
    BY <1>1 DEF Resave, Replaced
  <2> HIDE DEF p
  <2>3. u = Edited(writer, z, session[p], p, session[p].sql) /\ tt = Replaced(session, p, u.s)
    OBVIOUS
  <2> HIDE DEF u, tt
  <2>4. Leads(n, writer, u.w, k, z, tt, x)
    BY <2>1, <2>3, Resaved
  <2>5. QED
    BY <2>2, <2>4 DEF Leads
<1>2. CASE ~\E p \in Pages : session[p].open /\ session[p].active /\ session[p].sql # 0
  <2>1. writer' = writer /\ session' = session
    BY <1>2 DEF Resave
  <2>2. InvOf(n, writer, k, z, session, x)
    BY <1>2, NothingResaved
  <2>3. QED
    BY <2>1, <2>2
<1>3. QED
  BY <1>1, <1>2

LEMMA DeliverPreferenceStep ==
  ASSUME IInv, DeliverPreference
  PROVE  IInv'
<1> DEFINE n == edits + 1
           e == results[1]
           k == Line'
<1>1. /\ results # << >> /\ Head(results).job.op \in {"enable", "disable"} /\ results' = Tail(results)
      /\ UNCHANGED <<disk, queue, entered>>
  BY DEF DeliverPreference, store
<1>2. edits' = edits /\ allowed' = allowed /\ report' = report /\ snapshot' = snapshot
  BY Zenon DEF DeliverPreference, store
<1>3. InvOf(n, writer, k, pref, session, snapshot) /\ Head(results) = e /\ e \in ResultsTo(n)
  BY <1>1, OldestResult
<1>4. (\A z : Requested(k, z)) /\ pref.suspended
  BY <1>1, <1>3, OldestResult DEF Asked
<1>5. n \in Texts /\ allowed \in BOOLEAN /\ pref \in Preferences
  BY <1>3, Known DEF InvOf
<1>6. e.enabled \in BOOLEAN \union {None}
  BY <1>3 DEF ResultsTo
<1> HIDE DEF n, k
<1>7. InvOf(n, writer', k, pref', session', snapshot) /\ writer'.intake = writer.intake
  <2>1. CASE ~writer.intake
    <3>1. pref' = pref /\ writer' = writer /\ session' = session
      BY <2>1, Zenon DEF DeliverPreference
    <3>2. QED
      BY <1>3, <3>1
  <2>2. CASE writer.intake
    <3> DEFINE on == e.job.op = "enable"
               told == e.enabled
               ok == e.code = "ok" /\ told = on
               z == [enabled |-> IF told = None THEN pref.enabled ELSE told,
                     suspended |-> ~(on /\ ok), busy |-> FALSE,
                     owed |-> IF ok THEN "none" ELSE IF on THEN "enable" ELSE "cleanup",
                     confirmed |-> told # None]
    <3>1. PreferenceSettles(e.job, e.code, e.enabled)
      BY <1>3, <2>2 DEF DeliverPreference
    <3>2. /\ pref' = z
          /\ IF on /\ ok THEN Resave(z)
             ELSE /\ session' = [p \in Pages |->
                       IF ~session[p].open THEN session[p]
                       ELSE [session[p] EXCEPT !.state = IF z.enabled THEN "error" ELSE "off"]]
                  /\ writer' = writer
      BY <3>1 DEF PreferenceSettles
    <3>3. z \in Preferences /\ (on /\ ok => z.enabled /\ ~z.suspended)
      <4>1. on \in BOOLEAN /\ ok \in BOOLEAN /\ told \in BOOLEAN \union {None} /\ (ok => told = on)
        BY <1>6
      <4>2. z = [enabled |-> IF told = None THEN pref.enabled ELSE told,
                 suspended |-> ~(on /\ ok), busy |-> FALSE,
                 owed |-> IF ok THEN "none" ELSE IF on THEN "enable" ELSE "cleanup",
                 confirmed |-> told # None]
        OBVIOUS
      <4> HIDE DEF on, ok, told, z
      <4>3. QED
        BY <1>5, <4>1, <4>2, SettledPreference
    <3> HIDE DEF on, ok, told, z
    <3>4. CASE on /\ ok
      BY <1>3, <1>4, <1>5, <2>2, <3>2, <3>3, <3>4, ResaveKeeps
    <3>5. CASE ~(on /\ ok)
      <4> DEFINE state == IF z.enabled THEN "error" ELSE "off"
      <4>1. state \in States \ {"saved"}
        BY DEF States
      <4>2. session' = [p \in Pages |-> IF ~session[p].open THEN session[p]
                                        ELSE [session[p] EXCEPT !.state = state]]
        BY <3>2, <3>5
      <4> HIDE DEF state
      <4>3. InvOf(n, writer, k, z, [p \in Pages |-> IF ~session[p].open THEN session[p]
                                        ELSE [session[p] EXCEPT !.state = state]], snapshot)
        BY <1>3, <1>4, <1>5, <3>3, <4>1, PreferenceTold
      <4>4. QED
        BY <3>2, <3>5, <4>2, <4>3
    <3>6. QED
      BY <3>4, <3>5
  <2>3. QED
    BY <2>1, <2>2
<1>8. InvOf(edits + 1, writer', Line', pref', session', snapshot') /\ writer'.intake = writer.intake
  BY <1>2, <1>7 DEF n, k
<1>9. QED
  BY <1>2, <1>5, <1>8, StepKeeps
-----------------------------------------------------------------------------
(* Shutdown.                                                               *)

(* No page is live: nothing starts.                                        *)
LEMMA NoLastPage ==
  ASSUME NEW n, NEW m, NEW g, NEW w, NEW r, NEW ss, NEW x, NEW jobs, InvOf(n, w, m, r, ss, x),
         jobs = << >>, g.disk = m.disk, g.entered = m.entered, g.results = m.results,
         Chained(m.queue, jobs, g.queue)
  PROVE  InvOf(n, w, g, r, ss, x)
<1>1. jobs \in Seq(JobsTo(n)) /\ Starts(w, {}, jobs) /\ Launch(w, {}) = w
  BY NoneStart DEF InvOf
<1>2. Follows(JobsTo(n), m.queue, jobs, g.queue)
  BY <1>1 DEF Chained, InvOf, Stored
<1> HIDE DEF Chained
<1>3. InvOf(n, Launch(w, {}), g, r, ss, x)
  BY <1>1, <1>2, WritesFollow, Zenon
<1>4. QED
  BY <1>1, <1>3, Zenon

(* The live page comes to its end.                                         *)
LEMMA LastPage ==
  ASSUME NEW n \in Texts, NEW m, NEW g, NEW w, NEW r, NEW ss, NEW x, NEW p \in Pages, NEW u, NEW tt,
         InvOf(n, w, m, r, ss, x), ss[p].open,
         u = PrepareFinal(w, r, ss[p], p), tt = Replaced(ss, p, u.s),
         g.disk = m.disk, g.entered = m.entered, g.results = m.results,
         Chained(m.queue, u.jobs, g.queue)
  PROVE  InvOf(n, u.w, g, r, tt, x)
<1>1. Ends(n, m, w, r, ss[p], p, u)
  BY FinalEnds, Zenon
<1> DEFINE t == u.s
<1>2. tt = Replaced(ss, p, t) /\ t.open = u.s.open /\ t.active = u.s.active
  OBVIOUS
<1>3. \A v : Tended(n, m, v, r, u.s, p) => Tended(n, m, v, r, t, p)
  OBVIOUS
<1> HIDE DEF t
<1>4. Leads(n, w, u.w, g, r, tt, x)
  BY <1>1, <1>2, <1>3, EndsKeeps
<1>5. QED
  BY <1>4 DEF Leads

\* The writes of these drafts, in this order.
WritesOf(w, order) == [i \in DOMAIN order |-> WriteJob(w.current[order[i]])]

\* The coordinator once every timer has been launched and the intake is closed.
Closed(w) == [Launch(w, w.timers) EXCEPT !.intake = FALSE]

(* Every unfired save starts, and the intake closes.                       *)
LEMMA DrainStarts ==
  ASSUME NEW n, NEW g, NEW k, NEW w, NEW v, NEW r, NEW ss, NEW x, NEW order \in SetToSeqs(w.timers), NEW jobs,
         InvOf(n, w, g, r, ss, x), jobs = WritesOf(w, order),
         k.disk = g.disk, k.entered = g.entered, k.results = g.results,
         Chained(g.queue, jobs, k.queue), v = Closed(w)
  PROVE  InvOf(n, v, k, r, ss, x)
<1>1. Orderly(n, w)
  BY DEF InvOf
<1>2. jobs \in Seq(JobsTo(n)) /\ Starts(w, w.timers, jobs)
  BY <1>1, AllWrites, Zenon DEF WritesOf
<1>3. Follows(JobsTo(n), g.queue, jobs, k.queue)
  BY <1>2 DEF Chained, InvOf, Stored
<1> DEFINE z == Launch(w, w.timers)
<1>4. v = [z EXCEPT !.intake = FALSE]
  BY DEF Closed
<1>5. InvOf(n, z, k, r, ss, x)
  BY <1>2, <1>3, WritesFollow, Zenon
<1> HIDE DEF z
<1>6. QED
  BY <1>4, <1>5, IntakeCloses, Zenon

\* The line with these jobs put in it.
LineWith(jobs) == [disk |-> disk, queue |-> queue \o jobs, entered |-> entered, results |-> results]

LEMMA LineWithJobs ==
  ASSUME NEW jobs
  PROVE  LET g == LineWith(jobs)
         IN  /\ g.disk = Line.disk /\ g.entered = Line.entered /\ g.results = Line.results
             /\ Chained(Line.queue, jobs, g.queue)
<1>1. /\ LineWith(jobs).disk = disk /\ LineWith(jobs).entered = entered
      /\ LineWith(jobs).results = results /\ LineWith(jobs).queue = queue \o jobs
      /\ Line.disk = disk /\ Line.entered = entered /\ Line.results = results /\ Line.queue = queue
  BY Zenon DEF LineWith, Line
<1>2. QED
  BY <1>1, ChainedBy, Zenon

(* So does the line that results.                                          *)
LEMMA LineThen ==
  ASSUME NEW jobs, NEW more, queue' = queue \o jobs \o more, UNCHANGED <<disk, entered, results>>
  PROVE  LET g == LineWith(jobs)
         IN  /\ Line'.disk = g.disk /\ Line'.entered = g.entered /\ Line'.results = g.results
             /\ Chained(g.queue, more, Line'.queue)
<1>1. /\ LineWith(jobs).disk = disk /\ LineWith(jobs).entered = entered
      /\ LineWith(jobs).results = results /\ LineWith(jobs).queue = queue \o jobs
      /\ Line'.disk = disk' /\ Line'.entered = entered' /\ Line'.results = results' /\ Line'.queue = queue'
  BY Zenon DEF LineWith, Line
<1>2. QED
  BY <1>1, ChainedBy, Zenon

\* What a shutdown does to the coordinator, the jobs and the sessions, if u is
\* what the live page's end has made of the first two and tt of the sessions.
Drains(u, tt) ==
    /\ \E order \in SetToSeqs(u.w.timers) :
         queue' = queue \o u.jobs \o WritesOf(u.w, order)
    /\ writer' = Closed(u.w)
    /\ session' = tt

LEMMA DrainKeeps ==
  ASSUME NEW n, NEW u, NEW tt, Drains(u, tt), UNCHANGED <<disk, entered, results>>,
         InvOf(n, u.w, LineWith(u.jobs), pref, tt, snapshot)
  PROVE  InvOf(n, writer', Line', pref, session', snapshot)
<1>1. PICK order \in SetToSeqs(u.w.timers) :
        queue' = queue \o u.jobs \o WritesOf(u.w, order)
  BY DEF Drains
<1> DEFINE w == u.w
           more == WritesOf(w, order)
           g == LineWith(u.jobs)
           k == Line'
           v == writer'
<1>2. /\ queue' = queue \o u.jobs \o more
      /\ more = WritesOf(w, order)
  BY <1>1
<1>3. v = Closed(w) /\ session' = tt /\ order \in SetToSeqs(w.timers)
  BY DEF Drains
<1> HIDE DEF more, v
<1>4. /\ k.disk = g.disk /\ k.entered = g.entered /\ k.results = g.results
      /\ Chained(g.queue, more, k.queue)
  BY <1>2, LineThen, Zenon
<1> HIDE DEF w, g, k
<1>5. InvOf(n, w, g, pref, tt, snapshot)
  BY DEF w, g
<1>6. InvOf(n, v, k, pref, tt, snapshot)
  BY <1>2, <1>3, <1>4, <1>5, DrainStarts, Zenon
<1>7. QED
  BY <1>3, <1>6, Zenon DEF v, k

LEMMA ShutdownStep ==
  ASSUME IInv, Shutdown
  PROVE  IInv'
<1> DEFINE n == edits + 1
           p == CHOOSE p \in LivePages : TRUE
           u == IF LivePages = {} THEN [w |-> writer, jobs |-> << >>]
                ELSE PrepareFinal(writer, pref, session[p], p)
           tt == IF LivePages = {} THEN session ELSE [session EXCEPT ![p] = u.s]
<1>1. /\ edits' = edits /\ allowed' = allowed /\ pref' = pref /\ snapshot' = snapshot
      /\ UNCHANGED <<disk, entered, results>> /\ report' = [report EXCEPT !.phase = "draining"]
  BY Zenon DEF Shutdown, storage, store
<1>2. n \in Texts /\ InvOf(n, writer, Line, pref, session, snapshot)
  BY Known
<1>3. Drains(u, tt)
  <2>1. u.w.timers = {d \in u.w.timers : TRUE}
    OBVIOUS
  <2>2. /\ \E order \in SetToSeqs({d \in u.w.timers : TRUE}) :
             queue' = queue \o u.jobs \o [i \in DOMAIN order |-> WriteJob(u.w.current[order[i]])]
        /\ writer' = [Launch(u.w, {d \in u.w.timers : TRUE}) EXCEPT !.intake = FALSE]
        /\ session' = tt
    BY Zenon DEF Shutdown
  <2> HIDE DEF u, tt
  <2>3. QED
    BY <2>1, <2>2, Zenon DEF Drains, WritesOf, Closed
<1>4. InvOf(n, u.w, LineWith(u.jobs), pref, tt, snapshot)
  <2>1. CASE LivePages = {}
    <3> DEFINE jobs == u.jobs
               g == LineWith(jobs)
               m == Line
    <3>1. u.w = writer /\ jobs = << >> /\ tt = session
      BY <2>1, Zenon
    <3> HIDE DEF u, tt, jobs
    <3>2. /\ g.disk = m.disk /\ g.entered = m.entered /\ g.results = m.results
          /\ Chained(m.queue, jobs, g.queue)
      BY LineWithJobs, Zenon
    <3> HIDE DEF g, m, n
    <3>3. InvOf(n, writer, m, pref, session, snapshot)
      BY <1>2 DEF m
    <3>4. InvOf(n, writer, g, pref, session, snapshot)
      BY <3>1, <3>2, <3>3, NoLastPage, Zenon
    <3>5. QED
      BY <3>1, <3>4, Zenon DEF g, jobs
  <2>2. CASE LivePages # {}
    <3> DEFINE jobs == u.jobs
               g == LineWith(jobs)
               m == Line
    <3>1. p \in Pages /\ session[p].open
      BY <2>2 DEF LivePages
    <3> HIDE DEF p
    <3>2. u = PrepareFinal(writer, pref, session[p], p) /\ tt = Replaced(session, p, u.s)
      BY <2>2, Zenon DEF Replaced
    <3> HIDE DEF u, tt
    <3>3. /\ g.disk = m.disk /\ g.entered = m.entered /\ g.results = m.results
          /\ Chained(m.queue, u.jobs, g.queue)
      BY LineWithJobs, Zenon
    <3> HIDE DEF g, m, n, jobs
    <3>4. n \in Texts /\ InvOf(n, writer, m, pref, session, snapshot)
      BY <1>2 DEF m
    <3>5. InvOf(n, u.w, g, pref, tt, snapshot)
      BY <3>1, <3>2, <3>3, <3>4, LastPage
    <3>6. QED
      BY <3>5, Zenon DEF g, jobs
  <2>3. QED
    BY <2>1, <2>2
<1> HIDE DEF u, tt
<1>5. InvOf(n, writer', Line', pref, session', snapshot)
  BY <1>1, <1>3, <1>4, DrainKeeps
<1>6. InvOf(edits' + 1, writer', Line', pref', session', snapshot')
  BY <1>1, <1>5
<1>7. /\ report' \in [phase : {"open", "draining", "done"}, count : 0 .. Cardinality(Contexts)]
      /\ report'.phase = "draining"
  BY <1>1 DEF IInv
<1>8. edits' \in 0 .. MaxEdits /\ allowed' \in BOOLEAN
  BY <1>1 DEF IInv
<1>9. QED
  BY <1>6, <1>7, <1>8 DEF IInv, Running

(* Nothing is left but the worker and its jobs.                            *)
LEMMA ReportKeeps ==
  ASSUME NEW n \in Texts, NEW m, NEW k, NEW w, NEW v, NEW r, NEW ss, NEW x, NEW tt,
         InvOf(n, w, m, r, ss, x), Moves(n, w, v, 0), Silent(w, v),
         k.disk = m.disk, k.queue = m.queue, k.entered = m.entered,
         k.results \in Seq(ResultsTo(n)), DOMAIN k.results = {},
         DOMAIN tt = Pages, \A p \in Pages : tt[p] = Retired, tt = [p \in Pages |-> tt[p]]
  PROVE  InvOf(n, v, k, r, tt, None)
<1>1. Orderly(n, w) /\ Orderly(n, v)
  BY DEF InvOf, Moves
<1>2. Stored(n, m) /\ Lined(v, m)
  BY <1>1, LineMoves DEF InvOf
<1>3. Stored(n, k) /\ Lined(v, k) /\ Awaited(v, k)
  BY <1>2 DEF Stored, Lined, Awaited
<1>4. r \in Preferences /\ Requested(k, r)
  BY DEF InvOf, Requested
<1>5. Quiet(v, r)
  BY DEF InvOf, Quiet, Silent
<1>6. ASSUME NEW p \in Pages PROVE Tended(n, k, v, r, tt[p], p) /\ tt[p].open = FALSE
  <2>1. Tended(n, k, v, r, Retired, p)
    BY RetiredIsTended
  <2>2. Retired.open = FALSE
    BY RetiredIsTended
  <2>3. tt[p] = Retired
    OBVIOUS
  <2>4. QED
    BY <2>1, <2>2, <2>3
<1>7. tt \in [Pages -> SessionsTo(n)]
  <2>1. \A p \in Pages : tt[p] \in SessionsTo(n)
    BY <1>6 DEF Tended, Sound
  <2>2. QED
    BY <2>1
<1>8. OneLive(tt)
  BY <1>6 DEF OneLive
<1>9. Carried(n, k, v, None)
  BY DEF Carried
<1>10. QED
  BY <1>1, <1>3, <1>4, <1>5, <1>6, <1>7, <1>8, <1>9 DEF InvOf

LEMMA NoResults ==
  ASSUME NEW S
  PROVE  << >> \in Seq(S) /\ DOMAIN << >> = {}
OBVIOUS

LEMMA ReportStep ==
  ASSUME IInv, Report
  PROVE  IInv'
<1> DEFINE n == edits + 1
           m == Line
           k == Line'
           v == writer'
           tt == session'
<1>1. /\ edits' = edits /\ allowed' = allowed /\ pref' = pref /\ snapshot' = None
      /\ disk' = disk /\ queue' = queue /\ entered' = entered /\ results' = << >>
      /\ session' = [p \in Pages |-> Retired]
  BY Zenon DEF Report, storage, store
<1>2. n \in Texts /\ InvOf(n, writer, m, pref, session, snapshot)
  BY Known
<1>3. Orderly(n, writer)
  BY <1>2 DEF InvOf
<1>4. Moves(n, writer, v, 0) /\ Silent(writer, v)
  <2>1. v = writer \/ \E a, b : v = Fence(writer, Contexts, a, b)
    BY Zenon DEF Report
  <2> HIDE DEF n, v
  <2>2. CASE v = writer
    BY <1>3, <2>2, StandsStill DEF Silent
  <2>3. CASE \E a, b : v = Fence(writer, Contexts, a, b)
    <3>1. PICK a, b : v = Fence(writer, Contexts, a, b)
      BY <2>3
    <3>2. Moves(n, writer, v, 0)
      BY <1>2, <1>3, <3>1, FenceMoves
    <3>3. \A d \in Contexts : v.current[d] = IF d \in Contexts THEN None ELSE writer.current[d]
      BY <1>2, <1>3, <3>1, FenceFields
    <3>4. QED
      BY <3>2, <3>3 DEF Silent
  <2>4. QED
    BY <2>1, <2>2, <2>3
<1>5. /\ k.disk = m.disk /\ k.queue = m.queue /\ k.entered = m.entered
      /\ k.results = << >>
  BY <1>1, Zenon DEF Line
<1>6. k.results \in Seq(ResultsTo(n)) /\ DOMAIN k.results = {}
  BY <1>5, NoResults, Zenon
<1>7. DOMAIN tt = Pages /\ (\A p \in Pages : tt[p] = Retired) /\ tt = [p \in Pages |-> tt[p]]
  BY <1>1
<1>8. /\ k.disk = m.disk /\ k.queue = m.queue /\ k.entered = m.entered
  BY <1>5
<1> HIDE DEF n, k, m, v, tt
<1>9. InvOf(n, v, k, pref, tt, None)
  BY <1>2, <1>4, <1>6, <1>7, <1>8, ReportKeeps
<1>10. InvOf(edits' + 1, writer', Line', pref', session', snapshot')
  BY <1>1, <1>9 DEF n, v, k, tt
<1>11. report' \in [phase : {"open", "draining", "done"}, count : 0 .. Cardinality(Contexts)]
  <2> DEFINE D == UnconfirmedDrafts(writer, pref, session)
  <2>1. D \subseteq Contexts
    BY DEF UnconfirmedDrafts
  <2> HIDE DEF D
  <2>2. Cardinality(D) \in Nat /\ Cardinality(Contexts) \in Nat /\ Cardinality(D) <= Cardinality(Contexts)
    BY <2>1, DraftParameters, FS_Subset, FS_CardinalityType
  <2>3. report' = [phase |-> "done", count |-> Cardinality(D)]
    BY DEF Report, D
  <2>4. QED
    BY <2>2, <2>3
<1>12. edits' \in 0 .. MaxEdits /\ allowed' \in BOOLEAN /\ report'.phase = "done"
  BY <1>1 DEF IInv, Report
<1>13. QED
  BY <1>10, <1>11, <1>12 DEF IInv, Running
-----------------------------------------------------------------------------
(* The theorems.                                                           *)

LEMMA InitKeeps ==
  ASSUME Init
  PROVE  IInv
<1> DEFINE n == 1
           m == Line
           w == writer
<1>1. PICK c \in Contexts :
        session = [p \in Pages |-> IF p = 1 THEN NewSession(TRUE, TRUE, c) ELSE Detached]
  BY DEF Init
<1>2. /\ disk = [d \in Contexts |-> 1] /\ allowed \in BOOLEAN
      /\ pref \in {Read(allowed), Unread}
      /\ entered = FALSE /\ snapshot = None /\ edits = 0
      /\ report = [phase |-> "open", count |-> 0]
  BY DEF Init
<1>3. queue = << >> /\ results = << >>
  BY DEF Init
<1>4. writer = [sequence |-> 0, latest |-> [d \in Contexts |-> 0],
                 current |-> [d \in Contexts |-> None],
                 unconfirmed |-> [d \in Contexts |-> 0],
                 retained |-> [d \in Contexts |-> {}],
                 timers |-> {}, intake |-> TRUE]
  BY DEF Init
<1>5. n \in Texts /\ edits + 1 = n /\ edits \in 0 .. MaxEdits
  BY <1>2, DraftParameters DEF Texts
<1>6. Orderly(n, w) /\ \A d \in Contexts : w.current[d] = None
  BY <1>4 DEF Orderly, WritersTo, Coordinated
<1>7. m.queue = << >> /\ m.results = << >> /\ m.disk = disk /\ m.entered = FALSE
  BY <1>2, <1>3, Zenon DEF Line
<1>8. /\ m.queue \in Seq(JobsTo(n)) /\ m.results \in Seq(ResultsTo(n))
      /\ DOMAIN m.queue = {} /\ DOMAIN m.results = {}
  BY <1>7, NoResults, Zenon
<1>9. m.disk = disk /\ m.entered = FALSE
  BY <1>7
<1> HIDE DEF m, n, w
<1>10. Stored(n, m) /\ Lined(w, m) /\ Awaited(w, m) /\ Requested(m, pref)
  <2>1. m.disk \in [Contexts -> 0 .. n]
    BY <1>2, <1>9 DEF n
  <2>2. QED
    BY <1>8, <1>9, <2>1 DEF Stored, Lined, Awaited, Requested
<1>11. pref \in Preferences /\ Quiet(w, pref) /\ Carried(n, m, w, snapshot)
  <2>1. allowed \in BOOLEAN
    BY <1>2
  <2>2. Read(allowed) \in Preferences /\ Unread \in Preferences
    BY <2>1 DEF Preferences, Read, Unread
  <2>3. pref \in Preferences
    BY <1>2, <2>2
  <2>4. Quiet(w, pref)
    BY <1>6 DEF Quiet
  <2>5. Carried(n, m, w, snapshot)
    BY <1>2 DEF Carried
  <2>6. QED
    BY <2>3, <2>4, <2>5
<1>12. \A p \in Pages : Tended(n, m, w, pref, session[p], p) /\ session[p] \in SessionsTo(n)
  <2> SUFFICES ASSUME NEW p \in Pages
               PROVE  Tended(n, m, w, pref, session[p], p) /\ session[p] \in SessionsTo(n)
    OBVIOUS
  <2>1. Freed(w, p)
    BY <1>6 DEF Freed
  <2>2. session[p] = NewSession(TRUE, TRUE, c) \/ session[p] = NewSession(FALSE, FALSE, None)
    BY <1>1 DEF Detached
  <2>3. Tended(n, m, w, pref, session[p], p)
    BY <1>5, <2>1, <2>2, NewIsTended
  <2>4. QED
    BY <2>3 DEF Tended, Sound
<1>13. session \in [Pages -> SessionsTo(n)]
  BY <1>1, <1>12
<1>14. OneLive(session)
  <2>1. ~Detached.open
    BY DEF Detached, NewSession
  <2>2. QED
    BY <1>1, <2>1 DEF OneLive
<1>15. InvOf(n, w, m, pref, session, snapshot)
  BY <1>6, <1>10, <1>11, <1>12, <1>13, <1>14 DEF InvOf
<1>16. report \in [phase : {"open", "draining", "done"}, count : 0 .. Cardinality(Contexts)]
  BY <1>2, DraftParameters, FS_CardinalityType
<1>17. writer.intake
  BY <1>4
<1>18. QED
  BY <1>2, <1>5, <1>15, <1>16, <1>17 DEF IInv, m, n, w

LEMMA NothingHappens ==
  ASSUME IInv, UNCHANGED vars
  PROVE  IInv'
<1>1. /\ edits' = edits /\ allowed' = allowed /\ report' = report /\ pref' = pref
      /\ snapshot' = snapshot /\ session' = session /\ writer' = writer
      /\ UNCHANGED <<disk, queue, entered, results>>
  BY Zenon DEF vars
<1>2. Line' = Line
  BY <1>1, LineStays, Zenon
<1>3. QED
  BY <1>1, <1>2, Known, StepKeeps

LEMMA PageStep ==
  ASSUME IInv, NEW p \in Pages, OnPage(p)
  PROVE  IInv'
BY EditStep, ContextStep, ExportStep, InstallStep, OpenStep, CandidateStep, ActivateStep,
   CloseStep, DetachStep, RecoverStep, Zenon DEF OnPage

LEMMA NextKeeps ==
  ASSUME IInv, Next
  PROVE  IInv'
<1>1. CASE \E p \in Pages : OnPage(p)
  BY <1>1, PageStep
<1>2. CASE DeleteDrafts \/ Disable \/ Enable \/ TimerFires
  BY <1>2, DeleteStep, DisableStep, EnableStep, TimerStep
<1>3. CASE Worker
  BY <1>3, WorkerStep
<1>4. CASE Deliver
  BY <1>4, DeliverWriteStep, DeliverDeletionStep, DeliverPreferenceStep DEF Deliver
<1>5. CASE Shutdown \/ Report
  BY <1>5, ShutdownStep, ReportStep
<1>6. CASE Stopped
  BY <1>6, NothingHappens, Zenon DEF Stopped
<1>7. QED
  BY <1>1, <1>2, <1>3, <1>4, <1>5, <1>6, Zenon DEF Next

(* In every reachable state the coordinator, the jobs in line, the results *)
(* not yet applied, the preference, the pages and the snapshot agree: this *)
(* is the inductive invariant of the drafts, on which the others rest.     *)
THEOREM DraftInvariant == Spec => []IInv
<1>1. Init => IInv
  BY InitKeeps
<1>2. IInv /\ [Next]_vars => IInv'
  BY NextKeeps, NothingHappens
<1>3. QED
  BY <1>1, <1>2, PTL DEF Spec

(* Every variable has its type in every reachable state, and the           *)
(* coordinator's records are in order: what the worker, the event loop and *)
(* the pages hand each other is always a job, a result or a session.       *)
THEOREM TypeCorrect == Spec => []TypeOK
<1>1. IInv => TypeOK
  <2> SUFFICES ASSUME IInv PROVE TypeOK
    OBVIOUS
  <2> DEFINE n == edits + 1
  <2>1. /\ InvOf(n, writer, Line, pref, session, snapshot) /\ allowed \in BOOLEAN
        /\ n \in Nat /\ 0 .. n \subseteq Texts
    BY Known, DraftParameters DEF IInv, Texts
  <2>2. report \in [phase : {"open", "draining", "done"}, count : 0 .. Cardinality(Contexts)]
    BY DEF IInv
  <2> HIDE DEF n
  <2>3. CapturesTo(n) \subseteq Captures /\ JobsTo(n) \subseteq Jobs
    BY <2>1 DEF CapturesTo, Captures, JobsTo, Jobs
  <2>4. /\ disk \in [Contexts -> Texts] /\ entered \in BOOLEAN
        /\ \A i \in DOMAIN queue : queue[i] \in Jobs
        /\ \A i \in DOMAIN results : results[i].job \in Jobs
    <3>1. Stored(n, Line) /\ Line.disk = disk /\ Line.entered = entered /\ Line.queue = queue /\ Line.results = results
      BY <2>1, Known DEF InvOf
    <3>2. /\ \A i \in DOMAIN queue : queue[i] \in Jobs
          /\ \A i \in DOMAIN results : results[i].job \in Jobs
      BY <2>3, <3>1, JobsAndResults
    <3>3. disk \in [Contexts -> Texts] /\ entered \in BOOLEAN
      BY <2>1, <3>1 DEF Stored
    <3>4. QED
      BY <3>2, <3>3
  <2>5. pref \in [enabled : BOOLEAN, suspended : BOOLEAN, busy : BOOLEAN,
                  owed : {"none", "cleanup", "enable"}, confirmed : BOOLEAN]
    BY <2>1 DEF InvOf, Preferences
  <2>6. \A p \in Pages : session[p].state \in States /\ session[p].sql \in Texts
    BY <2>1 DEF InvOf, SessionsTo
  <2>7. \A d \in Contexts :
          LET cap == writer.current[d]
          IN  /\ cap # None => /\ cap \in Captures /\ cap.draft = d
                               /\ writer.latest[d] >= cap.rev
              /\ d \in writer.timers => cap # None
              /\ writer.unconfirmed[d] \in {0, writer.latest[d]}
    <3>1. writer \in WritersTo(n) /\ Coordinated(writer)
      BY <2>1 DEF InvOf, Orderly
    <3>2. \A d \in Contexts : /\ writer.current[d] \in CapturesTo(n) \union {None}
                              /\ writer.latest[d] \in Nat
      BY <3>1 DEF WritersTo
    <3>3. QED
      BY <2>3, <3>1, <3>2 DEF Coordinated
  <2>8. QED
    BY <2>1, <2>2, <2>4, <2>5, <2>6, <2>7 DEF TypeOK
<1>2. QED
  BY <1>1, DraftInvariant, PTL

(* "Draft saved" is true.  While the live editor says so, the disk holds   *)
(* its text for its context: the text was acknowledged, nobody has taken   *)
(* the draft since (Newest), and so neither a job in line nor the worker   *)
(* changes its record (Backed).                                            *)
THEOREM SavedIsOnDisk == Spec => []SavedIsStored
<1>1. IInv => SavedIsStored
  <2> SUFFICES ASSUME IInv, NEW p \in Pages, Live(p), pref.enabled, session[p].state = "saved",
                      ~session[p].overtaken
               PROVE  disk[session[p].context] = session[p].sql
    BY DEF SavedIsStored
  <2> DEFINE s == session[p]
             n == edits + 1
  <2>1. Tended(n, Line, writer, pref, s, p) /\ Line.disk = disk
    BY Known DEF InvOf
  <2>2. s.open /\ s.active
    BY DEF Live
  <2>3. Acked(s) /\ s.context = s.savedContext
    BY <2>1, <2>2 DEF Tended, Honest
  <2>4. Kept(writer, s)
    BY <2>1, <2>2, <2>3 DEF Tended, Newest, Kept
  <2>5. Line.disk[s.savedContext] = s.sql
    BY <2>1, <2>4 DEF Tended, Backed
  <2>6. QED
    BY <2>1, <2>3, <2>5
<1>2. QED
  BY <1>1, DraftInvariant, PTL
-----------------------------------------------------------------------------
(* The actions and the histories: first those of a page.                   *)

(* What the actions start from.                                            *)
LEMMA PastKnown ==
  ASSUME PInv
  PROVE  /\ PastOf(edits + 1, writer, Line, Past, session, snapshot)
         /\ Recorded(edits + 1, Line, Past) /\ Fresh(writer, covered)
         /\ Past.covered = covered /\ Past.erased = erased /\ Past.replaced = replaced
         /\ covered \in [Contexts -> SUBSET (1 .. edits + 1)]
         /\ \A p \in Pages : session[p].open => Bypassed(writer, covered, session[p])
         /\ snapshot # None => Bypassed(writer, covered, snapshot.s)
BY DEF PInv, PastOf, Recorded, Past

LEMMA PastStep ==
  ASSUME edits' = edits, PastOf(edits + 1, writer', Line', Past', session', snapshot')
  PROVE  PInv'
BY DEF PInv

LEMMA HistoryStays ==
  ASSUME UNCHANGED history
  PROVE  Past' = Past
BY DEF history, Past

(* A draft leaves all its texts behind for the one that has just been      *)
(* typed: every other session that has one has lost the draft.             *)
LEMMA OutdatedBypassed ==
  ASSUME NEW n, NEW w, NEW v, NEW p, NEW q, NEW b, NEW c, NEW e, NEW t, NEW s, Orderly(n, w),
         Moves(n, w, v, p), Sound(n, w, s, q), Bypassed(w, b, s), Tracks(w, e, v, t),
         \A d \in Contexts \ {t.origin.draft} : c[d] = b[d]
  PROVE  Bypassed(v, c, s)
<1> DEFINE d == t.origin.draft
<1>1. SUFFICES ASSUME s.sql # 0, s.sql \in c[s.bound], s.deleted = FALSE, s.origin # None,
                      s.origin.draft = s.bound
               PROVE  Superseded(v, s)
  BY DEF Bypassed, Sound, SessionsTo
<1>2. /\ s.bound \in Contexts /\ s.origin \in Origins /\ s.origin.rev \in Nat
      /\ s.origin.rev <= w.sequence /\ w.sequence \in Nat
  BY <1>1 DEF Sound, SessionsTo, Coherent, Origins, Orderly, WritersTo
<1>3. CASE s.bound = d
  <2>1. w.sequence < t.origin.rev /\ v.latest[d] = t.origin.rev /\ t.origin.rev \in Nat
    BY DEF Tracks, Origins
  <2>2. QED
    BY <1>1, <1>2, <1>3, <2>1 DEF Superseded
<1>4. CASE s.bound # d
  <2>1. s.sql \in b[s.bound]
    BY <1>1, <1>2, <1>4
  <2>2. Superseded(w, s)
    BY <1>1, <2>1 DEF Bypassed
  <2>3. v.latest[s.bound] = w.latest[s.bound] \/ v.latest[s.bound] > w.sequence
    BY <1>2 DEF Moves, Advances
  <2>4. QED
    BY <1>1, <1>2, <2>2, <2>3 DEF Superseded
<1>5. QED
  BY <1>3, <1>4

LEMMA EditPast ==
  ASSUME IInv, PInv, NEW p \in Pages, Edit(p)
  PROVE  PInv'
<1> DEFINE n == edits + 1
           s == session[p]
<1>1. PICK text \in {0, edits + 2} \ {s.sql} :
        LET u == Edited(writer, pref, s, p, text)
        IN  /\ writer' = u.w /\ session' = [session EXCEPT ![p] = u.s]
            /\ covered' = IF u.s.origin = s.origin THEN covered
                          ELSE [covered EXCEPT ![u.s.origin.draft] = Before(edits + 1)]
  BY DEF Edit
<1>2. /\ Running /\ s.open /\ s.active /\ edits < MaxEdits /\ edits' = edits + 1
      /\ snapshot' = snapshot /\ erased' = erased /\ replaced' = replaced
      /\ UNCHANGED <<disk, queue, entered, results>>
  BY DEF Edit, Live, storage, store
<1>3. Line' = Line
  BY <1>2, LineStays
<1>4. edits \in Nat /\ n \in Nat /\ n + 1 \in Texts /\ n + 1 = edits + 2 /\ s \in SessionsTo(n)
  BY <1>2, Known, DraftParameters DEF Texts
<1>5. InvOf(n + 1, writer, Line, pref, session, snapshot)
  BY <1>4, Known, MoreIsKept
<1>6. text \in 0 .. n + 1 /\ (text = 0 \/ text # s.savedSql) /\ (text # 0 => text = n + 1)
  <2>1. s.savedSql \in 0 .. n
    BY <1>4 DEF SessionsTo
  <2>2. QED
    BY <1>4, <2>1
<1> DEFINE u == Edited(writer, pref, s, p, text)
           v == u.w
           t == u.s
           e == Retyped(s, text)
<1>7. writer.intake /\ pref \in Preferences
  BY <1>2, <1>5 DEF IInv, InvOf
<1>8. Moves(n + 1, writer, v, p) /\ MayTrack(writer, e, v, t)
  <2> DEFINE M == n + 1
  <2>1. M \in Texts /\ text \in 0 .. M /\ InvOf(M, writer, Line, pref, session, snapshot)
        /\ (text = session[p].sql \/ text = 0 \/ text # session[p].savedSql)
        /\ session[p].open /\ session[p].active
    BY <1>2, <1>4, <1>5, <1>6
  <2> HIDE DEF M
  <2>2. LET a == Edited(writer, pref, session[p], p, text)
        IN  Moves(M, writer, a.w, p) /\ MayTrack(writer, Retyped(session[p], text), a.w, a.s)
    BY <1>7, <2>1, EditMoves, Zenon
  <2>3. QED
    BY <2>2 DEF M
<1>9. e.origin = s.origin /\ e.sql = text /\ (e.sql = 0 \/ e.bound \in Contexts)
  <2> DEFINE M == n + 1
  <2>1. Sound(M, writer, s, p)
    BY <1>5, SoundPages
  <2>2. M \in Texts /\ text \in 0 .. M /\ s.open
    BY <1>2, <1>4, <1>6
  <2> HIDE DEF M, s
  <2>3. LET a == Retyped(s, text)
        IN  /\ a.sql = text /\ a.origin = s.origin /\ Home(s) \in Contexts
            /\ a.bound = (IF text = 0 THEN None ELSE Home(s))
    <3>1. s \in SessionsTo(M)
      BY <2>1 DEF Sound
    <3>2. Home(s) \in Contexts
      BY <2>1, <2>2, <3>1 DEF Home, Sound, Coherent, SessionsTo
    <3>3. QED
      BY <3>1, <3>2 DEF Retyped, SessionsTo
  <2>4. QED
    BY <2>3
<1>10. writer' = v /\ session' = [session EXCEPT ![p] = t]
       /\ covered' = IF t.origin = s.origin THEN covered
                     ELSE [covered EXCEPT ![t.origin.draft] = 1 .. n]
  BY <1>1 DEF Before
<1> HIDE DEF u, v, t, e, s
<1>11. Orderly(n + 1, writer)
  BY <1>5 DEF InvOf
<1>12. t.sql = text
  BY <1>8, <1>9 DEF MayTrack, Shows
<1>13. covered' \in [Contexts -> SUBSET (1 .. n)] /\ Fewer(covered', covered)
  <2>1. covered \in [Contexts -> SUBSET (1 .. n)]
    BY PastKnown
  <2>2. QED
    BY <1>10, <2>1 DEF Fewer
<1>14. \A d \in Contexts : text \notin covered'[d]
  BY <1>4, <1>6, <1>13
<1>15. Bypassed(v, covered', t)
  <2>1. t.bound \in Contexts \/ t.sql = 0
    BY <1>8, <1>9 DEF MayTrack, Shows
  <2>2. QED
    BY <1>12, <1>14, <2>1 DEF Bypassed
<1>16. ASSUME NEW q, NEW x, Sound(n + 1, writer, x, q), Bypassed(writer, covered, x)
       PROVE  Bypassed(v, covered', x)
  <2>1. CASE t.origin = s.origin
    <3>1. covered' = covered /\ Fewer(covered, covered) /\ Shows(x, x)
      BY <1>10, <2>1 DEF Fewer, Shows
    <3>2. QED
      BY <1>8, <1>11, <1>16, <3>1, BypassedLater
  <2>2. CASE t.origin # s.origin
    <3>1. Tracks(writer, e, v, t)
      BY <1>8, <1>9, <2>2 DEF MayTrack
    <3>2. \A d \in Contexts \ {t.origin.draft} : covered'[d] = covered[d]
      BY <1>10, <1>13, <2>2, PastKnown
    <3>3. QED
      BY <1>8, <1>11, <1>16, <3>1, <3>2, OutdatedBypassed
  <2>3. QED
    BY <2>1, <2>2
<1>17. Fresh(v, covered')
  <2>1. CASE t.origin = s.origin
    <3>1. covered' = covered /\ Fewer(covered, covered) /\ Silent(writer, v)
      <4>1. ~Tracks(writer, e, v, t)
        <5>1. Sound(n + 1, writer, s, p)
          BY <1>5, SoundPages DEF s
        <5>2. QED
          BY <1>11, <2>1, <5>1, TracksAnew
      <4>2. QED
        BY <1>8, <1>9, <1>10, <2>1, <4>1 DEF MayTrack, Fewer
    <3>2. QED
      BY <3>1, FreshLater, PastKnown
  <2>2. CASE t.origin # s.origin
    <3>1. Tracks(writer, e, v, t)
      BY <1>8, <1>9, <2>2 DEF MayTrack
    <3>2. \A d \in Contexts \ {t.origin.draft} : covered'[d] = covered[d]
      BY <1>10, <1>13, <2>2, PastKnown
    <3>3. ASSUME NEW d \in Contexts, v.current[d] # None PROVE v.current[d].sql \notin covered'[d]
      <4>1. CASE d = t.origin.draft
        BY <1>9, <1>14, <3>1, <3>3, <4>1 DEF Tracks
      <4>2. CASE d # t.origin.draft
        BY <3>1, <3>2, <3>3, <4>2, PastKnown DEF Tracks, Fresh
      <4>3. QED
        BY <4>1, <4>2
    <3>4. QED
      BY <3>3 DEF Fresh
  <2>3. QED
    BY <2>1, <2>2
<1>18. Recorded(edits' + 1, Line', Past')
  <2>1. Past'.covered = covered' /\ Past'.erased = erased /\ Past'.replaced = replaced
    BY <1>2 DEF Past
  <2>2. Recorded(n, Line, Past) /\ Past.erased = erased /\ Past.replaced = replaced /\ Past.covered = covered
    BY PastKnown
  <2>3. \A f \in [Contexts -> SUBSET (1 .. n)] : f \in [Contexts -> SUBSET (1 .. n + 1)]
    <3>1. 1 .. n \subseteq 1 .. n + 1
      BY <1>4
    <3>2. QED
      BY <3>1
  <2>4. edits' + 1 = n + 1
    BY <1>2
  <2>5. QED
    BY <1>3, <1>13, <2>1, <2>2, <2>3, <2>4 DEF Recorded, Fewer
<1>19. ASSUME NEW q \in Pages, session'[q].open PROVE Bypassed(v, covered', session'[q])
  <2>1. session \in [Pages -> SessionsTo(n + 1)] /\ Sound(n + 1, writer, session[q], q)
    BY <1>5, SoundPages
  <2>2. CASE q = p
    BY <1>10, <1>15, <2>1, <2>2
  <2>3. CASE q # p
    <3>1. session'[q] = session[q]
      BY <1>10, <2>1, <2>3
    <3>2. QED
      BY <1>16, <1>19, <2>1, <3>1, PastKnown
  <2>4. QED
    BY <2>2, <2>3
<1>20. snapshot # None => Bypassed(v, covered', snapshot.s)
  BY <1>5, <1>16, SoundPages, PastKnown
<1>21. Past'.covered = covered'
  BY DEF Past
<1>22. QED
  BY <1>2, <1>10, <1>17, <1>18, <1>19, <1>20, <1>21 DEF PInv, PastOf

(* A step that takes no text and leaves the histories alone.               *)
LEMMA CalmPast ==
  ASSUME IInv, PInv, edits' = edits, UNCHANGED history, disk' = disk,
         entered' => entered /\ queue'[1] = queue[1],
         NEW p, Moves(edits + 1, writer, writer', p), Silent(writer, writer'),
         \A q \in Pages : session'[q].open => session[q].open /\ Same(session[q], session'[q]),
         \/ snapshot' = None \/ snapshot' = snapshot
         \/ \E q \in Pages : session[q].open /\ Same(session[q], snapshot'.s)
  PROVE  PInv'
<1> DEFINE n == edits + 1
<1>1. InvOf(n, writer, Line, pref, session, snapshot) /\ PastOf(n, writer, Line, Past, session, snapshot)
  BY Known, PastKnown
<1>2. Past' = Past
  BY HistoryStays
<1>3. Line'.disk = Line.disk /\ (Line'.entered => Line.entered /\ Line'.queue[1] = Line.queue[1])
  BY DEF Line
<1>4. Recorded(n, Line', Past)
  <2>1. Recorded(n, Line, Past)
    BY PastKnown
  <2> HIDE DEF n
  <2>2. QED
    BY <1>3, <2>1, RecordedLater
<1> HIDE DEF n
<1>5. PastOf(n, writer', Line', Past, session', snapshot')
  BY <1>1, <1>4, NobodyPast DEF n
<1>6. QED
  BY <1>2, <1>5, PastStep DEF n

(* So is one where the coordinator stands still.                           *)
LEMMA StillPast ==
  ASSUME IInv, PInv, edits' = edits, UNCHANGED history, disk' = disk, writer' = writer,
         entered' => entered /\ queue'[1] = queue[1],
         \A q \in Pages : session'[q].open => session[q].open /\ Same(session[q], session'[q]),
         \/ snapshot' = None \/ snapshot' = snapshot
         \/ \E q \in Pages : session[q].open /\ Same(session[q], snapshot'.s)
  PROVE  PInv'
<1>1. Moves(edits + 1, writer, writer', 0) /\ Silent(writer, writer')
  BY Known, SoundPages, StandsStill DEF Silent
<1>2. QED
  BY <1>1, CalmPast

LEMMA SameSame == \A s : Same(s, s)
BY DEF Same, Shows

LEMMA ContextPast ==
  ASSUME IInv, PInv, NEW p \in Pages, ContextChanged(p)
  PROVE  PInv'
<1>1. PICK t : /\ session' = [session EXCEPT ![p] = t]
               /\ \E c, state : t = [[session[p] EXCEPT !.context = c] EXCEPT !.state = state]
  <2>1. PICK c \in Contexts : \E state :
          session' = [session EXCEPT ![p] = [[session[p] EXCEPT !.context = c] EXCEPT !.state = state]]
    BY DEF ContextChanged
  <2>2. PICK state :
          session' = [session EXCEPT ![p] = [[session[p] EXCEPT !.context = c] EXCEPT !.state = state]]
    BY <2>1
  <2>3. WITNESS [[session[p] EXCEPT !.context = c] EXCEPT !.state = state]
  <2>4. QED
    BY <2>2
<1>2. /\ session[p].open /\ edits' = edits /\ writer' = writer /\ snapshot' = snapshot
      /\ UNCHANGED <<disk, queue, entered, results>> /\ UNCHANGED history
  BY DEF ContextChanged, Live, storage, store
<1>3. session \in [Pages -> SessionsTo(edits + 1)]
  BY Known
<1>4. ASSUME NEW q \in Pages, session'[q].open PROVE session[q].open /\ Same(session[q], session'[q])
  <2>1. CASE q = p
    <3>1. session[p] \in SessionsTo(edits + 1) /\ session'[p] = t
      BY <1>1, <1>3
    <3>2. Same(session[p], session'[p])
      BY <1>1, <3>1 DEF SessionsTo, Same, Shows
    <3>3. QED
      BY <1>2, <2>1, <3>2
  <2>2. CASE q # p
    <3>1. session'[q] = session[q]
      BY <1>1, <1>3, <2>2
    <3>2. QED
      BY <1>4, <3>1, SameSame
  <2>3. QED
    BY <2>1, <2>2
<1>5. QED
  BY <1>2, <1>4, StillPast

LEMMA ExportPast ==
  ASSUME IInv, PInv, NEW p \in Pages, ExportSnapshot(p)
  PROVE  PInv'
<1> DEFINE s == session[p]
<1>1. PICK d : snapshot' = [page |-> p, s |-> [s EXCEPT !.pending = d, !.capture = None]]
  BY DEF ExportSnapshot
<1>2. /\ s.open /\ edits' = edits /\ writer' = writer /\ session' = session
      /\ UNCHANGED <<disk, queue, entered, results>> /\ UNCHANGED history
  BY DEF ExportSnapshot, Live, storage, store
<1>3. s \in SessionsTo(edits + 1)
  BY Known
<1>4. Same(s, snapshot'.s)
  BY <1>1, <1>3 DEF SessionsTo, Same, Shows
<1>5. \A q \in Pages : session'[q].open => session[q].open /\ Same(session[q], session'[q])
  BY <1>2, SameSame
<1>6. QED
  BY <1>2, <1>4, <1>5, StillPast

(* A page of its own, with the text of the snapshot or none.               *)
LEMMA OpenedPast ==
  ASSUME IInv, PInv, NEW p \in Pages, NEW t, session' = [session EXCEPT ![p] = t],
         t.open => Bypassed(writer, covered, t), edits' = edits, writer' = writer,
         snapshot' = None \/ snapshot' = snapshot,
         UNCHANGED <<disk, queue, entered, results>>, UNCHANGED history
  PROVE  PInv'
<1> DEFINE n == edits + 1
<1>1. /\ InvOf(n, writer, Line, pref, session, snapshot) /\ PastOf(n, writer, Line, Past, session, snapshot)
      /\ Recorded(n, Line, Past) /\ Fresh(writer, Past.covered) /\ Past.covered = covered
  BY Known, PastKnown
<1>2. Past' = Past /\ Line' = Line /\ Fewer(Past.covered, Past.covered)
  BY HistoryStays, LineStays DEF Fewer
<1>3. Moves(n, writer, writer, p)
  BY <1>1, SoundPages, StandsStill
<1> HIDE DEF n
<1>4. PastOf(n, writer, Line, Past, session', snapshot')
  BY <1>1, <1>2, <1>3, PagePast
<1>5. QED
  BY <1>2, <1>4, PastStep DEF n

LEMMA OpenPast ==
  ASSUME IInv, PInv, NEW p \in Pages, OpenPage(p)
  PROVE  PInv'
<1>1. PICK c \in Contexts : session' = [session EXCEPT ![p] = NewSession(TRUE, TRUE, c)]
  BY DEF OpenPage
<1>2. /\ edits' = edits /\ writer' = writer /\ snapshot' = snapshot
      /\ UNCHANGED <<disk, queue, entered, results>> /\ UNCHANGED history
  BY DEF OpenPage, storage, store
<1>3. Bypassed(writer, covered, NewSession(TRUE, TRUE, c))
  BY DEF Bypassed, NewSession
<1>4. QED
  BY <1>1, <1>2, <1>3, OpenedPast

LEMMA InstalledSame ==
  ASSUME NEW n, NEW s, NEW x \in SessionsTo(n)
  PROVE  Same(x, Installed(s, x))
BY DEF Installed, Same, Shows, SessionsTo

LEMMA CandidatePast ==
  ASSUME IInv, PInv, NEW p \in Pages, OpenCandidate(p)
  PROVE  PInv'
<1> DEFINE t == Installed(NewSession(TRUE, FALSE, None), snapshot.s)
<1>1. session' = [session EXCEPT ![p] = t] /\ snapshot' = None /\ snapshot # None
  BY DEF OpenCandidate
<1>2. /\ edits' = edits /\ writer' = writer
      /\ UNCHANGED <<disk, queue, entered, results>> /\ UNCHANGED history
  BY DEF OpenCandidate, storage, store
<1>3. /\ Orderly(edits + 1, writer) /\ Sound(edits + 1, writer, snapshot.s, snapshot.page)
      /\ Bypassed(writer, covered, snapshot.s)
  BY <1>1, Known, SoundPages, PastKnown
<1>4. Same(snapshot.s, t)
  BY <1>3, InstalledSame DEF Sound
<1> HIDE DEF t
<1>5. Bypassed(writer, covered, t)
  <2>1. Moves(edits + 1, writer, writer, 0) /\ Fewer(covered, covered)
    BY <1>3, StandsStill DEF Fewer
  <2>2. QED
    BY <1>3, <1>4, <2>1, BypassedLater DEF Same
<1>6. QED
  BY <1>1, <1>2, <1>5, OpenedPast

LEMMA EnteredDraft ==
  ASSUME IInv, entered
  PROVE  /\ queue # << >> /\ Line.queue[1].op = "write"
         /\ Line.queue[1].capture \in CapturesTo(edits + 1)
         /\ Line.queue[1].capture.draft \in Contexts
<1>1. Stored(edits + 1, Line) /\ Line.entered /\ Line.queue = queue
  BY Known DEF InvOf
<1>2. queue # << >> /\ Line.queue[1].op = "write" /\ 1 \in DOMAIN Line.queue
  BY <1>1 DEF Stored
<1>3. Line.queue[1].capture \in CapturesTo(edits + 1)
  BY <1>1, <1>2, JobsAndResults
<1>4. QED
  BY <1>2, <1>3 DEF CapturesTo

(* A text is taken back among those its draft may have.                    *)
LEMMA ReadmittedPast ==
  ASSUME IInv, PInv, NEW d \in Contexts, NEW text, Readmitted(d, text)
  PROVE  /\ Recorded(edits + 1, Line, Past') /\ Fewer(covered, covered') /\ text \notin covered'[d]
         /\ Past'.covered = covered' /\ covered' \in [Contexts -> SUBSET (1 .. edits + 1)]
<1> DEFINE n == edits + 1
<1>1. Readmitting(Past, Past', d, text) /\ Past'.covered = covered' /\ Past.covered = covered
  BY DEF Readmitted, Readmitting, Past
<1>2. Recorded(n, Line, Past) /\ (Line.entered => Line.queue[1].capture.draft \in Contexts)
  BY PastKnown, EnteredDraft, Known
<1> HIDE DEF n
<1>3. Recorded(n, Line, Past') /\ Fewer(Past.covered, Past'.covered) /\ text \notin Past'.covered[d]
  BY <1>1, <1>2, ReadmittingRecorded
<1>4. Past'.covered \in [Contexts -> SUBSET (1 .. n)]
  BY <1>3 DEF Recorded
<1>5. QED
  BY <1>1, <1>3, <1>4 DEF n

(* A restored session may have brought a text its draft never had.          *)
LEMMA BroughtPast ==
  ASSUME IInv, PInv, NEW w, NEW p, NEW t, NEW u, Sound(edits + 1, w, t, p), Brought(t, u)
  PROVE  /\ Recorded(edits + 1, Line, Past') /\ Fewer(covered, covered')
         /\ Past'.covered = covered' /\ covered' \in [Contexts -> SUBSET (1 .. edits + 1)]
         /\ Brings(t, u) => t.sql \notin covered'[t.bound]
<1>1. CASE Brings(t, u)
  <2>1. t.bound \in Contexts
    BY <1>1 DEF Brings, Stranger, Sound, Coherent, SessionsTo
  <2>2. Readmitted(t.bound, t.sql)
    BY <1>1 DEF Brought
  <2>3. QED
    BY <2>1, <2>2, ReadmittedPast
<1>2. CASE ~Brings(t, u)
  <2>1. UNCHANGED history
    BY <1>2 DEF Brought
  <2>2. Past' = Past /\ covered' = covered
    BY <2>1, HistoryStays DEF history
  <2>3. QED
    BY <1>2, <2>1, <2>2, PastKnown DEF Fewer
<1>3. QED
  BY <1>1, <1>2

(* The restored session of page p becomes the live one.                    *)
LEMMA ClaimedPast ==
  ASSUME IInv, PInv, edits' = edits, Line' = Line, NEW p \in Pages, NEW g, NEW t, NEW u,
         Moves(edits + 1, writer, g, p), Silent(writer, g), Moves(edits + 1, g, u.w, p),
         Sound(edits + 1, g, t, p), Bypassed(g, covered, t), Claims(g, t, u.w, u.s), Brought(t, u),
         writer' = u.w, session' = [session EXCEPT ![p] = u.s], snapshot' = None \/ snapshot' = snapshot
  PROVE  PInv'
<1> DEFINE n == edits + 1
<1>1. /\ InvOf(n, writer, Line, pref, session, snapshot) /\ PastOf(n, writer, Line, Past, session, snapshot)
      /\ Fresh(writer, covered) /\ Past.covered = covered
  BY Known, PastKnown
<1>2. Orderly(n, writer) /\ Orderly(n, g)
  BY <1>1, SoundPages DEF Moves
<1>3. /\ Recorded(n, Line, Past') /\ Fewer(covered, covered') /\ Past'.covered = covered'
      /\ covered' \in [Contexts -> SUBSET (1 .. n)]
      /\ Brings(t, u) => t.sql \notin covered'[t.bound]
  BY BroughtPast
<1> DEFINE v == u.w
           y == u.s
<1>4. /\ Moves(n, writer, g, p) /\ Moves(n, g, v, p) /\ Sound(n, g, t, p) /\ Claims(g, t, v, y)
      /\ (Stranger(t) /\ y.origin # t.origin /\ y.origin.draft = t.bound => t.sql \notin covered'[t.bound])
      /\ writer' = v /\ session' = [session EXCEPT ![p] = y]
  BY <1>3 DEF Brings
<1> HIDE DEF n, v, y
<1>5. Fresh(g, covered)
  <2>1. Fewer(covered, covered)
    BY DEF Fewer
  <2>2. QED
    BY <1>1, <2>1, FreshLater
<1>6. Fresh(v, covered') /\ Bypassed(v, covered', y)
  BY <1>2, <1>3, <1>4, <1>5, ClaimsPast
<1>7. Moves(n, writer, v, p)
  BY <1>2, <1>4, AdvanceTwice
<1>8. PastOf(n, v, Line, Past', session', snapshot')
  BY <1>1, <1>3, <1>4, <1>6, <1>7, PagePast
<1>9. QED
  BY <1>4, <1>8, PastStep DEF n

LEMMA ActivatePast ==
  ASSUME IInv, PInv, NEW p \in Pages, Activate(p)
  PROVE  PInv'
<1> DEFINE n == edits + 1
           s == session[p]
           t == [s EXCEPT !.active = TRUE]
           u == Claim(writer, pref, t, p)
<1>1. /\ writer' = u.w /\ session' = [session EXCEPT ![p] = u.s] /\ Brought(t, u)
  BY DEF Activate
<1>2. /\ s.open /\ ~s.active /\ edits' = edits /\ snapshot' = snapshot /\ Running
      /\ UNCHANGED <<disk, queue, entered, results>>
  BY DEF Activate, storage, store
<1>3. Line' = Line /\ writer.intake /\ n \in Texts
  BY <1>2, LineStays, Known DEF IInv
<1>4. /\ InvOf(n, writer, Line, pref, session, snapshot) /\ Orderly(n, writer)
      /\ Tended(n, Line, writer, pref, s, p) /\ s \in SessionsTo(n) /\ Bypassed(writer, covered, s)
  BY <1>2, Known, PastKnown DEF InvOf
<1>5. Freed(writer, p)
  BY <1>2, <1>4 DEF Tended, Owns, Freed
<1>6. /\ t.open /\ t.active /\ t.closing = s.closing /\ t.sql = s.sql /\ t.context = s.context
      /\ t.savedSql = s.savedSql /\ t.bound = s.bound /\ t.savedContext = s.savedContext
      /\ t.deleted = s.deleted /\ t.capture = s.capture /\ t.origin = s.origin
      /\ t.overtaken = s.overtaken /\ t \in SessionsTo(n)
  BY <1>2, <1>4 DEF SessionsTo
<1> HIDE DEF n, s, t
<1>7. Sound(n, writer, t, p) /\ Backed(Line, writer, t) /\ Bypassed(writer, covered, t)
  <2>1. Sound(n, writer, s, p) /\ Backed(Line, writer, s)
    BY <1>4 DEF Tended
  <2>2. Sound(n, writer, t, p)
    BY <1>2, <1>6, <2>1 DEF Sound, Coherent, Acked
  <2>3. Backed(Line, writer, t)
    BY <1>6, <2>1 DEF Backed, Kept, Acked
  <2>4. Bypassed(writer, covered, t)
    BY <1>4, <1>6 DEF Bypassed, Superseded
  <2>5. QED
    BY <2>2, <2>3, <2>4
<1>8. Moves(n, writer, u.w, p) /\ Claims(writer, t, u.w, u.s)
  BY <1>3, <1>4, <1>5, <1>6, <1>7, ClaimServes, ClaimTracks, FreedOwns
<1>9. Moves(n, writer, writer, p) /\ Silent(writer, writer)
  BY <1>4, StandsStill DEF Silent
<1> HIDE DEF u
<1>10. QED
  BY <1>1, <1>2, <1>3, <1>7, <1>8, <1>9, ClaimedPast DEF n

LEMMA InstallPast ==
  ASSUME IInv, PInv, NEW p \in Pages, InstallSnapshot(p)
  PROVE  PInv'
<1> DEFINE n == edits + 1
           s == session[p]
           g == Release(Revoke(writer, s), s)
           x == snapshot.s
           t == Installed(s, x)
           u == Claim(g, pref, t, p)
<1>1. /\ writer' = u.w /\ session' = [session EXCEPT ![p] = u.s] /\ snapshot' = None /\ Brought(t, u)
  BY DEF InstallSnapshot
<1>2. /\ s.open /\ s.active /\ edits' = edits /\ snapshot # None /\ Running
      /\ UNCHANGED <<disk, queue, entered, results>>
  BY DEF InstallSnapshot, Live, storage, store
<1>3. Line' = Line /\ writer.intake /\ n \in Texts
  BY <1>2, LineStays, Known DEF IInv
<1>4. /\ InvOf(n, writer, Line, pref, session, snapshot) /\ Orderly(n, writer)
      /\ Tended(n, Line, writer, pref, s, p) /\ Carried(n, Line, writer, snapshot)
      /\ Bypassed(writer, covered, x)
  BY <1>2, Known, PastKnown DEF InvOf
<1> HIDE DEF n
<1>5. Moves(n, writer, g, p) /\ g.latest = writer.latest /\ Freed(g, p) /\ Silent(writer, g)
  BY <1>2, <1>3, <1>4, GivenUp
<1> HIDE DEF g
<1>6. Orderly(n, g) /\ g.intake /\ Carried(n, Line, g, snapshot)
  BY <1>3, <1>4, <1>5, CarriedMoves DEF Moves
<1>7. /\ Sound(n, g, x, snapshot.page) /\ Backed(Line, g, x) /\ Honest(x)
      /\ x.capture = None /\ x.open /\ x \in SessionsTo(n)
  BY <1>2, <1>6 DEF Carried, Sound
<1>8. s.editor \in Nat /\ s.active \in BOOLEAN
  BY <1>4 DEF Tended, Sound, SessionsTo
<1>9. Same(x, t)
  BY <1>7, InstalledSame
<1> HIDE DEF s, x
<1>10. Sound(n, g, t, p) /\ Backed(Line, g, t) /\ t.open /\ t.active
  <2>1. Sound(n, g, t, p) /\ Backed(Line, g, t) /\ t.open /\ t.active = s.active
    BY <1>3, <1>7, <1>8, InstalledIsSound
  <2>2. QED
    BY <1>2, <2>1
<1> HIDE DEF t
<1>11. Bypassed(g, covered, t)
  <2>1. Sound(n, writer, x, snapshot.page) /\ Fewer(covered, covered)
    BY <1>2, <1>4 DEF Carried, Fewer, x
  <2>2. QED
    BY <1>4, <1>5, <1>9, <2>1, BypassedLater DEF Same
<1>12. Moves(n, g, u.w, p) /\ Claims(g, t, u.w, u.s)
  BY <1>3, <1>5, <1>6, <1>10, ClaimServes, ClaimTracks, FreedOwns
<1> HIDE DEF u
<1>13. QED
  BY <1>1, <1>2, <1>3, <1>5, <1>10, <1>11, <1>12, ClaimedPast DEF n


(* What is first in line stays first.                                      *)
LEMMA StillFirst ==
  ASSUME NEW S, NEW q \in Seq(S), NEW t \in Seq(S), q # << >>
  PROVE  (q \o t)[1] = q[1]
OBVIOUS

LEMMA EnteredStays ==
  ASSUME IInv, NEW jobs \in Seq(JobsTo(edits + 1)), queue' = queue \o jobs, entered' = entered
  PROVE  entered' => entered /\ queue'[1] = queue[1]
<1>1. queue \in Seq(JobsTo(edits + 1))
  BY Known DEF InvOf, Stored
<1>2. entered => queue # << >>
  BY EnteredDraft
<1>3. QED
  BY <1>1, <1>2, StillFirst

LEMMA SaidBypassed ==
  ASSUME NEW w, NEW c, NEW s, NEW t, Bypassed(w, c, s), Same(s, t)
  PROVE  Bypassed(w, c, t)
BY DEF Bypassed, Same, Shows, Superseded

LEMMA StandsRestarts ==
  ASSUME NEW w, NEW s
  PROVE  Restarts(w, s, w, s)
BY DEF Restarts, MayTrack, Shows, Silent

(* A page has come to its end.                                             *)
LEMMA EndedPast ==
  ASSUME NEW n, NEW w, NEW m, NEW k, NEW r, NEW h, NEW ss, NEW tt, NEW x, NEW p \in Pages, NEW u, NEW t,
         InvOf(n, w, m, r, ss, x), PastOf(n, w, m, h, ss, x), ss[p].open,
         Ends(n, m, w, r, ss[p], p, u), Restarts(w, ss[p], u.w, u.s), t.open => Same(u.s, t),
         k.disk = m.disk, k.entered => m.entered /\ k.queue[1] = m.queue[1],
         tt = [ss EXCEPT ![p] = t]
  PROVE  PastOf(n, u.w, k, h, tt, x)
<1> DEFINE c == h.covered
           s == ss[p]
           v == u.w
<1>1. Orderly(n, w) /\ Sound(n, w, s, p)
  BY SoundPages
<1>2. Moves(n, w, v, p)
  <2>1. PICK y, ids : Moves(n, w, y, p) /\ u.w = Launch(y, ids)
    BY DEF Ends
  <2>2. Orderly(n, y)
    BY <2>1 DEF Moves
  <2>3. Moves(n, y, u.w, p)
    BY <2>1, <2>2, LaunchMoves
  <2>4. QED
    BY <1>1, <2>1, <2>3, AdvanceTwice
<1>3. Recorded(n, m, h) /\ Fresh(w, c) /\ Bypassed(w, c, s) /\ c \in [Contexts -> SUBSET (1 .. n)]
  BY DEF PastOf, Recorded
<1>4. Recorded(n, k, h)
  BY <1>3, RecordedLater
<1>5. Fewer(c, c)
  BY DEF Fewer
<1>6. MayTrack(w, s, v, u.s)
  BY DEF Restarts
<1>7. u.s.origin # s.origin /\ s.sql # 0 => s.sql \notin c[s.bound]
  BY <1>3 DEF Restarts, Fresh
<1> HIDE DEF c, s, v
<1>8. Fresh(v, c) /\ Bypassed(v, c, u.s)
  BY <1>1, <1>2, <1>3, <1>5, <1>6, <1>7, MayTrackPast
<1>9. t.open => Bypassed(v, c, t)
  BY <1>8, SaidBypassed
<1>10. PastOf(n, v, k, h, tt, x)
  BY <1>2, <1>4, <1>5, <1>8, <1>9, PagePast DEF c
<1>11. QED
  BY <1>10 DEF v

LEMMA ClosePast ==
  ASSUME IInv, PInv, NEW p \in Pages, ClosePage(p)
  PROVE  PInv'
<1> DEFINE s == session[p]
           u == IF pref.enabled THEN PrepareFinal(writer, pref, s, p)
                ELSE [w |-> writer, s |-> s, jobs |-> << >>]
           t == [u.s EXCEPT !.closing = TRUE]
           n == edits + 1
<1>1. writer' = u.w /\ session' = [session EXCEPT ![p] = t] /\ queue' = queue \o u.jobs
  BY DEF ClosePage
<1>2. /\ s.open /\ edits' = edits /\ UNCHANGED <<disk, entered, results>>
      /\ snapshot' = snapshot /\ UNCHANGED history
  BY DEF ClosePage, Live, storage, store
<1>3. /\ n \in Texts /\ InvOf(n, writer, Line, pref, session, snapshot)
      /\ PastOf(n, writer, Line, Past, session, snapshot)
  BY Known, PastKnown
<1>4. Orderly(n, writer) /\ Sound(n, writer, s, p) /\ Owns(writer, s, p)
      /\ Tended(n, Line, writer, pref, s, p) /\ Quiet(writer, pref)
  BY <1>3, SoundPages DEF InvOf
<1>5. Ends(n, Line, writer, pref, s, p, u) /\ Restarts(writer, s, u.w, u.s)
  <2>1. CASE pref.enabled
    <3>1. u = PrepareFinal(writer, pref, s, p)
      BY <2>1
    <3> HIDE DEF u, n
    <3>2. Restarts(writer, s, u.w, u.s)
      BY <1>2, <1>3, <1>4, <3>1, PrepareFinalTracks
    <3>3. Ends(n, Line, writer, pref, s, p, u)
      BY <1>2, <1>3, <3>1, FinalEnds
    <3>4. QED
      BY <3>2, <3>3
  <2>2. CASE ~pref.enabled
    <3>1. u = [w |-> writer, s |-> s, jobs |-> << >>]
      BY <2>2
    <3>2. u.w = writer /\ u.s = s /\ u.jobs = << >>
      BY <3>1
    <3> HIDE DEF u, s, n
    <3>3. Ends(n, Line, writer, pref, s, p, u)
      BY <1>4, <3>2, StandsEnds, Zenon
    <3>4. Restarts(writer, s, u.w, u.s)
      BY <3>2, StandsRestarts
    <3>5. QED
      BY <3>3, <3>4
  <2>3. QED
    BY <2>1, <2>2
<1> HIDE DEF u, s
<1>6. Same(u.s, t)
  <2>1. u.s \in SessionsTo(n)
    <3>1. \E v : Tended(n, Line, v, pref, u.s, p)
      BY <1>5 DEF Ends
    <3>2. QED
      BY <3>1 DEF Tended, Sound
  <2>2. QED
    BY <2>1 DEF SessionsTo, Same, Shows
<1>7. Line'.disk = Line.disk /\ (Line'.entered => Line.entered /\ Line'.queue[1] = Line.queue[1])
  <2>1. entered' => entered /\ queue'[1] = queue[1]
    BY <1>1, <1>2, <1>5, EnteredStays DEF Ends
  <2>2. QED
    BY <1>2, <2>1 DEF Line
<1>8. Past' = Past
  BY <1>2, HistoryStays
<1> HIDE DEF t, n
<1>9. PastOf(n, u.w, Line', Past, session', snapshot)
  BY <1>1, <1>2, <1>3, <1>5, <1>6, <1>7, EndedPast DEF s
<1>10. QED
  BY <1>1, <1>2, <1>8, <1>9, PastStep DEF n

LEMMA DetachPast ==
  ASSUME IInv, PInv, NEW p \in Pages, Detach(p)
  PROVE  PInv'
<1> DEFINE s == session[p]
           u == PrepareFinal(writer, pref, s, p)
           n == edits + 1
<1>1. writer' = u.w /\ session' = [session EXCEPT ![p] = Retired] /\ queue' = queue \o u.jobs
  BY DEF Detach
<1>2. /\ s.open /\ edits' = edits /\ UNCHANGED <<disk, entered, results>>
      /\ snapshot' = snapshot /\ UNCHANGED history
  BY DEF Detach, storage, store
<1>3. /\ n \in Texts /\ InvOf(n, writer, Line, pref, session, snapshot)
      /\ PastOf(n, writer, Line, Past, session, snapshot)
  BY Known, PastKnown
<1>4. Orderly(n, writer) /\ Sound(n, writer, s, p) /\ Owns(writer, s, p)
  BY <1>3, SoundPages
<1> HIDE DEF n
<1>5. Ends(n, Line, writer, pref, s, p, u)
  BY <1>2, <1>3, FinalEnds
<1>6. Restarts(writer, s, u.w, u.s)
  BY <1>2, <1>3, <1>4, PrepareFinalTracks
<1> HIDE DEF u, s
<1>7. Line'.disk = Line.disk /\ (Line'.entered => Line.entered /\ Line'.queue[1] = Line.queue[1])
  <2>1. entered' => entered /\ queue'[1] = queue[1]
    BY <1>1, <1>2, <1>5, EnteredStays DEF Ends, n
  <2>2. QED
    BY <1>2, <2>1 DEF Line
<1>8. Past' = Past
  BY <1>2, HistoryStays
<1>9. Retired.open = FALSE
  BY DEF Retired, Detached, NewSession
<1>10. PastOf(n, u.w, Line', Past, session', snapshot)
  BY <1>1, <1>2, <1>3, <1>5, <1>6, <1>7, <1>9, EndedPast DEF s
<1>11. QED
  BY <1>1, <1>2, <1>8, <1>10, PastStep DEF n

\* The coordinator has the same revisions and the same current writes.
Unmoved(w, v) == v.latest = w.latest /\ v.current = w.current

LEMMA UnmovedPast ==
  ASSUME NEW n, NEW w, NEW v, NEW m, NEW h, NEW ss, NEW x, PastOf(n, w, m, h, ss, x), Unmoved(w, v)
  PROVE  PastOf(n, v, m, h, ss, x)
<1>1. \A c, s : Bypassed(w, c, s) => Bypassed(v, c, s)
  BY DEF Bypassed, Superseded, Unmoved
<1>2. Fresh(v, h.covered)
  BY DEF PastOf, Fresh, Unmoved
<1>3. QED
  BY <1>1, <1>2 DEF PastOf

LEMMA ClosedUnmoved ==
  ASSUME NEW n, NEW w, Orderly(n, w)
  PROVE  Unmoved(w, Closed(w))
BY DEF Closed, Launch, Unmoved, Orderly, WritersTo

(* Shutdown: the live page comes to its end, and all timers stop.           *)
LEMMA ShutdownPast ==
  ASSUME IInv, PInv, Shutdown
  PROVE  PInv'
<1> DEFINE n == edits + 1
           p == CHOOSE p \in LivePages : TRUE
           u == IF LivePages = {} THEN [w |-> writer, jobs |-> << >>]
                ELSE PrepareFinal(writer, pref, session[p], p)
           tt == IF LivePages = {} THEN session ELSE [session EXCEPT ![p] = u.s]
<1>1. /\ edits' = edits /\ snapshot' = snapshot /\ UNCHANGED <<disk, entered, results>>
      /\ UNCHANGED history
  BY Zenon DEF Shutdown, storage, store
<1>2. /\ n \in Texts /\ InvOf(n, writer, Line, pref, session, snapshot)
      /\ PastOf(n, writer, Line, Past, session, snapshot) /\ Orderly(n, writer)
  BY Known, PastKnown, SoundPages
<1>3. Drains(u, tt)
  <2>1. u.w.timers = {d \in u.w.timers : TRUE}
    OBVIOUS
  <2>2. /\ \E order \in SetToSeqs({d \in u.w.timers : TRUE}) :
             queue' = queue \o u.jobs \o [i \in DOMAIN order |-> WriteJob(u.w.current[order[i]])]
        /\ writer' = [Launch(u.w, {d \in u.w.timers : TRUE}) EXCEPT !.intake = FALSE]
        /\ session' = tt
    BY Zenon DEF Shutdown
  <2> HIDE DEF u, tt
  <2>3. QED
    BY <2>1, <2>2, Zenon DEF Drains, WritesOf, Closed
<1>4. /\ u.jobs \in Seq(JobsTo(n)) /\ Orderly(n, u.w)
      /\ \A k : k.disk = disk /\ (k.entered => entered /\ k.queue[1] = queue[1]) =>
           PastOf(n, u.w, k, Past, tt, snapshot)
  <2>1. CASE LivePages = {}
    <3>1. u.w = writer /\ u.jobs = << >> /\ tt = session
      BY <2>1, Zenon
    <3>2. << >> \in Seq(JobsTo(n))
      OBVIOUS
    <3> HIDE DEF u, tt, n
    <3>3. ASSUME NEW k, k.disk = disk, k.entered => entered /\ k.queue[1] = queue[1]
          PROVE  PastOf(n, writer, k, Past, session, snapshot)
      <4>1. k.disk = Line.disk /\ (k.entered => Line.entered /\ k.queue[1] = Line.queue[1])
        BY <3>3 DEF Line
      <4>2. Recorded(n, k, Past)
        BY <1>2, <4>1, RecordedLater DEF PastOf
      <4>3. QED
        BY <1>2, <4>2 DEF PastOf
    <3>4. QED
      BY <1>2, <3>1, <3>2, <3>3
  <2>2. CASE LivePages # {}
    <3>1. p \in Pages /\ session[p].open
      BY <2>2 DEF LivePages
    <3> HIDE DEF p
    <3>2. u = PrepareFinal(writer, pref, session[p], p) /\ tt = [session EXCEPT ![p] = u.s]
      BY <2>2, Zenon
    <3> HIDE DEF u, tt, n
    <3>3. Orderly(n, writer) /\ Sound(n, writer, session[p], p) /\ Owns(writer, session[p], p)
      BY <1>2, <3>1, SoundPages
    <3>4. Ends(n, Line, writer, pref, session[p], p, u)
      BY <1>2, <3>1, <3>2, FinalEnds
    <3>5. Restarts(writer, session[p], u.w, u.s)
      BY <1>2, <3>1, <3>2, <3>3, PrepareFinalTracks
    <3>6. ASSUME NEW k, k.disk = disk, k.entered => entered /\ k.queue[1] = queue[1]
          PROVE  PastOf(n, u.w, k, Past, tt, snapshot)
      <4>1. k.disk = Line.disk /\ (k.entered => Line.entered /\ k.queue[1] = Line.queue[1])
        BY <3>6 DEF Line
      <4>2. Same(u.s, u.s)
        BY SameSame
      <4>3. QED
        BY <1>2, <3>1, <3>2, <3>4, <3>5, <4>1, <4>2, EndedPast
    <3>7. u.jobs \in Seq(JobsTo(n)) /\ Orderly(n, u.w)
      <4>1. PICK y, ids : Moves(n, writer, y, p) /\ u.w = Launch(y, ids)
        BY <3>4 DEF Ends
      <4>2. Orderly(n, y)
        BY <4>1 DEF Moves
      <4>3. Moves(n, y, u.w, p)
        BY <4>1, <4>2, LaunchMoves
      <4>4. QED
        BY <3>4, <4>3 DEF Ends, Moves
    <3>8. QED
      BY <3>6, <3>7
  <2>3. QED
    BY <2>1, <2>2
<1> HIDE DEF u, tt
<1>5. PICK order \in SetToSeqs(u.w.timers) : queue' = queue \o u.jobs \o WritesOf(u.w, order)
  BY <1>3 DEF Drains
<1>6. WritesOf(u.w, order) \in Seq(JobsTo(n))
  BY <1>4, AllWrites DEF WritesOf
<1>7. entered' => entered /\ queue'[1] = queue[1]
  <2>1. queue \in Seq(JobsTo(n))
    BY <1>2, Known DEF InvOf, Stored
  <2> HIDE DEF n
  <2>2. entered => queue # << >>
    BY EnteredDraft
  <2> DEFINE z == queue \o u.jobs
  <2>3. z \in Seq(JobsTo(n)) /\ (queue # << >> => z # << >> /\ z[1] = queue[1])
    BY <1>4, <2>1
  <2>4. queue' = z \o WritesOf(u.w, order)
    BY <1>5
  <2> HIDE DEF z
  <2>5. queue # << >> => queue'[1] = queue[1]
    BY <1>6, <2>3, <2>4, StillFirst
  <2>6. QED
    BY <1>1, <2>2, <2>5
<1>8. PastOf(n, u.w, Line', Past, tt, snapshot)
  <2>1. Line'.disk = disk /\ (Line'.entered => entered /\ Line'.queue[1] = queue[1])
    BY <1>1, <1>7 DEF Line
  <2>2. QED
    BY <1>4, <2>1
<1>9. Unmoved(u.w, writer')
  BY <1>3, <1>4, ClosedUnmoved DEF Drains
<1> HIDE DEF n
<1>10. PastOf(n, writer', Line', Past, tt, snapshot)
  BY <1>8, <1>9, UnmovedPast
<1>11. Past' = Past /\ session' = tt
  BY <1>1, <1>3, HistoryStays DEF Drains
<1>12. QED
  BY <1>1, <1>10, <1>11, PastStep DEF n

(* The stored text of a context is taken back into the live editor.         *)
LEMMA TakenBack ==
  ASSUME NEW n, NEW m, NEW h, NEW g, NEW d \in Contexts, Recorded(n, m, h), ~m.entered,
         g.covered = Readmit(h.covered, d, m.disk[d]), g.erased = h.erased, g.replaced = h.replaced
  PROVE  /\ Recorded(n, m, g) /\ Fewer(h.covered, g.covered)
         /\ m.disk[d] \notin g.covered[d]
<1> DEFINE j == m.disk[d]
<1>1. Thinned(n, h.covered, g.covered, d, j)
  BY ReadmitThins DEF Recorded
<1>2. /\ g.covered \in [Contexts -> SUBSET (1 .. n)] /\ Fewer(h.covered, g.covered)
      /\ g.covered[d] = h.covered[d] \ {m.disk[d]}
      /\ \A e \in Contexts \ {d} : g.covered[e] = h.covered[e]
  BY <1>1 DEF Thinned
<1>3. ASSUME NEW e \in Contexts
      PROVE  /\ g.erased[e] \subseteq g.covered[e] /\ g.replaced[e] \subseteq g.covered[e]
             /\ m.disk[e] \notin g.erased[e] /\ m.disk[e] \notin g.replaced[e]
  BY <1>2 DEF Recorded
<1>4. QED
  BY <1>2, <1>3 DEF Recorded

LEMMA RecoverPast ==
  ASSUME IInv, PInv, NEW p \in Pages, Recover(p)
  PROVE  PInv'
<1> DEFINE s == session[p]
           d == s.context
           g == Release(writer, s)
           t == Renewed(g, d)
           y == Recovered(s, d, disk[d], t.sequence)
           n == edits + 1
<1>1. /\ writer' = t /\ session' = [session EXCEPT ![p] = y]
      /\ covered' = Readmit(covered, d, disk[d]) /\ erased' = erased /\ replaced' = replaced
  BY Zenon DEF Recover, Recovered, Renewed
<1>2. /\ s.open /\ s.active /\ disk[d] # 0 /\ queue = << >> /\ edits' = edits
      /\ snapshot' = snapshot /\ UNCHANGED <<disk, queue, entered, results>>
  BY Zenon DEF Recover, Live, Request, storage, store
<1>3. Line' = Line
  BY <1>2, LineStays, Zenon
<1>4. /\ n \in Texts /\ InvOf(n, writer, Line, pref, session, snapshot)
      /\ PastOf(n, writer, Line, Past, session, snapshot) /\ Recorded(n, Line, Past)
      /\ Fresh(writer, covered) /\ Past.covered = covered /\ Past.erased = erased
      /\ Past.replaced = replaced
  BY Known, PastKnown
<1>5. Orderly(n, writer) /\ Sound(n, writer, s, p) /\ Owns(writer, s, p) /\ s \in SessionsTo(n)
  BY <1>4, SoundPages DEF Sound
<1>6. d \in Contexts /\ s.origin \in Origins \union {None} /\ Traces(writer, s, p)
  BY <1>2, <1>5, OwnsTraces DEF Sound, Coherent, SessionsTo
<1>7. ~Line.entered
  BY <1>2, EnteredDraft, Known
<1>8. disk[d] \in 0 .. n /\ Line.disk = disk
  BY <1>4, <1>6, Known DEF InvOf, Stored
<1> HIDE DEF n, s, d, g
<1>9. Moves(n, writer, g, p) /\ g.latest = writer.latest
  BY <1>4, <1>5, <1>6, ReleaseMoves DEF g
<1>10. Orderly(n, g) /\ Silent(writer, g)
  BY <1>5, <1>9, SilentMove DEF Moves
<1> HIDE DEF t
<1>11. Renews(n, g, t, d, p)
  BY <1>4, <1>6, <1>10, RenewedMoves DEF t
<1>12. /\ Moves(n, g, t, p) /\ t.latest[d] = t.sequence /\ t.current[d] = None
       /\ \A e \in Contexts \ {d} : t.current[e] = g.current[e]
  BY <1>11 DEF Renews
<1>13. Moves(n, writer, t, p)
  BY <1>5, <1>9, <1>12, AdvanceTwice
<1>14. Silent(writer, t) /\ t.sequence \in Nat
  BY <1>10, <1>12 DEF Silent, Moves, Orderly, WritersTo
<1>15. Past'.covered = covered' /\ Past'.erased = erased /\ Past'.replaced = replaced
  BY <1>1 DEF Past
<1>16. /\ Recorded(n, Line, Past') /\ Fewer(covered, covered') /\ disk[d] \notin covered'[d]
  BY <1>1, <1>4, <1>6, <1>7, <1>8, <1>15, TakenBack
<1>17. Fresh(t, covered')
  BY <1>4, <1>14, <1>16, FreshLater
<1>18. Bypassed(t, covered', y)
  <2>1. y.sql = disk[d] /\ y.bound = d
    BY <1>5, <1>6, <1>8, <1>14, RecoveredFields
  <2>2. QED
    BY <1>16, <2>1 DEF Bypassed
<1> HIDE DEF y
<1>19. PastOf(n, t, Line, Past', session', snapshot)
  <2> DEFINE h == Past
             k == Past'
             tt == session'
  <2>1. /\ Recorded(n, Line, k) /\ Fewer(h.covered, k.covered) /\ Fresh(t, k.covered)
        /\ Bypassed(t, k.covered, y)
    BY <1>4, <1>15, <1>16, <1>17, <1>18
  <2>2. /\ InvOf(n, writer, Line, pref, session, snapshot)
        /\ PastOf(n, writer, Line, h, session, snapshot) /\ tt = [session EXCEPT ![p] = y]
    BY <1>1, <1>4
  <2> HIDE DEF h, k, tt
  <2>3. PastOf(n, t, Line, k, tt, snapshot)
    BY <1>13, <2>1, <2>2, PagePast
  <2>4. QED
    BY <2>3 DEF k, tt
<1>20. QED
  BY <1>1, <1>2, <1>3, <1>19, PastStep DEF n

-----------------------------------------------------------------------------
(* The timers and the requests.                                            *)

LEMMA TimerPast ==
  ASSUME IInv, PInv, TimerFires
  PROVE  PInv'
<1> DEFINE n == edits + 1
<1>1. PICK d \in writer.timers :
        writer' = Launch(writer, {d}) /\ queue' = Append(queue, WriteJob(writer.current[d]))
  BY DEF TimerFires
<1>2. /\ edits' = edits /\ UNCHANGED <<disk, entered, results>> /\ UNCHANGED history
      /\ snapshot' = snapshot /\ session' = session
  BY DEF TimerFires, storage, store
<1>3. Orderly(n, writer) /\ queue \in Seq(JobsTo(n))
  BY Known, SoundPages DEF InvOf, Stored
<1>4. WriteJob(writer.current[d]) \in JobsTo(n)
  BY <1>1, <1>3, TimedWrites
<1>5. entered' => entered /\ queue'[1] = queue[1]
  <2>1. entered => queue # << >>
    BY EnteredDraft
  <2> DEFINE e == WriteJob(writer.current[d])
  <2> HIDE DEF e, n
  <2>2. queue # << >> => Append(queue, e)[1] = queue[1]
    BY <1>3, <1>4 DEF e
  <2>3. QED
    BY <1>1, <1>2, <2>1, <2>2 DEF e
<1> HIDE DEF n
<1>6. Moves(n, writer, writer', 0) /\ Silent(writer, writer')
  <2>1. Moves(n, writer, writer', 0) /\ writer'.latest = writer.latest
    BY <1>1, <1>3, LaunchMoves
  <2>2. QED
    BY <1>3, <2>1, SilentMove
<1>7. \A q \in Pages : session'[q].open => session[q].open /\ Same(session[q], session'[q])
  BY <1>2, SameSame
<1>8. QED
  BY <1>2, <1>5, <1>6, <1>7, CalmPast DEF n

(* A deletion leaves a draft's texts behind; whoever has one has lost it.   *)
LEMMA DestroyedBypassed ==
  ASSUME NEW n, NEW w, NEW v, NEW p, NEW q, NEW s, NEW b, NEW c, NEW known, NEW ids, Orderly(n, w),
         Moves(n, w, v, p), Destroyed(w, v, known, ids), Sound(n, w, s, q), Bypassed(w, b, s),
         \A d \in Contexts \ ids : c[d] = b[d], \A d \in ids : d \in known \/ w.latest[d] = 0
  PROVE  Bypassed(v, c, s)
<1>1. SUFFICES ASSUME s.sql # 0, s.sql \in c[s.bound], s.deleted = FALSE, s.origin # None,
                      s.origin.draft = s.bound
               PROVE  Superseded(v, s)
  BY DEF Bypassed, Sound, SessionsTo
<1>2. /\ s.bound \in Contexts /\ s.origin \in Origins /\ s.origin.rev \in Nat /\ 0 < s.origin.rev
      /\ s.origin.rev <= w.sequence /\ w.sequence \in Nat
  BY <1>1 DEF Sound, SessionsTo, Coherent, Origins, Orderly, WritersTo
<1>3. CASE s.bound \in ids
  <2>1. v.latest[s.bound] = IF s.bound \in known THEN w.sequence + 1 ELSE w.latest[s.bound]
    BY <1>2 DEF Destroyed
  <2>2. v.latest[s.bound] # s.origin.rev
    BY <1>2, <1>3, <2>1
  <2>3. QED
    BY <1>1, <2>2 DEF Superseded
<1>4. CASE s.bound \notin ids
  <2>1. s.sql \in b[s.bound]
    BY <1>1, <1>2, <1>4
  <2>2. Superseded(w, s)
    BY <1>1, <2>1 DEF Bypassed
  <2>3. v.latest[s.bound] = w.latest[s.bound] \/ v.latest[s.bound] > w.sequence
    BY <1>2 DEF Moves, Advances
  <2>4. QED
    BY <1>1, <1>2, <2>2, <2>3 DEF Superseded
<1>5. QED
  BY <1>3, <1>4

LEMMA TombstoneBypassed ==
  ASSUME NEW n, NEW w, NEW c, NEW s \in SessionsTo(n), NEW ids, Bypassed(w, c, s)
  PROVE  Bypassed(w, c, Tombstone(s, ids)) /\ (Tombstone(s, ids).open => s.open)
<1> DEFINE t == Tombstone(s, ids)
<1>1. t = s \/ (t.deleted /\ t.open = s.open)
  BY DEF Tombstone, SessionsTo
<1> HIDE DEF t
<1>2. Bypassed(w, c, t) /\ (t.open => s.open)
  BY <1>1 DEF Bypassed
<1>3. QED
  BY <1>2 DEF t

(* More of what was typed is left behind, and nothing is stored.           *)
LEMMA RecordedMore ==
  ASSUME NEW n, NEW m, NEW k, NEW h, NEW g, Recorded(n, m, h), k.disk = m.disk,
         k.entered => m.entered /\ k.queue[1] = m.queue[1],
         g.covered \in [Contexts -> SUBSET (1 .. n)], Fewer(g.covered, h.covered),
         g.erased = h.erased, g.replaced = h.replaced
  PROVE  Recorded(n, k, g)
<1>1. ASSUME NEW d \in Contexts
      PROVE  /\ g.erased[d] \subseteq g.covered[d] /\ g.replaced[d] \subseteq g.covered[d]
             /\ k.disk[d] \notin g.erased[d] /\ k.disk[d] \notin g.replaced[d]
  BY DEF Recorded, Fewer
<1>2. k.entered => LET cap == k.queue[1].capture
                   IN  cap.sql \notin g.erased[cap.draft] /\ cap.sql \notin g.replaced[cap.draft]
  BY DEF Recorded
<1>3. QED
  BY <1>1, <1>2 DEF Recorded

LEMMA DestroyedPast ==
  ASSUME NEW n, NEW w, NEW v, NEW m, NEW k, NEW r, NEW h, NEW g, NEW ss, NEW tt, NEW x, NEW known, NEW ids,
         InvOf(n, w, m, r, ss, x), PastOf(n, w, m, h, ss, x), Moves(n, w, v, 0),
         Destroyed(w, v, known, ids), Recorded(n, k, g),
         \A d \in Contexts \ ids : g.covered[d] = h.covered[d],
         \A d \in ids : d \in known \/ w.latest[d] = 0,
         tt = [p \in Pages |-> Tombstone(ss[p], ids)]
  PROVE  PastOf(n, v, k, g, tt, x)
<1> DEFINE b == h.covered
           c == g.covered
<1>1. /\ Orderly(n, w) /\ (\A p \in Pages : Sound(n, w, ss[p], p)) /\ Fresh(w, b)
      /\ (x # None => Sound(n, w, x.s, x.page) /\ Bypassed(w, b, x.s))
      /\ \A p \in Pages : ss[p].open => Bypassed(w, b, ss[p])
  BY SoundPages DEF PastOf
<1>2. \A d \in Contexts \ ids : c[d] = b[d]
  OBVIOUS
<1>3. Fresh(v, c)
  <2>1. ASSUME NEW d \in Contexts, v.current[d] # None PROVE v.current[d].sql \notin c[d]
    <3>1. d \notin ids /\ v.current[d] = w.current[d]
      BY <2>1 DEF Destroyed
    <3>2. QED
      BY <1>1, <1>2, <2>1, <3>1 DEF Fresh
  <2>2. QED
    BY <2>1 DEF Fresh
<1> HIDE DEF b, c
<1>4. ASSUME NEW q, NEW s, Sound(n, w, s, q), Bypassed(w, b, s) PROVE Bypassed(v, c, s)
  BY <1>1, <1>2, <1>4, DestroyedBypassed
<1>5. ASSUME NEW p \in Pages, tt[p].open PROVE Bypassed(v, c, tt[p])
  <2>1. tt[p] = Tombstone(ss[p], ids) /\ ss[p] \in SessionsTo(n) /\ Sound(n, w, ss[p], p)
    BY <1>1 DEF Sound
  <2>2. ss[p].open
    BY <1>5, <2>1 DEF Tombstone, SessionsTo
  <2>3. Bypassed(v, c, ss[p])
    BY <1>1, <1>4, <2>1, <2>2
  <2>4. QED
    BY <2>1, <2>3, TombstoneBypassed
<1>6. x # None => Bypassed(v, c, x.s)
  BY <1>1, <1>4
<1>7. QED
  BY <1>3, <1>5, <1>6 DEF PastOf, c

LEMMA DestroyPast ==
  ASSUME IInv, PInv, NEW op \in {"delete", "clear", "disable"}, NEW ids \in SUBSET Contexts,
         Destroy(op, ids), op # "delete" => ids = Contexts
  PROVE  PInv'
<1> DEFINE known == IF op = "delete" THEN ids ELSE {d \in Contexts : writer.latest[d] # 0}
           v == Fence(Outdate(writer, known), ids, TRUE, TRUE)
           e == [op |-> op, capture |-> None, ids |-> ids]
           n == edits + 1
<1>1. /\ writer' = v /\ session' = [p \in Pages |-> Tombstone(session[p], ids)]
      /\ queue' = Append(queue, e)
      /\ covered' = [d \in Contexts |-> IF d \in ids THEN 1 .. n ELSE covered[d]]
  BY DEF Destroy, Before
<1>2. /\ edits' = edits /\ UNCHANGED <<disk, entered, results>> /\ snapshot' = snapshot
      /\ erased' = erased /\ replaced' = replaced
  BY DEF Destroy, store
<1>3. /\ n \in Texts /\ InvOf(n, writer, Line, pref, session, snapshot)
      /\ PastOf(n, writer, Line, Past, session, snapshot) /\ Recorded(n, Line, Past)
      /\ Orderly(n, writer) /\ queue \in Seq(JobsTo(n))
      /\ covered \in [Contexts -> SUBSET (1 .. n)]
  BY Known, PastKnown, SoundPages DEF InvOf, Stored
<1>4. known \subseteq ids /\ known \subseteq Contexts /\ \A d \in ids : d \in known \/ writer.latest[d] = 0
  OBVIOUS
<1> HIDE DEF known
<1>5. Moves(n, writer, v, 0) /\ Destroyed(writer, v, known, ids)
  BY <1>3, <1>4, DestroyMoves, Zenon
<1> HIDE DEF v
<1>6. e \in JobsTo(n)
  BY <1>3 DEF JobsTo
<1> HIDE DEF e
<1>7. Line'.disk = Line.disk /\ (Line'.entered => Line.entered /\ Line'.queue[1] = Line.queue[1])
  <2>1. entered => queue # << >>
    BY EnteredDraft
  <2> HIDE DEF n
  <2>2. queue # << >> => Append(queue, e)[1] = queue[1]
    BY <1>3, <1>6
  <2>3. QED
    BY <1>1, <1>2, <2>1, <2>2 DEF Line
<1> DEFINE h == Past
           g == Past'
<1>8. /\ g.covered = covered' /\ g.erased = h.erased /\ g.replaced = h.replaced /\ h.covered = covered
  BY <1>2 DEF Past
<1>9. /\ g.covered \in [Contexts -> SUBSET (1 .. n)] /\ Fewer(g.covered, h.covered)
      /\ \A d \in Contexts \ ids : g.covered[d] = h.covered[d]
  <2>1. covered' \in [Contexts -> SUBSET (1 .. n)]
    BY <1>1, <1>3
  <2>2. \A d \in Contexts : covered'[d] = IF d \in ids THEN 1 .. n ELSE covered[d]
    BY <1>1
  <2>3. Fewer(covered', covered)
    BY <1>3, <2>2 DEF Fewer
  <2>4. QED
    BY <1>8, <2>1, <2>2, <2>3
<1>10. PastOf(n, writer, Line, h, session, snapshot) /\ Recorded(n, Line, h)
  BY <1>3
<1> HIDE DEF n, h, g
<1>11. Recorded(n, Line', g)
  BY <1>7, <1>8, <1>9, <1>10, RecordedMore
<1>12. PastOf(n, v, Line', g, session', snapshot)
  BY <1>1, <1>3, <1>4, <1>5, <1>9, <1>10, <1>11, DestroyedPast
<1>13. QED
  BY <1>1, <1>2, <1>12, PastStep DEF n, g

LEMMA DeletePast ==
  ASSUME IInv, PInv, DeleteDrafts
  PROVE  PInv'
<1>1. CASE \E d \in Contexts : Destroy("delete", {d})
  <2>1. PICK d \in Contexts : Destroy("delete", {d})
    BY <1>1
  <2>2. QED
    BY <2>1, DestroyPast
<1>2. CASE Destroy("clear", Contexts)
  BY <1>2, DestroyPast
<1>3. QED
  BY <1>1, <1>2 DEF DeleteDrafts

LEMMA DisablePast ==
  ASSUME IInv, PInv, Disable
  PROVE  PInv'
BY DestroyPast DEF Disable

LEMMA EnablePast ==
  ASSUME IInv, PInv, Enable
  PROVE  PInv'
<1> DEFINE v == Fence(writer, Contexts, FALSE, FALSE)
           e == [op |-> "enable", capture |-> None, ids |-> {}]
           n == edits + 1
<1>1. writer' = v /\ queue' = Append(queue, e)
  BY DEF Enable
<1>2. /\ edits' = edits /\ UNCHANGED <<disk, entered, results>> /\ session' = session
      /\ snapshot' = snapshot /\ UNCHANGED history
  BY DEF Enable, storage, store
<1>3. n \in Texts /\ Orderly(n, writer) /\ queue \in Seq(JobsTo(n))
  BY Known, SoundPages DEF InvOf, Stored
<1>4. Moves(n, writer, v, 0) /\ \A d \in Contexts : v.current[d] = None
  BY <1>3, AllFenced, ZenonT(60)
<1> HIDE DEF v
<1>5. e \in JobsTo(n)
  BY <1>3 DEF JobsTo
<1> HIDE DEF e
<1>6. entered' => entered /\ queue'[1] = queue[1]
  <2>1. entered => queue # << >>
    BY EnteredDraft
  <2> HIDE DEF n
  <2>2. queue # << >> => Append(queue, e)[1] = queue[1]
    BY <1>3, <1>5
  <2>3. QED
    BY <1>1, <1>2, <2>1, <2>2
<1>7. Silent(writer, v)
  BY <1>4 DEF Silent
<1>8. \A q \in Pages : session'[q].open => session[q].open /\ Same(session[q], session'[q])
  BY <1>2, SameSame
<1> HIDE DEF n
<1>9. QED
  BY <1>1, <1>2, <1>4, <1>6, <1>7, <1>8, CalmPast DEF n

-----------------------------------------------------------------------------
(* The worker.                                                             *)

LEMMA WorkerPast ==
  ASSUME IInv, PInv, UNCHANGED Loop, Recorded(edits + 1, Line', Past')
  PROVE  PInv'
<1>1. /\ writer' = writer /\ session' = session /\ snapshot' = snapshot /\ edits' = edits
      /\ covered' = covered
  BY Zenon DEF Loop
<1>2. PastOf(edits + 1, writer, Line, Past, session, snapshot) /\ Past'.covered = Past.covered
  BY <1>1, PastKnown DEF Past
<1>3. PastOf(edits + 1, writer, Line', Past', session, snapshot)
  BY <1>2 DEF PastOf
<1>4. QED
  BY <1>1, <1>3, PastStep

(* The job that is done is no longer one that is past its last check.       *)
LEMMA DonePast ==
  ASSUME IInv, PInv, NEW code, NEW told, Done(code, told), UNCHANGED Loop,
         erased' \in [Contexts -> SUBSET (1 .. edits + 1)],
         replaced' \in [Contexts -> SUBSET (1 .. edits + 1)],
         \A d \in Contexts : /\ erased'[d] \subseteq covered[d] /\ replaced'[d] \subseteq covered[d]
                             /\ disk'[d] \notin erased'[d] /\ disk'[d] \notin replaced'[d]
  PROVE  PInv'
<1>1. covered' = covered /\ covered \in [Contexts -> SUBSET (1 .. edits + 1)]
  BY PastKnown, Zenon DEF Loop
<1>2. Line'.disk = disk' /\ Line'.entered = FALSE
  BY DEF Done, Line
<1>3. Past'.covered = covered /\ Past'.erased = erased' /\ Past'.replaced = replaced'
  BY <1>1 DEF Past
<1>4. Recorded(edits + 1, Line', Past')
  BY <1>1, <1>2, <1>3 DEF Recorded
<1>5. QED
  BY <1>4, WorkerPast

\* What is known of the histories and the disk between two steps.
LEMMA Remembered ==
  ASSUME IInv, PInv
  PROVE  /\ covered \in [Contexts -> SUBSET (1 .. edits + 1)]
         /\ erased \in [Contexts -> SUBSET (1 .. edits + 1)]
         /\ replaced \in [Contexts -> SUBSET (1 .. edits + 1)]
         /\ \A d \in Contexts : /\ erased[d] \subseteq covered[d] /\ replaced[d] \subseteq covered[d]
                                /\ disk[d] \notin erased[d] /\ disk[d] \notin replaced[d]
         /\ entered => LET cap == queue[1].capture
                       IN  cap.sql \notin erased[cap.draft] /\ cap.sql \notin replaced[cap.draft]
<1>1. /\ Recorded(edits + 1, Line, Past) /\ Line.disk = disk /\ Line.entered = entered
      /\ Line.queue = queue
      /\ Past.covered = covered /\ Past.erased = erased /\ Past.replaced = replaced
  BY PastKnown, Known
<1>2. QED
  BY <1>1 DEF Recorded

LEMMA EnterPast ==
  ASSUME IInv, PInv, EnterWrite
  PROVE  PInv'
<1>1. /\ queue # << >> /\ Head(queue).op = "write" /\ UNCHANGED Loop /\ disk' = disk
      /\ erased' = erased /\ replaced' = replaced
  BY Zenon DEF EnterWrite
<1>2. Head(queue) = queue[1] /\ queue[1].capture \in CapturesTo(edits + 1)
  BY <1>1, OldestJob
<1> DEFINE cap == queue[1].capture
<1>3. CASE Permitted(cap) /\ entered' = TRUE /\ UNCHANGED <<queue, results>>
  <2>1. cap # None /\ cap.draft \in Contexts /\ writer.current[cap.draft] = cap
    BY <1>2, <1>3 DEF Permitted, Holds, CapturesTo
  <2>2. cap.sql \notin covered[cap.draft]
    BY <2>1, PastKnown DEF Fresh
  <2>3. cap.sql \notin erased[cap.draft] /\ cap.sql \notin replaced[cap.draft]
    BY <2>1, <2>2, Remembered
  <2>4. /\ Line'.disk = disk /\ Line'.queue = queue
        /\ Past'.covered = covered /\ Past'.erased = erased /\ Past'.replaced = replaced
    BY <1>1, <1>3 DEF Line, Past, Loop
  <2>5. Recorded(edits + 1, Line', Past')
    BY <2>3, <2>4, Remembered DEF Recorded
  <2>6. QED
    BY <1>1, <2>5, WorkerPast
<1>4. CASE \E code \in {"disabled", "cancelled"} : Done(code, None)
  BY <1>1, <1>4, Remembered, DonePast
<1>5. \/ Permitted(Head(queue).capture) /\ entered' = TRUE /\ UNCHANGED <<queue, results>>
      \/ \E code \in {"disabled", "cancelled"} : Done(code, None)
  BY ZenonT(60) DEF EnterWrite
<1>6. QED
  BY <1>2, <1>3, <1>4, <1>5, Zenon

LEMMA FinishPast ==
  ASSUME IInv, PInv, FinishWrite
  PROVE  PInv'
<1> DEFINE cap == queue[1].capture
           d == cap.draft
<1>1. entered /\ UNCHANGED Loop /\ erased' = erased
  BY Zenon DEF FinishWrite
<1>2. queue # << >> /\ queue[1].op = "write"
  BY <1>1, Known DEF InvOf, Stored
<1>3. Head(queue) = queue[1] /\ cap \in CapturesTo(edits + 1) /\ disk \in [Contexts -> 0 .. edits + 1]
  BY <1>2, OldestJob
<1>4. PICK code : Done(code, None) /\ (Write(cap) \/ UNCHANGED <<disk, replaced>>)
  BY <1>3 DEF FinishWrite
<1>5. d \in Contexts /\ cap.sql \notin erased[d] /\ cap.sql \notin replaced[d]
  BY <1>1, <1>3, Remembered DEF CapturesTo
<1>6. CASE UNCHANGED <<disk, replaced>>
  BY <1>1, <1>4, <1>6, Remembered, DonePast
<1>7. CASE Write(cap)
  <2>1. /\ disk' = [disk EXCEPT ![d] = cap.sql]
        /\ replaced' = [replaced EXCEPT ![d] = @ \union (covered[d] \ {cap.sql})]
    BY <1>7 DEF Write
  <2> HIDE DEF cap, d
  <2>2. replaced' \in [Contexts -> SUBSET (1 .. edits + 1)]
    BY <1>5, <2>1, Remembered
  <2>3. ASSUME NEW e \in Contexts
        PROVE  /\ erased'[e] \subseteq covered[e] /\ replaced'[e] \subseteq covered[e]
               /\ disk'[e] \notin erased'[e] /\ disk'[e] \notin replaced'[e]
    BY <1>1, <1>3, <1>5, <2>1, Remembered
  <2>4. erased' \in [Contexts -> SUBSET (1 .. edits + 1)]
    BY <1>1, Remembered
  <2>5. QED
    BY <1>1, <1>4, <2>2, <2>3, <2>4, DonePast
<1>8. QED
  BY <1>4, <1>6, <1>7

LEMMA ErasePast ==
  ASSUME IInv, PInv, EraseRecords
  PROVE  PInv'
<1>1. queue # << >> /\ UNCHANGED Loop /\ replaced' = replaced
  BY Zenon DEF EraseRecords
<1>2. PICK code, told : Done(code, told)
  BY DEF EraseRecords
<1>3. (\E ids : Erase(ids)) \/ UNCHANGED <<disk, erased>>
  BY DEF EraseRecords
<1>4. CASE UNCHANGED <<disk, erased>>
  BY <1>1, <1>2, <1>4, Remembered, DonePast
<1>5. CASE \E ids : Erase(ids)
  <2>1. PICK ids : /\ disk' = [d \in Contexts |-> IF d \in ids THEN 0 ELSE disk[d]]
                   /\ erased' = [d \in Contexts |-> IF d \in ids THEN covered[d] ELSE erased[d]]
    BY <1>5 DEF Erase
  <2>2. erased' \in [Contexts -> SUBSET (1 .. edits + 1)] /\ replaced' \in [Contexts -> SUBSET (1 .. edits + 1)]
    BY <1>1, <2>1, Remembered
  <2>3. ASSUME NEW d \in Contexts
        PROVE  /\ erased'[d] \subseteq covered[d] /\ replaced'[d] \subseteq covered[d]
               /\ disk'[d] \notin erased'[d] /\ disk'[d] \notin replaced'[d]
    <3>1. 0 \notin covered[d] /\ 0 \notin replaced[d]
      BY Remembered
    <3>2. QED
      BY <1>1, <2>1, <3>1, Remembered
  <2>4. QED
    BY <1>1, <1>2, <2>2, <2>3, DonePast
<1>6. QED
  BY <1>3, <1>4, <1>5

LEMMA EnableSavingPast ==
  ASSUME IInv, PInv, EnableSaving
  PROVE  PInv'
<1>1. UNCHANGED Loop /\ disk' = disk /\ erased' = erased /\ replaced' = replaced
  BY Zenon DEF EnableSaving
<1>2. PICK code, told : Done(code, told)
  BY DEF EnableSaving
<1>3. QED
  BY <1>1, <1>2, Remembered, DonePast

-----------------------------------------------------------------------------
(* The event loop.                                                         *)

LEMMA CompletedSame ==
  ASSUME NEW n, NEW s \in SessionsTo(n), NEW cap, NEW code
  PROVE  Completed(s, cap, code).open = s.open /\ Same(s, Completed(s, cap, code))
<1> DEFINE t == CASE code = "ok" ->
                    [s EXCEPT !.failed = FALSE, !.overtaken = FALSE, !.savedSql = cap.sql,
                              !.savedContext = cap.draft,
                              !.capture = IF cap.sql = 0 THEN None ELSE @,
                              !.state = IF cap.sql = 0 THEN "empty" ELSE "saved"]
               [] code = "io" -> [s EXCEPT !.failed = TRUE, !.state = "error"]
               [] OTHER -> s
           u == Completed(s, cap, code)
<1>1. u = IF NeedsGuard(t) THEN [t EXCEPT !.state = "context_required"] ELSE t
  BY DEF Completed
<1>2. /\ t.open = s.open /\ t.sql = s.sql /\ t.bound = s.bound /\ t.deleted = s.deleted
      /\ t.origin = s.origin /\ t = [t EXCEPT !.state = t.state]
  BY DEF SessionsTo
<1> HIDE DEF t
<1>3. \E state : u = [t EXCEPT !.state = state]
  BY <1>1, <1>2
<1> HIDE DEF u
<1>4. u.open = s.open /\ Same(s, u)
  BY <1>2, <1>3 DEF Same, Shows
<1>5. QED
  BY <1>4 DEF u

LEMMA DeliverWritePast ==
  ASSUME IInv, PInv, DeliverWrite
  PROVE  PInv'
<1> DEFINE n == edits + 1
           e == results[1]
           cap == e.job.capture
           code == e.code
           p == cap.page
<1>1. /\ results # << >> /\ Head(results).job.op = "write" /\ results' = Tail(results)
      /\ UNCHANGED <<disk, queue, entered>>
  BY DEF DeliverWrite, storage, store
<1>2. edits' = edits /\ snapshot' = snapshot /\ UNCHANGED history
  BY Zenon DEF DeliverWrite, storage
<1>3. Head(results) = e /\ cap \in CapturesTo(n)
  BY <1>1, OldestResult
<1>4. /\ writer' = Confirmed(writer, cap, code)
      /\ session' = IF StillCurrent(session[p], cap)
                    THEN [session EXCEPT ![p] = Completed(@, cap, code)]
                    ELSE session
  BY <1>3 DEF DeliverWrite
<1>5. Orderly(n, writer) /\ session \in [Pages -> SessionsTo(n)]
  BY Known, SoundPages
<1> HIDE DEF n, cap, code, p
<1>6. Moves(n, writer, writer', 0) /\ Silent(writer, writer')
  BY <1>3, <1>4, <1>5, ConfirmedMoves DEF Silent
<1>7. ASSUME NEW q \in Pages, session'[q].open PROVE session[q].open /\ Same(session[q], session'[q])
  <2>1. session'[q] = session[q] \/ session'[q] = Completed(session[q], cap, code)
    BY <1>4, <1>5
  <2>2. QED
    BY <1>5, <1>7, <2>1, CompletedSame, SameSame
<1>8. QED
  BY <1>1, <1>2, <1>6, <1>7, CalmPast DEF n

LEMMA DeliverDeletionPast ==
  ASSUME IInv, PInv, DeliverDeletion
  PROVE  PInv'
<1>1. /\ edits' = edits /\ snapshot' = snapshot /\ writer' = writer /\ session' = session
      /\ UNCHANGED <<disk, queue, entered>> /\ UNCHANGED history
  BY DEF DeliverDeletion, storage, store
<1>2. \A q \in Pages : session'[q].open => session[q].open /\ Same(session[q], session'[q])
  BY <1>1, SameSame
<1>3. QED
  BY <1>1, <1>2, StillPast

LEMMA RetypedSound ==
  ASSUME NEW n \in Texts, NEW w, NEW s, NEW p, Sound(n, w, s, p), s.open, s.sql # 0
  PROVE  LET e == Retyped(s, s.sql)
         IN  /\ Sound(n, w, e, p) /\ e.sql = s.sql /\ e.bound = Home(s) /\ Home(s) \in Contexts
             /\ e.origin = s.origin
<1> DEFINE e == Retyped(s, s.sql)
<1>1. s \in SessionsTo(n) /\ s.sql \in 0 .. n
  BY DEF Sound, SessionsTo
<1>2. /\ e.open /\ e.sql = s.sql /\ e.deleted = FALSE /\ e.context = s.context
      /\ e.bound = Home(s) /\ e.origin = s.origin
      /\ e \in SessionsTo(n) /\ (e.sql # 0 <=> e.bound # None) /\ Home(s) \in Contexts
  <2> DEFINE j == s.sql
  <2>1. j \in 0 .. n /\ j # 0 /\ e = Retyped(s, j)
    BY <1>1
  <2> HIDE DEF j, e
  <2>2. LET x == Retyped(s, j)
        IN  /\ x.open /\ x.active = s.active /\ x.sql = j /\ x.deleted = FALSE /\ x.context = s.context
            /\ x.bound = (IF j = 0 THEN None ELSE Home(s)) /\ x.origin = s.origin
            /\ x \in SessionsTo(n) /\ (x.sql # 0 <=> x.bound # None) /\ Home(s) \in Contexts
    BY <2>1, RetypedFields, ZenonT(60)
  <2>3. QED
    BY <2>1, <2>2 DEF j
<1>3. e.savedSql = s.savedSql /\ e.savedContext = s.savedContext /\ e.capture = s.capture
  BY <1>1 DEF Retyped, SessionsTo
<1> HIDE DEF e
<1>4. s.bound # None /\ Home(s) = s.bound
  BY DEF Sound, Coherent, Home
<1>5. Sound(n, w, e, p)
  BY <1>2, <1>3, <1>4 DEF Sound, Coherent, Acked
<1>6. QED
  BY <1>2, <1>5 DEF e

(* The live text is saved anew: its draft may have it again.                *)
LEMMA ResavePast ==
  ASSUME IInv, PInv, NEW z \in Preferences, z.enabled, ~z.suspended, writer.intake, Resave(z),
         edits' = edits, snapshot' = snapshot, UNCHANGED <<disk, queue, entered>>
  PROVE  PInv'
<1>1. CASE \E p \in Pages : session[p].open /\ session[p].active /\ session[p].sql # 0
  <2> DEFINE p == CHOOSE p \in Pages : session[p].open /\ session[p].active /\ session[p].sql # 0
             s == session[p]
             u == Edited(writer, z, s, p, s.sql)
             e == Retyped(s, s.sql)
             n == edits + 1
  <2>1. p \in Pages /\ s.open /\ s.active /\ s.sql # 0
    BY <1>1
  <2>2. writer' = u.w /\ session' = [session EXCEPT ![p] = u.s] /\ Readmitted(Home(s), s.sql)
    BY <1>1 DEF Resave
  <2> HIDE DEF p
  <2>3. /\ n \in Texts /\ InvOf(n, writer, Line, pref, session, snapshot)
        /\ PastOf(n, writer, Line, Past, session, snapshot) /\ Fresh(writer, covered)
        /\ Past.covered = covered
    BY Known, PastKnown
  <2>4. Orderly(n, writer) /\ Sound(n, writer, s, p) /\ s.sql \in 0 .. n
    BY <2>1, <2>3, SoundPages DEF Sound, SessionsTo
  <2> HIDE DEF n
  <2>5. Moves(n, writer, u.w, p) /\ MayTrack(writer, e, u.w, u.s)
    BY <2>1, <2>3, <2>4, EditMoves
  <2> HIDE DEF u, s
  <2>6. /\ Sound(n, writer, e, p) /\ e.sql = s.sql /\ e.bound = Home(s) /\ Home(s) \in Contexts
    BY <2>1, <2>3, <2>4, RetypedSound
  <2> HIDE DEF e
  <2>7. /\ Recorded(n, Line, Past') /\ Fewer(covered, covered') /\ s.sql \notin covered'[Home(s)]
        /\ Past'.covered = covered' /\ covered' \in [Contexts -> SUBSET (1 .. n)]
    BY <2>2, <2>6, ReadmittedPast DEF n
  <2>8. Silent(writer, writer) /\ Fewer(covered', covered')
    BY DEF Silent, Fewer
  <2>9. Fresh(writer, covered')
    BY <2>3, <2>7, <2>8, FreshLater
  <2>10. Bypassed(writer, covered', e)
    BY <2>6, <2>7 DEF Bypassed
  <2>11. Fresh(u.w, covered') /\ Bypassed(u.w, covered', u.s)
    BY <2>4, <2>5, <2>6, <2>7, <2>8, <2>9, <2>10, MayTrackPast
  <2>12. Line'.disk = Line.disk /\ (Line'.entered => Line.entered /\ Line'.queue[1] = Line.queue[1])
    BY DEF Line
  <2> DEFINE h == Past
             k == Past'
             m == Line
             l == Line'
             tt == session'
             v == u.w
             y == u.s
  <2>13. /\ Recorded(n, m, k) /\ l.disk = m.disk /\ (l.entered => m.entered /\ l.queue[1] = m.queue[1])
    BY <2>7, <2>12
  <2>14. /\ Fewer(h.covered, k.covered) /\ Fresh(v, k.covered) /\ Bypassed(v, k.covered, y)
         /\ PastOf(n, writer, m, h, session, snapshot) /\ tt = [session EXCEPT ![p] = y]
         /\ InvOf(n, writer, m, pref, session, snapshot) /\ Moves(n, writer, v, p)
    BY <2>2, <2>3, <2>5, <2>7, <2>11
  <2> HIDE DEF h, k, m, l, tt, v, y
  <2>15. Recorded(n, l, k)
    BY <2>13, RecordedLater
  <2>16. PastOf(n, v, l, k, tt, snapshot)
    BY <2>1, <2>14, <2>15, PagePast
  <2>17. QED
    BY <2>2, <2>16, PastStep DEF n, k, l, tt, v
<1>2. CASE ~\E p \in Pages : session[p].open /\ session[p].active /\ session[p].sql # 0
  <2>1. writer' = writer /\ session' = session /\ UNCHANGED history
    BY <1>2 DEF Resave
  <2>2. \A q \in Pages : session'[q].open => session[q].open /\ Same(session[q], session'[q])
    BY <2>1, SameSame
  <2>3. QED
    BY <2>1, <2>2, StillPast
<1>3. QED
  BY <1>1, <1>2

LEMMA SayingSame ==
  ASSUME NEW n, NEW s \in SessionsTo(n), NEW state
  PROVE  Same(s, [s EXCEPT !.state = state]) /\ [s EXCEPT !.state = state].open = s.open
BY DEF Same, Shows, SessionsTo

LEMMA DeliverPreferencePast ==
  ASSUME IInv, PInv, DeliverPreference
  PROVE  PInv'
<1> DEFINE n == edits + 1
           e == results[1]
<1>1. /\ results # << >> /\ Head(results).job.op \in {"enable", "disable"} /\ results' = Tail(results)
      /\ UNCHANGED <<disk, queue, entered>>
  BY DEF DeliverPreference, store
<1>2. edits' = edits /\ snapshot' = snapshot
  BY Zenon DEF DeliverPreference, store
<1>3. Head(results) = e /\ e \in ResultsTo(n)
  BY <1>1, OldestResult
<1>4. e.enabled \in BOOLEAN \union {None} /\ pref \in Preferences /\ session \in [Pages -> SessionsTo(n)]
  BY <1>3, Known DEF ResultsTo, InvOf
<1> HIDE DEF n
<1>5. CASE ~writer.intake
  <2>1. writer' = writer /\ session' = session /\ UNCHANGED history
    BY <1>5, Zenon DEF DeliverPreference
  <2>2. \A q \in Pages : session'[q].open => session[q].open /\ Same(session[q], session'[q])
    BY <2>1, SameSame
  <2>3. QED
    BY <1>1, <1>2, <2>1, <2>2, StillPast
<1>6. CASE writer.intake
  <2> DEFINE on == e.job.op = "enable"
             told == e.enabled
             ok == e.code = "ok" /\ told = on
             z == [enabled |-> IF told = None THEN pref.enabled ELSE told,
                   suspended |-> ~(on /\ ok), busy |-> FALSE,
                   owed |-> IF ok THEN "none" ELSE IF on THEN "enable" ELSE "cleanup",
                   confirmed |-> told # None]
  <2>1. PreferenceSettles(e.job, e.code, e.enabled)
    BY <1>3, <1>6 DEF DeliverPreference
  <2>2. IF on /\ ok THEN Resave(z)
        ELSE /\ session' = [p \in Pages |->
                  IF ~session[p].open THEN session[p]
                  ELSE [session[p] EXCEPT !.state = IF z.enabled THEN "error" ELSE "off"]]
             /\ writer' = writer /\ UNCHANGED history
    BY <2>1 DEF PreferenceSettles
  <2>3. z \in Preferences /\ (on /\ ok => z.enabled /\ ~z.suspended)
    <3>1. on \in BOOLEAN /\ ok \in BOOLEAN /\ told \in BOOLEAN \union {None} /\ (ok => told = on)
      BY <1>4
    <3>2. z = [enabled |-> IF told = None THEN pref.enabled ELSE told,
               suspended |-> ~(on /\ ok), busy |-> FALSE,
               owed |-> IF ok THEN "none" ELSE IF on THEN "enable" ELSE "cleanup",
               confirmed |-> told # None]
      OBVIOUS
    <3> HIDE DEF on, ok, told, z
    <3>3. QED
      BY <1>4, <3>1, <3>2, SettledPreference
  <2> HIDE DEF on, ok, told, z
  <2>4. CASE on /\ ok
    BY <1>1, <1>2, <1>6, <2>2, <2>3, <2>4, ResavePast
  <2>5. CASE ~(on /\ ok)
    <3>1. writer' = writer /\ UNCHANGED history
      BY <2>2, <2>5
    <3>2. ASSUME NEW q \in Pages, session'[q].open PROVE session[q].open /\ Same(session[q], session'[q])
      <4>1. session'[q] = session[q] \/ \E state : session'[q] = [session[q] EXCEPT !.state = state]
        <5> DEFINE state == IF z.enabled THEN "error" ELSE "off"
        <5>1. session' = [p \in Pages |-> IF ~session[p].open THEN session[p]
                                          ELSE [session[p] EXCEPT !.state = state]]
          BY <2>2, <2>5
        <5> HIDE DEF state
        <5>2. QED
          BY <5>1
      <4>2. QED
        <5>1. CASE session'[q] = session[q]
          BY <3>2, <5>1, SameSame
        <5>2. CASE \E state : session'[q] = [session[q] EXCEPT !.state = state]
          <6>1. PICK state : session'[q] = [session[q] EXCEPT !.state = state]
            BY <5>2
          <6>2. session[q] \in SessionsTo(n)
            BY <1>4
          <6>3. QED
            BY <3>2, <6>1, <6>2, SayingSame
        <5>3. QED
          BY <4>1, <5>1, <5>2
    <3>3. QED
      BY <1>1, <1>2, <3>1, <3>2, StillPast
  <2>6. QED
    BY <2>4, <2>5
<1>7. QED
  BY <1>5, <1>6

-----------------------------------------------------------------------------
(* The report, and every step together.                                    *)

LEMMA ReportPast ==
  ASSUME IInv, PInv, Report
  PROVE  PInv'
<1> DEFINE n == edits + 1
           v == writer'
<1>1. /\ edits' = edits /\ snapshot' = None /\ session' = [p \in Pages |-> Retired]
      /\ disk' = disk /\ queue' = queue /\ entered' = entered /\ UNCHANGED history
  BY Zenon DEF Report, storage, store
<1>2. n \in Texts /\ Orderly(n, writer)
  BY Known, SoundPages
<1>3. Moves(n, writer, v, 0) /\ Silent(writer, v)
  <2>1. v = writer \/ \E a, b : v = Fence(writer, Contexts, a, b)
    BY Zenon DEF Report
  <2> HIDE DEF n, v
  <2>2. CASE v = writer
    BY <1>2, <2>2, StandsStill DEF Silent
  <2>3. CASE \E a, b : v = Fence(writer, Contexts, a, b)
    <3>1. PICK a, b : v = Fence(writer, Contexts, a, b)
      BY <2>3
    <3>2. Moves(n, writer, v, 0)
      BY <1>2, <3>1, FenceMoves
    <3>3. \A d \in Contexts : v.current[d] = IF d \in Contexts THEN None ELSE writer.current[d]
      BY <1>2, <3>1, FenceFields
    <3>4. QED
      BY <3>2, <3>3 DEF Silent
  <2>4. QED
    BY <2>1, <2>2, <2>3
<1>4. ~Retired.open
  BY DEF Retired, Detached, NewSession
<1>5. \A q \in Pages : session'[q].open => session[q].open /\ Same(session[q], session'[q])
  BY <1>1, <1>4
<1>6. entered' => entered /\ queue'[1] = queue[1]
  BY <1>1
<1>7. QED
  BY <1>1, <1>3, <1>5, <1>6, CalmPast DEF n, v

(* Nothing is left behind before the first edit.                           *)
LEMMA InitPast ==
  ASSUME Init
  PROVE  PInv
<1>1. PICK c \in Contexts :
        session = [p \in Pages |-> IF p = 1 THEN NewSession(TRUE, TRUE, c) ELSE Detached]
  BY DEF Init
<1>2. /\ covered = [d \in Contexts |-> {}] /\ erased = [d \in Contexts |-> {}]
      /\ replaced = [d \in Contexts |-> {}] /\ entered = FALSE /\ snapshot = None
  BY DEF Init
<1>3. \A d \in Contexts : writer.current[d] = None
  BY DEF Init
<1>4. Past.covered = covered /\ Past.erased = erased /\ Past.replaced = replaced
      /\ Line.entered = FALSE
  BY <1>2 DEF Past, Line
<1>5. Recorded(edits + 1, Line, Past)
  <2> DEFINE n == edits + 1
             m == Line
             h == Past
  <2>1. h.covered = [d \in Contexts |-> {}] /\ h.erased = [d \in Contexts |-> {}]
        /\ h.replaced = [d \in Contexts |-> {}] /\ m.entered = FALSE
    BY <1>2, <1>4
  <2> HIDE DEF n, m, h
  <2>2. /\ h.covered \in [Contexts -> SUBSET (1 .. n)] /\ h.erased \in [Contexts -> SUBSET (1 .. n)]
        /\ h.replaced \in [Contexts -> SUBSET (1 .. n)]
    BY <2>1
  <2>3. \A d \in Contexts : h.covered[d] = {} /\ h.erased[d] = {} /\ h.replaced[d] = {}
    BY <2>1
  <2>4. \A d \in Contexts :
          /\ h.erased[d] \subseteq h.covered[d] /\ h.replaced[d] \subseteq h.covered[d]
          /\ m.disk[d] \notin h.erased[d] /\ m.disk[d] \notin h.replaced[d]
    BY <2>3
  <2>5. m.entered => LET cap == m.queue[1].capture
                     IN  cap.sql \notin h.erased[cap.draft] /\ cap.sql \notin h.replaced[cap.draft]
    <3>1. ~m.entered
      BY <2>1
    <3>2. QED
      BY <3>1
  <2>6. Recorded(n, m, h)
    BY <2>2, <2>4, <2>5, Zenon DEF Recorded
  <2>7. QED
    BY <2>6 DEF n, m, h
<1>6. Fresh(writer, Past.covered)
  BY <1>3 DEF Fresh
<1>7. \A p \in Pages : Bypassed(writer, Past.covered, session[p])
  <2> SUFFICES ASSUME NEW p \in Pages PROVE session[p].sql = 0
    BY DEF Bypassed
  <2>1. Detached.sql = 0 /\ NewSession(TRUE, TRUE, c).sql = 0
    BY DEF Detached, NewSession
  <2>2. QED
    BY <1>1, <2>1
<1>8. QED
  BY <1>2, <1>5, <1>6, <1>7 DEF PInv, PastOf

LEMMA NothingPast ==
  ASSUME IInv, PInv, UNCHANGED vars
  PROVE  PInv'
<1>1. /\ edits' = edits /\ snapshot' = snapshot /\ session' = session /\ writer' = writer
      /\ UNCHANGED <<disk, queue, entered>> /\ UNCHANGED history
  BY Zenon DEF vars
<1>2. \A q \in Pages : session'[q].open => session[q].open /\ Same(session[q], session'[q])
  BY <1>1, SameSame
<1>3. QED
  BY <1>1, <1>2, StillPast

LEMMA PageStepPast ==
  ASSUME IInv, PInv, NEW p \in Pages, OnPage(p)
  PROVE  PInv'
BY EditPast, ContextPast, ExportPast, InstallPast, OpenPast, CandidatePast, ActivatePast,
   ClosePast, DetachPast, RecoverPast, Zenon DEF OnPage

LEMMA NextKeepsPast ==
  ASSUME IInv, PInv, Next
  PROVE  PInv'
<1>1. CASE \E p \in Pages : OnPage(p)
  BY <1>1, PageStepPast
<1>2. CASE DeleteDrafts \/ Disable \/ Enable \/ TimerFires
  BY <1>2, DeletePast, DisablePast, EnablePast, TimerPast
<1>3. CASE Worker
  BY <1>3, EnterPast, FinishPast, ErasePast, EnableSavingPast DEF Worker
<1>4. CASE Deliver
  BY <1>4, DeliverWritePast, DeliverDeletionPast, DeliverPreferencePast DEF Deliver
<1>5. CASE Shutdown \/ Report
  BY <1>5, ShutdownPast, ReportPast
<1>6. CASE Stopped
  BY <1>6, NothingPast, Zenon DEF Stopped
<1>7. QED
  BY <1>1, <1>2, <1>3, <1>4, <1>5, <1>6, Zenon DEF Next

-----------------------------------------------------------------------------
(* The theorems about the histories.                                       *)

(* Whatever a draft has left behind, by a newer text or by its deletion,   *)
(* no current write has, and no open page or snapshot can hand it to the   *)
(* coordinator as its draft's newest text: the invariant of the histories. *)
THEOREM PastInvariant == Spec => []PInv
<1>1. Init => PInv
  BY InitPast
<1>2. IInv /\ PInv /\ [Next]_vars => PInv'
  BY NextKeepsPast, NothingPast
<1>3. QED
  BY <1>1, <1>2, DraftInvariant, PTL DEF Spec

(* What was deleted stays deleted.  The worker erases every text that the  *)
(* draft had when its deletion was asked for, and no write permitted       *)
(* before, no timer, no closing page, no shutdown and no editor restored   *)
(* from a snapshot puts one back on disk.                                  *)
THEOREM DeletedIsGone == Spec => []DeletedStaysDeleted
<1>1. IInv /\ PInv => DeletedStaysDeleted
  BY Remembered DEF DeletedStaysDeleted
<1>2. QED
  BY <1>1, DraftInvariant, PastInvariant, PTL

(* A newer draft is kept.  Once a save has replaced a text of its draft,   *)
(* no later write of a closed page or of a restored editor brings that     *)
(* text back, in whatever order the worker and the event loop proceed.     *)
THEOREM NewerIsKept == Spec => []NewerDraftIsKept
<1>1. IInv /\ PInv => NewerDraftIsKept
  BY Remembered DEF NewerDraftIsKept
<1>2. QED
  BY <1>1, DraftInvariant, PastInvariant, PTL

-----------------------------------------------------------------------------
(* The actions and the report: first those of a page.                      *)

(* What they start from.                                                   *)
LEMMA Owing ==
  ASSUME IInv, RInv, Running
  PROVE  /\ OwedOf(edits + 1, writer, Line, wanted, session, snapshot)
         /\ InvOf(edits + 1, writer, Line, pref, session, snapshot)
         /\ writer.intake /\ edits + 1 \in Texts
BY Known DEF IInv, RInv, Running

LEMMA RunningOwes ==
  ASSUME RInv, Running, report' = report,
         OwedOf(edits' + 1, writer', Line', wanted', session', snapshot')
  PROVE  RInv'
BY DEF RInv, Running

LEMMA ClosingCloses ==
  ASSUME NEW n, NEW s \in SessionsTo(n), s.active, Blanked(s), NEW t, t = [s EXCEPT !.closing = TRUE]
  PROVE  Closes(s, t)
<1>1. /\ t.active /\ t.sql = s.sql /\ t.bound = s.bound /\ t.origin = s.origin /\ t.savedSql = s.savedSql
      /\ t.overtaken = s.overtaken /\ t.state = s.state /\ t.pending = s.pending
      /\ t.capture = s.capture /\ t.editor = s.editor
  BY DEF SessionsTo
<1>2. Blanked(t)
  BY <1>1 DEF Blanked
<1>3. \A w, a : Mine(w, a, s) => Mine(w, a, t)
  BY <1>1, SameText
<1>4. QED
  BY <1>1, <1>2, <1>3 DEF Closes

LEMMA FinalFinishes ==
  ASSUME NEW n \in Texts, NEW m, NEW w, NEW r, NEW ss, NEW x, NEW p \in Pages, NEW a,
         InvOf(n, w, m, r, ss, x), ss[p].open, OwedOf(n, w, m, a, ss, x)
  PROVE  LET u == PrepareFinal(w, r, ss[p], p) IN Finishes(w, ss[p], u.w, u.s) /\ Blanked(u.s)
<1>1. /\ Orderly(n, w) /\ Sound(n, w, ss[p], p) /\ Owns(w, ss[p], p) /\ Quiet(w, r)
      /\ Blanked(ss[p])
  BY DEF InvOf, Tended, OwedOf, Minded
<1>2. QED
  BY <1>1, PrepareFinalFinishes

LEMMA CloseOwes ==
  ASSUME IInv, RInv, NEW p \in Pages, ClosePage(p)
  PROVE  RInv'
<1> DEFINE s == session[p]
           u == IF pref.enabled THEN PrepareFinal(writer, pref, s, p)
                ELSE [w |-> writer, s |-> s, jobs |-> << >>]
           t == [u.s EXCEPT !.closing = TRUE]
           n == edits + 1
<1>1. writer' = u.w /\ session' = [session EXCEPT ![p] = t] /\ queue' = queue \o u.jobs
  BY DEF ClosePage
<1>2. /\ s.open /\ s.active /\ Running /\ edits' = edits /\ UNCHANGED <<disk, entered, results>>
      /\ report' = report /\ snapshot' = snapshot /\ wanted' = wanted
  BY DEF ClosePage, Live, storage, store
<1>3. n \in Texts /\ InvOf(n, writer, Line, pref, session, snapshot)
      /\ OwedOf(n, writer, Line, wanted, session, snapshot)
  BY <1>2, Owing
<1>4. Ends(n, Line, writer, pref, s, p, u) /\ Finishes(writer, s, u.w, u.s) /\ Blanked(u.s)
  <2>1. CASE pref.enabled
    BY <1>2, <1>3, <2>1, FinalEnds, FinalFinishes
  <2>2. CASE ~pref.enabled
    <3>1. u = [w |-> writer, s |-> s, jobs |-> << >>]
      BY <2>2
    <3>2. u.w = writer /\ u.s = s /\ u.jobs = << >>
      BY <3>1
    <3>3. Orderly(n, writer) /\ Quiet(writer, pref) /\ Tended(n, Line, writer, pref, s, p) /\ Blanked(s)
      BY <1>2, <1>3 DEF InvOf, OwedOf, Minded
    <3>4. Likewise(s, s) /\ Stands(writer, writer)
      BY DEF Likewise, Stands
    <3> HIDE DEF u, s, n
    <3>5. Ends(n, Line, writer, pref, s, p, u)
      BY <3>2, <3>3, StandsEnds, Zenon
    <3>6. Finishes(writer, s, u.w, u.s)
      BY <3>2, <3>4, Zenon DEF Finishes
    <3>7. QED
      BY <3>2, <3>3, <3>5, <3>6 DEF u, s, n
  <2>3. QED
    BY <2>1, <2>2
<1> HIDE DEF u
<1>5. \A v : Tended(n, Line, v, pref, u.s, p) => Tended(n, Line, v, pref, t, p)
  BY ClosingTended
<1>6. \E v : Tended(n, Line, v, pref, u.s, p)
  BY <1>4 DEF Ends
<1>7. t.open /\ t.active => u.s.open /\ u.s.active
  BY <1>6, ClosingTended
<1>8. Closes(u.s, t)
  <2>1. u.s \in SessionsTo(n) /\ u.s.active
    BY <1>2, <1>4, <1>6 DEF Tended, Sound, Ends
  <2>2. QED
    BY <1>4, <2>1, ClosingCloses
<1>9. /\ Line'.disk = Line.disk /\ Line'.entered = Line.entered /\ Line'.results = Line.results
      /\ Chained(Line.queue, u.jobs, Line'.queue)
  BY <1>1, <1>2, JobsFollow, Zenon
<1>10. Ends(n, Line, writer, pref, session[p], p, u) /\ session[p].open
       /\ Finishes(writer, session[p], u.w, u.s)
  BY <1>2, <1>4
<1> HIDE DEF t, n, s
<1>11. OwedOf(n, u.w, Line', wanted, [session EXCEPT ![p] = t], snapshot)
  BY <1>3, <1>5, <1>7, <1>8, <1>9, <1>10, EndedOwed, Zenon
<1>12. OwedOf(edits' + 1, writer', Line', wanted', session', snapshot')
  BY <1>1, <1>2, <1>11 DEF n
<1>13. QED
  BY <1>2, <1>12, RunningOwes

LEMMA DetachOwes ==
  ASSUME IInv, RInv, NEW p \in Pages, Detach(p)
  PROVE  RInv'
<1> DEFINE s == session[p]
           u == PrepareFinal(writer, pref, s, p)
           n == edits + 1
<1>1. writer' = u.w /\ session' = [session EXCEPT ![p] = Retired] /\ queue' = queue \o u.jobs
  BY DEF Detach
<1>2. /\ s.open /\ Running /\ edits' = edits /\ UNCHANGED <<disk, entered, results>>
      /\ report' = report /\ snapshot' = snapshot /\ wanted' = wanted
  BY DEF Detach, storage, store
<1>3. n \in Texts /\ InvOf(n, writer, Line, pref, session, snapshot)
      /\ OwedOf(n, writer, Line, wanted, session, snapshot)
  BY <1>2, Owing
<1>4. Ends(n, Line, writer, pref, s, p, u) /\ Finishes(writer, s, u.w, u.s)
  BY <1>2, <1>3, FinalEnds, FinalFinishes
<1> HIDE DEF u
<1>5. \A v : Tended(n, Line, v, pref, u.s, p) => Tended(n, Line, v, pref, Retired, p)
  BY <1>3, RetiredIsTended
<1>6. Retired.open = FALSE
  BY DEF Retired, Detached, NewSession
<1>7. Closes(u.s, Retired) /\ (Retired.open /\ Retired.active => u.s.open /\ u.s.active)
  BY <1>6 DEF Closes
<1>8. /\ Line'.disk = Line.disk /\ Line'.entered = Line.entered /\ Line'.results = Line.results
      /\ Chained(Line.queue, u.jobs, Line'.queue)
  BY <1>1, <1>2, JobsFollow, Zenon
<1>9. Ends(n, Line, writer, pref, session[p], p, u) /\ session[p].open
      /\ Finishes(writer, session[p], u.w, u.s)
  BY <1>2, <1>4
<1> HIDE DEF n, s
<1>10. OwedOf(n, u.w, Line', wanted, [session EXCEPT ![p] = Retired], snapshot)
  BY <1>3, <1>5, <1>7, <1>8, <1>9, EndedOwed, Zenon
<1>11. OwedOf(edits' + 1, writer', Line', wanted', session', snapshot')
  BY <1>1, <1>2, <1>10 DEF n
<1>12. QED
  BY <1>2, <1>11, RunningOwes

LEMMA TimerOwes ==
  ASSUME IInv, RInv, TimerFires
  PROVE  RInv'
<1>1. PICK d \in writer.timers :
        writer' = Launch(writer, {d}) /\ queue' = Append(queue, WriteJob(writer.current[d]))
  BY DEF TimerFires
<1>2. /\ edits' = edits /\ UNCHANGED <<disk, entered, results>> /\ Running
      /\ report' = report /\ snapshot' = snapshot /\ session' = session /\ wanted' = wanted
  BY DEF TimerFires, storage, store
<1> DEFINE n == edits + 1
           e == WriteJob(writer.current[d])
           jobs == <<e>>
           ids == {d} \cap writer.timers
<1>3. /\ InvOf(n, writer, Line, pref, session, snapshot)
      /\ OwedOf(n, writer, Line, wanted, session, snapshot)
  BY <1>2, Owing
<1>4. Orderly(n, writer)
  BY <1>3 DEF InvOf
<1>5. queue' = queue \o jobs
  <2>1. e \in JobsTo(n) /\ queue \in Seq(JobsTo(n))
    BY <1>3, <1>4, Known, TimedWrites DEF InvOf, Stored
  <2> HIDE DEF e, n
  <2>2. Append(queue, e) = queue \o <<e>>
    BY <2>1, AppendIsConcat
  <2>3. queue' = Append(queue, e)
    BY <1>1 DEF e
  <2>4. QED
    BY <2>2, <2>3, Zenon
<1>6. jobs \in Seq(JobsTo(n)) /\ Starts(writer, ids, jobs)
  <2>1. jobs = IF d \in writer.timers THEN <<WriteJob(writer.current[d])>> ELSE << >>
    OBVIOUS
  <2> HIDE DEF jobs, n
  <2>2. QED
    BY <1>4, <2>1, OneWrite, Zenon
<1> HIDE DEF jobs
<1>7. /\ Line'.disk = Line.disk /\ Line'.entered = Line.entered /\ Line'.results = Line.results
      /\ Chained(Line.queue, jobs, Line'.queue)
  BY <1>2, <1>5, JobsFollow, Zenon
<1>8. Follows(JobsTo(n), Line.queue, jobs, Line'.queue)
  BY <1>3, <1>6, <1>7 DEF InvOf, Stored, Chained
<1> HIDE DEF n, ids
<1>9. OwedOf(n, Launch(writer, ids), Line', wanted, session, snapshot)
  BY <1>3, <1>6, <1>7, <1>8, WritesOwed, Zenon
<1>10. Launch(writer, ids) = writer'
  BY <1>1, OneLaunched DEF ids
<1>11. OwedOf(edits' + 1, writer', Line', wanted', session', snapshot')
  BY <1>2, <1>9, <1>10 DEF n
<1>12. QED
  BY <1>2, <1>11, RunningOwes

(* More texts can be owed once more have been typed.                       *)
LEMMA MoreIsOwed ==
  ASSUME NEW n \in Nat, NEW w, NEW m, NEW a, NEW ss, NEW x, OwedOf(n, w, m, a, ss, x)
  PROVE  OwedOf(n + 1, w, m, a, ss, x)
<1>1. a \in [Contexts -> 0 .. n + 1]
  BY DEF OwedOf
<1>2. QED
  BY <1>1 DEF OwedOf

LEMMA EditOwes ==
  ASSUME IInv, RInv, NEW p \in Pages, Edit(p)
  PROVE  RInv'
<1> DEFINE n == edits + 1
           s == session[p]
<1>1. PICK text \in {0, edits + 2} \ {s.sql} :
        LET u == Edited(writer, pref, s, p, text)
            b == IF text # 0 THEN Home(s) ELSE BlankOrigin(writer, s)
        IN  /\ writer' = u.w /\ session' = [session EXCEPT ![p] = u.s]
            /\ wanted' = IF b = None THEN wanted
                         ELSE [wanted EXCEPT ![b] = IF pref.enabled /\ Accepted(u) THEN text ELSE 0]
  BY DEF Edit
<1>2. /\ Running /\ s.open /\ s.active /\ edits < MaxEdits /\ edits' = edits + 1
      /\ report' = report /\ snapshot' = snapshot /\ UNCHANGED <<disk, queue, entered, results>>
  BY DEF Edit, Live, storage, store
<1>3. Line' = Line
  BY <1>2, LineStays
<1>4. edits \in Nat /\ n \in Nat /\ n + 1 \in Texts /\ n + 1 = edits + 2 /\ s \in SessionsTo(n)
  BY <1>2, Known, DraftParameters DEF Texts
<1>5. /\ InvOf(n + 1, writer, Line, pref, session, snapshot)
      /\ OwedOf(n + 1, writer, Line, wanted, session, snapshot) /\ writer.intake
      /\ pref \in Preferences
  BY <1>2, <1>4, Owing, MoreIsKept, MoreIsOwed DEF InvOf
<1>6. text \in 0 .. n + 1 /\ (text = 0 \/ text # s.savedSql)
  <2>1. s.savedSql \in 0 .. n
    BY <1>4 DEF SessionsTo
  <2>2. QED
    BY <1>4, <2>1
<1> DEFINE u == Edited(writer, pref, s, p, text)
           M == n + 1
<1>7. Gives(writer, pref, s, text, u, wanted, wanted')
  <2> DEFINE j == IF pref.enabled /\ Accepted(u) THEN text ELSE 0
  <2>1. wanted' = IF Aim(writer, s, text) = None THEN wanted
                  ELSE [wanted EXCEPT ![Aim(writer, s, text)] = j]
    BY <1>1 DEF Aim
  <2>2. j \in {0, text} /\ (j # 0 => pref.enabled /\ Accepted(u)) /\ (j # 0 => text # 0)
    OBVIOUS
  <2> HIDE DEF j, u, s
  <2>3. QED
    BY <1>6, <2>1, <2>2 DEF Gives
<1>8. M \in Texts /\ text \in 0 .. M /\ s = session[p] /\ u = Edited(writer, pref, session[p], p, text)
      /\ (text = session[p].sql \/ text = 0 \/ text # session[p].savedSql)
      /\ Gives(writer, pref, session[p], text, u, wanted, wanted')
      /\ session[p].open /\ session[p].active
      /\ InvOf(M, writer, Line, pref, session, snapshot) /\ OwedOf(M, writer, Line, wanted, session, snapshot)
  BY <1>2, <1>4, <1>5, <1>6, <1>7
<1>9. writer' = u.w /\ session' = [session EXCEPT ![p] = u.s] /\ edits' + 1 = M
  BY <1>1, <1>2, <1>4
<1> HIDE DEF u, M, s, n
<1>10. OwedOf(M, u.w, Line, wanted', [session EXCEPT ![p] = u.s], snapshot)
  BY <1>5, <1>8, EditOwed
<1>11. OwedOf(edits' + 1, writer', Line', wanted', session', snapshot')
  BY <1>2, <1>3, <1>9, <1>10
<1>12. QED
  BY <1>2, <1>11, RunningOwes

LEMMA ActivateOwes ==
  ASSUME IInv, RInv, NEW p \in Pages, Activate(p)
  PROVE  RInv'
<1> DEFINE n == edits + 1
           t == [session[p] EXCEPT !.active = TRUE]
           u == Claim(writer, pref, t, p)
<1>1. writer' = u.w /\ session' = [session EXCEPT ![p] = u.s] /\ wanted' = WantedOf(t, u, wanted)
  BY DEF Activate
<1>2. /\ session[p].open /\ ~session[p].active /\ HostEmpty /\ Running /\ edits' = edits
      /\ report' = report /\ snapshot' = snapshot /\ UNCHANGED <<disk, queue, entered, results>>
  BY DEF Activate, storage, store
<1>3. Line' = Line
  BY <1>2, LineStays
<1>4. \A q \in Pages : ~(session[q].open /\ session[q].active)
  BY <1>2 DEF HostEmpty
<1>5. /\ n \in Texts /\ InvOf(n, writer, Line, pref, session, snapshot) /\ writer.intake
      /\ OwedOf(n, writer, Line, wanted, session, snapshot)
  BY <1>2, Owing
<1>6. Bringing(t, u, wanted, wanted')
  BY <1>1 DEF Bringing, WantedOf
<1>7. t = [session[p] EXCEPT !.active = TRUE] /\ u = Claim(writer, pref, t, p)
  OBVIOUS
<1> HIDE DEF n, t, u
<1>8. OwedOf(n, u.w, Line, wanted', [session EXCEPT ![p] = u.s], snapshot)
  BY <1>2, <1>4, <1>5, <1>6, <1>7, ActivateOwed
<1>9. OwedOf(edits' + 1, writer', Line', wanted', session', snapshot')
  BY <1>1, <1>2, <1>3, <1>8 DEF n
<1>10. QED
  BY <1>2, <1>9, RunningOwes

LEMMA InstallOwes ==
  ASSUME IInv, RInv, NEW p \in Pages, InstallSnapshot(p)
  PROVE  RInv'
<1> DEFINE n == edits + 1
           s == session[p]
           g == Release(Revoke(writer, s), s)
           t == Installed(s, snapshot.s)
           u == Claim(g, pref, t, p)
           c == GiveUp(s)
<1>1. /\ writer' = u.w /\ session' = [session EXCEPT ![p] = u.s] /\ snapshot' = None
      /\ wanted' = WantedOf(t, u, c)
  BY DEF InstallSnapshot
<1>2. /\ s.open /\ s.active /\ snapshot # None /\ Running /\ edits' = edits
      /\ report' = report /\ UNCHANGED <<disk, queue, entered, results>>
  BY DEF InstallSnapshot, Live, storage, store
<1>3. Line' = Line
  BY <1>2, LineStays
<1>4. /\ n \in Texts /\ InvOf(n, writer, Line, pref, session, snapshot) /\ writer.intake
      /\ OwedOf(n, writer, Line, wanted, session, snapshot)
  BY <1>2, Owing
<1>5. Bringing(t, u, c, wanted')
  <2> HIDE DEF t, u, c
  <2>1. QED
    BY <1>1 DEF Bringing, WantedOf
<1>6. GivingUp(s, wanted, c)
  BY DEF GivingUp, GiveUp
<1>7. g = Release(Revoke(writer, session[p]), session[p]) /\ t = Installed(session[p], snapshot.s)
      /\ u = Claim(g, pref, t, p) /\ GivingUp(session[p], wanted, c)
      /\ session[p].open /\ session[p].active
  BY <1>2, <1>6
<1> HIDE DEF n, s, g, t, u, c
<1>8. OwedOf(n, u.w, Line, wanted', [session EXCEPT ![p] = u.s], None)
  BY <1>2, <1>4, <1>5, <1>7, InstallOwed
<1>9. OwedOf(edits' + 1, writer', Line', wanted', session', snapshot')
  BY <1>1, <1>2, <1>3, <1>8 DEF n
<1>10. QED
  BY <1>2, <1>9, RunningOwes

LEMMA RecoverOwes ==
  ASSUME IInv, RInv, NEW p \in Pages, Recover(p)
  PROVE  RInv'
<1> DEFINE s == session[p]
           d == s.context
           g == Release(writer, s)
           t == Renewed(g, d)
           y == Recovered(s, d, disk[d], t.sequence)
           c == GiveUp(s)
           n == edits + 1
<1>1. writer' = t /\ session' = [session EXCEPT ![p] = y] /\ wanted' = [c EXCEPT ![d] = disk[d]]
  BY DEF Recover, Recovered, Renewed
<1>2. /\ s.open /\ s.active /\ disk[d] # 0 /\ queue = << >> /\ edits' = edits /\ Running
      /\ report' = report /\ snapshot' = snapshot /\ UNCHANGED <<disk, queue, entered, results>>
  BY Zenon DEF Recover, Live, Request, storage, store
<1>3. Line' = Line
  BY <1>2, LineStays, Zenon
<1>4. /\ n \in Texts /\ InvOf(n, writer, Line, pref, session, snapshot)
      /\ OwedOf(n, writer, Line, wanted, session, snapshot)
  BY <1>2, Owing, Zenon
<1>5. DOMAIN Line.queue = {} /\ Line.disk = disk
  BY <1>2, Known, EmptySeq
<1>6. GivingUp(s, wanted, c)
  BY DEF GivingUp, GiveUp
<1>7. s = session[p] /\ d = s.context /\ g = Release(writer, s) /\ t = Renewed(g, d)
      /\ y = Recovered(s, d, disk[d], t.sequence)
  OBVIOUS
<1> HIDE DEF s, d, g, t, y, n, c
<1>8. y = Recovered(s, d, Line.disk[d], t.sequence) /\ wanted' = [c EXCEPT ![d] = Line.disk[d]]
      /\ Line.disk[d] # 0
  BY <1>1, <1>2, <1>5, <1>7, Zenon
<1>9. OwedOf(n, t, Line, wanted', [session EXCEPT ![p] = y], snapshot)
  BY <1>2, <1>4, <1>5, <1>6, <1>7, <1>8, RecoverOwed, Zenon
<1>10. OwedOf(edits' + 1, writer', Line', wanted', session', snapshot')
  <2>1. snapshot' = snapshot /\ edits' = edits
    BY <1>2, Zenon
  <2>2. QED
    BY <1>1, <1>3, <1>9, <2>1 DEF n
<1>11. report' = report /\ Running
  BY <1>2, Zenon
<1>12. QED
  BY <1>10, <1>11, RunningOwes

(* A page changes, the coordinator standing still.                         *)
LEMMA PageOwes ==
  ASSUME IInv, RInv, NEW p \in Pages, NEW t, Running, report' = report, edits' = edits, writer' = writer,
         Line' = Line, wanted' = wanted, session' = [session EXCEPT ![p] = t],
         t.open => Minded(writer, wanted, t), snapshot' = None \/ snapshot' = snapshot
  PROVE  RInv'
<1> DEFINE n == edits + 1
<1>1. /\ InvOf(n, writer, Line, pref, session, snapshot)
      /\ OwedOf(n, writer, Line, wanted, session, snapshot)
  BY Owing
<1>2. Moves(n, writer, writer, p)
  BY <1>1, StandsStill DEF InvOf
<1>3. /\ wanted \in [Contexts -> 0 .. n] /\ Keeps(writer, writer, wanted, wanted)
      /\ \A d \in Contexts : Accounted(writer, Line, wanted, d)
  BY <1>1 DEF OwedOf, Told, Keeps
<1> HIDE DEF n
<1>4. OwedOf(n, writer, Line, wanted, session', snapshot')
  BY <1>1, <1>2, <1>3, OwedPage
<1>5. OwedOf(edits' + 1, writer', Line', wanted', session', snapshot')
  BY <1>4 DEF n
<1>6. QED
  BY <1>5, RunningOwes

LEMMA ContextOwes ==
  ASSUME IInv, RInv, NEW p \in Pages, ContextChanged(p)
  PROVE  RInv'
<1> DEFINE s == session[p]
           n == edits + 1
<1>1. PICK c \in Contexts :
        LET e == [s EXCEPT !.context = c]
            state == IF pref.enabled /\ NeedsGuard(e) THEN "context_required"
                     ELSE IF e.state # "context_required" \/ e.bound # c THEN e.state
                     ELSE IF e.failed THEN "error"
                     ELSE IF Unsaved(e, c) THEN "pending" ELSE "saved"
        IN  session' = [session EXCEPT ![p] = [e EXCEPT !.state = state]]
  BY DEF ContextChanged
<1> DEFINE e == [s EXCEPT !.context = c]
           state == IF pref.enabled /\ NeedsGuard(e) THEN "context_required"
                    ELSE IF e.state # "context_required" \/ e.bound # c THEN e.state
                    ELSE IF e.failed THEN "error"
                    ELSE IF Unsaved(e, c) THEN "pending" ELSE "saved"
           t == [e EXCEPT !.state = state]
<1>2. /\ s.open /\ s.active /\ edits' = edits /\ writer' = writer /\ snapshot' = snapshot /\ Running
      /\ report' = report /\ wanted' = wanted /\ UNCHANGED <<disk, queue, entered, results>>
  BY DEF ContextChanged, Live, storage, store
<1>3. Line' = Line
  BY <1>2, LineStays
<1>4. s \in SessionsTo(n) /\ Minded(writer, wanted, s)
  BY <1>2, Known, Owing DEF OwedOf
<1>5. /\ e.sql = s.sql /\ e.state = s.state /\ e.bound = s.bound /\ e.origin = s.origin
      /\ e.savedSql = s.savedSql /\ e.overtaken = s.overtaken /\ e.active = s.active
      /\ e.capture = s.capture /\ e.editor = s.editor /\ e.pending = s.pending
  BY <1>4 DEF SessionsTo
<1>6. state = "pending" => s.state = "pending" \/ s.sql # 0
  BY <1>5 DEF Unsaved
<1>7. /\ t.sql = s.sql /\ t.bound = s.bound /\ t.origin = s.origin
      /\ t.savedSql = s.savedSql /\ t.overtaken = s.overtaken /\ t.active = s.active
      /\ t.capture = s.capture /\ t.editor = s.editor /\ t.pending = s.pending /\ t.state = state
  <2>1. e \in SessionsTo(n)
    BY <1>4 DEF SessionsTo
  <2> HIDE DEF e, state
  <2>2. QED
    BY <1>5, <2>1 DEF SessionsTo
<1>8. session' = [session EXCEPT ![p] = t]
  BY <1>1
<1> HIDE DEF t, state, e, s
<1>9. Minded(writer, wanted, t)
  <2>1. Mine(writer, wanted, t)
    BY <1>4, <1>7, SameText DEF Minded
  <2>2. Blanked(t)
    BY <1>4, <1>6, <1>7 DEF Minded, Blanked
  <2>3. t.active
    BY <1>2, <1>7
  <2>4. QED
    BY <2>1, <2>2, <2>3 DEF Minded
<1>10. QED
  BY <1>2, <1>3, <1>8, <1>9, PageOwes

LEMMA OpenOwes ==
  ASSUME IInv, RInv, NEW p \in Pages, OpenPage(p)
  PROVE  RInv'
<1>1. PICK c \in Contexts : session' = [session EXCEPT ![p] = NewSession(TRUE, TRUE, c)]
  BY DEF OpenPage
<1>2. /\ edits' = edits /\ writer' = writer /\ snapshot' = snapshot /\ Running
      /\ report' = report /\ wanted' = wanted /\ UNCHANGED <<disk, queue, entered, results>>
  BY DEF OpenPage, storage, store
<1>3. Line' = Line
  BY <1>2, LineStays
<1>4. Minded(writer, wanted, NewSession(TRUE, TRUE, c))
  BY DEF NewSession, Minded, Mine, Has, Blanked
<1>5. QED
  BY <1>1, <1>2, <1>3, <1>4, PageOwes

LEMMA CandidateOwes ==
  ASSUME IInv, RInv, NEW p \in Pages, OpenCandidate(p)
  PROVE  RInv'
<1> DEFINE f == NewSession(TRUE, FALSE, None)
           t == Installed(f, snapshot.s)
<1>1. session' = [session EXCEPT ![p] = t] /\ snapshot' = None /\ snapshot # None
  BY DEF OpenCandidate
<1>2. /\ edits' = edits /\ writer' = writer /\ Running
      /\ report' = report /\ wanted' = wanted /\ UNCHANGED <<disk, queue, entered, results>>
  BY DEF OpenCandidate, storage, store
<1>3. Line' = Line
  BY <1>2, LineStays
<1>4. /\ Mine(writer, wanted, snapshot.s) /\ Blanked(snapshot.s) /\ Away(snapshot.s)
      /\ snapshot.s \in SessionsTo(edits + 1)
  BY <1>1, <1>2, Owing DEF OwedOf, InvOf, Carried
<1> HIDE DEF f
<1>5. Mine(writer, wanted, t) /\ Blanked(t) /\ Away(t)
  BY <1>4, InstalledText
<1> HIDE DEF t
<1>6. Minded(writer, wanted, t)
  BY <1>5 DEF Minded
<1>7. QED
  BY <1>1, <1>2, <1>3, <1>6, PageOwes

LEMMA ExportOwes ==
  ASSUME IInv, RInv, NEW p \in Pages, ExportSnapshot(p)
  PROVE  RInv'
<1> DEFINE s == session[p]
           n == edits + 1
           captured == s.capture # None /\ s.capture.editor = s.editor
           d == IF captured THEN s.capture.draft ELSE s.pending
           x == [s EXCEPT !.pending = d, !.capture = None]
<1>1. ValidSnapshot(x) /\ snapshot' = [page |-> p, s |-> x]
  BY DEF ExportSnapshot
<1>2. /\ s.open /\ edits' = edits /\ writer' = writer /\ session' = session /\ Running
      /\ report' = report /\ wanted' = wanted /\ UNCHANGED <<disk, queue, entered, results>>
  BY DEF ExportSnapshot, Live, storage, store
<1>3. Line' = Line
  BY <1>2, LineStays
<1>4. s \in SessionsTo(n) /\ Minded(writer, wanted, s)
      /\ OwedOf(n, writer, Line, wanted, session, snapshot)
  BY <1>2, Known, Owing DEF OwedOf
<1>5. captured => d # None
  BY <1>4, NoneIsNoValue DEF SessionsTo, CapturesTo
<1>6. ~captured => d = s.pending
  OBVIOUS
<1> HIDE DEF d
<1>7. /\ x.sql = s.sql /\ x.bound = s.bound /\ x.origin = s.origin /\ x.savedSql = s.savedSql
      /\ x.overtaken = s.overtaken /\ x.state = s.state /\ x.pending = d /\ x.capture = None
  BY <1>4 DEF SessionsTo
<1> HIDE DEF x
<1>8. Mine(writer, wanted, x)
  BY <1>4, <1>7, SameText DEF Minded
<1>9. Blanked(x)
  BY <1>4, <1>5, <1>6, <1>7 DEF Minded, Blanked
<1>10. Away(x)
  BY <1>1, <1>7 DEF Away, ValidSnapshot
<1>11. OwedOf(n, writer, Line, wanted, session, snapshot')
  BY <1>1, <1>4, <1>8, <1>9, <1>10 DEF OwedOf
<1>12. OwedOf(edits' + 1, writer', Line', wanted', session', snapshot')
  BY <1>2, <1>3, <1>11
<1>13. QED
  BY <1>2, <1>12, RunningOwes

LEMMA PageStepOwes ==
  ASSUME IInv, RInv, NEW p \in Pages, OnPage(p)
  PROVE  RInv'
BY EditOwes, ContextOwes, ExportOwes, InstallOwes, OpenOwes, CandidateOwes, ActivateOwes,
   CloseOwes, DetachOwes, RecoverOwes, Zenon DEF OnPage
-----------------------------------------------------------------------------
(* Shutdown.                                                               *)

LEMMA NoLastOwed ==
  ASSUME NEW n, NEW m, NEW g, NEW w, NEW r, NEW ss, NEW x, NEW a, NEW jobs, InvOf(n, w, m, r, ss, x),
         OwedOf(n, w, m, a, ss, x), jobs = << >>, g.disk = m.disk, g.entered = m.entered,
         g.results = m.results, Chained(m.queue, jobs, g.queue)
  PROVE  OwedOf(n, w, g, a, ss, x)
<1>1. jobs \in Seq(JobsTo(n)) /\ Starts(w, {}, jobs) /\ Launch(w, {}) = w
  BY NoneStart DEF InvOf
<1>2. Follows(JobsTo(n), m.queue, jobs, g.queue)
  BY <1>1 DEF Chained, InvOf, Stored
<1> HIDE DEF Chained
<1>3. OwedOf(n, Launch(w, {}), g, a, ss, x)
  BY <1>1, <1>2, WritesOwed, Zenon
<1>4. QED
  BY <1>1, <1>3, Zenon

LEMMA LastOwed ==
  ASSUME NEW n \in Texts, NEW m, NEW g, NEW w, NEW r, NEW ss, NEW x, NEW p \in Pages, NEW u, NEW a,
         InvOf(n, w, m, r, ss, x), OwedOf(n, w, m, a, ss, x), ss[p].open, ss[p].active,
         u = PrepareFinal(w, r, ss[p], p), g.disk = m.disk, g.entered = m.entered,
         g.results = m.results, Chained(m.queue, u.jobs, g.queue)
  PROVE  OwedOf(n, u.w, g, a, [ss EXCEPT ![p] = u.s], x)
<1>1. Ends(n, m, w, r, ss[p], p, u)
  BY FinalEnds, Zenon
<1>2. Finishes(w, ss[p], u.w, u.s) /\ Blanked(u.s)
  <2>1. LET y == PrepareFinal(w, r, ss[p], p) IN Finishes(w, ss[p], y.w, y.s) /\ Blanked(y.s)
    BY FinalFinishes, Zenon
  <2>2. QED
    BY <2>1
<1> DEFINE t == u.s
<1>3. t.open = u.s.open /\ t.active = u.s.active /\ Closes(u.s, t) /\ t = u.s
  BY <1>1, <1>2 DEF Closes, Ends
<1>4. \A v : Tended(n, m, v, r, u.s, p) => Tended(n, m, v, r, t, p)
  OBVIOUS
<1> HIDE DEF t
<1>5. OwedOf(n, u.w, g, a, [ss EXCEPT ![p] = t], x)
  BY <1>1, <1>2, <1>3, <1>4, EndedOwed
<1>6. QED
  BY <1>3, <1>5

LEMMA DrainOwed ==
  ASSUME NEW n, NEW u, NEW tt, Drains(u, tt), UNCHANGED <<disk, entered, results>>, NEW a,
         InvOf(n, u.w, LineWith(u.jobs), pref, tt, snapshot),
         OwedOf(n, u.w, LineWith(u.jobs), a, tt, snapshot)
  PROVE  OwedOf(n, writer', Line', a, session', snapshot)
<1>1. PICK order \in SetToSeqs(u.w.timers) :
        queue' = queue \o u.jobs \o WritesOf(u.w, order)
  BY DEF Drains
<1> DEFINE w == u.w
           more == WritesOf(w, order)
           g == LineWith(u.jobs)
           k == Line'
           v == writer'
           z == Launch(w, w.timers)
<1>2. /\ queue' = queue \o u.jobs \o more
      /\ more = WritesOf(w, order)
  BY <1>1
<1>3. v = Closed(w) /\ session' = tt /\ order \in SetToSeqs(w.timers)
  BY DEF Drains
<1> HIDE DEF more, v
<1>4. /\ k.disk = g.disk /\ k.entered = g.entered /\ k.results = g.results
      /\ Chained(g.queue, more, k.queue)
  BY <1>2, LineThen, Zenon
<1> HIDE DEF w, g, k, z
<1>5. InvOf(n, w, g, pref, tt, snapshot) /\ OwedOf(n, w, g, a, tt, snapshot) /\ Orderly(n, w)
  BY DEF w, g, InvOf
<1>6. more \in Seq(JobsTo(n)) /\ Starts(w, w.timers, more)
  BY <1>2, <1>3, <1>5, AllWrites, Zenon DEF WritesOf
<1>7. Follows(JobsTo(n), g.queue, more, k.queue)
  BY <1>4, <1>5, <1>6 DEF Chained, InvOf, Stored
<1>8. OwedOf(n, z, k, a, tt, snapshot)
  BY <1>4, <1>5, <1>6, <1>7, WritesOwed, Zenon DEF z
<1>9. Stands(z, v)
  <2>1. v = [z EXCEPT !.intake = FALSE]
    BY <1>3 DEF Closed, z
  <2>2. z \in WritersTo(n)
    BY <1>5, LaunchMoves DEF Moves, Orderly, z
  <2>3. QED
    BY <2>1, <2>2 DEF Stands, WritersTo
<1>10. OwedOf(n, v, k, a, tt, snapshot)
  BY <1>8, <1>9, StandsOwed
<1>11. QED
  BY <1>3, <1>10, Zenon DEF v, k

LEMMA ShutdownOwes ==
  ASSUME IInv, RInv, Shutdown
  PROVE  RInv'
<1> DEFINE n == edits + 1
           p == CHOOSE p \in LivePages : TRUE
           u == IF LivePages = {} THEN [w |-> writer, jobs |-> << >>]
                ELSE PrepareFinal(writer, pref, session[p], p)
           tt == IF LivePages = {} THEN session ELSE [session EXCEPT ![p] = u.s]
<1>1. /\ edits' = edits /\ snapshot' = snapshot /\ wanted' = wanted /\ Running
      /\ UNCHANGED <<disk, entered, results>> /\ report' = [report EXCEPT !.phase = "draining"]
  BY Zenon DEF Shutdown, storage, store
<1>2. /\ n \in Texts /\ InvOf(n, writer, Line, pref, session, snapshot)
      /\ OwedOf(n, writer, Line, wanted, session, snapshot)
  BY <1>1, Owing, Zenon
<1>3. Drains(u, tt)
  <2>1. u.w.timers = {d \in u.w.timers : TRUE}
    OBVIOUS
  <2>2. /\ \E order \in SetToSeqs({d \in u.w.timers : TRUE}) :
             queue' = queue \o u.jobs \o [i \in DOMAIN order |-> WriteJob(u.w.current[order[i]])]
        /\ writer' = [Launch(u.w, {d \in u.w.timers : TRUE}) EXCEPT !.intake = FALSE]
        /\ session' = tt
    BY Zenon DEF Shutdown
  <2> HIDE DEF u, tt
  <2>3. QED
    BY <2>1, <2>2, Zenon DEF Drains, WritesOf, Closed
<1>4. /\ InvOf(n, u.w, LineWith(u.jobs), pref, tt, snapshot)
      /\ OwedOf(n, u.w, LineWith(u.jobs), wanted, tt, snapshot)
  <2>1. CASE LivePages = {}
    <3> DEFINE jobs == u.jobs
               g == LineWith(jobs)
               m == Line
    <3>1. u.w = writer /\ jobs = << >> /\ tt = session
      BY <2>1, Zenon
    <3> HIDE DEF u, tt, jobs
    <3>2. /\ g.disk = m.disk /\ g.entered = m.entered /\ g.results = m.results
          /\ Chained(m.queue, jobs, g.queue)
      BY LineWithJobs, Zenon
    <3> HIDE DEF g, m, n
    <3>3. InvOf(n, writer, m, pref, session, snapshot) /\ OwedOf(n, writer, m, wanted, session, snapshot)
      BY <1>2 DEF m
    <3>4. InvOf(n, writer, g, pref, session, snapshot)
      BY <3>1, <3>2, <3>3, NoLastPage, Zenon
    <3>5. OwedOf(n, writer, g, wanted, session, snapshot)
      BY <3>1, <3>2, <3>3, NoLastOwed, Zenon
    <3>6. QED
      BY <3>1, <3>4, <3>5, Zenon DEF g, jobs
  <2>2. CASE LivePages # {}
    <3> DEFINE jobs == u.jobs
               g == LineWith(jobs)
               m == Line
    <3>1. p \in Pages /\ session[p].open /\ session[p].active
      BY <2>2 DEF LivePages
    <3> HIDE DEF p
    <3>2. u = PrepareFinal(writer, pref, session[p], p) /\ tt = Replaced(session, p, u.s)
          /\ tt = [session EXCEPT ![p] = u.s]
      BY <2>2, Zenon DEF Replaced
    <3> HIDE DEF u, tt
    <3>3. /\ g.disk = m.disk /\ g.entered = m.entered /\ g.results = m.results
          /\ Chained(m.queue, u.jobs, g.queue)
      BY LineWithJobs, Zenon
    <3> HIDE DEF g, m, n, jobs
    <3>4. /\ n \in Texts /\ InvOf(n, writer, m, pref, session, snapshot)
          /\ OwedOf(n, writer, m, wanted, session, snapshot)
      BY <1>2 DEF m
    <3>5. InvOf(n, u.w, g, pref, tt, snapshot)
      BY <3>1, <3>2, <3>3, <3>4, LastPage
    <3>6. OwedOf(n, u.w, g, wanted, [session EXCEPT ![p] = u.s], snapshot)
      BY <3>1, <3>2, <3>3, <3>4, LastOwed
    <3>7. QED
      BY <3>2, <3>5, <3>6, Zenon DEF g, jobs
  <2>3. QED
    BY <2>1, <2>2
<1> HIDE DEF u, tt
<1>5. OwedOf(n, writer', Line', wanted, session', snapshot)
  BY <1>1, <1>3, <1>4, DrainOwed
<1>6. OwedOf(edits' + 1, writer', Line', wanted', session', snapshot')
  BY <1>1, <1>5
<1>7. report'.phase = "draining"
  BY <1>1 DEF IInv
<1>8. writer'.intake = FALSE
  <2>1. writer' = Closed(u.w)
    BY <1>3 DEF Drains
  <2>2. u.w \in WritersTo(n)
    BY <1>4 DEF InvOf, Orderly
  <2>3. QED
    BY <2>1, <2>2 DEF Closed, Launch, WritersTo
<1>9. QED
  BY <1>6, <1>7, <1>8 DEF RInv
-----------------------------------------------------------------------------
(* Requests.                                                               *)

\* The drafts outside ids keep their revisions and what is owed; the others lose
\* both, or were never known.
Strips(w, v, ids) ==
    \A d \in Contexts :
      IF d \in ids THEN v.latest[d] = 0 \/ v.latest[d] > w.sequence
      ELSE /\ v.latest[d] = w.latest[d] /\ v.current[d] \in {w.current[d], None}
           /\ v.unconfirmed[d] = w.unconfirmed[d]

LEMMA JoinedTold ==
  ASSUME NEW n, NEW m, NEW k, NEW w, NEW v, NEW p, NEW e, NEW a, NEW b, NEW d \in Contexts,
         Orderly(n, w), Moves(n, w, v, p), Stored(n, m), Lined(w, m), Awaited(w, m),
         Told(w, m, a, d), e.op # "write", Joins(n, m, e, k), Strips(w, v, e.ids),
         b[d] = IF d \in e.ids THEN 0 ELSE a[d]
  PROVE  Told(v, k, b, d)
<1>1. /\ k.disk = m.disk /\ k.entered = m.entered /\ k.results = m.results
      /\ \A i \in DOMAIN m.queue : i \in DOMAIN k.queue /\ k.queue[i] = m.queue[i]
      /\ \A i \in DOMAIN k.queue : i \notin DOMAIN m.queue => k.queue[i] = e
  BY DEF Joins, Grown
<1>2. m.entered => 1 \in DOMAIN m.queue
  BY DEF Stored
<1>3. \A i \in DOMAIN k.queue : k.queue[i].op = "write" => i \in DOMAIN m.queue
  BY <1>1
<1>4. CASE d \in e.ids
  <2>1. b[d] = 0 /\ (v.latest[d] = 0 \/ v.latest[d] > w.sequence)
    BY <1>4 DEF Strips
  <2>2. v.latest[d] \in Nat /\ w.sequence \in Nat
    BY DEF Moves, Orderly, WritersTo
  <2>3. \A i \in DOMAIN k.queue : k.queue[i].op = "write" => ~Newly(v, d, k.queue[i].capture)
    <3>1. SUFFICES ASSUME NEW i \in DOMAIN k.queue, k.queue[i].op = "write"
                   PROVE  ~Newly(v, d, k.queue[i].capture)
      OBVIOUS
    <3>2. i \in DOMAIN m.queue /\ k.queue[i] = m.queue[i] /\ m.queue[i].op = "write"
      BY <1>1, <1>3, <3>1
    <3>3. m.queue[i].capture \in CapturesTo(n) /\ m.queue[i].capture.rev <= w.sequence
      BY <3>2, JobsAndResults DEF Lined
    <3>4. m.queue[i].capture.rev \in Nat
      BY <3>3 DEF CapturesTo
    <3>5. QED
      BY <2>1, <2>2, <3>2, <3>3, <3>4 DEF Newly
  <2>4. \A i \in DOMAIN k.results : k.results[i].job.op = "write" => ~Newly(v, d, k.results[i].job.capture)
    <3>1. SUFFICES ASSUME NEW i \in DOMAIN m.results, m.results[i].job.op = "write"
                   PROVE  ~Newly(v, d, m.results[i].job.capture)
      BY <1>1
    <3>2. m.results[i].job.capture \in CapturesTo(n) /\ m.results[i].job.capture.rev <= w.sequence
      BY <3>1, JobsAndResults DEF Awaited
    <3>3. m.results[i].job.capture.rev \in Nat
      BY <3>2 DEF CapturesTo
    <3>4. QED
      BY <2>1, <2>2, <3>2, <3>3 DEF Newly
  <2>5. Accounted(v, k, b, d)
    BY <2>1 DEF Accounted
  <2>6. InLine(v, k, b, d) /\ Answered(v, k, b, d)
    BY <2>3, <2>4 DEF InLine, Answered
  <2>7. QED
    BY <2>5, <2>6 DEF Told
<1>5. CASE d \notin e.ids
  <2>1. /\ b[d] = a[d] /\ v.latest[d] = w.latest[d] /\ v.current[d] \in {w.current[d], None}
        /\ v.unconfirmed[d] = w.unconfirmed[d]
    BY <1>5 DEF Strips
  <2>2. \A j \in DOMAIN k.queue : d \in k.queue[j].ids => j \in DOMAIN m.queue /\ k.queue[j] = m.queue[j]
    BY <1>1, <1>5
  <2>3. \A cap : Newly(v, d, cap) => Newly(w, d, cap)
    BY <2>1 DEF Newly
  <2>4. \A cap : Agrees(w, a, d, cap) => Agrees(v, b, d, cap)
    BY <2>1 DEF Agrees
  <2>5. Settled(m, a, d) => Settled(k, b, d)
    BY <1>1, <1>2, <2>1, <2>2 DEF Settled
  <2>6. Accounted(v, k, b, d)
    BY <2>1, <2>5 DEF Told, Accounted
  <2>7. InLine(v, k, b, d)
    BY <1>1, <1>3, <2>2, <2>3, <2>4 DEF Told, InLine
  <2>8. Answered(v, k, b, d)
    BY <1>1, <2>2, <2>3, <2>4 DEF Told, Answered
  <2>9. QED
    BY <2>6, <2>7, <2>8 DEF Told
<1>6. QED
  BY <1>4, <1>5

LEMMA JoinedOwed ==
  ASSUME NEW n, NEW m, NEW k, NEW w, NEW v, NEW p, NEW r, NEW ss, NEW tt, NEW x, NEW e, NEW a, NEW b,
         InvOf(n, w, m, r, ss, x), OwedOf(n, w, m, a, ss, x), Moves(n, w, v, p),
         e.op # "write", Joins(n, m, e, k), Strips(w, v, e.ids), n \in Nat,
         b = [d \in Contexts |-> IF d \in e.ids THEN 0 ELSE a[d]],
         \A q \in Pages : tt[q].open => ss[q].open /\ \A u, c : Minded(u, c, ss[q]) => Minded(u, c, tt[q])
  PROVE  OwedOf(n, v, k, b, tt, x)
<1>1. /\ Orderly(n, w) /\ Stored(n, m) /\ Lined(w, m) /\ Awaited(w, m)
      /\ \A q \in Pages : Sound(n, w, ss[q], q)
      /\ x # None => Sound(n, w, x.s, x.page)
  BY SoundPages DEF InvOf
<1>2. b \in [Contexts -> 0 .. n]
  BY DEF OwedOf
<1>3. Keeps(w, v, a, b)
  BY DEF Keeps
<1>4. ASSUME NEW d \in Contexts PROVE Told(v, k, b, d)
  <2>1. Told(w, m, a, d) /\ b[d] = IF d \in e.ids THEN 0 ELSE a[d]
    BY DEF OwedOf
  <2>2. QED
    BY <1>1, <2>1, JoinedTold
<1>5. ASSUME NEW q \in Pages, tt[q].open PROVE Minded(v, b, tt[q])
  <2>1. Minded(w, a, ss[q]) /\ Sound(n, w, ss[q], q)
    BY <1>1, <1>5 DEF OwedOf
  <2>2. Mine(v, b, ss[q])
    BY <1>1, <1>3, <2>1, MineLater DEF Minded
  <2>3. Minded(v, b, ss[q])
    BY <2>1, <2>2 DEF Minded
  <2>4. QED
    BY <1>5, <2>3
<1>6. ASSUME x # None PROVE Mine(v, b, x.s) /\ Blanked(x.s) /\ Away(x.s)
  <2>1. Mine(w, a, x.s) /\ Blanked(x.s) /\ Away(x.s)
    BY <1>6 DEF OwedOf
  <2>2. Mine(v, b, x.s)
    BY <1>1, <1>3, <1>6, <2>1, MineLater
  <2>3. QED
    BY <2>1, <2>2
<1>7. QED
  BY <1>2, <1>4, <1>5, <1>6 DEF OwedOf

LEMMA TombstoneMinded ==
  ASSUME NEW n, NEW s \in SessionsTo(n), NEW ids, NEW t, t = Tombstone(s, ids), t.open
  PROVE  s.open /\ \A u, c : Minded(u, c, s) => Minded(u, c, t)
<1>1. CASE ~s.open \/ Home(s) \notin ids
  BY <1>1 DEF Tombstone
<1>2. CASE s.open /\ Home(s) \in ids
  <2>1. /\ t.open = s.open /\ t.sql = s.sql /\ t.bound = s.bound /\ t.origin = s.origin
        /\ t.active = s.active /\ t.capture = s.capture /\ t.pending = None /\ t.state = "empty"
        /\ t.overtaken = s.overtaken /\ t.savedSql = 0
    BY <1>2 DEF Tombstone, SessionsTo
  <2>2. ~Acked(t) /\ Blanked(t)
    BY <2>1 DEF Acked, Blanked
  <2>3. \A u, c : Mine(u, c, s) => Mine(u, c, t)
    BY <2>1, <2>2 DEF Mine, Has
  <2>4. Away(s) => Away(t)
    BY <2>1 DEF Away
  <2>5. QED
    BY <1>2, <2>1, <2>2, <2>3, <2>4 DEF Minded
<1>3. QED
  BY <1>1, <1>2
LEMMA DestroyedStrips ==
  ASSUME NEW n \in Texts, NEW w, Orderly(n, w), NEW known, NEW ids, known \subseteq ids,
         \A d \in ids : d \in known \/ w.latest[d] = 0
  PROVE  Strips(w, Fence(Outdate(w, known), ids, TRUE, TRUE), ids)
<1> DEFINE o == Outdate(w, known)
           v == Fence(o, ids, TRUE, TRUE)
<1>1. w.sequence \in Nat /\ \A d \in Contexts : w.latest[d] \in Nat
  BY DEF Orderly, WritersTo
<1>2. /\ o.current = w.current /\ o.unconfirmed = w.unconfirmed
      /\ \A d \in Contexts : o.latest[d] = IF d \in known THEN w.sequence + 1 ELSE w.latest[d]
  BY DEF Outdate, Orderly, WritersTo
<1>3. o = [w EXCEPT !.sequence = w.sequence + 1,
                    !.latest = [d \in Contexts |-> IF d \in known THEN w.sequence + 1 ELSE w.latest[d]]]
  BY DEF Outdate
<1>4. DOMAIN o = DOMAIN w
  BY <1>3
<1> HIDE DEF o
<1>5. /\ v.latest = o.latest
      /\ \A d \in Contexts : d \notin ids => /\ v.current[d] = o.current[d]
                                             /\ v.unconfirmed[d] = o.unconfirmed[d]
  BY <1>4, SMTT(30) DEF Fence, Orderly, WritersTo
<1> HIDE DEF v
<1>6. ASSUME NEW d \in Contexts
      PROVE  IF d \in ids THEN v.latest[d] = 0 \/ v.latest[d] > w.sequence
             ELSE /\ v.latest[d] = w.latest[d] /\ v.current[d] \in {w.current[d], None}
                  /\ v.unconfirmed[d] = w.unconfirmed[d]
  BY <1>1, <1>2, <1>5
<1>7. Strips(w, v, ids)
  BY <1>6 DEF Strips
<1>8. QED
  BY <1>7 DEF v, o

LEMMA FencedStrips ==
  ASSUME NEW n, NEW w, Orderly(n, w)
  PROVE  Strips(w, Fence(w, Contexts, FALSE, FALSE), {})
<1> DEFINE v == Fence(w, Contexts, FALSE, FALSE)
<1>1. /\ v.latest = w.latest /\ \A d \in Contexts : v.current[d] = None
      /\ \A d \in Contexts : v.unconfirmed[d] = w.unconfirmed[d]
  BY DEF Fence, Orderly, WritersTo
<1> HIDE DEF v
<1>2. Strips(w, v, {})
  BY <1>1 DEF Strips
<1>3. QED
  BY <1>2 DEF v

LEMMA DestroyOwes ==
  ASSUME IInv, RInv, Running, NEW op \in {"delete", "clear", "disable"}, NEW ids \in SUBSET Contexts,
         Destroy(op, ids), op # "delete" => ids = Contexts
  PROVE  RInv'
<1> DEFINE known == IF op = "delete" THEN ids ELSE {d \in Contexts : writer.latest[d] # 0}
           v == Fence(Outdate(writer, known), ids, TRUE, TRUE)
           e == [op |-> op, capture |-> None, ids |-> ids]
           n == edits + 1
           tt == [q \in Pages |-> Tombstone(session[q], ids)]
           b == [d \in Contexts |-> IF d \in ids THEN 0 ELSE wanted[d]]
<1>1. writer' = v /\ session' = tt /\ queue' = Append(queue, e) /\ wanted' = b
  BY DEF Destroy
<1>2. /\ edits' = edits /\ UNCHANGED <<disk, entered, results>> /\ report' = report
      /\ snapshot' = snapshot
  BY DEF Destroy, store
<1>3. /\ n \in Texts /\ n \in Nat /\ InvOf(n, writer, Line, pref, session, snapshot)
      /\ OwedOf(n, writer, Line, wanted, session, snapshot)
  BY Known, Owing
<1>4. Orderly(n, writer) /\ queue \in Seq(JobsTo(n)) /\ session \in [Pages -> SessionsTo(n)]
  BY <1>3, Known DEF InvOf, Stored
<1>5. known \subseteq ids /\ known \subseteq Contexts /\ \A d \in ids : d \in known \/ writer.latest[d] = 0
  OBVIOUS
<1> HIDE DEF known
<1>6. Moves(n, writer, v, 0)
  BY <1>3, <1>4, <1>5, DestroyMoves, Zenon
<1>7. Strips(writer, v, ids)
  BY <1>3, <1>4, <1>5, DestroyedStrips, Zenon
<1> HIDE DEF v
<1>8. e \in JobsTo(n) /\ e.op # "write" /\ e.ids = ids
  BY <1>3 DEF JobsTo
<1> HIDE DEF e, n
<1>9. Joins(n, Line, e, Line')
  BY <1>1, <1>2, <1>4, <1>8, JobJoins
<1>10. \A q \in Pages : tt[q].open =>
         session[q].open /\ \A u, c : Minded(u, c, session[q]) => Minded(u, c, tt[q])
  <2>1. SUFFICES ASSUME NEW q \in Pages, tt[q].open
                 PROVE  session[q].open /\ \A u, c : Minded(u, c, session[q]) => Minded(u, c, tt[q])
    OBVIOUS
  <2>2. tt[q] = Tombstone(session[q], ids) /\ session[q] \in SessionsTo(n)
    BY <1>4
  <2> HIDE DEF tt
  <2>3. QED
    BY <2>1, <2>2, TombstoneMinded
<1> HIDE DEF tt
<1>11. b = [d \in Contexts |-> IF d \in e.ids THEN 0 ELSE wanted[d]] /\ Strips(writer, v, e.ids)
  BY <1>7, <1>8
<1> HIDE DEF b
<1>12. OwedOf(n, v, Line', b, tt, snapshot)
  BY <1>3, <1>6, <1>8, <1>9, <1>10, <1>11, JoinedOwed
<1>13. OwedOf(edits' + 1, writer', Line', wanted', session', snapshot')
  BY <1>1, <1>2, <1>12 DEF n
<1>14. QED
  BY <1>2, <1>13, RunningOwes

LEMMA DeleteOwes ==
  ASSUME IInv, RInv, DeleteDrafts
  PROVE  RInv'
<1>1. Running
  BY DEF DeleteDrafts, Request
<1>2. CASE \E d \in Contexts : Destroy("delete", {d})
  <2>1. PICK d \in Contexts : Destroy("delete", {d})
    BY <1>2
  <2>2. QED
    BY <1>1, <2>1, DestroyOwes
<1>3. CASE Destroy("clear", Contexts)
  BY <1>1, <1>3, DestroyOwes
<1>4. QED
  BY <1>2, <1>3 DEF DeleteDrafts

LEMMA DisableOwes ==
  ASSUME IInv, RInv, Disable
  PROVE  RInv'
<1>1. Running /\ Destroy("disable", Contexts)
  BY DEF Disable, Request
<1>2. QED
  BY <1>1, DestroyOwes

LEMMA EnableOwes ==
  ASSUME IInv, RInv, Enable
  PROVE  RInv'
<1> DEFINE v == Fence(writer, Contexts, FALSE, FALSE)
           e == [op |-> "enable", capture |-> None, ids |-> {}]
           n == edits + 1
<1>1. writer' = v /\ queue' = Append(queue, e) /\ Running
  BY DEF Enable, Request
<1>2. /\ edits' = edits /\ UNCHANGED <<disk, entered, results>> /\ session' = session
      /\ snapshot' = snapshot /\ report' = report /\ wanted' = wanted
  BY DEF Enable, storage, store
<1>3. /\ n \in Texts /\ n \in Nat /\ InvOf(n, writer, Line, pref, session, snapshot)
      /\ OwedOf(n, writer, Line, wanted, session, snapshot)
  BY <1>1, Known, Owing
<1>4. Orderly(n, writer) /\ queue \in Seq(JobsTo(n))
  BY <1>3, Known DEF InvOf, Stored
<1>5. Moves(n, writer, v, 0)
  BY <1>3, <1>4, AllFenced, ZenonT(60)
<1>6. Strips(writer, v, {})
  BY <1>4, FencedStrips, Zenon
<1> HIDE DEF v
<1>7. e \in JobsTo(n) /\ e.op # "write" /\ e.ids = {}
  BY <1>3 DEF JobsTo
<1> HIDE DEF e, n
<1>8. Joins(n, Line, e, Line')
  BY <1>1, <1>2, <1>4, <1>7, JobJoins
<1>9. wanted = [d \in Contexts |-> IF d \in e.ids THEN 0 ELSE wanted[d]]
  <2>1. wanted \in [Contexts -> 0 .. n]
    BY <1>3 DEF OwedOf
  <2>2. QED
    BY <1>7, <2>1
<1>10. Strips(writer, v, e.ids)
  BY <1>6, <1>7
<1> DEFINE b == wanted
           tt == session
<1>11. \A q \in Pages : tt[q].open => session[q].open /\ \A u, c : Minded(u, c, session[q]) => Minded(u, c, tt[q])
  OBVIOUS
<1>12. b = [d \in Contexts |-> IF d \in e.ids THEN 0 ELSE wanted[d]]
  BY <1>9, Zenon
<1> HIDE DEF b, tt
<1>13. OwedOf(n, v, Line', b, tt, snapshot)
  BY <1>3, <1>5, <1>7, <1>8, <1>10, <1>11, <1>12, JoinedOwed
<1>14. OwedOf(edits' + 1, writer', Line', wanted', session', snapshot')
  BY <1>1, <1>2, <1>13 DEF n, b, tt
<1>15. QED
  BY <1>1, <1>2, <1>14, RunningOwes
-----------------------------------------------------------------------------
(* The worker.                                                             *)

(* A step that is not of the report, and after which no draft is owed that *)
(* was not owed before.                                                    *)
LEMMA LaterOwes ==
  ASSUME RInv, report' = report, writer'.intake => writer.intake,
         \A d \in Contexts : writer'.unconfirmed[d] \in {0, writer.unconfirmed[d]},
         OwedOf(edits + 1, writer, Line, wanted, session, snapshot) =>
           OwedOf(edits' + 1, writer', Line', wanted', session', snapshot')
  PROVE  RInv'
BY DEF RInv, Running

LEMMA EnteredOwed ==
  ASSUME NEW n, NEW m, NEW k, NEW w, NEW r, NEW ss, NEW x, NEW a,
         InvOf(n, w, m, r, ss, x), OwedOf(n, w, m, a, ss, x),
         m.queue # << >>, m.queue[1].op = "write", Holds(w, m.queue[1].capture),
         k.disk = m.disk, k.queue = m.queue, k.results = m.results, k.entered = TRUE
  PROVE  OwedOf(n, w, k, a, ss, x)
<1> DEFINE cap == m.queue[1].capture
<1>1. Stored(n, m) /\ Lined(w, m)
  BY DEF InvOf
<1>2. 1 \in DOMAIN m.queue /\ m.queue[1].ids = {cap.draft}
  <2>1. 1 \in DOMAIN m.queue
    BY <1>1, TailShortens DEF Stored, Shortened
  <2>2. QED
    BY <1>1, <2>1 DEF Lined
<1>3. cap # None /\ w.current[cap.draft] = cap
  BY DEF Holds
<1> HIDE DEF cap
<1>4. ASSUME NEW d \in Contexts, Told(w, m, a, d) PROVE Told(w, k, a, d)
  <2>1. a[d] # 0 /\ d \in m.queue[1].ids => cap.sql = a[d]
    BY <1>2, <1>3, <1>4 DEF Told, Accounted
  <2>2. a[d] # 0 /\ Settled(m, a, d) => Settled(k, a, d)
    BY <2>1 DEF Settled, cap
  <2>3. Accounted(w, k, a, d)
    BY <1>4, <2>2 DEF Told, Accounted
  <2>4. InLine(w, k, a, d) /\ Answered(w, k, a, d)
    BY <1>4 DEF Told, InLine, Answered
  <2>5. QED
    BY <2>3, <2>4 DEF Told
<1>5. QED
  BY <1>4 DEF OwedOf

LEMMA LeftTold ==
  ASSUME NEW n, NEW m, NEW k, NEW w, NEW a, NEW d \in Contexts, NEW job, NEW code, NEW told,
         Stored(n, m), Lined(w, m), Told(w, m, a, d), Leaves(n, m, k, job, code, told)
  PROVE  Told(w, k, a, d)
<1> DEFINE cap == job.capture
<1>1. /\ job = m.queue[1] /\ 1 \in DOMAIN m.queue /\ k.entered = FALSE
      /\ \A i \in DOMAIN k.queue : i \in Nat /\ 0 < i /\ i + 1 \in DOMAIN m.queue /\ k.queue[i] = m.queue[i + 1]
      /\ d \notin job.ids => k.disk[d] = m.disk[d]
  BY DEF Leaves, Shortened
<1>2. job.op = "write" =>
        /\ job.ids = {cap.draft}
        /\ \/ k.disk[cap.draft] = m.disk[cap.draft]
           \/ m.entered /\ k.disk[cap.draft] = cap.sql
        /\ code = "ok" => k.disk[cap.draft] = cap.sql
  BY <1>1 DEF Leaves, Lined
<1>3. \A i \in DOMAIN k.results :
        \/ i \in DOMAIN m.results /\ k.results[i] = m.results[i]
        \/ k.results[i].job = job /\ k.results[i].code = code
  BY DEF Leaves, Grown, ResultOf
<1>4. \A i \in DOMAIN k.queue : i \in Nat /\ 0 < i
  BY <1>1
<1>5. Settled(m, a, d) => Settled(k, a, d)
  <2>1. SUFFICES ASSUME Settled(m, a, d) PROVE Settled(k, a, d)
    OBVIOUS
  <2>2. k.disk[d] = a[d]
    <3>1. CASE d \notin job.ids
      BY <1>1, <2>1, <3>1 DEF Settled
    <3>2. CASE d \in job.ids
      <4>1. job.op = "write" /\ (m.entered => cap.sql = a[d]) /\ m.disk[d] = a[d]
        BY <1>1, <2>1, <3>2 DEF Settled
      <4>2. d = cap.draft
        BY <1>2, <3>2, <4>1
      <4>3. QED
        BY <1>2, <4>1, <4>2
    <3>3. QED
      BY <3>1, <3>2
  <2>3. \A i \in DOMAIN k.queue : d \in k.queue[i].ids => k.queue[i].op = "write"
    BY <1>1, <2>1 DEF Settled
  <2>4. QED
    BY <1>1, <2>2, <2>3 DEF Settled
<1>6. Accounted(w, k, a, d)
  BY <1>5 DEF Told, Accounted
<1>7. InLine(w, k, a, d)
  <2>1. SUFFICES ASSUME NEW i \in DOMAIN k.queue, k.queue[i].op = "write", Newly(w, d, k.queue[i].capture)
                 PROVE  /\ Agrees(w, a, d, k.queue[i].capture)
                        /\ \A j \in DOMAIN k.queue : i < j => d \notin k.queue[j].ids
    BY DEF InLine
  <2>2. /\ Agrees(w, a, d, m.queue[i + 1].capture)
        /\ \A j \in DOMAIN m.queue : i + 1 < j => d \notin m.queue[j].ids
    BY <1>1, <2>1 DEF Told, InLine
  <2>3. ASSUME NEW j \in DOMAIN k.queue, i < j PROVE d \notin k.queue[j].ids
    <3>1. j + 1 \in DOMAIN m.queue /\ i + 1 < j + 1 /\ k.queue[j] = m.queue[j + 1]
      BY <1>1, <2>3
    <3>2. QED
      BY <2>2, <3>1
  <2>4. QED
    BY <1>1, <2>2, <2>3
<1>8. Answered(w, k, a, d)
  <2>1. SUFFICES ASSUME NEW i \in DOMAIN k.results, k.results[i].job.op = "write",
                        Newly(w, d, k.results[i].job.capture)
                 PROVE  /\ Agrees(w, a, d, k.results[i].job.capture)
                        /\ \A j \in DOMAIN k.queue : d \notin k.queue[j].ids
                        /\ k.results[i].code = "ok" => k.disk[d] = k.results[i].job.capture.sql
    BY DEF Answered
  <2>2. CASE i \in DOMAIN m.results /\ k.results[i] = m.results[i]
    <3>1. /\ Agrees(w, a, d, m.results[i].job.capture)
          /\ \A j \in DOMAIN m.queue : d \notin m.queue[j].ids
          /\ m.results[i].code = "ok" => m.disk[d] = m.results[i].job.capture.sql
      BY <2>1, <2>2 DEF Told, Answered
    <3>2. k.disk[d] = m.disk[d]
      BY <1>1, <3>1
    <3>3. QED
      BY <1>1, <2>2, <3>1, <3>2
  <2>3. CASE k.results[i].job = job /\ k.results[i].code = code
    <3>1. job.op = "write" /\ Newly(w, d, cap)
      BY <2>1, <2>3
    <3>2. Agrees(w, a, d, cap) /\ \A j \in DOMAIN m.queue : 1 < j => d \notin m.queue[j].ids
      BY <1>1, <3>1 DEF Told, InLine
    <3>3. \A j \in DOMAIN k.queue : d \notin k.queue[j].ids
      <4>1. ASSUME NEW j \in DOMAIN k.queue PROVE d \notin k.queue[j].ids
        <5>1. j + 1 \in DOMAIN m.queue /\ 1 < j + 1 /\ k.queue[j] = m.queue[j + 1]
          BY <1>1
        <5>2. QED
          BY <3>2, <5>1
      <4>2. QED
        BY <4>1
    <3>4. cap.draft = d
      BY <3>1 DEF Newly
    <3>5. QED
      BY <1>2, <2>3, <3>1, <3>2, <3>3, <3>4
  <2>4. QED
    BY <1>3, <2>2, <2>3
<1>9. QED
  BY <1>6, <1>7, <1>8 DEF Told

LEMMA LeftOwed ==
  ASSUME NEW n, NEW m, NEW k, NEW w, NEW r, NEW ss, NEW x, NEW a, NEW job, NEW code, NEW told,
         InvOf(n, w, m, r, ss, x), OwedOf(n, w, m, a, ss, x), Leaves(n, m, k, job, code, told)
  PROVE  OwedOf(n, w, k, a, ss, x)
<1>1. Stored(n, m) /\ Lined(w, m)
  BY DEF InvOf
<1>2. ASSUME NEW d \in Contexts PROVE Told(w, k, a, d)
  BY <1>1, LeftTold DEF OwedOf
<1>3. QED
  BY <1>2 DEF OwedOf

LEMMA WorkerOwes ==
  ASSUME IInv, RInv, Worker
  PROVE  RInv'
<1> DEFINE n == edits + 1
           m == Line
           k == Line'
           w == writer
           r == pref
           ss == session
           x == snapshot
           a == wanted
           job == queue[1]
<1>1. Entering \/ Leaving
  BY EnterLeaves, FinishLeaves, EraseLeaves, EnableSavingLeaves, Zenon DEF Worker
<1>2. UNCHANGED Loop
  BY <1>1, Zenon DEF Entering, Leaving
<1>3. /\ writer' = writer /\ session' = session /\ snapshot' = snapshot
      /\ edits' = edits /\ report' = report /\ wanted' = wanted
  BY <1>2, Zenon DEF Loop
<1>4. InvOf(n, w, m, r, ss, x)
  BY Known
<1>5. ASSUME OwedOf(n, w, m, a, ss, x) PROVE OwedOf(n, w, k, a, ss, x)
  <2>1. CASE Entering
    <3>1. /\ m.queue # << >> /\ m.queue[1].op = "write" /\ Holds(w, m.queue[1].capture)
          /\ k.disk = m.disk /\ k.queue = m.queue /\ k.results = m.results /\ k.entered = TRUE
      BY <2>1 DEF Entering, Line, Permitted
    <3> HIDE DEF m, k, w, r, ss, x, n, a
    <3>2. QED
      BY <1>4, <1>5, <3>1, EnteredOwed, Zenon
  <2>2. CASE Leaving
    <3>1. PICK code, told : Leaves(n, m, k, job, code, told)
      BY <2>2, Zenon DEF Leaving
    <3> HIDE DEF m, k, w, r, ss, x, n, a, job
    <3>2. QED
      BY <1>4, <1>5, <3>1, LeftOwed, Zenon
  <2>3. QED
    BY <1>1, <2>1, <2>2
<1>6. OwedOf(edits + 1, writer, Line, wanted, session, snapshot) =>
        OwedOf(edits' + 1, writer', Line', wanted', session', snapshot')
  BY <1>3, <1>5
<1>7. QED
  BY <1>3, <1>6, LaterOwes
-----------------------------------------------------------------------------
(* The event loop.                                                         *)

LEMMA TakenTold ==
  ASSUME NEW S, NEW m, NEW k, NEW w, NEW a, NEW d \in Contexts, Told(w, m, a, d),
         Shortened(S, m.results, k.results), k.disk = m.disk, k.queue = m.queue, k.entered = m.entered
  PROVE  Told(w, k, a, d)
<1>1. Accounted(w, k, a, d) /\ InLine(w, k, a, d)
  BY DEF Told, Accounted, Settled, InLine
<1>2. \A i \in DOMAIN k.results : i + 1 \in DOMAIN m.results /\ k.results[i] = m.results[i + 1]
  BY DEF Shortened
<1>3. Answered(w, k, a, d)
  BY <1>2 DEF Told, Answered
<1>4. QED
  BY <1>1, <1>3 DEF Told

LEMMA TakenOwed ==
  ASSUME NEW S, NEW n, NEW m, NEW k, NEW w, NEW ss, NEW x, NEW a, OwedOf(n, w, m, a, ss, x),
         Shortened(S, m.results, k.results), k.disk = m.disk, k.queue = m.queue, k.entered = m.entered
  PROVE  OwedOf(n, w, k, a, ss, x)
<1>1. ASSUME NEW d \in Contexts PROVE Told(w, k, a, d)
  BY TakenTold DEF OwedOf
<1>2. QED
  BY <1>1 DEF OwedOf

LEMMA ConfirmedFields ==
  ASSUME NEW n, NEW w, NEW cap \in CapturesTo(n), NEW code, Orderly(n, w)
  PROVE  LET v == Confirmed(w, cap, code)
         IN  /\ v.latest = w.latest /\ v.current = w.current /\ v.intake = w.intake
             /\ \A d \in Contexts :
                  \/ v.unconfirmed[d] = w.unconfirmed[d]
                  \/ v.unconfirmed[d] = 0 /\ d = cap.draft /\ code = "ok" /\ w.unconfirmed[d] = cap.rev
BY DEF Confirmed, Orderly, WritersTo, CapturesTo

(* A write that is confirmed is settled.                                   *)
LEMMA ConfirmedTold ==
  ASSUME NEW n, NEW m, NEW w, NEW v, NEW a, NEW d \in Contexts, NEW cap \in CapturesTo(n), NEW code,
         Orderly(n, w), Told(w, m, a, d), v = Confirmed(w, cap, code),
         NEW i \in DOMAIN m.results, m.results[i].job.op = "write", m.results[i].job.capture = cap,
         m.results[i].code = code
  PROVE  Told(v, m, a, d)
<1>1. /\ v.latest = w.latest /\ v.current = w.current
      /\ \/ v.unconfirmed[d] = w.unconfirmed[d]
         \/ v.unconfirmed[d] = 0 /\ d = cap.draft /\ code = "ok" /\ w.unconfirmed[d] = cap.rev
  BY ConfirmedFields
<1>2. ASSUME w.unconfirmed[d] # 0, v.unconfirmed[d] = 0, a[d] # 0 PROVE Settled(m, a, d)
  <2>1. d = cap.draft /\ code = "ok" /\ w.unconfirmed[d] = cap.rev
    BY <1>1, <1>2
  <2>2. Newly(w, d, cap)
    BY <1>2, <2>1 DEF Newly, Orderly, Coordinated
  <2>3. /\ Agrees(w, a, d, cap) /\ \A j \in DOMAIN m.queue : d \notin m.queue[j].ids
        /\ m.disk[d] = cap.sql
    BY <2>1, <2>2 DEF Told, Answered
  <2>4. QED
    BY <1>2, <2>3 DEF Settled, Agrees
<1>3. Accounted(v, m, a, d)
  BY <1>1, <1>2 DEF Told, Accounted
<1>4. InLine(v, m, a, d) /\ Answered(v, m, a, d)
  BY <1>1 DEF Told, InLine, Answered, Newly, Agrees
<1>5. QED
  BY <1>3, <1>4 DEF Told

(* The session learns what became of its write.                            *)
LEMMA CompletedMinded ==
  ASSUME NEW n, NEW s \in SessionsTo(n), NEW cap, NEW code, NEW w, NEW v, NEW a,
         v.latest = w.latest, Minded(w, a, s)
  PROVE  Minded(v, a, Completed(s, cap, code))
<1> DEFINE ok == [s EXCEPT !.failed = FALSE, !.overtaken = FALSE, !.savedSql = cap.sql,
                           !.savedContext = cap.draft,
                           !.capture = IF cap.sql = 0 THEN None ELSE @,
                           !.state = IF cap.sql = 0 THEN "empty" ELSE "saved"]
           io == [s EXCEPT !.failed = TRUE, !.state = "error"]
           Alters(t) ==
             /\ t.origin = s.origin /\ t.sql = s.sql /\ t.bound = s.bound /\ t.editor = s.editor
             /\ t.pending = s.pending /\ t.active = s.active /\ t.capture \in {s.capture, None}
             /\ t.overtaken => t.savedSql = s.savedSql /\ s.overtaken
             /\ t.state = "pending" => s.state = "pending" /\ t.capture = s.capture
<1>1. Alters(ok)
  <2>1. /\ ok.origin = s.origin /\ ok.sql = s.sql /\ ok.bound = s.bound /\ ok.editor = s.editor
        /\ ok.pending = s.pending /\ ok.active = s.active /\ ~ok.overtaken
    BY DEF SessionsTo
  <2>2. ok.capture = (IF cap.sql = 0 THEN None ELSE s.capture) /\ ok.state = IF cap.sql = 0 THEN "empty" ELSE "saved"
    BY DEF SessionsTo
  <2> HIDE DEF ok
  <2>3. ok.capture \in {s.capture, None} /\ ok.state # "pending"
    BY <2>2
  <2>4. QED
    BY <2>1, <2>3, Zenon
<1>2. Alters(io) /\ Alters(s)
  BY DEF SessionsTo
<1>3. PICK t \in {ok, io, s} :
        Completed(s, cap, code) = IF NeedsGuard(t) THEN [t EXCEPT !.state = "context_required"] ELSE t
  BY DEF Completed
<1>4. Alters(t) /\ Alters([t EXCEPT !.state = "context_required"])
  <2>1. Alters(t)
    BY <1>1, <1>2
  <2>2. Alters([ok EXCEPT !.state = "context_required"])
    BY <1>1 DEF SessionsTo
  <2>3. Alters([io EXCEPT !.state = "context_required"])
    BY DEF SessionsTo
  <2>4. Alters([s EXCEPT !.state = "context_required"])
    BY DEF SessionsTo
  <2> HIDE DEF ok, io, Alters
  <2>5. QED
    BY <2>1, <2>2, <2>3, <2>4
<1>5. Alters(Completed(s, cap, code))
  <2> HIDE DEF Alters, ok, io
  <2>1. QED
    BY <1>3, <1>4
<1> HIDE DEF ok, io
<1>6. ASSUME NEW u, Alters(u) PROVE Minded(v, a, u)
  <2>1. Mine(v, a, u)
    BY <1>6 DEF Minded, Mine, Has, Acked
  <2>2. Blanked(u)
    BY <1>6 DEF Minded, Blanked
  <2>3. ~u.active => Away(u)
    BY <1>6 DEF Minded, Away
  <2>4. QED
    BY <2>1, <2>2, <2>3 DEF Minded
<1> HIDE DEF Alters
<1>7. QED
  BY <1>5, <1>6
(* No draft has a new revision.                                            *)
LEMMA EqualOwed ==
  ASSUME NEW n, NEW m, NEW k, NEW w, NEW v, NEW a, NEW ss, NEW tt, NEW x, OwedOf(n, w, m, a, ss, x),
         v.latest = w.latest, \A d \in Contexts : Told(v, k, a, d),
         \A q \in Pages : tt[q].open => Minded(v, a, tt[q])
  PROVE  OwedOf(n, v, k, a, tt, x)
<1>1. x # None => Mine(v, a, x.s) /\ Blanked(x.s) /\ Away(x.s)
  BY DEF OwedOf, Mine, Has
<1>2. QED
  BY <1>1 DEF OwedOf

LEMMA ResultTaken ==
  ASSUME IInv, results # << >>, results' = Tail(results), UNCHANGED <<disk, queue, entered>>
  PROVE  /\ Shortened(ResultsTo(edits + 1), Line.results, Line'.results)
         /\ Head(results) = Line.results[1] /\ 1 \in DOMAIN Line.results
         /\ Line'.disk = Line.disk /\ Line'.queue = Line.queue /\ Line'.entered = Line.entered
<1>1. Stored(edits + 1, Line) /\ Line.results = results
  BY Known DEF InvOf
<1>2. results \in Seq(ResultsTo(edits + 1))
  BY <1>1 DEF Stored
<1>3. Shortened(ResultsTo(edits + 1), results, Tail(results)) /\ Head(results) = results[1]
  BY <1>2, TailShortens
<1>4. Line'.results = results' /\ Line'.disk = Line.disk /\ Line'.queue = Line.queue /\ Line'.entered = Line.entered
  BY DEF Line
<1>5. QED
  BY <1>1, <1>3, <1>4 DEF Shortened

LEMMA DeliverWriteOwes ==
  ASSUME IInv, RInv, DeliverWrite
  PROVE  RInv'
<1> DEFINE n == edits + 1
           e == results[1]
           cap == e.job.capture
           code == e.code
           p == cap.page
           m == Line
           k == Line'
           v == Confirmed(writer, cap, code)
<1>1. /\ results # << >> /\ Head(results).job.op = "write" /\ results' = Tail(results)
      /\ UNCHANGED <<disk, queue, entered>>
  BY DEF DeliverWrite, storage, store
<1>2. /\ edits' = edits /\ report' = report /\ snapshot' = snapshot /\ wanted' = wanted
  BY Zenon DEF DeliverWrite
<1>3. /\ Shortened(ResultsTo(n), m.results, k.results) /\ Head(results) = e /\ m.results[1] = e
      /\ 1 \in DOMAIN m.results /\ k.disk = m.disk /\ k.queue = m.queue /\ k.entered = m.entered
  <2>1. m.results = results
    BY DEF Line
  <2> HIDE DEF m, k
  <2>2. QED
    BY <1>1, <2>1, ResultTaken DEF m, k
<1>4. /\ writer' = v
      /\ session' = IF StillCurrent(session[p], cap)
                    THEN [session EXCEPT ![p] = Completed(@, cap, code)]
                    ELSE session
  BY <1>3 DEF DeliverWrite
<1>5. /\ Orderly(n, writer) /\ Stored(n, m) /\ session \in [Pages -> SessionsTo(n)]
  BY Known DEF InvOf
<1>6. cap \in CapturesTo(n)
  BY <1>1, <1>3, <1>5, JobsAndResults
<1>7. /\ v.latest = writer.latest /\ v.intake = writer.intake
      /\ \A d \in Contexts : v.unconfirmed[d] \in {0, writer.unconfirmed[d]}
  BY <1>5, <1>6, ConfirmedFields
<1>8. v = Confirmed(writer, cap, code)
  OBVIOUS
<1>9. m.results[1].job.op = "write" /\ m.results[1].job.capture = cap /\ m.results[1].code = code
  BY <1>1, <1>3
<1> HIDE DEF n, cap, code, k, m, v, e
<1>10. ASSUME OwedOf(n, writer, m, wanted, session, snapshot)
       PROVE  OwedOf(n, v, k, wanted, session', snapshot)
  <2>1. ASSUME NEW d \in Contexts PROVE Told(v, k, wanted, d)
    <3>1. Told(writer, m, wanted, d)
      BY <1>10 DEF OwedOf
    <3>2. Told(v, m, wanted, d)
      BY <1>3, <1>5, <1>6, <1>8, <1>9, <3>1, ConfirmedTold
    <3>3. QED
      BY <1>3, <3>2, TakenTold
  <2>2. ASSUME NEW q \in Pages, session'[q].open PROVE Minded(v, wanted, session'[q])
    <3>1. \/ session'[q] = session[q]
          \/ session[q].open /\ session'[q] = Completed(session[q], cap, code)
      BY <1>4, <1>5 DEF StillCurrent
    <3>2. session[q].open
      BY <2>2, <3>1
    <3>3. Minded(writer, wanted, session[q]) /\ session[q] \in SessionsTo(n)
      BY <1>5, <1>10, <3>2 DEF OwedOf
    <3>4. Minded(v, wanted, session[q])
      BY <1>7, <3>3 DEF Minded, Mine, Has
    <3>5. Minded(v, wanted, Completed(session[q], cap, code))
      BY <1>7, <3>3, CompletedMinded
    <3>6. QED
      BY <3>1, <3>4, <3>5
  <2>3. QED
    BY <1>7, <1>10, <2>1, <2>2, EqualOwed
<1>11. OwedOf(edits + 1, writer, Line, wanted, session, snapshot) =>
         OwedOf(edits' + 1, writer', Line', wanted', session', snapshot')
  BY <1>2, <1>4, <1>10 DEF n, k, m
<1>12. QED
  BY <1>2, <1>4, <1>7, <1>11, LaterOwes

LEMMA DeliverDeletionOwes ==
  ASSUME IInv, RInv, DeliverDeletion
  PROVE  RInv'
<1> DEFINE n == edits + 1
           m == Line
           k == Line'
<1>1. /\ results # << >> /\ results' = Tail(results) /\ UNCHANGED <<disk, queue, entered>>
  BY DEF DeliverDeletion, storage, store
<1>2. /\ edits' = edits /\ report' = report /\ snapshot' = snapshot /\ wanted' = wanted
      /\ writer' = writer /\ session' = session
  BY Zenon DEF DeliverDeletion
<1>3. /\ Shortened(ResultsTo(n), m.results, k.results)
      /\ k.disk = m.disk /\ k.queue = m.queue /\ k.entered = m.entered
  BY <1>1, ResultTaken, Zenon
<1> HIDE DEF n, m, k
<1>4. OwedOf(n, writer, m, wanted, session, snapshot) => OwedOf(n, writer, k, wanted, session, snapshot)
  BY <1>3, TakenOwed
<1>5. OwedOf(edits + 1, writer, Line, wanted, session, snapshot) =>
        OwedOf(edits' + 1, writer', Line', wanted', session', snapshot')
  BY <1>2, <1>4 DEF n, k, m
<1>6. QED
  BY <1>2, <1>5, LaterOwes
(* The live text is saved anew.                                            *)
LEMMA ResaveOwed ==
  ASSUME NEW n \in Texts, NEW k, NEW r, NEW z \in Preferences, NEW x, z.enabled, Resave(z),
         InvOf(n, writer, k, r, session, x), writer.intake, OwedOf(n, writer, k, wanted, session, x)
  PROVE  OwedOf(n, writer', k, wanted', session', x)
<1>1. CASE \E p \in Pages : session[p].open /\ session[p].active /\ session[p].sql # 0
  <2> DEFINE p == CHOOSE p \in Pages : session[p].open /\ session[p].active /\ session[p].sql # 0
             s == session[p]
             text == s.sql
             u == Edited(writer, z, s, p, text)
             j == IF Accepted(u) /\ ~s.overtaken THEN text ELSE 0
  <2>1. p \in Pages /\ s.open /\ s.active /\ text # 0
    BY <1>1
  <2>2. writer' = u.w /\ session' = [session EXCEPT ![p] = u.s] /\ wanted' = [wanted EXCEPT ![Home(s)] = j]
    BY <1>1 DEF Resave
  <2> HIDE DEF p
  <2>3. Orderly(n, writer) /\ Sound(n, writer, s, p) /\ text \in 0 .. n
    BY <2>1, SoundPages DEF Sound, SessionsTo
  <2>4. Home(s) \in Contexts
    BY <2>1, <2>3, RetypedSound
  <2>5. Home(s) # None /\ Aim(writer, s, text) = Home(s)
    BY <2>1, <2>4, NoneIsNoValue DEF Aim
  <2>6. j \in {0, text} /\ (j # 0 => z.enabled /\ Accepted(u) /\ ~s.overtaken)
    OBVIOUS
  <2>7. text = session[p].sql /\ s = session[p] /\ u = Edited(writer, z, session[p], p, text)
    OBVIOUS
  <2>8. s.sql = text
    OBVIOUS
  <2> HIDE DEF j, u, s, text
  <2>9. Gives(writer, z, s, text, u, wanted, wanted')
    BY <2>2, <2>5, <2>6, <2>8 DEF Gives
  <2>10. OwedOf(n, u.w, k, wanted', [session EXCEPT ![p] = u.s], x)
    <3>1. Gives(writer, z, session[p], text, u, wanted, wanted') /\ session[p].open /\ session[p].active
      BY <2>1, <2>7, <2>9
    <3>2. QED
      BY <2>1, <2>3, <2>7, <3>1, EditOwed
  <2>11. QED
    BY <2>2, <2>10
<1>2. CASE ~\E p \in Pages : session[p].open /\ session[p].active /\ session[p].sql # 0
  BY <1>2 DEF Resave
<1>3. QED
  BY <1>1, <1>2

(* The pages are told that nothing is saved.                               *)
LEMMA SayingMinded ==
  ASSUME NEW n, NEW s \in SessionsTo(n), NEW w, NEW a, NEW state, state # "pending", Minded(w, a, s)
  PROVE  Minded(w, a, [s EXCEPT !.state = state])
<1> DEFINE t == [s EXCEPT !.state = state]
<1>1. /\ t.origin = s.origin /\ t.sql = s.sql /\ t.bound = s.bound /\ t.pending = s.pending
      /\ t.active = s.active /\ t.capture = s.capture /\ t.savedSql = s.savedSql
      /\ t.overtaken = s.overtaken /\ t.state = state
  BY DEF SessionsTo
<1> HIDE DEF t
<1>2. Mine(w, a, t) /\ Blanked(t) /\ (~t.active => Away(t))
  BY <1>1 DEF Minded, Mine, Has, Acked, Blanked, Away
<1>3. QED
  BY <1>2 DEF Minded, t

LEMMA DeliverPreferenceOwes ==
  ASSUME IInv, RInv, DeliverPreference
  PROVE  RInv'
<1> DEFINE n == edits + 1
           e == results[1]
           m == Line
           k == Line'
<1>1. /\ results # << >> /\ results' = Tail(results) /\ UNCHANGED <<disk, queue, entered>>
  BY DEF DeliverPreference, store
<1>2. edits' = edits /\ report' = report /\ snapshot' = snapshot
  BY Zenon DEF DeliverPreference
<1>3. /\ Shortened(ResultsTo(n), m.results, k.results)
      /\ k.disk = m.disk /\ k.queue = m.queue /\ k.entered = m.entered
  BY <1>1, ResultTaken, Zenon
<1>4. InvOf(n, writer, k, pref, session, snapshot) /\ Head(results) = e /\ e \in ResultsTo(n)
  BY <1>1, OldestResult
<1>5. n \in Texts
  BY Known
<1> HIDE DEF n, k, m
<1>6. \A a, ss, x : OwedOf(n, writer, m, a, ss, x) => OwedOf(n, writer, k, a, ss, x)
  BY <1>3, TakenOwed
<1>7. CASE ~writer.intake
  <2>1. writer' = writer /\ session' = session /\ wanted' = wanted
    BY <1>7, Zenon DEF DeliverPreference
  <2>2. OwedOf(edits + 1, writer, Line, wanted, session, snapshot) =>
          OwedOf(edits' + 1, writer', Line', wanted', session', snapshot')
    BY <1>2, <1>6, <2>1 DEF n, m, k
  <2>3. QED
    BY <1>2, <2>1, <2>2, LaterOwes
<1>8. CASE writer.intake
  <2> DEFINE on == e.job.op = "enable"
             told == e.enabled
             ok == e.code = "ok" /\ told = on
             z == [enabled |-> IF told = None THEN pref.enabled ELSE told,
                   suspended |-> ~(on /\ ok), busy |-> FALSE,
                   owed |-> IF ok THEN "none" ELSE IF on THEN "enable" ELSE "cleanup",
                   confirmed |-> told # None]
  <2>1. PreferenceSettles(e.job, e.code, e.enabled)
    BY <1>4, <1>8 DEF DeliverPreference
  <2>2. IF on /\ ok THEN Resave(z)
        ELSE /\ session' = [p \in Pages |->
                  IF ~session[p].open THEN session[p]
                  ELSE [session[p] EXCEPT !.state = IF z.enabled THEN "error" ELSE "off"]]
             /\ UNCHANGED <<writer, wanted, history>>
    BY <2>1 DEF PreferenceSettles
  <2>3. z \in Preferences /\ (on /\ ok => z.enabled /\ ~z.suspended)
    <3>1. on \in BOOLEAN /\ ok \in BOOLEAN /\ told \in BOOLEAN \union {None} /\ (ok => told = on)
      BY <1>4 DEF ResultsTo
    <3>2. z = [enabled |-> IF told = None THEN pref.enabled ELSE told,
               suspended |-> ~(on /\ ok), busy |-> FALSE,
               owed |-> IF ok THEN "none" ELSE IF on THEN "enable" ELSE "cleanup",
               confirmed |-> told # None]
      OBVIOUS
    <3>3. pref \in Preferences
      BY <1>4 DEF InvOf
    <3> HIDE DEF on, ok, told, z
    <3>4. QED
      BY <3>1, <3>2, <3>3, SettledPreference
  <2> HIDE DEF on, ok, told, z
  <2>4. Running
    BY <1>8 DEF RInv
  <2>5. OwedOf(n, writer, m, wanted, session, snapshot)
    BY <2>4, Owing DEF n, m
  <2>6. OwedOf(n, writer, k, wanted, session, snapshot)
    BY <1>6, <2>5
  <2>7. OwedOf(n, writer', k, wanted', session', snapshot)
    <3>1. CASE on /\ ok
      BY <1>4, <1>5, <1>8, <2>2, <2>3, <2>6, <3>1, ResaveOwed
    <3>2. CASE ~(on /\ ok)
      <4> DEFINE state == IF z.enabled THEN "error" ELSE "off"
      <4>1. state # "pending"
        OBVIOUS
      <4>2. /\ session' = [p \in Pages |-> IF ~session[p].open THEN session[p]
                                           ELSE [session[p] EXCEPT !.state = state]]
            /\ writer' = writer /\ wanted' = wanted
        BY <2>2, <3>2
      <4> HIDE DEF state
      <4>3. session \in [Pages -> SessionsTo(n)]
        BY <1>4 DEF InvOf
      <4>4. ASSUME NEW q \in Pages, session'[q].open PROVE Minded(writer, wanted, session'[q])
        <5>1. CASE ~session[q].open
          BY <4>2, <4>4, <5>1
        <5>2. CASE session[q].open
          <6>1. session'[q] = [session[q] EXCEPT !.state = state] /\ session[q] \in SessionsTo(n)
            BY <4>2, <4>3, <5>2
          <6>2. Minded(writer, wanted, session[q])
            BY <2>6, <5>2 DEF OwedOf
          <6>3. Minded(writer, wanted, [session[q] EXCEPT !.state = state])
            BY <4>1, <4>3, <6>2, SayingMinded
          <6>4. QED
            BY <6>1, <6>3
        <5>3. QED
          BY <5>1, <5>2
      <4>5. \A d \in Contexts : Told(writer, k, wanted, d)
        BY <2>6 DEF OwedOf
      <4>6. OwedOf(n, writer, k, wanted, session', snapshot)
        BY <2>6, <4>4, <4>5, EqualOwed
      <4>7. QED
        BY <4>2, <4>6
    <3>3. QED
      BY <3>1, <3>2
  <2>8. OwedOf(edits' + 1, writer', Line', wanted', session', snapshot')
    BY <1>2, <2>7 DEF n, k
  <2>9. QED
    BY <1>2, <2>4, <2>8, RunningOwes
<1>9. QED
  BY <1>7, <1>8
-----------------------------------------------------------------------------
(* The report.                                                             *)

\* The coordinator has at most let go of its writes, and of what it owed.
Drops(w, v) ==
    /\ v.latest = w.latest /\ v.intake = w.intake
    /\ \A d \in Contexts : /\ v.current[d] \in {w.current[d], None}
                           /\ v.unconfirmed[d] \in {w.unconfirmed[d], 0}

LEMMA FenceDrops ==
  ASSUME NEW n, NEW w, Orderly(n, w)
  PROVE  Drops(w, w) /\ Drops(w, Fence(w, Contexts, TRUE, TRUE))
BY DEF Drops, Fence, Orderly, WritersTo

(* Nothing is owed any more.                                               *)
LEMMA ReportedOwed ==
  ASSUME NEW n, NEW m, NEW k, NEW w, NEW v, NEW ss, NEW tt, NEW x, NEW a, OwedOf(n, w, m, a, ss, x),
         Drops(w, v), \A d \in Contexts : w.unconfirmed[d] = 0,
         k.disk = m.disk, k.queue = m.queue, k.entered = m.entered, DOMAIN k.results = {},
         \A p \in Pages : ~tt[p].open
  PROVE  OwedOf(n, v, k, a, tt, None)
<1>1. ASSUME NEW d \in Contexts PROVE Told(v, k, a, d)
  <2>1. Told(w, m, a, d) /\ w.unconfirmed[d] = 0
    BY DEF OwedOf
  <2>2. v.latest = w.latest /\ v.current[d] \in {w.current[d], None}
    BY DEF Drops
  <2>3. a[d] # 0 => Settled(k, a, d)
    BY <2>1 DEF Told, Accounted, Settled
  <2>4. Accounted(v, k, a, d)
    BY <2>1, <2>2, <2>3 DEF Told, Accounted
  <2>5. InLine(v, k, a, d) /\ Answered(v, k, a, d)
    BY <2>1, <2>2 DEF Told, InLine, Answered, Newly, Agrees
  <2>6. QED
    BY <2>4, <2>5 DEF Told
<1>2. QED
  BY <1>1 DEF OwedOf

LEMMA NothingUnconfirmed ==
  ASSUME Cardinality(UnconfirmedDrafts(writer, pref, session)) = 0
  PROVE  \A d \in Contexts : writer.unconfirmed[d] = 0
<1> DEFINE U == UnconfirmedDrafts(writer, pref, session)
<1>1. U \subseteq Contexts /\ \A d \in Contexts : writer.unconfirmed[d] # 0 => d \in U
  BY DEF UnconfirmedDrafts
<1> HIDE DEF U
<1>2. IsFiniteSet(U)
  BY <1>1, DraftParameters, FS_Subset
<1>3. U = {}
  BY <1>2, FS_EmptySet DEF U
<1>4. QED
  BY <1>1, <1>3

LEMMA ReportOwes ==
  ASSUME IInv, RInv, Report
  PROVE  RInv'
<1> DEFINE n == edits + 1
           m == Line
           k == Line'
           v == writer'
           tt == session'
<1>1. /\ edits' = edits /\ snapshot' = None /\ wanted' = wanted /\ results' = << >>
      /\ disk' = disk /\ queue' = queue /\ entered' = entered
      /\ session' = [p \in Pages |-> Retired]
  BY Zenon DEF Report, storage, store
<1>2. /\ report.phase = "draining"
      /\ report' = [phase |-> "done", count |-> Cardinality(UnconfirmedDrafts(writer, pref, session))]
  BY DEF Report
<1>3. OwedOf(n, writer, m, wanted, session, snapshot) /\ ~writer.intake
  BY <1>2 DEF RInv, Running
<1>4. Drops(writer, v)
  <2>1. Orderly(n, writer)
    BY Known DEF InvOf
  <2>2. v = writer \/ v = Fence(writer, Contexts, TRUE, TRUE)
    BY Zenon DEF Report
  <2> HIDE DEF v, n
  <2>3. QED
    BY <2>1, <2>2, FenceDrops
<1>5. /\ k.disk = m.disk /\ k.queue = m.queue /\ k.entered = m.entered /\ k.results = << >>
  BY <1>1, Zenon DEF Line
<1>6. DOMAIN k.results = {}
  BY <1>5, NoResults, Zenon
<1>7. \A p \in Pages : ~tt[p].open
  BY <1>1 DEF Retired, Detached, NewSession
<1>8. k.disk = m.disk /\ k.queue = m.queue /\ k.entered = m.entered
  BY <1>5
<1>9. report'.phase = "done" /\ (report'.count = 0 => Cardinality(UnconfirmedDrafts(writer, pref, session)) = 0)
  BY <1>2
<1> HIDE DEF n, m, k, v, tt
<1>10. ~writer'.intake
  BY <1>3, <1>4 DEF Drops, v
<1>11. ASSUME report'.count = 0
       PROVE  /\ OwedOf(n, v, k, wanted, tt, None)
              /\ \A d \in Contexts : v.unconfirmed[d] = 0
  <2>1. \A d \in Contexts : writer.unconfirmed[d] = 0
    BY <1>9, <1>11, NothingUnconfirmed
  <2>2. OwedOf(n, v, k, wanted, tt, None)
    BY <1>3, <1>4, <1>6, <1>7, <1>8, <2>1, ReportedOwed
  <2>3. QED
    BY <1>4, <2>1, <2>2 DEF Drops
<1>12. report'.count = 0 =>
         /\ OwedOf(edits' + 1, writer', Line', wanted', session', snapshot')
         /\ \A d \in Contexts : writer'.unconfirmed[d] = 0
  BY <1>1, <1>11 DEF n, k, v, tt
<1>13. QED
  BY <1>9, <1>10, <1>12 DEF RInv

-----------------------------------------------------------------------------
LEMMA InitOwes ==
  ASSUME Init
  PROVE  RInv
<1> DEFINE n == edits + 1
           m == Line
<1>1. IInv
  BY InitKeeps
<1>2. n \in Nat
  BY <1>1, Known
<1>3. PICK c \in Contexts :
        session = [p \in Pages |-> IF p = 1 THEN NewSession(TRUE, TRUE, c) ELSE Detached]
  BY DEF Init
<1>4. /\ queue = << >> /\ results = << >> /\ snapshot = None
      /\ report = [phase |-> "open", count |-> 0] /\ wanted = [d \in Contexts |-> 0]
  BY DEF Init
<1>5. m.queue = << >> /\ m.results = << >>
  BY <1>4, Zenon DEF Line
<1>6. DOMAIN m.queue = {} /\ DOMAIN m.results = {}
  BY <1>5, NoResults, Zenon
<1> HIDE DEF n, m
<1>7. \A d \in Contexts : Told(writer, m, wanted, d)
  BY <1>4, <1>6 DEF Told, Accounted, InLine, Answered
<1>8. ASSUME NEW p \in Pages, session[p].open PROVE Minded(writer, wanted, session[p])
  <2>1. session[p].origin = None /\ session[p].state = "off" /\ session[p].active
    BY <1>3, <1>8 DEF Detached, NewSession
  <2>2. QED
    BY <2>1 DEF Minded, Mine, Has, Blanked
<1>9. OwedOf(n, writer, m, wanted, session, snapshot)
  <2>1. wanted \in [Contexts -> 0 .. n]
    BY <1>2, <1>4
  <2>2. QED
    BY <1>4, <1>7, <1>8, <2>1 DEF OwedOf
<1>10. OwedOf(edits + 1, writer, Line, wanted, session, snapshot)
  BY <1>9 DEF n, m
<1>11. Running /\ report.phase # "done"
  BY <1>4 DEF Running
<1>12. QED
  BY <1>10, <1>11 DEF RInv

LEMMA NothingOwes ==
  ASSUME IInv, RInv, UNCHANGED vars
  PROVE  RInv'
<1>1. /\ edits' = edits /\ report' = report /\ snapshot' = snapshot /\ session' = session
      /\ writer' = writer /\ wanted' = wanted /\ UNCHANGED <<disk, queue, entered, results>>
  BY Zenon DEF vars
<1>2. Line' = Line
  BY <1>1, LineStays, Zenon
<1>3. OwedOf(edits + 1, writer, Line, wanted, session, snapshot) =>
        OwedOf(edits' + 1, writer', Line', wanted', session', snapshot')
  BY <1>1, <1>2
<1>4. QED
  BY <1>1, <1>3, LaterOwes

LEMMA NextOwes ==
  ASSUME IInv, RInv, Next
  PROVE  RInv'
<1>1. CASE \E p \in Pages : OnPage(p)
  BY <1>1, PageStepOwes
<1>2. CASE DeleteDrafts \/ Disable \/ Enable \/ TimerFires
  BY <1>2, DeleteOwes, DisableOwes, EnableOwes, TimerOwes
<1>3. CASE Worker
  BY <1>3, WorkerOwes
<1>4. CASE Deliver
  BY <1>4, DeliverWriteOwes, DeliverDeletionOwes, DeliverPreferenceOwes DEF Deliver
<1>5. CASE Shutdown \/ Report
  BY <1>5, ShutdownOwes, ReportOwes
<1>6. CASE Stopped
  BY <1>6, NothingOwes, Zenon DEF Stopped
<1>7. QED
  BY <1>1, <1>2, <1>3, <1>4, <1>5, <1>6, Zenon DEF Next

-----------------------------------------------------------------------------
(* The theorems about the report.                                          *)

(* Until the report has counted something, the text last given to a draft  *)
(* is the one that its current write and the session that has the draft    *)
(* have, and it is owed unless it is on disk and nothing on its way        *)
(* changes that: the invariant of the shutdown report.                     *)
THEOREM OwedInvariant == Spec => []RInv
<1>1. Init => RInv
  BY InitOwes
<1>2. IInv /\ RInv /\ [Next]_vars => RInv'
  BY NextOwes, NothingOwes
<1>3. QED
  BY <1>1, <1>2, DraftInvariant, PTL DEF Spec

(* The shutdown report does not miss an edit.  When it counts nothing, the *)
(* disk holds the text that the user last gave each draft, whether the     *)
(* wait ended with everything applied or at the deadline, and whatever the *)
(* worker finishes afterwards.                                             *)
THEOREM ReportIsTrue == Spec => []ReportIsComplete
<1>1. IInv /\ RInv => ReportIsComplete
  <2>1. SUFFICES ASSUME IInv, RInv, report.phase = "done", report.count = 0,
                        NEW d \in Contexts, wanted[d] # 0
                 PROVE  disk[d] = wanted[d]
    BY DEF ReportIsComplete
  <2>2. Accounted(writer, Line, wanted, d) /\ writer.unconfirmed[d] = 0
    BY <2>1 DEF RInv, OwedOf, Told
  <2>3. Line.disk[d] = wanted[d]
    BY <2>1, <2>2 DEF Accounted, Settled
  <2>4. QED
    BY <2>3 DEF Line
<1>2. QED
  BY <1>1, DraftInvariant, OwedInvariant, PTL
=============================================================================
