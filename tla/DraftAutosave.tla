---------------------------- MODULE DraftAutosave ----------------------------
(***************************************************************************)
(* Local SQL drafts of the Athena editor: sessions (one per page) hand     *)
(* their text to one write coordinator, which debounces it, owns one       *)
(* current write per draft, and gives it to a single worker thread.  The   *)
(* worker's results come back to the event loop later, one at a time, and  *)
(* everything else (edits, a change of context, a page replaced or         *)
(* restored, deletion, disabling, shutdown) happens in between.            *)
(*                                                                         *)
(* A draft is named by its complete query context.  Texts are numbered in  *)
(* the order they are typed; 0 is blank text, and no record on disk.       *)
(***************************************************************************)
EXTENDS Naturals, Sequences, FiniteSets, SequencesExt

CONSTANTS
    Contexts,       \* complete query contexts, each the identity of a draft
    Pages,          \* editor pages, in the order they are opened: 1, 2, ...
    None,           \* no capture, no context, no origin
    MaxEdits,       \* bound: edits of all pages together
    MaxEvents       \* bound: edits, requests and failing operations together

ASSUME DraftParameters ==
    /\ MaxEdits \in Nat /\ MaxEvents \in Nat
    /\ Pages = 1 .. Cardinality(Pages)
    /\ IsFiniteSet(Contexts)

VARIABLES
    disk,       \* the record stored for each draft
    allowed,    \* the stored preference: drafts may be saved
    writer,     \* the coordinator: what it owns of each draft
    pref,       \* what the runtime believes of the preference
    queue,      \* jobs of the worker thread, oldest first
    entered,    \* the oldest job is past its last permit check
    results,    \* finished jobs the event loop has not applied yet
    session,    \* the draft session of each page
    snapshot,   \* the page snapshot that a replacement page may be given
    report,     \* shutdown: open, draining, done with a count
    edits, requests, faults,
    covered,    \* history: texts the draft has left behind, see below
    erased,     \* history: those that a finished deletion covered
    replaced,   \* history: those that a newer save has replaced on disk
    wanted      \* history: the text the user last gave the draft, 0 if none

history == <<covered, erased, replaced>>

vars == <<disk, allowed, writer, pref, queue, entered, results, session,
          snapshot, report, edits, requests, faults, history, wanted>>

store == <<disk, allowed, entered, faults>>

storage == <<store, history>>

Texts == 0 .. MaxEdits + 1
Captures == [draft : Contexts, rev : Nat, sql : Texts, page : Pages, editor : Nat]
Origins == [draft : Contexts, rev : Nat]

ASSUME NoneIsNoValue == None \notin Contexts \union Captures \union Origins \union BOOLEAN
States == {"off", "empty", "pending", "saved", "error", "context_required"}

(* A session before any edit; an unopened or detached one is not open.     *)
(* "overtaken" is history: its text was restored while drafts were off and *)
(* its draft had been written or deleted since, and no save followed.      *)
NewSession(opened, active, c) ==
    [open |-> opened, active |-> active, closing |-> FALSE, sql |-> 0,
     context |-> c, bound |-> None, savedSql |-> 0, savedContext |-> None,
     editor |-> 0, deleted |-> FALSE, failed |-> FALSE, capture |-> None,
     origin |-> None, transferred |-> FALSE, pending |-> None, state |-> "off",
     overtaken |-> FALSE]

Detached == NewSession(FALSE, FALSE, None)

-----------------------------------------------------------------------------
(* The coordinator's operations, as functions of its record.               *)

Holds(w, cap) == cap # None /\ w.current[cap.draft] = cap

\* A bug: a fenced draft keeps its timer.
FenceButTimers(w, ids, dropUnconfirmed, dropRetained) ==
    [w EXCEPT !.current = [d \in Contexts |-> IF d \in ids THEN None ELSE @[d]]]

Fence(w, ids, dropUnconfirmed, dropRetained) ==
    [w EXCEPT
        !.current = [d \in Contexts |-> IF d \in ids THEN None ELSE @[d]],
        !.timers = @ \ ids,
        !.unconfirmed = [d \in Contexts |->
            IF d \in ids /\ dropUnconfirmed THEN 0 ELSE @[d]],
        !.retained = [d \in Contexts |->
            IF d \in ids /\ dropRetained THEN {} ELSE @[d]]]

Track(w, d, unconfirmed) ==
    LET f == Fence(w, {d}, TRUE, FALSE)
        n == f.sequence + 1
    IN  [f EXCEPT !.sequence = n, !.latest[d] = n,
                  !.unconfirmed[d] = IF unconfirmed THEN n ELSE 0]

(* Keep an obligation for text whose draft a newer writer owns.            *)
Retain(w, origin) ==
    LET n == w.sequence + 1
    IN  [w EXCEPT !.sequence = n,
                  !.retained[origin.draft] = (@ \ {origin.rev}) \union {n}]

\* A bug: deletion leaves the revisions as they are.
OutdateNothing(w, ids) == w

(* Deletion makes every earlier revision of the drafts stale.              *)
Outdate(w, ids) ==
    [w EXCEPT !.sequence = @ + 1,
              !.latest = [d \in Contexts |->
                            IF d \in ids THEN w.sequence + 1 ELSE @[d]]]

Revoke(w, s) ==
    IF Holds(w, s.capture) THEN Fence(w, {s.capture.draft}, TRUE, FALSE) ELSE w

Release(w, s) ==
    IF ~s.active \/ s.origin = None THEN w
    ELSE LET d == s.origin.draft
             r == [w EXCEPT !.retained[d] = @ \ {s.origin.rev}]
         IN  IF r.latest[d] = s.origin.rev
             THEN Fence(r, {d}, TRUE, FALSE) ELSE r

WriteJob(cap) == [op |-> "write", capture |-> cap, ids |-> {cap.draft}]

Launch(w, ids) == [w EXCEPT !.timers = @ \ ids]

-----------------------------------------------------------------------------
(* The session's operations return the coordinator and the session.        *)

Unsaved(s, c) == s.sql # 0 /\ (s.sql # s.savedSql \/ c # s.savedContext)

NeedsGuard(s) == s.sql # 0 /\ s.bound # None /\ s.bound # s.context

Home(s) == IF s.bound # None THEN s.bound ELSE s.context

ScheduleSession(w, r, s, p, d) ==
    IF r.suspended \/ ~r.enabled THEN [w |-> w, s |-> s]
    ELSE IF ~w.intake
    THEN [w |-> Release(w, s), s |-> [s EXCEPT !.capture = None]]
    ELSE LET t == Track(Release(w, s), d, s.sql # 0)
             cap == [draft |-> d, rev |-> t.sequence, sql |-> s.sql,
                     page |-> p, editor |-> s.editor]
         IN  [w |-> [t EXCEPT !.current[d] = cap, !.timers = @ \union {d}],
              s |-> [s EXCEPT !.capture = cap,
                              !.origin = [draft |-> d, rev |-> cap.rev]]]

RetainUnscheduled(w, r, s) ==
    IF \/ ~r.enabled \/ ~s.active \/ ~w.intake
       \/ s.origin # None /\ w.latest[s.origin.draft] # s.origin.rev
    THEN [w |-> w, s |-> s]
    ELSE IF s.sql = 0 THEN [w |-> Release(w, s), s |-> s]
    ELSE LET t == Track(Release(w, s), Home(s), Unsaved(s, Home(s)))
         IN  [w |-> t, s |-> [s EXCEPT !.origin = [draft |-> Home(s),
                                                   rev |-> t.sequence]]]

(* Which context a blank edit deletes the draft of.                        *)
BlankOrigin(w, s) ==
    IF s.bound # None THEN s.bound
    ELSE IF Holds(w, s.capture) /\ s.capture.sql = 0 THEN s.capture.draft
    ELSE None

(* The session once the editor's text is this one. *)
Retyped(s, text) ==
    [s EXCEPT !.sql = text, !.editor = @ + 1, !.failed = FALSE,
              !.deleted = FALSE, !.pending = None,
              !.bound = IF text = 0 THEN None ELSE Home(s),
              !.overtaken = @ /\ text = s.sql]

Edited(w, r, s, p, text) ==
    LET e == Retyped(s, text)
        To(u, state) == [u EXCEPT !.s.state = state]
        revoked == Revoke(w, e)
    IN  IF ~e.active \/ ~r.enabled THEN [w |-> revoked, s |-> [e EXCEPT !.state = "off"]]
        ELSE IF r.suspended THEN To(RetainUnscheduled(revoked, r, e), "error")
        ELSE IF text = 0 /\ BlankOrigin(w, s) = None
        THEN [w |-> Release(revoked, e),
              s |-> [e EXCEPT !.capture = None, !.state = "empty"]]
        ELSE IF text = 0
        THEN To(ScheduleSession(w, r, e, p, BlankOrigin(w, s)), "pending")
        ELSE IF NeedsGuard(e)
        THEN To(RetainUnscheduled(revoked, r, e), "context_required")
        ELSE To(ScheduleSession(w, r, e, p, e.context), "pending")

\* A bug: a restored editor writes whatever happened to its draft since.
NeverSuperseded(w, s) == FALSE

(* A restored editor becomes the live one.                                 *)
Superseded(w, s) == s.origin # None /\ w.latest[s.origin.draft] # s.origin.rev

Claim(w, r, s0, p) ==
    LET s == [s0 EXCEPT !.transferred = FALSE]
        c == IF s.sql = 0 /\ s.pending # None THEN s.pending ELSE Home(s)
    IN  IF ~r.enabled
        THEN [w |-> w, s |-> [s EXCEPT !.overtaken = @ \/ Superseded(w, s)]]
        ELSE IF ~w.intake \/ s.deleted THEN [w |-> w, s |-> s]
        ELSE IF Superseded(w, s)
        THEN IF s.sql = 0 THEN [w |-> w, s |-> s]
             ELSE LET t == Retain(w, s.origin)
                  IN  [w |-> t,
                       s |-> [s EXCEPT !.savedSql = 0, !.savedContext = None,
                                       !.failed = TRUE, !.origin.rev = t.sequence,
                                       !.state = IF NeedsGuard(s)
                                                 THEN "context_required" ELSE "error"]]
        ELSE IF s.state = "pending" /\ ~r.suspended /\ ~NeedsGuard(s)
        THEN ScheduleSession(w, r, s, p, c)
        ELSE RetainUnscheduled(w, r, s)

(* Before a page goes away its unfired save is started, a failed one again. *)
PrepareFinal(w, r, s, p) ==
    IF \/ ~w.intake \/ r.suspended \/ s.deleted \/ ~Holds(w, s.capture)
       \/ s.capture.editor # s.editor
    THEN [w |-> w, s |-> s, jobs |-> << >>]
    ELSE LET u == IF s.failed THEN ScheduleSession(w, r, s, p, s.capture.draft)
                  ELSE [w |-> w, s |-> s]
             d == u.s.capture.draft
         IN  [w |-> Launch(u.w, {d}), s |-> u.s,
              jobs |-> IF d \in u.w.timers THEN <<WriteJob(u.s.capture)>> ELSE << >>]

Tombstone(s, ids) ==
    IF ~s.open \/ Home(s) \notin ids THEN s
    ELSE [s EXCEPT !.deleted = TRUE, !.pending = None, !.savedSql = 0,
                   !.savedContext = None, !.state = "empty"]

SessionUnconfirmed(w, r, s) ==
    /\ r.enabled /\ s.active /\ s.open /\ ~s.deleted /\ Unsaved(s, s.context)
    /\ \/ s.origin = None
       \/ w.latest[s.origin.draft] \in {0, s.origin.rev}
       \/ s.origin.rev \in w.retained[s.origin.draft]

UnconfirmedDrafts(w, r, ss) ==
    {d \in Contexts : \/ w.unconfirmed[d] # 0
                      \/ w.retained[d] # {}
                      \/ \E p \in Pages : SessionUnconfirmed(w, r, ss[p]) /\ Home(ss[p]) = d}

-----------------------------------------------------------------------------
(* The preference at the start: as stored, or unknown if the configuration *)
(* could not be loaded.                                                    *)
Read(on) ==
    [enabled |-> on, suspended |-> FALSE, busy |-> FALSE, owed |-> "none", confirmed |-> TRUE]

Unread ==
    [enabled |-> FALSE, suspended |-> TRUE, busy |-> FALSE, owed |-> "enable", confirmed |-> FALSE]

Init ==
    /\ disk = [d \in Contexts |-> 1]
    /\ allowed \in BOOLEAN
    /\ writer = [sequence |-> 0, latest |-> [d \in Contexts |-> 0],
                 current |-> [d \in Contexts |-> None],
                 unconfirmed |-> [d \in Contexts |-> 0],
                 retained |-> [d \in Contexts |-> {}],
                 timers |-> {}, intake |-> TRUE]
    /\ pref \in {Read(allowed), Unread}
    /\ queue = << >> /\ entered = FALSE /\ results = << >>
    /\ \E c \in Contexts :
         session = [p \in Pages |-> IF p = 1 THEN NewSession(TRUE, TRUE, c) ELSE Detached]
    /\ snapshot = None
    /\ report = [phase |-> "open", count |-> 0]
    /\ edits = 0 /\ requests = 0 /\ faults = 0
    /\ covered = [d \in Contexts |-> {}]
    /\ erased = [d \in Contexts |-> {}] /\ replaced = [d \in Contexts |-> {}]
    /\ wanted = [d \in Contexts |-> 0]

Live(p) == session[p].open /\ session[p].active /\ ~session[p].closing

Running == report.phase = "open"

\* One more edit, request or failing operation is within the bound.
Spare == edits + requests + faults < MaxEvents

(* The coordinator follows the text the session has just been given.       *)
Accepted(u) == u.s.origin # None /\ ~Superseded(u.w, u.s)

(* Replacing a document the user has not saved gives that text up.         *)
GiveUp(s) ==
    IF s.bound # None /\ Unsaved(s, s.bound) THEN [wanted EXCEPT ![s.bound] = 0] ELSE wanted

(* A draft leaves its texts behind when the coordinator takes a newer one   *)
(* for it, or when its deletion is asked for: all that were typed so far.  *)
(* No save may bring one back, unless a user's request does: recovery, or  *)
(* drafts switched on.  An editor restored with a text that the            *)
(* coordinator never had under its draft brings it as a new one.           *)
Before(n) == 1 .. n

Readmit(past, d, text) == [past EXCEPT ![d] = @ \ {text}]

Readmitted(d, text) ==
    /\ covered' = Readmit(covered, d, text)
    /\ erased' = Readmit(erased, d, text)
    /\ replaced' = Readmit(replaced, d, text)

Stranger(s) == s.sql # 0 /\ (s.origin = None \/ s.origin.draft # s.bound)

Brings(s, u) == Stranger(s) /\ u.s.origin # s.origin /\ u.s.origin.draft = s.bound

Brought(s, u) == IF Brings(s, u) THEN Readmitted(s.bound, s.sql) ELSE UNCHANGED history

WantedOf(s, u, before) ==
    IF Brings(s, u) THEN [before EXCEPT ![s.bound] = s.sql] ELSE before

(* set_sql: the editor's text changes. *)
Edit(p) ==
    /\ Running /\ Live(p) /\ edits < MaxEdits /\ Spare
    /\ \E text \in {0, edits + 2} \ {session[p].sql} :
         LET s == session[p]
             u == Edited(writer, pref, s, p, text)
             b == IF text # 0 THEN Home(s) ELSE BlankOrigin(writer, s)
         IN  /\ writer' = u.w
             /\ session' = [session EXCEPT ![p] = u.s]
             /\ wanted' = IF b = None THEN wanted
                          ELSE [wanted EXCEPT ![b] = IF pref.enabled /\ Accepted(u)
                                                     THEN text ELSE 0]
             /\ covered' = IF u.s.origin = s.origin THEN covered
                           ELSE [covered EXCEPT ![u.s.origin.draft] = Before(edits + 1)]
    /\ edits' = edits + 1
    /\ UNCHANGED <<store, erased, replaced, pref, queue, results, snapshot, report, requests>>

(* Another context is selected for the query; the text keeps its own.      *)
ContextChanged(p) ==
    /\ Running /\ Live(p)
    /\ \E c \in Contexts \ {session[p].context} :
         LET s == [session[p] EXCEPT !.context = c]
             state == IF pref.enabled /\ NeedsGuard(s) THEN "context_required"
                      ELSE IF s.state # "context_required" \/ s.bound # c THEN s.state
                      ELSE IF s.failed THEN "error"
                      ELSE IF Unsaved(s, c) THEN "pending" ELSE "saved"
         IN  session' = [session EXCEPT ![p] = [s EXCEPT !.state = state]]
    /\ UNCHANGED <<storage, writer, pref, queue, results, snapshot, report, edits,
                   requests, wanted>>

(* A snapshot the restoring page would refuse is not exported.             *)
ValidSnapshot(s) ==
    /\ s.pending # None =>
         /\ s.origin # None /\ s.origin.draft = s.pending
         /\ s.sql = 0 \/ s.pending = Home(s)
    /\ s.state = "saved" => s.sql = s.savedSql /\ s.context = s.savedContext
    /\ s.origin # None =>
         s.origin.draft \in {s.bound, s.context, s.savedContext, s.pending}

(* A page is about to be left for another service and may have to be       *)
(* restored, in a page that is not open yet.                               *)
ExportSnapshot(p) ==
    /\ Running /\ Live(p) /\ edits > 0 /\ p + 1 \in Pages
    /\ \A q \in Pages : session[q].open => q = p
    /\ LET s == session[p]
           captured == s.capture # None /\ s.capture.editor = s.editor
           x == [s EXCEPT !.pending = IF captured THEN s.capture.draft ELSE @,
                          !.capture = None]
       IN  /\ ValidSnapshot(x)
           /\ snapshot' = [page |-> p, s |-> x]
    /\ UNCHANGED <<storage, writer, pref, queue, results, session, report, edits,
                   requests, wanted>>

(* What install_snapshot makes of a session, before a live one claims it.  *)
Installed(s, x) ==
    LET t == [x EXCEPT !.open = TRUE, !.active = s.active, !.closing = FALSE,
                       !.editor = IF s.editor > @ THEN s.editor ELSE @,
                       !.transferred = TRUE]
    IN  IF pref.enabled /\ NeedsGuard(t) THEN [t EXCEPT !.state = "context_required"] ELSE t

InstallSnapshot(p) ==
    /\ Running /\ Live(p) /\ snapshot # None /\ p # snapshot.page
    /\ LET s == session[p]
           w == Release(Revoke(writer, s), s)
           t == Installed(s, snapshot.s)
           u == Claim(w, pref, t, p)
       IN  /\ writer' = u.w
           /\ session' = [session EXCEPT ![p] = u.s]
           /\ wanted' = WantedOf(t, u, GiveUp(s))
           /\ Brought(t, u)
    /\ snapshot' = None
    /\ UNCHANGED <<store, pref, queue, results, report, edits, requests>>

Unopened(p) == session[p] = Detached /\ (p > 1 => session[p - 1] # Detached)

(* The host disposes of the outgoing page before it publishes the next.    *)
HostEmpty == \A p \in Pages : ~(session[p].open /\ session[p].active)

(* The next page, built fresh and live at once. *)
OpenPage(p) ==
    /\ Running /\ Unopened(p) /\ HostEmpty
    /\ \E c \in Contexts : session' = [session EXCEPT ![p] = NewSession(TRUE, TRUE, c)]
    /\ UNCHANGED <<storage, writer, pref, queue, results, snapshot, report, edits,
                   requests, wanted>>

(* A replacement page built off-screen and given the snapshot; it is not    *)
(* active, whether or not the old page is still live.                       *)
OpenCandidate(p) ==
    /\ Running /\ Unopened(p) /\ snapshot # None
    /\ session' = [session EXCEPT ![p] =
                     Installed(NewSession(TRUE, FALSE, None), snapshot.s)]
    /\ snapshot' = None
    /\ UNCHANGED <<storage, writer, pref, queue, results, report, edits, requests, wanted>>

Activate(p) ==
    /\ Running /\ session[p].open /\ ~session[p].active /\ HostEmpty
    /\ LET t == [session[p] EXCEPT !.active = TRUE]
           u == Claim(writer, pref, t, p)
       IN  /\ writer' = u.w
           /\ session' = [session EXCEPT ![p] = u.s]
           /\ wanted' = WantedOf(t, u, wanted)
           /\ Brought(t, u)
    /\ UNCHANGED <<store, pref, queue, results, snapshot, report, edits, requests>>

(* A page is shut down: no more input, and its unfired save is started.    *)
ClosePage(p) ==
    /\ Running /\ Live(p)
    /\ LET u == IF pref.enabled THEN PrepareFinal(writer, pref, session[p], p)
                ELSE [w |-> writer, s |-> session[p], jobs |-> << >>]
       IN  /\ writer' = u.w
           /\ session' = [session EXCEPT ![p] = [u.s EXCEPT !.closing = TRUE]]
           /\ queue' = queue \o u.jobs
    /\ UNCHANGED <<storage, pref, results, snapshot, report, edits, requests, wanted>>

(* A closed page, or a candidate that was not adopted, is disposed of.     *)
Retired == [Detached EXCEPT !.closing = TRUE]

Detach(p) ==
    /\ Running /\ session[p].open /\ (session[p].closing \/ ~session[p].active)
    /\ LET u == PrepareFinal(writer, pref, session[p], p)
       IN  /\ writer' = u.w
           /\ queue' = queue \o u.jobs
    /\ session' = [session EXCEPT ![p] = Retired]
    /\ UNCHANGED <<storage, pref, results, snapshot, report, edits, requests, wanted>>

-----------------------------------------------------------------------------
(* Requests from the draft manager and from the settings.                  *)

Request == Running /\ Spare /\ ~pref.busy /\ requests' = requests + 1

(* Deletion fences the drafts and marks every session showing one.         *)
Destroy(op, ids) ==
    LET known == IF op = "delete" THEN ids ELSE {d \in Contexts : writer.latest[d] # 0}
    IN  /\ writer' = Fence(Outdate(writer, known), ids, TRUE, TRUE)
        /\ session' = [p \in Pages |-> Tombstone(session[p], ids)]
        /\ queue' = Append(queue, [op |-> op, capture |-> None, ids |-> ids])
        /\ covered' = [d \in Contexts |-> IF d \in ids THEN Before(edits + 1) ELSE covered[d]]
        /\ wanted' = [d \in Contexts |-> IF d \in ids THEN 0 ELSE wanted[d]]
        /\ UNCHANGED <<store, erased, replaced, results, snapshot, report, edits>>

DeleteDrafts ==
    /\ Request /\ pref.enabled
    /\ \/ \E d \in Contexts : Destroy("delete", {d})
       \/ Destroy("clear", Contexts)
    /\ pref' = [pref EXCEPT !.busy = TRUE]

(* "Disable and delete" is what the switch offers while the preference is   *)
(* unknown, too; a deletion or an enabling that failed is offered again.   *)
Disable ==
    /\ Request /\ (pref.enabled \/ ~pref.confirmed \/ pref.owed = "cleanup")
    /\ Destroy("disable", Contexts)
    /\ pref' = [pref EXCEPT !.busy = TRUE, !.suspended = TRUE]

Enable ==
    /\ Request /\ ((~pref.enabled /\ pref.confirmed) \/ pref.owed = "enable")
    /\ writer' = Fence(writer, Contexts, FALSE, FALSE)
    /\ queue' = Append(queue, [op |-> "enable", capture |-> None, ids |-> {}])
    /\ pref' = [pref EXCEPT !.busy = TRUE, !.suspended = TRUE]
    /\ UNCHANGED <<storage, results, session, snapshot, report, edits, wanted>>

(* restore_draft reads the store through the worker and installs what it   *)
(* read: the reads have drained the queue, and the confirmations take      *)
(* longer than the debounce.                                               *)
Recover(p) ==
    /\ Request /\ Live(p) /\ pref.enabled
    /\ queue = << >> /\ results = << >>
    /\ LET s == session[p]
           d == s.context
           t == Track(Release(writer, s), d, FALSE)
       IN  /\ disk[d] # 0 /\ d \notin writer.timers
           /\ writer' = t
           /\ session' = [session EXCEPT ![p] =
                [s EXCEPT !.pending = None, !.capture = None, !.editor = @ + 1,
                          !.origin = [draft |-> d, rev |-> t.sequence],
                          !.failed = FALSE, !.overtaken = FALSE, !.sql = disk[d], !.bound = d,
                          !.savedSql = disk[d], !.savedContext = d,
                          !.deleted = FALSE, !.state = "saved"]]
           /\ covered' = Readmit(covered, d, disk[d])
           /\ wanted' = [GiveUp(s) EXCEPT ![d] = disk[d]]
    /\ UNCHANGED <<store, erased, replaced, pref, queue, results, snapshot, report, edits>>

-----------------------------------------------------------------------------
(* The debounce timer of a draft fires.                                    *)
TimerFires ==
    /\ Running
    /\ \E d \in writer.timers :
         /\ writer' = Launch(writer, {d})
         /\ queue' = Append(queue, WriteJob(writer.current[d]))
    /\ UNCHANGED <<storage, pref, results, session, snapshot, report, edits, requests, wanted>>

(* The worker thread.  A write is permitted while the coordinator holds it; *)
(* past the last check nothing calls it back.  The result of a cancelled   *)
(* write changes nothing, and after the report nobody takes a result.      *)
Done(code, enabled) ==
    /\ results' = IF report.phase = "done" \/ code = "cancelled" THEN results
                  ELSE Append(results, [job |-> Head(queue), code |-> code, enabled |-> enabled])
    /\ queue' = Tail(queue)
    /\ entered' = FALSE

Permitted(cap) == Holds(writer, cap)

Loop == <<writer, pref, session, snapshot, report, edits, requests, covered, wanted>>

EnterWrite ==
    /\ queue # << >> /\ ~entered
    /\ Head(queue).op = "write"
    /\ LET cap == Head(queue).capture
       IN  IF Permitted(cap) /\ (allowed \/ cap.sql = 0)
           THEN entered' = TRUE /\ UNCHANGED <<queue, results>>
           ELSE Done(IF Permitted(cap) THEN "disabled" ELSE "cancelled", None)
    /\ UNCHANGED <<Loop, disk, allowed, faults, erased, replaced>>

(* The record is replaced or removed, or the operation fails before or     *)
(* after that.                                                             *)
Write(cap) ==
    /\ disk' = [disk EXCEPT ![cap.draft] = cap.sql]
    /\ replaced' = [replaced EXCEPT ![cap.draft] = @ \union (covered[cap.draft] \ {cap.sql})]

FinishWrite ==
    /\ entered
    /\ LET cap == Head(queue).capture
       IN  \/ Write(cap) /\ Done("ok", None) /\ UNCHANGED faults
           \/ /\ Spare /\ faults' = faults + 1
              /\ Write(cap) \/ UNCHANGED <<disk, replaced>>
              /\ Done("io", None)
    /\ UNCHANGED <<Loop, allowed, erased>>

Erase(ids) ==
    /\ disk' = [d \in Contexts |-> IF d \in ids THEN 0 ELSE disk[d]]
    /\ erased' = [d \in Contexts |-> IF d \in ids THEN covered[d] ELSE erased[d]]

EraseRecords ==
    /\ queue # << >> /\ Head(queue).op \in {"delete", "clear", "disable"}
    /\ LET job == Head(queue)
           off == job.op = "disable"
       IN  \/ /\ Erase(job.ids)
              /\ allowed' = (allowed /\ ~off)
              /\ Done("ok", IF off THEN FALSE ELSE None)
              /\ UNCHANGED faults
           \/ /\ Spare /\ faults' = faults + 1
              /\ \/ allowed' = (allowed /\ ~off) /\ \E ids \in SUBSET job.ids : Erase(ids)
                 \/ UNCHANGED <<allowed, disk, erased>>
              /\ \E told \in IF off THEN {allowed', None} ELSE {None} : Done("io", told)
    /\ UNCHANGED <<Loop, replaced>>

(* Enabling writes the preference, then prepares the directory; if that    *)
(* fails it tries to take the preference back.                             *)
EnableSaving ==
    /\ queue # << >> /\ Head(queue).op = "enable"
    /\ \/ /\ allowed' = TRUE /\ Done("ok", TRUE) /\ UNCHANGED faults
       \/ /\ Spare /\ faults' = faults + 1
          /\ allowed' \in BOOLEAN
          /\ \E told \in {allowed', None} : Done("io", told)
    /\ UNCHANGED <<Loop, disk, erased, replaced>>
-----------------------------------------------------------------------------
(* The event loop applies the oldest result.                               *)

(* What a finished write tells the session that asked for it.              *)
Completed(s, cap, code) ==
    LET t == CASE code = "ok" ->
                    [s EXCEPT !.failed = FALSE, !.overtaken = FALSE, !.savedSql = cap.sql,
                              !.savedContext = cap.draft,
                              !.capture = IF cap.sql = 0 THEN None ELSE @,
                              !.state = IF cap.sql = 0 THEN "empty" ELSE "saved"]
               [] code = "io" -> [s EXCEPT !.failed = TRUE, !.state = "error"]
               [] OTHER -> s
    IN  IF NeedsGuard(t) THEN [t EXCEPT !.state = "context_required"] ELSE t

\* A bug: a result counts although its write has been fenced meanwhile.
CurrentForEditor(s, cap) == s.open /\ pref.enabled /\ s.editor = cap.editor

StillCurrent(s, cap) ==
    s.open /\ pref.enabled /\ Holds(writer, cap) /\ s.editor = cap.editor

\* A bug: any write of a draft confirms its newest text.
ConfirmedByAny(w, cap, code) ==
    IF code = "ok" THEN [w EXCEPT !.unconfirmed[cap.draft] = 0] ELSE w

Confirmed(w, cap, code) ==
    IF code = "ok" /\ w.unconfirmed[cap.draft] = cap.rev
    THEN [w EXCEPT !.unconfirmed[cap.draft] = 0] ELSE w

DeliverWrite ==
    /\ results # << >> /\ Head(results).job.op = "write"
    /\ LET cap == Head(results).job.capture
           code == Head(results).code
           p == cap.page
       IN  /\ writer' = Confirmed(writer, cap, code)
           /\ session' = IF StillCurrent(session[p], cap)
                         THEN [session EXCEPT ![p] = Completed(@, cap, code)]
                         ELSE session
    /\ results' = Tail(results)
    /\ UNCHANGED <<storage, pref, queue, snapshot, report, edits, requests, wanted>>

DeliverDeletion ==
    /\ results # << >> /\ Head(results).job.op \in {"delete", "clear"}
    /\ pref' = [pref EXCEPT !.busy = FALSE]
    /\ results' = Tail(results)
    /\ UNCHANGED <<storage, writer, queue, session, snapshot, report, edits, requests, wanted>>

(* A confirmed enable saves the live text again; anything else suspends.   *)
Resave(r) ==
    IF \E p \in Pages : session[p].open /\ session[p].active /\ session[p].sql # 0
    THEN LET p == CHOOSE p \in Pages :
                    session[p].open /\ session[p].active /\ session[p].sql # 0
             s == session[p]
             u == Edited(writer, r, s, p, s.sql)
         IN  /\ writer' = u.w
             /\ session' = [session EXCEPT ![p] = u.s]
             /\ wanted' = [wanted EXCEPT ![Home(s)] =
                             IF Accepted(u) /\ ~s.overtaken THEN s.sql ELSE 0]
             /\ Readmitted(Home(s), s.sql)
    ELSE UNCHANGED <<writer, session, wanted, history>>

PreferenceSettles(job, code, told) ==
    LET on == job.op = "enable"
        ok == code = "ok" /\ told = on
        r == [enabled |-> IF told = None THEN pref.enabled ELSE told,
              suspended |-> ~(on /\ ok), busy |-> FALSE,
              owed |-> IF ok THEN "none" ELSE IF on THEN "enable" ELSE "cleanup",
              confirmed |-> told # None]
    IN  /\ pref' = r
        /\ IF on /\ ok THEN Resave(r)
           ELSE /\ session' = [p \in Pages |->
                     IF ~session[p].open THEN session[p]
                     ELSE [session[p] EXCEPT !.state = IF r.enabled THEN "error" ELSE "off"]]
                /\ UNCHANGED <<writer, wanted, history>>

DeliverPreference ==
    /\ results # << >> /\ Head(results).job.op \in {"enable", "disable"}
    /\ IF writer.intake
       THEN PreferenceSettles(Head(results).job, Head(results).code, Head(results).enabled)
       ELSE UNCHANGED <<pref, writer, session, wanted, history>>
    /\ results' = Tail(results)
    /\ UNCHANGED <<store, queue, snapshot, report, edits, requests>>

-----------------------------------------------------------------------------
(* Shutdown starts every unfired save, closes intake and waits.            *)
LivePages == {p \in Pages : session[p].open /\ session[p].active}

Shutdown ==
    /\ Running
    /\ LET p == CHOOSE p \in LivePages : TRUE
           u == IF LivePages = {} THEN [w |-> writer, jobs |-> << >>]
                ELSE PrepareFinal(writer, pref, session[p], p)
           Rest == {d \in u.w.timers : TRUE}
       IN  /\ \E order \in SetToSeqs(Rest) :
                queue' = queue \o u.jobs \o [i \in DOMAIN order |-> WriteJob(u.w.current[order[i]])]
           /\ writer' = [Launch(u.w, Rest) EXCEPT !.intake = FALSE]
           /\ session' = IF LivePages = {} THEN session ELSE [session EXCEPT ![p] = u.s]
    /\ report' = [report EXCEPT !.phase = "draining"]
    /\ UNCHANGED <<storage, pref, results, snapshot, edits, requests, wanted>>

(* The wait ends, with everything applied or at the deadline.              *)
Report ==
    /\ report.phase = "draining"
    /\ report' = [phase |-> "done",
                  count |-> Cardinality(UnconfirmedDrafts(writer, pref, session))]
    /\ writer' = IF queue # << >> \/ results # << >>
                 THEN Fence(writer, Contexts, TRUE, TRUE) ELSE writer
    /\ session' = [p \in Pages |-> Retired]
    /\ snapshot' = None /\ results' = << >>
    /\ UNCHANGED <<storage, pref, queue, edits, requests, wanted>>

(* After the report only the worker goes on.                               *)
Stopped == report.phase = "done" /\ queue = << >> /\ UNCHANGED vars

OnPage(p) ==
    \/ Edit(p) \/ ContextChanged(p) \/ ExportSnapshot(p) \/ InstallSnapshot(p)
    \/ OpenPage(p) \/ OpenCandidate(p) \/ Activate(p) \/ ClosePage(p) \/ Detach(p)
    \/ Recover(p)

Worker == EnterWrite \/ FinishWrite \/ EraseRecords \/ EnableSaving

Deliver == DeliverWrite \/ DeliverDeletion \/ DeliverPreference

Next ==
    \/ \E p \in Pages : OnPage(p)
    \/ DeleteDrafts \/ Disable \/ Enable
    \/ TimerFires \/ Worker \/ Deliver
    \/ Shutdown \/ Report \/ Stopped

Spec == Init /\ [][Next]_vars

-----------------------------------------------------------------------------
Jobs == [op : {"write"}, capture : Captures, ids : SUBSET Contexts]
        \union [op : {"delete", "clear", "disable", "enable"}, capture : {None},
                ids : SUBSET Contexts]

(* Every variable has its type, and the coordinator is in order: a timer   *)
(* runs only for a draft with a current write, and no revision is newer    *)
(* than the draft's latest one.                                            *)
TypeOK ==
    /\ disk \in [Contexts -> Texts] /\ allowed \in BOOLEAN
    /\ pref \in [enabled : BOOLEAN, suspended : BOOLEAN, busy : BOOLEAN,
                 owed : {"none", "cleanup", "enable"}, confirmed : BOOLEAN]
    /\ \A i \in DOMAIN queue : queue[i] \in Jobs
    /\ entered \in BOOLEAN
    /\ \A i \in DOMAIN results : results[i].job \in Jobs
    /\ \A p \in Pages : session[p].state \in States /\ session[p].sql \in Texts
    /\ report \in [phase : {"open", "draining", "done"}, count : 0 .. Cardinality(Contexts)]
    /\ \A d \in Contexts :
         LET cap == writer.current[d]
         IN  /\ cap # None => /\ cap \in Captures /\ cap.draft = d
                              /\ writer.latest[d] >= cap.rev
             /\ d \in writer.timers => cap # None
             /\ writer.unconfirmed[d] \in {0, writer.latest[d]}

(* "Draft saved" is true: while the live editor says so, the record of its *)
(* context holds exactly its text, whatever older writes, restored         *)
(* snapshots or deletions were on their way.  Excepted is an editor that   *)
(* was restored over a newer draft while drafts were off, until it saves;  *)
(* and a debounce that fires inside a recovery is left out, see Recover.   *)
SavedIsStored ==
    \A p \in Pages :
      Live(p) /\ pref.enabled /\ session[p].state = "saved" /\ ~session[p].overtaken =>
        disk[session[p].context] = session[p].sql

(* What was deleted stays deleted: no queued write, closed page, restored  *)
(* snapshot or shutdown writes a draft back from text that it had before   *)
(* its deletion; only enabling saves the live text anew.                   *)
DeletedStaysDeleted == \A d \in Contexts : disk[d] \notin erased[d]

(* A save never brings back a text that a newer one of its draft replaced: *)
(* not the late write of a closed page, nor that of an editor restored     *)
(* from a snapshot.                                                        *)
NewerDraftIsKept == \A d \in Contexts : disk[d] \notin replaced[d]

(* The shutdown report does not miss an accepted edit: when it counts       *)
(* nothing, the text that the coordinator last took for each draft is the  *)
(* stored one.                                                             *)
ReportIsComplete ==
    report.phase = "done" /\ report.count = 0 =>
      \A d \in Contexts : wanted[d] # 0 => disk[d] = wanted[d]

=============================================================================
