--------------------------- MODULE TransferJournal ---------------------------
(***************************************************************************)
(* Durable transfer metadata: the append-only journal of                   *)
(* domain/transfer_journal.py and the terminal summaries of                *)
(* domain/transfer_history.py, as one or more running instances of the     *)
(* program write them around the copies they make, and as the next start   *)
(* reads them.  A disk operation can fail half way, an instance can be     *)
(* killed, and the machine can lose power between any two of them.         *)
(***************************************************************************)
EXTENDS Naturals, FiniteSets

CONSTANTS Transfers,   \* transfer ids (secrets.token_hex, never reused)
          Instances,   \* running programs that share the cache directory
          Names,       \* destination names
          Requested,   \* the destination named in the begin line
          Retention,   \* retention_limit (100 in the code)
          MaxCrashes,  \* bound: kills and power losses
          MaxSteps,    \* bound: backward steps of the wall clock
          Nil

ASSUME JournalAssumption ==
    /\ Requested \in Names
    /\ Retention \in Nat \ {0}
    /\ MaxCrashes \in Nat /\ MaxSteps \in Nat
    /\ Nil \notin Names \cup Instances \cup Transfers
    /\ "clear" \notin Transfers

VARIABLES
    file,     \* journal of each transfer, or Nil
    linger,   \* an unlinked journal the directory may still hold on disk
    summary,  \* terminal summary of each transfer, or Nil
    stamp,    \* number of summaries saved: the order of their updated_at
    lag,      \* how far behind itself the wall clock is, in steps
    owner,    \* the instance running the transfer, Nil before it begins
    phase,    \* where the owner is with it
    cur,      \* current_uri of copy_hooks: the destination in memory
    world,    \* the name the provider published the payload under, or Nil
    lock,     \* holder of each instance's journal lock
    exclude,  \* arguments of the clear in progress
    crashes, steps,
    known,    \* history: transfers whose terminal summary was saved
    botched,  \* history: known, but never reached the end of mark_terminal
    cleared   \* history: transfers whose interrupted journal was cleared

disk == <<file, linger, summary, stamp>>
owners == <<owner, phase, cur, lock, exclude>>
bounds == <<crashes, steps, lag>>
history == <<known, botched, cleared>>
vars == <<disk, owners, world, bounds, history>>

\* A journal: whether the attempted line is there, the last destination line,
\* "open" while _safe_state accepts it, "ended" by a finished or aborted line,
\* "damaged" by a torn, headless or backdated line; ahead says that its last
\* timestamp is later than the wall clock.
Journals == [attempted: BOOLEAN, dest: Names,
             state: {"open", "ended", "damaged"}, ahead: BOOLEAN]
Statuses == {"completed", "skipped", "failed", "cancelled"}
Publications == {"never_attempted", "possibly_published", "confirmed_terminal"}
Summaries == [status: Statuses, dest: Names, publication: Publications, at: Nat, lag: Nat]
Records == [status: Statuses \cup {"outcome_unknown"}, dest: Names, publication: Publications]

\* None, which is no journal, no record and no lock holder.
ASSUME NilAssumption == Nil \notin Journals \cup Records \cup {"clear"}

Active == {"begun", "attempted", "failing", "saved", "marked"}

\* A bug: the caller of clear_history names no operation to keep.
OwnedForgotten(p) == {}
\* The ids the runtime owns.  It keeps them until their batch has settled; here
\* a clear may take what was recorded or given up at once.
Owned(p) == {t \in Transfers: owner[t] = p /\ phase[t] \in Active}

\* _safe_state accepts the journal.
Safe(t) == file[t] # Nil /\ file[t].state = "open"

PublicationOf(j) == IF j.attempted THEN "possibly_published" ELSE "never_attempted"

\* The order of updated_at: what was saved while the clock was set back is
\* older than what was saved before.
Later(r, q) == \/ r.lag < q.lag
               \/ r.lag = q.lag /\ r.at > q.at

\* A summary of all that is among the newest retention_limit ones.
Kept(all, t) ==
    /\ all[t] # Nil
    /\ Cardinality({u \in Transfers: all[u] # Nil /\ Later(all[u], all[t])}) < Retention

\* load_history: a summary wins over the journal of the same id.
Record(t) ==
    CASE Kept(summary, t) ->
            [status |-> summary[t].status, dest |-> summary[t].dest,
             publication |-> summary[t].publication]
      [] ~Kept(summary, t) /\ Safe(t) ->
            [status |-> "outcome_unknown", dest |-> file[t].dest,
             publication |-> PublicationOf(file[t])]
      [] OTHER -> Nil

Idle(p) == lock[p] = Nil
-----------------------------------------------------------------------------
Init ==
    /\ file = [t \in Transfers |-> Nil] /\ linger = [t \in Transfers |-> Nil]
    /\ summary = [t \in Transfers |-> Nil] /\ stamp = 0 /\ lag = 0
    /\ owner = [t \in Transfers |-> Nil] /\ phase = [t \in Transfers |-> "new"]
    /\ cur = [t \in Transfers |-> Requested]
    /\ world = [t \in Transfers |-> Nil]
    /\ lock = [p \in Instances |-> Nil] /\ exclude = [p \in Instances |-> {}]
    /\ crashes = 0 /\ steps = 0
    /\ known = {} /\ botched = {} /\ cleared = {}

Goto(t, l) == phase' = [phase EXCEPT ![t] = l]

\* _append to an existing journal.  A line dated before the last one makes the
\* journal unreadable, and so does a line in a file that another instance has
\* removed meanwhile.
Headless == [attempted |-> FALSE, dest |-> Requested, state |-> "damaged", ahead |-> FALSE]
AppendLine(t, j) ==
    file' = [file EXCEPT ![t] =
                IF file[t] = Nil THEN Headless
                ELSE IF file[t].state = "damaged" \/ file[t].ahead
                     THEN [j EXCEPT !.state = "damaged"] ELSE j]

\* A failed _append leaves nothing, the unsynced line or a torn one.
AppendFails(t, j) ==
    \/ UNCHANGED file
    \/ AppendLine(t, j)
    \/ file' = [file EXCEPT ![t] = IF file[t] = Nil THEN Headless
                                   ELSE [@ EXCEPT !.state = "damaged"]]

\* The journal's lock is given back.
\* A bug: it is not, when mark_terminal fails after the summary.
UnlockLater(p) == UNCHANGED lock
Unlock(p) == lock' = [lock EXCEPT ![p] = Nil]

\* begin: the file is created and its directory synced, which also makes
\* earlier unlinks durable; a failure leaves nothing, the line or a torn one.
\* It does not wait for the journal's lock, but the runtime lets no begin in
\* while it clears.
Fresh == [attempted |-> FALSE, dest |-> Requested, state |-> "open", ahead |-> FALSE]
Begin(p, t) ==
    /\ phase[t] = "new" /\ lock[p] # "clear"
    /\ owner' = [owner EXCEPT ![t] = p]
    /\ \/ /\ file' = [file EXCEPT ![t] = Fresh]
          /\ linger' = [u \in Transfers |-> Nil]
          /\ Goto(t, "begun")
       \/ /\ \E j \in {Nil, Headless, Fresh}: file' = [file EXCEPT ![t] = j]
          /\ UNCHANGED linger
          /\ Goto(t, "released")
    /\ UNCHANGED <<summary, stamp, cur, lock, exclude, world, bounds, history>>

\* A bug: the copy starts without waiting for the attempted line.
MarkAttemptedLate(t) ==
    /\ phase[t] = "begun" /\ Idle(owner[t])
    /\ Goto(t, "attempted")
    /\ UNCHANGED <<disk, owner, cur, lock, exclude, world, bounds, history>>

\* mark_attempted, awaited before any provider mutation.
MarkAttempted(t) ==
    LET line == [file[t] EXCEPT !.attempted = TRUE] IN
    /\ phase[t] = "begun" /\ Idle(owner[t])
    /\ \/ Safe(t) /\ AppendLine(t, line) /\ Goto(t, "attempted")
       \/ Safe(t) /\ AppendFails(t, line) /\ Goto(t, "failing")
       \/ ~Safe(t) /\ UNCHANGED file /\ Goto(t, "failing")
    /\ UNCHANGED <<linger, summary, stamp, owner, cur, lock, exclude, world, bounds, history>>

\* A bug: the hook binds the new name in memory only.
MarkDestinationLazily(t, n) ==
    /\ phase[t] = "attempted" /\ world[t] = Nil /\ n # cur[t] /\ Idle(owner[t])
    /\ cur' = [cur EXCEPT ![t] = n]
    /\ UNCHANGED <<disk, owner, phase, lock, exclude, world, bounds, history>>

\* before_publication with another name than current_uri: mark_destination.
MarkDestination(t, n) ==
    LET line == [file[t] EXCEPT !.dest = n] IN
    /\ phase[t] = "attempted" /\ world[t] = Nil /\ n # cur[t] /\ Idle(owner[t])
    /\ \/ /\ Safe(t) /\ AppendLine(t, line)
          /\ cur' = [cur EXCEPT ![t] = n]
          /\ UNCHANGED phase
       \/ /\ \/ Safe(t) /\ AppendFails(t, line)
             \/ ~Safe(t) /\ UNCHANGED file
          /\ Goto(t, "failing") /\ UNCHANGED cur
    /\ UNCHANGED <<linger, summary, stamp, owner, lock, exclude, world, bounds, history>>

\* The copy publishes its payload under the announced name (CopyContract).
Publish(t) ==
    /\ phase[t] = "attempted" /\ world[t] = Nil
    /\ world' = [world EXCEPT ![t] = cur[t]]
    /\ UNCHANGED <<disk, owners, bounds, history>>
-----------------------------------------------------------------------------
\* A bug: a skipped copy is reported as completed.
PossibleAnyway(t, s) ==
    s \in {"completed", "skipped"} => phase[t] = "attempted"

\* The outcomes run_one and complete report.
Possible(t, s) ==
    CASE s = "completed" -> phase[t] = "attempted" /\ world[t] # Nil
      [] s = "skipped" -> phase[t] = "attempted" /\ world[t] = Nil
      [] OTHER -> TRUE

\* TransferHistoryStore.save: replace, then trim to the newest summaries.
Replaced(t, r) == [summary EXCEPT ![t] = r]
Stored(t, r) ==
    LET all == Replaced(t, r)
    IN  [u \in Transfers |-> IF Kept(all, u) THEN all[u] ELSE Nil]

Summary(t, s) ==
    [status |-> s, dest |-> file[t].dest, at |-> stamp, lag |-> lag,
     publication |-> IF s = "completed" THEN "confirmed_terminal"
                     ELSE PublicationOf(file[t])]

\* mark_terminal, the summary.  Trimming or syncing can fail once the new
\* summary is in place: then neither the end marker nor the purge follows.
SaveSummary(t, s) ==
    /\ phase[t] \in {"begun", "attempted", "failing"} /\ Idle(owner[t])
    /\ Safe(t) /\ Possible(t, s)
    /\ stamp' = stamp + 1
    /\ known' = known \cup {t}
    /\ \/ /\ summary' = Stored(t, Summary(t, s))
          /\ Goto(t, "saved")
          /\ lock' = [lock EXCEPT ![owner[t]] = t]
          /\ UNCHANGED botched
       \/ /\ summary' \in {Stored(t, Summary(t, s)), Replaced(t, Summary(t, s))}
          /\ Goto(t, "released")
          /\ botched' = botched \cup {t}
          /\ UNCHANGED lock
    /\ UNCHANGED <<file, linger, owner, cur, exclude, world, bounds, cleared>>

\* A bug: the journal is purged even if the summary was not saved.
SaveFailsAndPurges(t) ==
    /\ phase[t] \in {"begun", "attempted", "failing"} /\ Idle(owner[t])
    /\ file' = [file EXCEPT ![t] = Nil]
    /\ Goto(t, "released")
    /\ UNCHANGED <<linger, summary, stamp, owner, cur, lock, exclude, world, bounds, history>>

\* mark_terminal refused or the store could not be written: the transfer is
\* released with feedback only, its journal stays.
SaveFails(t) ==
    /\ phase[t] \in {"begun", "attempted", "failing"} /\ Idle(owner[t])
    /\ Goto(t, "released")
    /\ UNCHANGED <<disk, owner, cur, lock, exclude, world, bounds, history>>

\* A bug: the journal is purged without its last line.
MarkEndSkipped(t) ==
    /\ phase[t] = "saved"
    /\ Goto(t, "marked")
    /\ UNCHANGED <<disk, owner, cur, lock, exclude, world, bounds, history>>

\* mark_terminal, the finished or aborted line, under the same lock.
MarkEnd(t) ==
    LET line == [file[t] EXCEPT !.state = "ended"] IN
    /\ phase[t] = "saved"
    /\ \/ /\ AppendLine(t, line)
          /\ Goto(t, "marked")
          /\ UNCHANGED <<lock, botched>>
       \/ /\ AppendFails(t, line)
          /\ Goto(t, "released")
          /\ botched' = botched \cup {t}
          /\ Unlock(owner[t])
    /\ UNCHANGED <<linger, summary, stamp, owner, cur, exclude, world, bounds, known, cleared>>

\* mark_terminal, the purge: unlinked, but the directory is not synced.
Purge(t) ==
    /\ phase[t] = "marked"
    /\ file' = [file EXCEPT ![t] = Nil]
    /\ linger' = [linger EXCEPT ![t] = file[t]]
    /\ Goto(t, "released")
    /\ Unlock(owner[t])
    /\ UNCHANGED <<summary, stamp, owner, cur, exclude, world, bounds, history>>
-----------------------------------------------------------------------------
\* clear_history, the summaries: everything but the instance's own transfers.
\* A failure leaves some of them and ends it.
WithoutSummaries(gone) == [t \in Transfers |-> IF t \in gone THEN Nil ELSE summary[t]]
ClearSummaries(p) ==
    /\ Idle(p)
    /\ \/ /\ summary' = WithoutSummaries(Transfers \ Owned(p))
          /\ lock' = [lock EXCEPT ![p] = "clear"]
          /\ exclude' = [exclude EXCEPT ![p] = Owned(p)]
       \/ /\ \E gone \in SUBSET (Transfers \ Owned(p)): summary' = WithoutSummaries(gone)
          /\ UNCHANGED <<lock, exclude>>
    /\ UNCHANGED <<file, linger, stamp, owner, phase, cur, world, bounds, history>>

\* clear_history, the interrupted journals, kept while begins are pending; the
\* directory is synced at the end.  A failure leaves some of them, or unsynced.
Interrupted(p, pending) ==
    IF pending THEN {} ELSE {t \in Transfers \ exclude[p]: Safe(t)}
ClearJournals(p) ==
    /\ lock[p] = "clear"
    /\ \E pending \in BOOLEAN: \E gone \in SUBSET Interrupted(p, pending):
         /\ file' = [t \in Transfers |-> IF t \in gone THEN Nil ELSE file[t]]
         /\ cleared' = cleared \cup gone
         /\ \/ gone = Interrupted(p, pending) /\ linger' = [t \in Transfers |-> Nil]
            \/ linger' = [t \in Transfers |-> IF t \in gone THEN file[t] ELSE linger[t]]
    /\ Unlock(p)
    /\ exclude' = [exclude EXCEPT ![p] = {}]
    /\ UNCHANGED <<summary, stamp, owner, phase, cur, world, bounds, known, botched>>
-----------------------------------------------------------------------------
\* The instances in S stop at once; a power loss takes all of them and may
\* undo unlinks that no directory sync followed.
Stopped(S) ==
    /\ phase' = [t \in Transfers |-> IF owner[t] \in S /\ phase[t] \in Active
                                     THEN "dead" ELSE phase[t]]
    /\ botched' = botched \cup {t \in Transfers: owner[t] \in S /\ phase[t] \in {"saved", "marked"}}
    /\ lock' = [p \in Instances |-> IF p \in S THEN Nil ELSE lock[p]]
    /\ exclude' = [p \in Instances |-> IF p \in S THEN {} ELSE exclude[p]]
    /\ crashes < MaxCrashes /\ crashes' = crashes + 1
    /\ UNCHANGED <<summary, stamp, owner, cur, world, steps, lag, known, cleared>>

Kill(p) == Stopped({p}) /\ UNCHANGED <<file, linger>>

PowerLoss ==
    /\ Stopped(Instances)
    /\ \E back \in SUBSET {t \in Transfers: linger[t] # Nil}:
         file' = [t \in Transfers |-> IF t \in back /\ file[t] = Nil THEN linger[t] ELSE file[t]]
    /\ linger' = [t \in Transfers |-> Nil]

\* The wall clock is set back: every journal on disk is ahead of it ...
ClockStep ==
    /\ steps < MaxSteps /\ steps' = steps + 1 /\ lag' = lag + 1
    /\ file' = [t \in Transfers |-> IF file[t] = Nil THEN Nil ELSE [file[t] EXCEPT !.ahead = TRUE]]
    /\ UNCHANGED <<linger, summary, stamp, owners, world, crashes, history>>

\* ... until time has caught up with it.
ClockCatchesUp ==
    /\ lag > 0 /\ lag' = 0
    /\ file' = [t \in Transfers |-> IF file[t] = Nil THEN Nil ELSE [file[t] EXCEPT !.ahead = FALSE]]
    /\ UNCHANGED <<linger, summary, stamp, owners, world, crashes, steps, history>>
-----------------------------------------------------------------------------
Transfer(t) ==
    \/ \E p \in Instances: Begin(p, t)
    \/ MarkAttempted(t) \/ \E n \in Names: MarkDestination(t, n)
    \/ Publish(t)
    \/ \E s \in Statuses: SaveSummary(t, s)
    \/ SaveFails(t) \/ MarkEnd(t) \/ Purge(t)

Next ==
    \/ \E t \in Transfers: Transfer(t)
    \/ \E p \in Instances: ClearSummaries(p) \/ ClearJournals(p) \/ Kill(p)
    \/ PowerLoss \/ ClockStep \/ ClockCatchesUp

Spec == Init /\ [][Next]_vars
-----------------------------------------------------------------------------
DiskOK ==
    /\ file \in [Transfers -> Journals \cup {Nil}]
    /\ linger \in [Transfers -> Journals \cup {Nil}]
    /\ summary \in [Transfers -> Summaries \cup {Nil}] /\ stamp \in Nat

OwnersOK ==
    /\ owner \in [Transfers -> Instances \cup {Nil}]
    /\ phase \in [Transfers -> Active \cup {"new", "released", "dead"}]
    /\ cur \in [Transfers -> Names] /\ world \in [Transfers -> Names \cup {Nil}]
    /\ lock \in [Instances -> Transfers \cup {"clear", Nil}]
    /\ exclude \in [Instances -> SUBSET Transfers]

LocksOK ==
    \A p \in Instances: lock[p] \in Transfers =>
        owner[lock[p]] = p /\ phase[lock[p]] \in {"saved", "marked"}

CountsOK ==
    /\ crashes \in 0 .. MaxCrashes /\ steps \in 0 .. MaxSteps /\ lag \in Nat
    /\ known \subseteq Transfers /\ botched \subseteq Transfers /\ cleared \subseteq Transfers

\* Every variable keeps its type, and a lock is held by its own instance's
\* transfer only while that one is being recorded.
TypeOK == DiskOK /\ OwnersOK /\ LocksOK /\ CountsOK

\* Recovery lets a "never attempted" copy be retried without looking at its
\* destination: no such record exists for a transfer that published.
NeverAttemptedIsTrue ==
    \A t \in Transfers:
        Record(t) # Nil /\ Record(t).publication = "never_attempted" => world[t] = Nil

\* Recovery probes the recorded destination of an uncertain copy: it is where
\* the payload was published, whatever names were tried before.
RecordedWherePublished ==
    \A t \in Transfers: Record(t) # Nil /\ world[t] # Nil => Record(t).dest = world[t]

\* A completed or skipped summary says what happened to the destination.
SummaryIsTrue ==
    \A t \in Transfers:
        summary[t] # Nil => /\ summary[t].status = "completed" => world[t] # Nil
                            /\ summary[t].status = "skipped" => world[t] = Nil

\* A transfer that published and was cut off without a summary is found again
\* at the next start, unless its journal is damaged or was cleared.
InterruptedIsFound ==
    \A t \in Transfers:
        /\ phase[t] \in {"dead", "released"} /\ world[t] # Nil
        /\ t \notin known \cup cleared
        => \/ file[t] # Nil /\ file[t].state = "damaged"
           \/ Record(t) # Nil /\ Record(t).publication = "possibly_published"

\* cookbook.md 4.3: active operation metadata remains protected until the
\* transfer settles.
ActiveIsProtected ==
    \A t \in Transfers: phase[t] \in {"begun", "attempted", "failing", "saved"} => file[t] # Nil

Unknown(t) == Record(t) # Nil /\ Record(t).status = "outcome_unknown"

\* A transfer whose mark_terminal ran to its end is never shown as interrupted,
\* even when a power loss undoes the purge of its journal.
SettledStaysKnown == \A t \in known \ botched: phase[t] = "released" => ~Unknown(t)
=============================================================================
