------------------------ MODULE TransferJournalProofs ------------------------
(***************************************************************************)
(* Proofs about TransferJournal for any number of transfers, instances and *)
(* names: its types, that what recovery reads on disk is true of what the  *)
(* copies did, and that it finds what was cut off and nothing that was     *)
(* settled.                                                                *)
(***************************************************************************)
EXTENDS TransferJournal, TLAPS

\* Until the copy is allowed to mutate anything, nothing was published, and
\* a readable journal holds the requested destination.
Waiting(t) ==
    phase[t] \in {"new", "begun"} =>
        /\ world[t] = Nil /\ cur[t] = Requested
        /\ Safe(t) => phase[t] = "begun" /\ file[t].dest = Requested

\* While the copy may publish, a readable journal is ahead of it.
WrittenAhead(t) ==
    phase[t] = "attempted" /\ Safe(t) => file[t].attempted /\ file[t].dest = cur[t]

\* What a readable journal says of a published payload.
Truthful(t, j) == world[t] # Nil => j.attempted /\ j.dest = world[t]
FileTrue(t) == Safe(t) => Truthful(t, file[t])

\* An unlinked journal that may come back after a power loss: nothing has
\* been written about its transfer since, and what it says stays true.
LingerTrue(t) ==
    linger[t] # Nil =>
        /\ phase[t] # "new" /\ ~Safe(t)
        /\ linger[t].state = "open" =>
             /\ Truthful(t, linger[t])
             /\ phase[t] = "attempted" => linger[t].attempted /\ linger[t].dest = cur[t]
             /\ phase[t] = "begun" => world[t] = Nil

\* What a summary says; it is written when the copy can no longer publish.
SummaryTrue(t) ==
    summary[t] # Nil =>
        /\ phase[t] \in {"saved", "marked", "released", "dead"}
        /\ world[t] # Nil => /\ summary[t].publication # "never_attempted"
                             /\ summary[t].dest = world[t]
        /\ summary[t].status = "completed" => world[t] # Nil
        /\ summary[t].status = "skipped" => world[t] = Nil

\* Only an instance moves a transfer.
Manned(t) == phase[t] \in Active => owner[t] \in Instances

Consistent(t) ==
    /\ Waiting(t) /\ WrittenAhead(t) /\ FileTrue(t)
    /\ LingerTrue(t) /\ SummaryTrue(t) /\ Manned(t)

IInv == TypeOK /\ \A t \in Transfers: Consistent(t)

\* A terminal summary was saved for its transfer.
Recorded(t) == summary[t] # Nil => t \in known

\* As long as no summary was saved and nobody cleared it, the journal of a transfer
\* that runs or has published is there, without an end line.
Findable(t) ==
    t \notin known \cup cleared =>
        /\ phase[t] \notin {"saved", "marked"}
        /\ phase[t] \in {"begun", "attempted", "failing"} \/ world[t] # Nil =>
              file[t] # Nil /\ file[t].state # "ended"

\* Once mark_terminal has written its end line, no readable journal is left, and after
\* its purge none that a power loss could bring back.
Settled(t) ==
    t \in known \ botched =>
        /\ phase[t] \in {"saved", "marked", "released"}
        /\ phase[t] \in {"marked", "released"} => ~Safe(t)
        /\ phase[t] = "released" /\ linger[t] # Nil => linger[t].state # "open"

\* Between the two halves of a clear the instance's own transfers stay excluded.
Excluded(t) ==
    \A p \in Instances:
        lock[p] = "clear" /\ owner[t] = p /\ phase[t] \in Active => t \in exclude[p]

Traced(t) == Recorded(t) /\ Findable(t) /\ Settled(t) /\ Excluded(t)

\* A transfer that is not settled has its journal.
Protected(t) ==
    phase[t] \in {"begun", "attempted", "failing", "saved"} => file[t] # Nil

HInv == IInv /\ \A t \in Transfers: Traced(t)
-----------------------------------------------------------------------------
USE DEF Journals, Statuses, Publications, Summaries, Active

\* The empty cache directory satisfies the types.
LEMMA InitTyped == Init => TypeOK
  BY JournalAssumption DEF Init, TypeOK, DiskOK, OwnersOK, LocksOK, CountsOK

\* A line appended, or failing to be, leaves every journal a journal.
LEMMA AppendTyped ==
    ASSUME DiskOK, NEW t \in Transfers, NEW j, file[t] # Nil => j \in Journals,
           AppendLine(t, j) \/ AppendFails(t, j)
    PROVE  file' \in [Transfers -> Journals \cup {Nil}]
<1>1. Headless \in Journals
  BY JournalAssumption DEF Headless
<1>2. CASE AppendLine(t, j)
  BY <1>1, <1>2 DEF DiskOK, AppendLine
<1>3. CASE AppendFails(t, j) /\ ~AppendLine(t, j)
  BY <1>1, <1>3 DEF DiskOK, AppendFails
<1>4. QED
  BY <1>2, <1>3

\* Every step keeps the types: one case per action, one step per part.
LEMMA NextTyped == TypeOK /\ [Next]_vars => TypeOK'
<1> SUFFICES ASSUME TypeOK, [Next]_vars PROVE TypeOK'
  OBVIOUS
<1> USE JournalAssumption DEF TypeOK
<1>1. ASSUME NEW p \in Instances, NEW t \in Transfers, Begin(p, t) PROVE TypeOK'
  <2>1. DiskOK'
    <3>1. Fresh \in Journals /\ Headless \in Journals
      BY DEF Fresh, Headless
    <3>2. QED
      BY <1>1, <3>1 DEF Begin, DiskOK
  <2>2. OwnersOK'
    BY <1>1 DEF Begin, Goto, OwnersOK
  <2>3. LocksOK'
    BY <1>1 DEF Begin, Goto, OwnersOK, LocksOK
  <2>4. CountsOK'
    BY <1>1 DEF Begin, bounds, history, CountsOK
  <2>5. QED
    BY <2>1, <2>2, <2>3, <2>4
<1>2. ASSUME NEW t \in Transfers, MarkAttempted(t) PROVE TypeOK'
  <2>1. DiskOK'
    <3>1. file' \in [Transfers -> Journals \cup {Nil}]
      BY <1>2, AppendTyped DEF MarkAttempted, DiskOK
    <3>2. QED
      BY <1>2, <3>1 DEF MarkAttempted, DiskOK
  <2>2. OwnersOK'
    BY <1>2 DEF MarkAttempted, Goto, OwnersOK
  <2>3. LocksOK'
    BY <1>2 DEF MarkAttempted, Goto, OwnersOK, LocksOK
  <2>4. CountsOK'
    BY <1>2 DEF MarkAttempted, bounds, history, CountsOK
  <2>5. QED
    BY <2>1, <2>2, <2>3, <2>4
<1>3. ASSUME NEW t \in Transfers, NEW n \in Names, MarkDestination(t, n) PROVE TypeOK'
  <2>1. DiskOK'
    <3>1. file' \in [Transfers -> Journals \cup {Nil}]
      BY <1>3, AppendTyped DEF MarkDestination, DiskOK
    <3>2. QED
      BY <1>3, <3>1 DEF MarkDestination, DiskOK
  <2>2. OwnersOK'
    BY <1>3 DEF MarkDestination, Goto, OwnersOK
  <2>3. LocksOK'
    BY <1>3 DEF MarkDestination, Goto, OwnersOK, LocksOK
  <2>4. CountsOK'
    BY <1>3 DEF MarkDestination, bounds, history, CountsOK
  <2>5. QED
    BY <2>1, <2>2, <2>3, <2>4
<1>4. ASSUME NEW t \in Transfers, Publish(t) PROVE TypeOK'
  <2>1. DiskOK'
    BY <1>4 DEF Publish, disk, DiskOK
  <2>2. OwnersOK'
    BY <1>4 DEF Publish, owners, OwnersOK
  <2>3. LocksOK'
    BY <1>4 DEF Publish, owners, OwnersOK, LocksOK
  <2>4. CountsOK'
    BY <1>4 DEF Publish, bounds, history, CountsOK
  <2>5. QED
    BY <2>1, <2>2, <2>3, <2>4
<1>5. ASSUME NEW t \in Transfers, NEW s \in Statuses, SaveSummary(t, s) PROVE TypeOK'
  <2>1. DiskOK'
    <3>1. Summary(t, s) \in Summaries
      BY <1>5 DEF SaveSummary, Summary, PublicationOf, Safe, DiskOK, CountsOK
    <3>2. /\ Stored(t, Summary(t, s)) \in [Transfers -> Summaries \cup {Nil}]
          /\ Replaced(t, Summary(t, s)) \in [Transfers -> Summaries \cup {Nil}]
      BY <3>1 DEF Stored, Replaced, DiskOK
    <3>3. QED
      BY <1>5, <3>2 DEF SaveSummary, DiskOK
  <2>2. OwnersOK'
    BY <1>5 DEF SaveSummary, Goto, Idle, OwnersOK
  <2>3. LocksOK'
    BY <1>5 DEF SaveSummary, Goto, Idle, OwnersOK, LocksOK
  <2>4. CountsOK'
    BY <1>5 DEF SaveSummary, bounds, history, CountsOK
  <2>5. QED
    BY <2>1, <2>2, <2>3, <2>4
<1>6. ASSUME NEW t \in Transfers, SaveFails(t) PROVE TypeOK'
  <2>1. DiskOK'
    BY <1>6 DEF SaveFails, disk, DiskOK
  <2>2. OwnersOK'
    BY <1>6 DEF SaveFails, Goto, OwnersOK
  <2>3. LocksOK'
    BY <1>6 DEF SaveFails, Goto, OwnersOK, LocksOK
  <2>4. CountsOK'
    BY <1>6 DEF SaveFails, bounds, history, CountsOK
  <2>5. QED
    BY <2>1, <2>2, <2>3, <2>4
<1>7. ASSUME NEW t \in Transfers, MarkEnd(t) PROVE TypeOK'
  <2>1. DiskOK'
    <3>1. file' \in [Transfers -> Journals \cup {Nil}]
      BY <1>7, AppendTyped DEF MarkEnd, DiskOK
    <3>2. QED
      BY <1>7, <3>1 DEF MarkEnd, DiskOK
  <2>2. OwnersOK'
    BY <1>7 DEF MarkEnd, Goto, Unlock, OwnersOK
  <2>3. LocksOK'
    BY <1>7 DEF MarkEnd, Goto, Unlock, OwnersOK, LocksOK
  <2>4. CountsOK'
    BY <1>7 DEF MarkEnd, bounds, history, CountsOK
  <2>5. QED
    BY <2>1, <2>2, <2>3, <2>4
<1>8. ASSUME NEW t \in Transfers, Purge(t) PROVE TypeOK'
  <2>1. DiskOK'
    BY <1>8 DEF Purge, DiskOK
  <2>2. OwnersOK'
    BY <1>8 DEF Purge, Goto, Unlock, OwnersOK
  <2>3. LocksOK'
    BY <1>8 DEF Purge, Goto, Unlock, OwnersOK, LocksOK
  <2>4. CountsOK'
    BY <1>8 DEF Purge, bounds, history, CountsOK
  <2>5. QED
    BY <2>1, <2>2, <2>3, <2>4
<1>9. ASSUME NEW p \in Instances, ClearSummaries(p) PROVE TypeOK'
  <2>1. DiskOK'
    BY <1>9 DEF ClearSummaries, WithoutSummaries, DiskOK
  <2>2. OwnersOK'
    BY <1>9 DEF ClearSummaries, WithoutSummaries, Owned, Idle, OwnersOK
  <2>3. LocksOK'
    BY <1>9 DEF ClearSummaries, WithoutSummaries, Owned, Idle, OwnersOK, LocksOK
  <2>4. CountsOK'
    BY <1>9 DEF ClearSummaries, WithoutSummaries, bounds, history, CountsOK
  <2>5. QED
    BY <2>1, <2>2, <2>3, <2>4
<1>10. ASSUME NEW p \in Instances, ClearJournals(p) PROVE TypeOK'
  <2>1. DiskOK'
    BY <1>10 DEF ClearJournals, Interrupted, DiskOK
  <2>2. OwnersOK'
    BY <1>10 DEF ClearJournals, Unlock, OwnersOK
  <2>3. LocksOK'
    BY <1>10 DEF ClearJournals, Unlock, OwnersOK, LocksOK
  <2>4. CountsOK'
    BY <1>10 DEF ClearJournals, Interrupted, bounds, history, CountsOK
  <2>5. QED
    BY <2>1, <2>2, <2>3, <2>4
<1>11. ASSUME NEW p \in Instances, Kill(p) PROVE TypeOK'
  <2>1. DiskOK'
    BY <1>11 DEF Kill, Stopped, DiskOK
  <2>2. OwnersOK'
    BY <1>11 DEF Kill, Stopped, OwnersOK
  <2>3. LocksOK'
    BY <1>11 DEF Kill, Stopped, OwnersOK, LocksOK
  <2>4. CountsOK'
    BY <1>11 DEF Kill, Stopped, CountsOK
  <2>5. QED
    BY <2>1, <2>2, <2>3, <2>4
<1>12. CASE PowerLoss
  <2>1. DiskOK'
    BY <1>12 DEF PowerLoss, Stopped, DiskOK
  <2>2. OwnersOK'
    BY <1>12 DEF PowerLoss, Stopped, OwnersOK
  <2>3. LocksOK'
    BY <1>12 DEF PowerLoss, Stopped, OwnersOK, LocksOK
  <2>4. CountsOK'
    BY <1>12 DEF PowerLoss, Stopped, CountsOK
  <2>5. QED
    BY <2>1, <2>2, <2>3, <2>4
<1>13. CASE ClockStep
  <2>1. DiskOK'
    BY <1>13 DEF ClockStep, DiskOK
  <2>2. OwnersOK'
    BY <1>13 DEF ClockStep, owners, OwnersOK
  <2>3. LocksOK'
    BY <1>13 DEF ClockStep, owners, OwnersOK, LocksOK
  <2>4. CountsOK'
    BY <1>13 DEF ClockStep, bounds, history, CountsOK
  <2>5. QED
    BY <2>1, <2>2, <2>3, <2>4
<1>14. CASE ClockCatchesUp
  <2>1. DiskOK'
    BY <1>14 DEF ClockCatchesUp, DiskOK
  <2>2. OwnersOK'
    BY <1>14 DEF ClockCatchesUp, owners, OwnersOK
  <2>3. LocksOK'
    BY <1>14 DEF ClockCatchesUp, owners, OwnersOK, LocksOK
  <2>4. CountsOK'
    BY <1>14 DEF ClockCatchesUp, bounds, history, CountsOK
  <2>5. QED
    BY <2>1, <2>2, <2>3, <2>4
<1>15. CASE UNCHANGED vars
  <2>1. DiskOK'
    BY <1>15 DEF vars, disk, DiskOK
  <2>2. OwnersOK'
    BY <1>15 DEF vars, owners, OwnersOK
  <2>3. LocksOK'
    BY <1>15 DEF vars, owners, OwnersOK, LocksOK
  <2>4. CountsOK'
    BY <1>15 DEF vars, bounds, history, CountsOK
  <2>5. QED
    BY <2>1, <2>2, <2>3, <2>4
<1>16. QED
  BY <1>1, <1>2, <1>3, <1>4, <1>5, <1>6, <1>7, <1>8, <1>9, <1>10, <1>11, <1>12,
     <1>13, <1>14, <1>15 DEF Next, Transfer

\* Nothing is recorded at the start.
LEMMA InitConsistent == Init => \A t \in Transfers: Consistent(t)
  BY JournalAssumption DEF Init, Consistent, Waiting, WrittenAhead, FileTrue,
     LingerTrue, SummaryTrue, Manned, Safe

\* A save replaces one summary; the others stay or are trimmed.
LEMMA StoredKeepsOrTrims ==
    ASSUME DiskOK, NEW t \in Transfers, NEW r \in Summaries, NEW u \in Transfers,
           NEW all \in {Stored(t, r), Replaced(t, r)}
    PROVE  \/ all[u] = Nil
           \/ u = t /\ all[u] = r
           \/ u # t /\ all[u] = summary[u]
  BY DEF Stored, Replaced, DiskOK

\* An appended journal is the old one, the new one or unreadable; a line that
\* went through leaves no old one.
LEMMA AppendLeaves ==
    ASSUME DiskOK, NEW t \in Transfers, NEW j \in Journals,
           AppendLine(t, j) \/ AppendFails(t, j), NEW u \in Transfers
    PROVE  /\ u # t => file'[u] = file[u]
           /\ Safe(t)' => file'[t] = j \/ file'[t] = file[t]
           /\ AppendLine(t, j) /\ Safe(t)' => file'[t] = j
<1>1. Headless.state # "open"
  BY DEF Headless
<1>2. AppendLine(t, j) => (u # t => file'[u] = file[u]) /\ (Safe(t)' => file'[t] = j)
  BY <1>1 DEF DiskOK, AppendLine, Safe
<1>3. AppendFails(t, j) /\ ~AppendLine(t, j) =>
        (u # t => file'[u] = file[u]) /\ (Safe(t)' => file'[t] = file[t])
  BY <1>1 DEF DiskOK, AppendFails, Safe
<1>4. QED
  BY <1>2, <1>3

\* Every step keeps what the disk says true: one case per action, one step
\* per part.
LEMMA NextConsistent ==
    IInv /\ [Next]_vars => (\A t \in Transfers: Consistent(t))'
<1> SUFFICES ASSUME IInv, [Next]_vars, NEW u \in Transfers
             PROVE  Consistent(u)'
  BY DEF IInv
<1>a. DiskOK /\ OwnersOK /\ Consistent(u)
  BY DEF IInv, TypeOK
<1> USE JournalAssumption
<1>1. ASSUME NEW p \in Instances, NEW t \in Transfers, Begin(p, t)
      PROVE  Consistent(u)'
  <2>1. Waiting(u)'
    BY <1>1, <1>a DEF Begin, Goto, Fresh, Headless, Consistent, Waiting, Safe,
       DiskOK, OwnersOK
  <2>2. WrittenAhead(u)'
    BY <1>1, <1>a DEF Begin, Goto, Consistent, WrittenAhead, Safe, DiskOK, OwnersOK
  <2>3. FileTrue(u)'
    BY <1>1, <1>a DEF Begin, Consistent, FileTrue, Truthful, Safe, Waiting, DiskOK
  <2>4. LingerTrue(u)'
    BY <1>1, <1>a DEF Begin, Goto, Consistent, LingerTrue, Truthful, Safe, DiskOK,
       OwnersOK
  <2>5. SummaryTrue(u)'
    BY <1>1, <1>a DEF Begin, Goto, Consistent, SummaryTrue, OwnersOK
  <2>6. Manned(u)'
    BY <1>1, <1>a DEF Begin, Goto, Consistent, Manned, OwnersOK
  <2>7. QED
    BY <2>1, <2>2, <2>3, <2>4, <2>5, <2>6 DEF Consistent
<1>2. ASSUME NEW t \in Transfers, MarkAttempted(t)
      PROVE  Consistent(u)'
  <2>1. Waiting(u)'
    BY <1>2, <1>a DEF MarkAttempted, AppendLine, AppendFails, Headless, Goto,
       Consistent, Waiting, Safe, DiskOK, OwnersOK
  <2>2. WrittenAhead(u)'
    <3> DEFINE line == [file[t] EXCEPT !.attempted = TRUE]
    <3>1. Safe(t) => line \in Journals /\ line.attempted = TRUE /\ line.dest = file[t].dest
      <4>1. Safe(t) => file[t] \in Journals
        BY <1>a DEF Safe, DiskOK
      <4>2. QED
        BY <4>1
    <3>2. CASE u = t
      <4>1. phase'[t] = "attempted" => Safe(t) /\ AppendLine(t, line) /\ UNCHANGED cur
        BY <1>2, <1>a DEF MarkAttempted, Goto, OwnersOK
      <4>2. phase'[t] = "attempted" /\ Safe(t)' => file'[t] = line
        BY <4>1, <3>1, <1>a, AppendLeaves
      <4>3. Safe(t) => file[t].dest = cur[t]
        BY <1>2, <1>a, <3>2 DEF MarkAttempted, Consistent, Waiting
      <4>4. QED
        BY <3>1, <3>2, <4>1, <4>2, <4>3 DEF WrittenAhead
    <3>3. CASE u # t
      <4>1. UNCHANGED file \/ AppendLine(t, line) \/ AppendFails(t, line)
        BY <1>2 DEF MarkAttempted
      <4>2. file'[u] = file[u]
        BY <4>1, <1>a, <3>3 DEF AppendLine, AppendFails, DiskOK
      <4>3. QED
        BY <1>2, <1>a, <3>3, <4>2 DEF MarkAttempted, Goto, Consistent, WrittenAhead,
           Safe, OwnersOK
    <3>4. QED
      BY <3>2, <3>3
  <2>3. FileTrue(u)'
    BY <1>2, <1>a DEF MarkAttempted, AppendLine, AppendFails, Headless, Consistent,
       FileTrue, Truthful, Safe, Waiting, DiskOK
  <2>4. LingerTrue(u)'
    BY <1>2, <1>a DEF MarkAttempted, AppendLine, AppendFails, Headless, Goto,
       Consistent, LingerTrue, Truthful, Safe, Waiting, DiskOK, OwnersOK
  <2>5. SummaryTrue(u)'
    BY <1>2, <1>a DEF MarkAttempted, Goto, Consistent, SummaryTrue, OwnersOK
  <2>6. Manned(u)'
    BY <1>2, <1>a DEF MarkAttempted, Goto, Consistent, Manned, OwnersOK
  <2>7. QED
    BY <2>1, <2>2, <2>3, <2>4, <2>5, <2>6 DEF Consistent
<1>3. ASSUME NEW t \in Transfers, NEW n \in Names, MarkDestination(t, n)
      PROVE  Consistent(u)'
  <2>1. Waiting(u)'
    BY <1>3, <1>a DEF MarkDestination, AppendLine, AppendFails, Headless, Goto,
       Consistent, Waiting, Safe, DiskOK, OwnersOK
  <2>2. WrittenAhead(u)'
    <3> DEFINE line == [file[t] EXCEPT !.dest = n]
    <3>1. Safe(t) => line \in Journals /\ line.attempted = file[t].attempted /\ line.dest = n
      BY <1>3, <1>a DEF Safe, DiskOK
    <3>2. CASE u = t
      <4>1. phase'[t] = "attempted" =>
              Safe(t) /\ AppendLine(t, line) /\ cur'[t] = n
        BY <1>3, <1>a DEF MarkDestination, Goto, OwnersOK
      <4>2. phase'[t] = "attempted" /\ Safe(t)' => file'[t] = line
        BY <4>1, <3>1, <1>a, AppendLeaves
      <4>3. Safe(t) => file[t].attempted
        BY <1>3, <1>a, <3>2 DEF MarkDestination, Consistent, WrittenAhead
      <4>4. QED
        BY <3>1, <3>2, <4>1, <4>2, <4>3 DEF WrittenAhead
    <3>3. CASE u # t
      <4>1. UNCHANGED file \/ AppendLine(t, line) \/ AppendFails(t, line)
        BY <1>3 DEF MarkDestination
      <4>2. file'[u] = file[u]
        BY <4>1, <1>a, <3>3 DEF AppendLine, AppendFails, DiskOK
      <4>3. QED
        BY <1>3, <1>a, <3>3, <4>2 DEF MarkDestination, Goto, Consistent,
           WrittenAhead, Safe, OwnersOK
    <3>4. QED
      BY <3>2, <3>3
  <2>3. FileTrue(u)'
    BY <1>3, <1>a DEF MarkDestination, AppendLine, AppendFails, Headless,
       Consistent, FileTrue, Truthful, Safe, WrittenAhead, DiskOK
  <2>4. LingerTrue(u)'
    BY <1>3, <1>a DEF MarkDestination, AppendLine, AppendFails, Headless, Goto,
       Consistent, LingerTrue, Truthful, Safe, DiskOK, OwnersOK
  <2>5. SummaryTrue(u)'
    BY <1>3, <1>a DEF MarkDestination, Goto, Consistent, SummaryTrue, OwnersOK
  <2>6. Manned(u)'
    BY <1>3, <1>a DEF MarkDestination, Goto, Consistent, Manned, OwnersOK
  <2>7. QED
    BY <2>1, <2>2, <2>3, <2>4, <2>5, <2>6 DEF Consistent
<1>4. ASSUME NEW t \in Transfers, Publish(t)
      PROVE  Consistent(u)'
  <2>1. Waiting(u)'
    BY <1>4, <1>a DEF Publish, disk, owners, Consistent, Waiting, Safe
  <2>2. WrittenAhead(u)'
    BY <1>4, <1>a DEF Publish, disk, owners, Consistent, WrittenAhead, Safe
  <2>3. FileTrue(u)'
    BY <1>4, <1>a DEF Publish, disk, Consistent, FileTrue, Truthful, Safe,
       WrittenAhead
  <2>4. LingerTrue(u)'
    BY <1>4, <1>a DEF Publish, disk, owners, Consistent, LingerTrue, Truthful, Safe,
       WrittenAhead
  <2>5. SummaryTrue(u)'
    BY <1>4, <1>a DEF Publish, disk, owners, Consistent, SummaryTrue
  <2>6. Manned(u)'
    BY <1>4, <1>a DEF Publish, owners, Consistent, Manned
  <2>7. QED
    BY <2>1, <2>2, <2>3, <2>4, <2>5, <2>6 DEF Consistent
<1>5. ASSUME NEW t \in Transfers, NEW s \in Statuses, SaveSummary(t, s)
      PROVE  Consistent(u)'
  <2>1. Waiting(u)'
    BY <1>5, <1>a DEF SaveSummary, Goto, Consistent, Waiting, Safe, OwnersOK
  <2>2. WrittenAhead(u)'
    BY <1>5, <1>a DEF SaveSummary, Goto, Consistent, WrittenAhead, Safe, OwnersOK
  <2>3. FileTrue(u)'
    BY <1>5, <1>a DEF SaveSummary, Consistent, FileTrue, Truthful, Safe
  <2>4. LingerTrue(u)'
    BY <1>5, <1>a DEF SaveSummary, Goto, Consistent, LingerTrue, Truthful, Safe,
       OwnersOK
  <2>5. SummaryTrue(u)'
    <3>1. Summary(t, s) \in Summaries
      BY <1>5, <1>a DEF SaveSummary, Summary, PublicationOf, Safe, DiskOK, IInv,
         TypeOK, CountsOK
    <3>2. \/ summary'[u] = Nil
          \/ u = t /\ summary'[u] = Summary(t, s)
          \/ u # t /\ summary'[u] = summary[u]
      BY <1>5, <1>a, <3>1, StoredKeepsOrTrims DEF SaveSummary
    <3>3. CASE u = t /\ summary'[u] = Summary(t, s)
      <4>1. phase'[t] \in {"saved", "released"}
        BY <1>5, <1>a DEF SaveSummary, Goto, OwnersOK
      <4>2. world[t] # Nil => file[t].attempted /\ file[t].dest = world[t]
        BY <1>5, <1>a, <3>3 DEF SaveSummary, Consistent, FileTrue, Truthful
      <4>3. /\ s = "completed" => world[t] # Nil
            /\ s = "skipped" => world[t] = Nil
        BY <1>5 DEF SaveSummary, Possible
      <4>4. /\ Summary(t, s).status = s
            /\ Summary(t, s).dest = file[t].dest
            /\ file[t].attempted => Summary(t, s).publication # "never_attempted"
        BY DEF Summary, PublicationOf
      <4>5. UNCHANGED world
        BY <1>5 DEF SaveSummary
      <4>6. QED
        BY <3>3, <4>1, <4>2, <4>3, <4>4, <4>5 DEF SummaryTrue
    <3>4. CASE summary'[u] = Nil
      BY <3>4 DEF SummaryTrue
    <3>5. CASE u # t /\ summary'[u] = summary[u]
      BY <1>5, <1>a, <3>5 DEF SaveSummary, Goto, Consistent, SummaryTrue, OwnersOK
    <3>6. QED
      BY <3>2, <3>3, <3>4, <3>5
  <2>6. Manned(u)'
    BY <1>5, <1>a DEF SaveSummary, Goto, Consistent, Manned, OwnersOK
  <2>7. QED
    BY <2>1, <2>2, <2>3, <2>4, <2>5, <2>6 DEF Consistent
<1>6. ASSUME NEW t \in Transfers, SaveFails(t)
      PROVE  Consistent(u)'
  <2>1. Waiting(u)'
    BY <1>6, <1>a DEF SaveFails, disk, Goto, Consistent, Waiting, Safe
  <2>2. WrittenAhead(u)'
    BY <1>6, <1>a DEF SaveFails, disk, Goto, Consistent, WrittenAhead, Safe
  <2>3. FileTrue(u)'
    BY <1>6, <1>a DEF SaveFails, disk, Consistent, FileTrue, Truthful, Safe
  <2>4. LingerTrue(u)'
    BY <1>6, <1>a DEF SaveFails, disk, Goto, Consistent, LingerTrue, Truthful, Safe
  <2>5. SummaryTrue(u)'
    BY <1>6, <1>a DEF SaveFails, disk, Goto, Consistent, SummaryTrue
  <2>6. Manned(u)'
    BY <1>6, <1>a DEF SaveFails, Goto, Consistent, Manned
  <2>7. QED
    BY <2>1, <2>2, <2>3, <2>4, <2>5, <2>6 DEF Consistent
<1>7. ASSUME NEW t \in Transfers, MarkEnd(t)
      PROVE  Consistent(u)'
  <2>a. Safe(u)' => file'[u] = file[u]
    <3> DEFINE line == [file[t] EXCEPT !.state = "ended"]
    <3>1. AppendLine(t, line) \/ AppendFails(t, line)
      BY <1>7 DEF MarkEnd
    <3>2. CASE file[t] = Nil
      BY <3>1, <1>a, <3>2 DEF AppendLine, AppendFails, Headless, Safe, DiskOK
    <3>3. CASE file[t] # Nil
      <4>1. line \in Journals /\ line.state # "open"
        BY <1>a, <3>3 DEF DiskOK
      <4>2. QED
        BY <3>1, <4>1, <1>a, AppendLeaves DEF Safe
    <3>4. QED
      BY <3>2, <3>3
  <2>1. Waiting(u)'
    BY <1>7, <1>a DEF MarkEnd, AppendLine, AppendFails, Headless, Goto, Consistent,
       Waiting, Safe, DiskOK, OwnersOK
  <2>2. WrittenAhead(u)'
    BY <1>7, <1>a DEF MarkEnd, AppendLine, AppendFails, Headless, Goto, Consistent,
       WrittenAhead, Safe, DiskOK, OwnersOK
  <2>3. FileTrue(u)'
    BY <1>7, <1>a, <2>a DEF MarkEnd, Consistent, FileTrue, Truthful, Safe
  <2>4. LingerTrue(u)'
    BY <1>7, <1>a, <2>a DEF MarkEnd, Goto, Consistent, LingerTrue, Truthful, Safe,
       OwnersOK
  <2>5. SummaryTrue(u)'
    BY <1>7, <1>a DEF MarkEnd, Goto, Consistent, SummaryTrue, OwnersOK
  <2>6. Manned(u)'
    BY <1>7, <1>a DEF MarkEnd, Goto, Consistent, Manned, OwnersOK
  <2>7. QED
    BY <2>1, <2>2, <2>3, <2>4, <2>5, <2>6 DEF Consistent
<1>8. ASSUME NEW t \in Transfers, Purge(t)
      PROVE  Consistent(u)'
  <2>1. Waiting(u)'
    BY <1>8, <1>a DEF Purge, Goto, Consistent, Waiting, Safe
  <2>2. WrittenAhead(u)'
    BY <1>8, <1>a DEF Purge, Goto, Consistent, WrittenAhead, Safe
  <2>3. FileTrue(u)'
    BY <1>8, <1>a DEF Purge, Consistent, FileTrue, Truthful, Safe
  <2>4. LingerTrue(u)'
    BY <1>8, <1>a DEF Purge, Goto, Consistent, LingerTrue, Truthful, Safe, FileTrue,
       DiskOK
  <2>5. SummaryTrue(u)'
    BY <1>8, <1>a DEF Purge, Goto, Consistent, SummaryTrue
  <2>6. Manned(u)'
    BY <1>8, <1>a DEF Purge, Goto, Consistent, Manned
  <2>7. QED
    BY <2>1, <2>2, <2>3, <2>4, <2>5, <2>6 DEF Consistent
<1>9. ASSUME NEW p \in Instances, ClearSummaries(p)
      PROVE  Consistent(u)'
  <2>1. Waiting(u)'
    BY <1>9, <1>a DEF ClearSummaries, WithoutSummaries, Consistent, Waiting, Safe
  <2>2. WrittenAhead(u)'
    BY <1>9, <1>a DEF ClearSummaries, WithoutSummaries, Consistent, WrittenAhead,
       Safe
  <2>3. FileTrue(u)'
    BY <1>9, <1>a DEF ClearSummaries, WithoutSummaries, Consistent, FileTrue,
       Truthful, Safe
  <2>4. LingerTrue(u)'
    BY <1>9, <1>a DEF ClearSummaries, WithoutSummaries, Consistent, LingerTrue,
       Truthful, Safe
  <2>5. SummaryTrue(u)'
    BY <1>9, <1>a DEF ClearSummaries, WithoutSummaries, Consistent, SummaryTrue
  <2>6. Manned(u)'
    BY <1>9, <1>a DEF ClearSummaries, WithoutSummaries, Consistent, Manned
  <2>7. QED
    BY <2>1, <2>2, <2>3, <2>4, <2>5, <2>6 DEF Consistent
<1>10. ASSUME NEW p \in Instances, ClearJournals(p)
      PROVE  Consistent(u)'
  <2>1. Waiting(u)'
    BY <1>10, <1>a DEF ClearJournals, Interrupted, Consistent, Waiting, Safe
  <2>2. WrittenAhead(u)'
    BY <1>10, <1>a DEF ClearJournals, Interrupted, Consistent, WrittenAhead, Safe
  <2>3. FileTrue(u)'
    BY <1>10, <1>a DEF ClearJournals, Interrupted, Consistent, FileTrue, Truthful,
       Safe
  <2>4. LingerTrue(u)'
    BY <1>10, <1>a DEF ClearJournals, Interrupted, Consistent, LingerTrue, Truthful,
       Safe, FileTrue, WrittenAhead, Waiting
  <2>5. SummaryTrue(u)'
    BY <1>10, <1>a DEF ClearJournals, Interrupted, Consistent, SummaryTrue
  <2>6. Manned(u)'
    BY <1>10, <1>a DEF ClearJournals, Interrupted, Consistent, Manned
  <2>7. QED
    BY <2>1, <2>2, <2>3, <2>4, <2>5, <2>6 DEF Consistent
<1>11. ASSUME NEW p \in Instances, Kill(p)
      PROVE  Consistent(u)'
  <2>1. Waiting(u)'
    BY <1>11, <1>a DEF Kill, Stopped, Consistent, Waiting, Safe
  <2>2. WrittenAhead(u)'
    BY <1>11, <1>a DEF Kill, Stopped, Consistent, WrittenAhead, Safe
  <2>3. FileTrue(u)'
    BY <1>11, <1>a DEF Kill, Stopped, Consistent, FileTrue, Truthful, Safe
  <2>4. LingerTrue(u)'
    BY <1>11, <1>a DEF Kill, Stopped, Consistent, LingerTrue, Truthful, Safe
  <2>5. SummaryTrue(u)'
    BY <1>11, <1>a DEF Kill, Stopped, Consistent, SummaryTrue
  <2>6. Manned(u)'
    BY <1>11, <1>a DEF Kill, Stopped, Consistent, Manned
  <2>7. QED
    BY <2>1, <2>2, <2>3, <2>4, <2>5, <2>6 DEF Consistent
<1>12. CASE PowerLoss
  <2>1. Waiting(u)'
    BY <1>12, <1>a DEF PowerLoss, Stopped, Consistent, Waiting, Safe, LingerTrue,
       Manned, OwnersOK
  <2>2. WrittenAhead(u)'
    BY <1>12, <1>a DEF PowerLoss, Stopped, Consistent, WrittenAhead, Safe,
       LingerTrue
  <2>3. FileTrue(u)'
    BY <1>12, <1>a DEF PowerLoss, Stopped, Consistent, FileTrue, Truthful, Safe,
       LingerTrue
  <2>4. LingerTrue(u)'
    BY <1>12, <1>a DEF PowerLoss, Stopped, Consistent, LingerTrue
  <2>5. SummaryTrue(u)'
    BY <1>12, <1>a DEF PowerLoss, Stopped, Consistent, SummaryTrue
  <2>6. Manned(u)'
    BY <1>12, <1>a DEF PowerLoss, Stopped, Consistent, Manned
  <2>7. QED
    BY <2>1, <2>2, <2>3, <2>4, <2>5, <2>6 DEF Consistent
<1>13. CASE ClockStep
  <2>1. Waiting(u)'
    BY <1>13, <1>a DEF ClockStep, owners, Consistent, Waiting, Safe
  <2>2. WrittenAhead(u)'
    BY <1>13, <1>a DEF ClockStep, owners, Consistent, WrittenAhead, Safe
  <2>3. FileTrue(u)'
    BY <1>13, <1>a DEF ClockStep, Consistent, FileTrue, Truthful, Safe
  <2>4. LingerTrue(u)'
    BY <1>13, <1>a DEF ClockStep, owners, Consistent, LingerTrue, Truthful, Safe
  <2>5. SummaryTrue(u)'
    BY <1>13, <1>a DEF ClockStep, owners, Consistent, SummaryTrue
  <2>6. Manned(u)'
    BY <1>13, <1>a DEF ClockStep, owners, Consistent, Manned
  <2>7. QED
    BY <2>1, <2>2, <2>3, <2>4, <2>5, <2>6 DEF Consistent
<1>14. CASE ClockCatchesUp
  <2>1. Waiting(u)'
    BY <1>14, <1>a DEF ClockCatchesUp, owners, Consistent, Waiting, Safe
  <2>2. WrittenAhead(u)'
    BY <1>14, <1>a DEF ClockCatchesUp, owners, Consistent, WrittenAhead, Safe
  <2>3. FileTrue(u)'
    BY <1>14, <1>a DEF ClockCatchesUp, Consistent, FileTrue, Truthful, Safe
  <2>4. LingerTrue(u)'
    BY <1>14, <1>a DEF ClockCatchesUp, owners, Consistent, LingerTrue, Truthful,
       Safe
  <2>5. SummaryTrue(u)'
    BY <1>14, <1>a DEF ClockCatchesUp, owners, Consistent, SummaryTrue
  <2>6. Manned(u)'
    BY <1>14, <1>a DEF ClockCatchesUp, owners, Consistent, Manned
  <2>7. QED
    BY <2>1, <2>2, <2>3, <2>4, <2>5, <2>6 DEF Consistent
<1>15. CASE UNCHANGED vars
  <2>1. Waiting(u)'
    BY <1>15, <1>a DEF vars, disk, owners, Consistent, Waiting, Safe
  <2>2. WrittenAhead(u)'
    BY <1>15, <1>a DEF vars, disk, owners, Consistent, WrittenAhead, Safe
  <2>3. FileTrue(u)'
    BY <1>15, <1>a DEF vars, disk, Consistent, FileTrue, Truthful, Safe
  <2>4. LingerTrue(u)'
    BY <1>15, <1>a DEF vars, disk, owners, Consistent, LingerTrue, Truthful, Safe
  <2>5. SummaryTrue(u)'
    BY <1>15, <1>a DEF vars, disk, owners, Consistent, SummaryTrue
  <2>6. Manned(u)'
    BY <1>15, <1>a DEF vars, owners, Consistent, Manned
  <2>7. QED
    BY <2>1, <2>2, <2>3, <2>4, <2>5, <2>6 DEF Consistent
<1>16. QED
  BY <1>1, <1>2, <1>3, <1>4, <1>5, <1>6, <1>7, <1>8, <1>9, <1>10, <1>11, <1>12,
     <1>13, <1>14, <1>15 DEF Next, Transfer

\* Nothing has happened at the start.
LEMMA InitTraced == Init => \A t \in Transfers: Traced(t)
  BY JournalAssumption DEF Init, Traced, Recorded, Findable, Settled, Excluded

\* Every step keeps the trace of what was recorded and cleared: one case per
\* action, one step per part.
LEMMA NextTraced ==
    HInv /\ [Next]_vars => (\A t \in Transfers: Traced(t))'
<1> SUFFICES ASSUME HInv, [Next]_vars, NEW u \in Transfers
             PROVE  Traced(u)'
  BY DEF HInv
<1>a. /\ DiskOK /\ OwnersOK /\ LocksOK /\ CountsOK
      /\ Consistent(u) /\ Traced(u)
  BY DEF HInv, IInv, TypeOK
<1> USE JournalAssumption, NilAssumption
<1>1. ASSUME NEW p \in Instances, NEW t \in Transfers, Begin(p, t)
      PROVE  Traced(u)'
  <2>1. Recorded(u)'
    BY <1>1, <1>a DEF Traced, Recorded, Begin, Goto, Fresh, Headless, history,
       DiskOK, OwnersOK
  <2>2. Findable(u)'
    <3>1. Fresh \in Journals /\ Fresh.state = "open"
      BY DEF Fresh
    <3>2. CASE u = t
      BY <1>1, <1>a, <3>1, <3>2 DEF Begin, Goto, Findable, history, Consistent, Waiting,
         DiskOK, OwnersOK
    <3>3. CASE u # t
      BY <1>1, <1>a, <3>3 DEF Begin, Goto, Traced, Findable, history, DiskOK, OwnersOK
    <3>4. QED
      BY <3>2, <3>3
  <2>3. Settled(u)'
    BY <1>1, <1>a DEF Traced, Settled, Begin, Goto, Fresh, Headless, history,
       Consistent, LingerTrue, Manned, Safe, DiskOK, OwnersOK
  <2>4. Excluded(u)'
    BY <1>1, <1>a DEF Traced, Excluded, Begin, Goto, Fresh, Headless, OwnersOK
  <2>5. QED
    BY <2>1, <2>2, <2>3, <2>4 DEF Traced
<1>2. ASSUME NEW t \in Transfers, MarkAttempted(t)
      PROVE  Traced(u)'
  <2>1. Recorded(u)'
    BY <1>2, <1>a DEF Traced, Recorded, MarkAttempted, AppendLine,
       AppendFails, Headless, Goto, history, DiskOK, OwnersOK
  <2>2. Findable(u)'
    <3> DEFINE line == [file[t] EXCEPT !.attempted = TRUE]
    <3>1. \/ UNCHANGED file
          \/ file[t] \in Journals /\ (AppendLine(t, line) \/ AppendFails(t, line))
      BY <1>2, <1>a DEF MarkAttempted, Safe, DiskOK
    <3>2. /\ u # t => file'[u] = file[u]
          /\ file[u] # Nil /\ file[u].state # "ended" =>
               file'[u] # Nil /\ file'[u].state # "ended"
      <4>1. CASE UNCHANGED file
        BY <4>1
      <4>2. CASE file[t] \in Journals /\ (AppendLine(t, line) \/ AppendFails(t, line))
        <5>1. line \in Journals /\ line.state = file[t].state
          BY <4>2
        <5>2. \/ file' = [file EXCEPT ![t] = line]
              \/ file' = [file EXCEPT ![t] = [line EXCEPT !.state = "damaged"]]
              \/ file' = [file EXCEPT ![t] = [file[t] EXCEPT !.state = "damaged"]]
              \/ UNCHANGED file
          BY <4>2, <1>a, NilAssumption DEF AppendLine, AppendFails, DiskOK
        <5>3. /\ [line EXCEPT !.state = "damaged"] \in Journals
              /\ [file[t] EXCEPT !.state = "damaged"] \in Journals
              /\ [line EXCEPT !.state = "damaged"].state = "damaged"
              /\ [file[t] EXCEPT !.state = "damaged"].state = "damaged"
          BY <4>2, <5>1
        <5>4. QED
          BY <1>a, <5>1, <5>2, <5>3, NilAssumption DEF DiskOK
      <4>3. QED
        BY <3>1, <4>1, <4>2
    <3>3. /\ UNCHANGED <<world, known, cleared>>
          /\ phase[t] \in {"begun", "attempted"}
          /\ u # t => phase'[u] = phase[u]
          /\ phase'[t] \in {"attempted", "failing"}
      BY <1>2, <1>a DEF MarkAttempted, Goto, history, OwnersOK
    <3>4. QED
      BY <1>a, <3>2, <3>3 DEF Traced, Findable
  <2>3. Settled(u)'
    BY <1>2, <1>a DEF Traced, Settled, MarkAttempted, AppendLine, AppendFails,
       Headless, Goto, history, Consistent, LingerTrue, Manned, Safe, DiskOK,
       OwnersOK
  <2>4. Excluded(u)'
    BY <1>2, <1>a DEF Traced, Excluded, MarkAttempted, AppendLine,
       AppendFails, Headless, Goto, OwnersOK
  <2>5. QED
    BY <2>1, <2>2, <2>3, <2>4 DEF Traced
<1>3. ASSUME NEW t \in Transfers, NEW n \in Names, MarkDestination(t, n)
      PROVE  Traced(u)'
  <2>1. Recorded(u)'
    BY <1>3, <1>a DEF Traced, Recorded, MarkDestination, AppendLine,
       AppendFails, Headless, Goto, history, DiskOK, OwnersOK
  <2>2. Findable(u)'
    <3> DEFINE line == [file[t] EXCEPT !.dest = n]
    <3>1. \/ UNCHANGED file
          \/ file[t] \in Journals /\ (AppendLine(t, line) \/ AppendFails(t, line))
      BY <1>3, <1>a DEF MarkDestination, Safe, DiskOK
    <3>2. /\ u # t => file'[u] = file[u]
          /\ file[u] # Nil /\ file[u].state # "ended" =>
               file'[u] # Nil /\ file'[u].state # "ended"
      <4>1. CASE UNCHANGED file
        BY <4>1
      <4>2. CASE file[t] \in Journals /\ (AppendLine(t, line) \/ AppendFails(t, line))
        <5>1. line \in Journals /\ line.state = file[t].state
          BY <4>2, <1>3
        <5>2. \/ file' = [file EXCEPT ![t] = line]
              \/ file' = [file EXCEPT ![t] = [line EXCEPT !.state = "damaged"]]
              \/ file' = [file EXCEPT ![t] = [file[t] EXCEPT !.state = "damaged"]]
              \/ UNCHANGED file
          BY <4>2, <1>a, NilAssumption DEF AppendLine, AppendFails, DiskOK
        <5>3. /\ [line EXCEPT !.state = "damaged"] \in Journals
              /\ [file[t] EXCEPT !.state = "damaged"] \in Journals
              /\ [line EXCEPT !.state = "damaged"].state = "damaged"
              /\ [file[t] EXCEPT !.state = "damaged"].state = "damaged"
          BY <4>2, <5>1
        <5>4. QED
          BY <1>a, <5>1, <5>2, <5>3, NilAssumption DEF DiskOK
      <4>3. QED
        BY <3>1, <4>1, <4>2
    <3>3. /\ UNCHANGED <<world, known, cleared>>
          /\ phase[t] \in {"begun", "attempted"}
          /\ u # t => phase'[u] = phase[u]
          /\ phase'[t] \in {"attempted", "failing"}
      BY <1>3, <1>a DEF MarkDestination, Goto, history, OwnersOK
    <3>4. QED
      BY <1>a, <3>2, <3>3 DEF Traced, Findable
  <2>3. Settled(u)'
    BY <1>3, <1>a DEF Traced, Settled, MarkDestination, AppendLine,
       AppendFails, Headless, Goto, history, Consistent, LingerTrue, Manned,
       Safe, DiskOK, OwnersOK
  <2>4. Excluded(u)'
    BY <1>3, <1>a DEF Traced, Excluded, MarkDestination, AppendLine,
       AppendFails, Headless, Goto, OwnersOK
  <2>5. QED
    BY <2>1, <2>2, <2>3, <2>4 DEF Traced
<1>4. ASSUME NEW t \in Transfers, Publish(t)
      PROVE  Traced(u)'
  <2>1. Recorded(u)'
    BY <1>4, <1>a DEF Traced, Recorded, Publish, disk, owners, history,
       DiskOK, OwnersOK
  <2>2. Findable(u)'
    BY <1>4, <1>a DEF Traced, Findable, Publish, disk, owners, history,
       Consistent, Waiting, Manned, Safe, DiskOK, OwnersOK
  <2>3. Settled(u)'
    BY <1>4, <1>a DEF Traced, Settled, Publish, disk, owners, history,
       Consistent, LingerTrue, Manned, Safe, DiskOK, OwnersOK
  <2>4. Excluded(u)'
    BY <1>4, <1>a DEF Traced, Excluded, Publish, disk, owners, OwnersOK
  <2>5. QED
    BY <2>1, <2>2, <2>3, <2>4 DEF Traced
<1>5. ASSUME NEW t \in Transfers, NEW s \in Statuses, SaveSummary(t, s)
      PROVE  Traced(u)'
  <2>1. Recorded(u)'
    <3>1. Summary(t, s) \in Summaries
      BY <1>5, <1>a DEF SaveSummary, Summary, PublicationOf, Safe, DiskOK, CountsOK
    <3>2. \/ summary'[u] = Nil
          \/ u = t
          \/ u # t /\ summary'[u] = summary[u]
      BY <1>5, <1>a, <3>1, StoredKeepsOrTrims DEF SaveSummary
    <3>3. known' = known \cup {t}
      BY <1>5 DEF SaveSummary
    <3>4. QED
      BY <1>a, <3>2, <3>3 DEF Traced, Recorded
  <2>2. Findable(u)'
    BY <1>5, <1>a DEF Traced, Findable, SaveSummary, Goto, history,
       Consistent, Waiting, Manned, Safe, DiskOK, OwnersOK
  <2>3. Settled(u)'
    BY <1>5, <1>a DEF Traced, Settled, SaveSummary, Goto, history, Consistent,
       LingerTrue, Manned, Safe, DiskOK, OwnersOK
  <2>4. Excluded(u)'
    BY <1>5, <1>a DEF Traced, Excluded, SaveSummary, Goto, OwnersOK
  <2>5. QED
    BY <2>1, <2>2, <2>3, <2>4 DEF Traced
<1>6. ASSUME NEW t \in Transfers, SaveFails(t)
      PROVE  Traced(u)'
  <2>1. Recorded(u)'
    BY <1>6, <1>a DEF Traced, Recorded, SaveFails, disk, Goto, history,
       DiskOK, OwnersOK
  <2>2. Findable(u)'
    BY <1>6, <1>a DEF Traced, Findable, SaveFails, disk, Goto, history,
       Consistent, Waiting, Manned, Safe, DiskOK, OwnersOK
  <2>3. Settled(u)'
    BY <1>6, <1>a DEF Traced, Settled, SaveFails, disk, Goto, history,
       Consistent, LingerTrue, Manned, Safe, DiskOK, OwnersOK
  <2>4. Excluded(u)'
    BY <1>6, <1>a DEF Traced, Excluded, SaveFails, disk, Goto, OwnersOK
  <2>5. QED
    BY <2>1, <2>2, <2>3, <2>4 DEF Traced
<1>7. ASSUME NEW t \in Transfers, MarkEnd(t)
      PROVE  Traced(u)'
  <2>1. Recorded(u)'
    BY <1>7, <1>a DEF Traced, Recorded, MarkEnd, AppendLine, AppendFails,
       Headless, Goto, Unlock, history, DiskOK, OwnersOK
  <2>2. Findable(u)'
    BY <1>7, <1>a DEF Traced, Findable, MarkEnd, AppendLine, AppendFails,
       Headless, Goto, Unlock, history, Consistent, Waiting, Manned, Safe,
       DiskOK, OwnersOK
  <2>3. Settled(u)'
    <3> DEFINE line == [file[t] EXCEPT !.state = "ended"]
    <3>1. u # t => UNCHANGED <<file[u], phase[u], linger[u]>>
      BY <1>7, <1>a DEF MarkEnd, AppendLine, AppendFails, Goto, DiskOK, OwnersOK
    <3>2. AppendLine(t, line) => ~Safe(t)'
      BY <1>a DEF AppendLine, Headless, Safe, DiskOK
    <3>3. \/ AppendLine(t, line) /\ phase'[t] = "marked" /\ UNCHANGED botched
          \/ phase'[t] = "released" /\ botched' = botched \cup {t}
      BY <1>7, <1>a DEF MarkEnd, Goto, OwnersOK
    <3>4. UNCHANGED known /\ botched \subseteq botched'
      BY <1>7 DEF MarkEnd
    <3>5. QED
      BY <1>a, <3>1, <3>2, <3>3, <3>4 DEF Traced, Settled, Safe
  <2>4. Excluded(u)'
    BY <1>7, <1>a DEF Traced, Excluded, MarkEnd, AppendLine, AppendFails,
       Headless, Goto, Unlock, OwnersOK
  <2>5. QED
    BY <2>1, <2>2, <2>3, <2>4 DEF Traced
<1>8. ASSUME NEW t \in Transfers, Purge(t)
      PROVE  Traced(u)'
  <2>1. Recorded(u)'
    BY <1>8, <1>a DEF Traced, Recorded, Purge, Goto, Unlock, history, DiskOK,
       OwnersOK
  <2>2. Findable(u)'
    BY <1>8, <1>a DEF Traced, Findable, Purge, Goto, Unlock, history,
       Consistent, Waiting, Manned, Safe, DiskOK, OwnersOK
  <2>3. Settled(u)'
    BY <1>8, <1>a DEF Traced, Settled, Purge, Goto, Unlock, history,
       Consistent, LingerTrue, Manned, Safe, DiskOK, OwnersOK
  <2>4. Excluded(u)'
    BY <1>8, <1>a DEF Traced, Excluded, Purge, Goto, Unlock, OwnersOK
  <2>5. QED
    BY <2>1, <2>2, <2>3, <2>4 DEF Traced
<1>9. ASSUME NEW p \in Instances, ClearSummaries(p)
      PROVE  Traced(u)'
  <2>1. Recorded(u)'
    BY <1>9, <1>a DEF Traced, Recorded, ClearSummaries, WithoutSummaries,
       Owned, Idle, history, DiskOK, OwnersOK
  <2>2. Findable(u)'
    BY <1>9, <1>a DEF Traced, Findable, ClearSummaries, WithoutSummaries,
       Owned, Idle, history, Consistent, Waiting, Manned, Safe, DiskOK,
       OwnersOK
  <2>3. Settled(u)'
    BY <1>9, <1>a DEF Traced, Settled, ClearSummaries, WithoutSummaries,
       Owned, Idle, history, Consistent, LingerTrue, Manned, Safe, DiskOK,
       OwnersOK
  <2>4. Excluded(u)'
    BY <1>9, <1>a DEF Traced, Excluded, ClearSummaries, WithoutSummaries,
       Owned, Idle, OwnersOK
  <2>5. QED
    BY <2>1, <2>2, <2>3, <2>4 DEF Traced
<1>10. ASSUME NEW p \in Instances, ClearJournals(p)
      PROVE  Traced(u)'
  <2>1. Recorded(u)'
    BY <1>10, <1>a DEF Traced, Recorded, ClearJournals, Interrupted, Unlock,
       history, DiskOK, OwnersOK
  <2>2. Findable(u)'
    BY <1>10, <1>a DEF Traced, Findable, ClearJournals, Interrupted, Unlock,
       history, Consistent, Waiting, Manned, Safe, DiskOK, OwnersOK
  <2>3. Settled(u)'
    BY <1>10, <1>a DEF Traced, Settled, ClearJournals, Interrupted, Unlock,
       history, Consistent, LingerTrue, Manned, Safe, DiskOK, OwnersOK
  <2>4. Excluded(u)'
    BY <1>10, <1>a DEF Traced, Excluded, ClearJournals, Interrupted, Unlock,
       OwnersOK
  <2>5. QED
    BY <2>1, <2>2, <2>3, <2>4 DEF Traced
<1>11. ASSUME NEW p \in Instances, Kill(p)
      PROVE  Traced(u)'
  <2>1. Recorded(u)'
    BY <1>11, <1>a DEF Traced, Recorded, Kill, Stopped, history, DiskOK,
       OwnersOK
  <2>2. Findable(u)'
    BY <1>11, <1>a DEF Traced, Findable, Kill, Stopped, history, Consistent,
       Waiting, Manned, Safe, DiskOK, OwnersOK
  <2>3. Settled(u)'
    BY <1>11, <1>a DEF Traced, Settled, Kill, Stopped, history, Consistent,
       LingerTrue, Manned, Safe, DiskOK, OwnersOK
  <2>4. Excluded(u)'
    BY <1>11, <1>a DEF Traced, Excluded, Kill, Stopped, OwnersOK
  <2>5. QED
    BY <2>1, <2>2, <2>3, <2>4 DEF Traced
<1>12. CASE PowerLoss
  <2>1. Recorded(u)'
    BY <1>12, <1>a DEF Traced, Recorded, PowerLoss, Stopped, history, DiskOK,
       OwnersOK
  <2>2. Findable(u)'
    BY <1>12, <1>a DEF Traced, Findable, PowerLoss, Stopped, history,
       Consistent, Waiting, Manned, Safe, DiskOK, OwnersOK
  <2>3. Settled(u)'
    BY <1>12, <1>a DEF Traced, Settled, PowerLoss, Stopped, history,
       Consistent, LingerTrue, Manned, Safe, DiskOK, OwnersOK
  <2>4. Excluded(u)'
    BY <1>12, <1>a DEF Traced, Excluded, PowerLoss, Stopped, OwnersOK
  <2>5. QED
    BY <2>1, <2>2, <2>3, <2>4 DEF Traced
<1>13. CASE ClockStep
  <2>1. Recorded(u)'
    BY <1>13, <1>a DEF Traced, Recorded, ClockStep, owners, history, DiskOK,
       OwnersOK
  <2>2. Findable(u)'
    <3>1. file[u] # Nil => /\ file'[u] = [file[u] EXCEPT !.ahead = TRUE]
                           /\ [file[u] EXCEPT !.ahead = TRUE] \in Journals
                           /\ [file[u] EXCEPT !.ahead = TRUE].state = file[u].state
      BY <1>13, <1>a DEF ClockStep, DiskOK
    <3>2. UNCHANGED <<phase, world, known, cleared>>
      BY <1>13 DEF ClockStep, owners, history
    <3>3. QED
      BY <1>a, <3>1, <3>2, NilAssumption DEF Traced, Findable
  <2>3. Settled(u)'
    BY <1>13, <1>a DEF Traced, Settled, ClockStep, owners, history,
       Consistent, LingerTrue, Manned, Safe, DiskOK, OwnersOK
  <2>4. Excluded(u)'
    BY <1>13, <1>a DEF Traced, Excluded, ClockStep, owners, OwnersOK
  <2>5. QED
    BY <2>1, <2>2, <2>3, <2>4 DEF Traced
<1>14. CASE ClockCatchesUp
  <2>1. Recorded(u)'
    BY <1>14, <1>a DEF Traced, Recorded, ClockCatchesUp, owners, history,
       DiskOK, OwnersOK
  <2>2. Findable(u)'
    <3>1. file[u] # Nil => /\ file'[u] = [file[u] EXCEPT !.ahead = FALSE]
                           /\ [file[u] EXCEPT !.ahead = FALSE] \in Journals
                           /\ [file[u] EXCEPT !.ahead = FALSE].state = file[u].state
      BY <1>14, <1>a DEF ClockCatchesUp, DiskOK
    <3>2. UNCHANGED <<phase, world, known, cleared>>
      BY <1>14 DEF ClockCatchesUp, owners, history
    <3>3. QED
      BY <1>a, <3>1, <3>2, NilAssumption DEF Traced, Findable
  <2>3. Settled(u)'
    BY <1>14, <1>a DEF Traced, Settled, ClockCatchesUp, owners, history,
       Consistent, LingerTrue, Manned, Safe, DiskOK, OwnersOK
  <2>4. Excluded(u)'
    BY <1>14, <1>a DEF Traced, Excluded, ClockCatchesUp, owners, OwnersOK
  <2>5. QED
    BY <2>1, <2>2, <2>3, <2>4 DEF Traced
<1>15. CASE UNCHANGED vars
  <2>1. Recorded(u)'
    BY <1>15, <1>a DEF Traced, Recorded, vars, disk, owners, history, DiskOK,
       OwnersOK
  <2>2. Findable(u)'
    BY <1>15, <1>a DEF Traced, Findable, vars, disk, owners, history,
       Consistent, Waiting, Manned, Safe, DiskOK, OwnersOK
  <2>3. Settled(u)'
    BY <1>15, <1>a DEF Traced, Settled, vars, disk, owners, history,
       Consistent, LingerTrue, Manned, Safe, DiskOK, OwnersOK
  <2>4. Excluded(u)'
    BY <1>15, <1>a DEF Traced, Excluded, vars, disk, owners, OwnersOK
  <2>5. QED
    BY <2>1, <2>2, <2>3, <2>4 DEF Traced
<1>16. QED
  BY <1>1, <1>2, <1>3, <1>4, <1>5, <1>6, <1>7, <1>8, <1>9, <1>10, <1>11, <1>12,
     <1>13, <1>14, <1>15 DEF Next, Transfer

\* TransferJournal keeps its types and its locks.
THEOREM TypeCorrect == Spec => []TypeOK
  BY InitTyped, NextTyped, PTL DEF Spec

\* The inductive invariant: types, and what the disk says is true.
THEOREM Invariant == Spec => []IInv
<1>1. Init => IInv
  BY InitTyped, InitConsistent DEF IInv
<1>2. IInv /\ [Next]_vars => IInv'
  BY NextTyped, NextConsistent DEF IInv
<1>3. QED
  BY <1>1, <1>2, PTL DEF Spec

\* No record tells recovery that a transfer which published never touched its
\* destination, whatever crashes, clock steps or lost writes came between.
THEOREM NeverAttemptedIsSafe == Spec => []NeverAttemptedIsTrue
<1>1. IInv => NeverAttemptedIsTrue
  BY JournalAssumption DEF IInv, TypeOK, Consistent, FileTrue, SummaryTrue,
     Truthful, Record, Kept, PublicationOf, NeverAttemptedIsTrue
<1>2. QED
  BY <1>1, Invariant, PTL

\* The destination a record names is the one the payload was published under.
THEOREM RecordsNameTheDestination == Spec => []RecordedWherePublished
<1>1. IInv => RecordedWherePublished
  BY JournalAssumption DEF IInv, TypeOK, Consistent, FileTrue, SummaryTrue,
     Truthful, Record, Kept, PublicationOf, RecordedWherePublished
<1>2. QED
  BY <1>1, Invariant, PTL

\* A saved summary's completed or skipped is what the copy did.
THEOREM SummariesAreTrue == Spec => []SummaryIsTrue
<1>1. IInv => SummaryIsTrue
  BY DEF IInv, Consistent, SummaryTrue, SummaryIsTrue
<1>2. QED
  BY <1>1, Invariant, PTL

\* The inductive invariant with the trace of what was recorded and cleared.
THEOREM HistoryInvariant == Spec => []HInv
<1>1. Init => HInv
  BY InitTyped, InitConsistent, InitTraced DEF HInv, IInv
<1>2. HInv /\ [Next]_vars => HInv'
  BY NextTyped, NextConsistent, NextTraced DEF HInv, IInv
<1>3. QED
  BY <1>1, <1>2, PTL DEF Spec

\* A transfer that published and was cut off without a summary is found again
\* as possibly published, however the crashes and power losses fell, unless its
\* journal is damaged or somebody cleared it.
THEOREM InterruptedAreFound == Spec => []InterruptedIsFound
<1>1. HInv => InterruptedIsFound
  <2> SUFFICES ASSUME HInv, NEW t \in Transfers, phase[t] \in {"dead", "released"},
                      world[t] # Nil, t \notin known \cup cleared,
                      ~(file[t] # Nil /\ file[t].state = "damaged")
               PROVE  /\ Record(t) # Nil
                      /\ Record(t).publication = "possibly_published"
    BY DEF InterruptedIsFound
  <2>1. DiskOK /\ FileTrue(t) /\ Recorded(t) /\ Findable(t)
    BY DEF HInv, IInv, TypeOK, Consistent, Traced
  <2>2. file[t] \in Journals /\ Safe(t) /\ file[t].attempted
    BY <2>1 DEF DiskOK, Findable, FileTrue, Truthful, Safe
  <2>3. ~Kept(summary, t)
    BY <2>1 DEF Recorded, Kept
  <2> DEFINE r == [status |-> "outcome_unknown", dest |-> file[t].dest,
                   publication |-> "possibly_published"]
  <2>4. Record(t) = r
    BY <2>2, <2>3 DEF Record, PublicationOf, Safe
  <2>5. r \in Records /\ r.publication = "possibly_published"
    BY <2>2 DEF Records
  <2>6. QED
    BY <2>4, <2>5, NilAssumption
<1>2. QED
  BY <1>1, HistoryInvariant, PTL

\* Once mark_terminal has run to its end its transfer is never shown as
\* interrupted, even when a power loss undoes the purge of its journal.
THEOREM SettledStayKnown == Spec => []SettledStaysKnown
<1>1. HInv => SettledStaysKnown
  BY JournalAssumption DEF HInv, IInv, TypeOK, DiskOK, CountsOK, Traced, Settled, Record,
     Kept, Unknown, SettledStaysKnown
<1>2. QED
  BY <1>1, HistoryInvariant, PTL

\* With one instance on the cache directory a clear leaves the journals of its
\* own transfers alone, so that none vanishes before its transfer has settled.
LEMMA NextProtected ==
    ASSUME NEW p, Instances = {p}, HInv, \A t \in Transfers: Protected(t),
           [Next]_vars, NEW u \in Transfers
    PROVE  Protected(u)'
<1>a. DiskOK /\ OwnersOK /\ Manned(u) /\ Excluded(u) /\ Protected(u)
  BY DEF HInv, IInv, TypeOK, Consistent, Traced
<1> USE NilAssumption
<1>f. Fresh \in Journals /\ Headless \in Journals
  BY JournalAssumption DEF Fresh, Headless
<1>b. ASSUME NEW t \in Transfers, NEW j, file[t] # Nil => j \in Journals,
             AppendLine(t, j) \/ AppendFails(t, j), file[u] # Nil
      PROVE  file'[u] # Nil
  <2>1. file[t] # Nil => [j EXCEPT !.state = "damaged"] \in Journals
    BY <1>b
  <2>2. file[t] # Nil => [file[t] EXCEPT !.state = "damaged"] \in Journals
    BY <1>a DEF DiskOK
  <2>3. AppendLine(t, j) => file'[u] # Nil
    BY <1>a, <1>b, <1>f, <2>1 DEF AppendLine, DiskOK
  <2>4. AppendFails(t, j) => file'[u] # Nil
    BY <1>a, <1>b, <1>f, <2>2, <2>3 DEF AppendFails, DiskOK
  <2>5. QED
    BY <1>b, <2>3, <2>4
<1>1. ASSUME NEW q \in Instances, NEW t \in Transfers, Begin(q, t) PROVE Protected(u)'
  BY <1>1, <1>a, <1>f DEF Begin, Goto, Protected, DiskOK, OwnersOK
<1>2. ASSUME NEW t \in Transfers, MarkAttempted(t) PROVE Protected(u)'
  <2> DEFINE line == [file[t] EXCEPT !.attempted = TRUE]
  <2>1. file[t] # Nil => line \in Journals
    BY <1>a DEF DiskOK
  <2>2. UNCHANGED file \/ AppendLine(t, line) \/ AppendFails(t, line)
    BY <1>2 DEF MarkAttempted
  <2>3. file[u] # Nil => file'[u] # Nil
    BY <2>1, <2>2, <1>b
  <2>4. QED
    BY <1>2, <1>a, <2>3 DEF MarkAttempted, Goto, Protected, OwnersOK
<1>3. ASSUME NEW t \in Transfers, NEW n \in Names, MarkDestination(t, n)
      PROVE  Protected(u)'
  <2> DEFINE line == [file[t] EXCEPT !.dest = n]
  <2>1. file[t] # Nil => line \in Journals
    BY <1>a DEF DiskOK
  <2>2. UNCHANGED file \/ AppendLine(t, line) \/ AppendFails(t, line)
    BY <1>3 DEF MarkDestination
  <2>3. file[u] # Nil => file'[u] # Nil
    BY <2>1, <2>2, <1>b
  <2>4. QED
    BY <1>3, <1>a, <2>3 DEF MarkDestination, Goto, Protected, OwnersOK
<1>4. ASSUME NEW t \in Transfers, Publish(t) PROVE Protected(u)'
  BY <1>4, <1>a DEF Publish, disk, owners, Protected
<1>5. ASSUME NEW t \in Transfers, NEW s \in Statuses, SaveSummary(t, s)
      PROVE  Protected(u)'
  BY <1>5, <1>a DEF SaveSummary, Goto, Protected, OwnersOK
<1>6. ASSUME NEW t \in Transfers, SaveFails(t) PROVE Protected(u)'
  BY <1>6, <1>a DEF SaveFails, disk, Goto, Protected, OwnersOK
<1>7. ASSUME NEW t \in Transfers, MarkEnd(t) PROVE Protected(u)'
  <2>1. file[u] # Nil => file'[u] # Nil
    BY <1>7, <1>a, <1>b DEF MarkEnd, DiskOK
  <2>2. QED
    BY <1>7, <1>a, <2>1 DEF MarkEnd, Goto, Protected, OwnersOK
<1>8. ASSUME NEW t \in Transfers, Purge(t) PROVE Protected(u)'
  BY <1>8, <1>a DEF Purge, Goto, Protected, DiskOK, OwnersOK
<1>9. ASSUME NEW q \in Instances, ClearSummaries(q) PROVE Protected(u)'
  BY <1>9, <1>a DEF ClearSummaries, Protected
<1>10. ASSUME NEW q \in Instances, ClearJournals(q) PROVE Protected(u)'
  <2>1. phase[u] \in Active => u \in exclude[q]
    BY <1>10, <1>a DEF ClearJournals, Manned, Excluded
  <2>2. phase[u] \in Active => file'[u] = file[u]
    BY <1>10, <2>1 DEF ClearJournals, Interrupted
  <2>3. QED
    BY <1>10, <1>a, <2>2 DEF ClearJournals, Protected
<1>11. ASSUME NEW q \in Instances, Kill(q) PROVE Protected(u)'
  BY <1>11, <1>a DEF Kill, Stopped, Protected
<1>12. CASE PowerLoss
  BY <1>12, <1>a DEF PowerLoss, Stopped, Manned, Protected
<1>13. CASE ClockStep
  <2>1. file[u] # Nil => [file[u] EXCEPT !.ahead = TRUE] \in Journals
    BY <1>a DEF DiskOK
  <2>2. QED
    BY <1>13, <1>a, <2>1 DEF ClockStep, owners, Protected, DiskOK
<1>14. CASE ClockCatchesUp
  <2>1. file[u] # Nil => [file[u] EXCEPT !.ahead = FALSE] \in Journals
    BY <1>a DEF DiskOK
  <2>2. QED
    BY <1>14, <1>a, <2>1 DEF ClockCatchesUp, owners, Protected, DiskOK
<1>15. CASE UNCHANGED vars
  BY <1>15, <1>a DEF vars, disk, owners, Protected
<1>16. QED
  BY <1>1, <1>2, <1>3, <1>4, <1>5, <1>6, <1>7, <1>8, <1>9, <1>10, <1>11, <1>12,
     <1>13, <1>14, <1>15 DEF Next, Transfer

\* As long as one instance at a time uses the cache directory, a transfer that
\* is not settled has its journal; with two of them it may lose it.
THEOREM OneInstanceProtects ==
    ASSUME NEW CONSTANT p, Instances = {p}
    PROVE  Spec => []ActiveIsProtected
<1> DEFINE PInv == \A t \in Transfers: Protected(t)
<1>1. Init => PInv
  BY DEF Init, Protected
<1>2. HInv /\ PInv /\ [Next]_vars => PInv'
  <2> SUFFICES ASSUME HInv, PInv, [Next]_vars, NEW u \in Transfers PROVE Protected(u)'
    OBVIOUS
  <2>1. QED
    BY NextProtected
<1>3. PInv => ActiveIsProtected
  BY DEF Protected, ActiveIsProtected
<1>4. QED
  <2> HIDE DEF PInv
  <2>1. QED
    BY <1>1, <1>2, <1>3, HistoryInvariant, PTL DEF Spec
=============================================================================
