------------------------ MODULE TransferRuntimeProofs ------------------------
(***************************************************************************)
(* What the runs check of one batch, for batches of any size, any number   *)
(* of cancellations of its worker, and a disk that may always fail.        *)
(*                                                                         *)
(* The runtime uses an upload batch only as the batch allows: it launches  *)
(* it, halts it and lets its workers run.  So what UploadBatchProofs shows *)
(* of the batch alone holds of it here.                                    *)
(*                                                                         *)
(* The invariant is built in layers, each inductive given those before it: *)
(* where the worker is and what it owns (Placed); what the journal, the    *)
(* copy and the summary say of each other (Honest); what an early          *)
(* cancellation is heeded by (Early); where an upload stands (Uploaded);   *)
(* what the rows show (Rows); and how far a cancelled worker still goes    *)
(* (Stopping).                                                             *)
(***************************************************************************)
EXTENDS TransferRuntime, TLAPS
Proved == INSTANCE UploadBatchProofs WITH Objects <- Entries

LEMMA InitMaps == Init => Upload!Init
  BY DEF Init

LEMMA StepMaps ==
    [Next]_vars => [Upload!Launch \/ Upload!Halt \/ Upload!Step]_(Upload!uploadVars)
  <1> SUFFICES ASSUME [Next]_vars
               PROVE Upload!Launch \/ Upload!Halt \/ Upload!Step \/ UNCHANGED Upload!uploadVars
    OBVIOUS
  <1>1. UNCHANGED upload => UNCHANGED Upload!uploadVars
    BY DEF upload, Upload!uploadVars, Upload!rows
  <1>2. CASE WorkerStep
    BY <1>1, <1>2 DEF WorkerStep, Launch, Uploading
  <1>3. ASSUME NEW t \in Entries, CleanupStep(t) PROVE UNCHANGED upload
    BY <1>3 DEF CleanupStep
  <1>4. CASE UploadCancel \/ UploadStep
    BY <1>4 DEF UploadCancel, UploadStep
  <1>5. CASE Ended \/ UNCHANGED vars
    BY <1>1, <1>5 DEF Ended, vars
  <1> QED
    BY <1>1, <1>2, <1>3, <1>4, <1>5 DEF Next

\* Whatever else happens to the runtime, its batch behaves as UploadBatch says.
THEOREM UploadRunsAsSpecified == Spec => Upload!UploadSpec
  BY InitMaps, StepMaps, PTL DEF Spec, Upload!UploadSpec

\* The two names of each definition mean the same.
LEMMA SameStep == Upload!Step => Proved!Step
  <1>1. ASSUME Upload!InspectRoot PROVE Proved!InspectRoot
    BY <1>1, Zenon DEF Upload!InspectRoot, Proved!InspectRoot
  <1>2. ASSUME Upload!Finish PROVE Proved!Finish
    BY <1>2, Zenon DEF Upload!Finish, Proved!Finish, Upload!Working, Proved!Working
  <1>3. ASSUME NEW o \in Entries, Upload!Take(o) PROVE Proved!Take(o)
    BY <1>3, Zenon DEF Upload!Take, Proved!Take, Upload!At, Proved!At
  <1>4. ASSUME NEW o \in Entries, Upload!Inspect(o) PROVE Proved!Inspect(o)
    BY <1>4, Zenon DEF Upload!Inspect, Proved!Inspect, Upload!At, Proved!At, Upload!Met, Proved!Met,
           Upload!Status, Proved!Status
  <1>5. ASSUME NEW o \in Entries, Upload!Rename(o) PROVE Proved!Rename(o)
    BY <1>5, Zenon DEF Upload!Rename, Proved!Rename, Upload!At, Proved!At, Upload!Met, Proved!Met,
           Upload!Status, Proved!Status
  <1>6. ASSUME NEW o \in Entries, Upload!Open(o) PROVE Proved!Open(o)
    BY <1>6, Zenon DEF Upload!Open, Proved!Open, Upload!At, Proved!At, Upload!Met, Proved!Met,
           Upload!Status, Proved!Status, Upload!Receipt, Proved!Receipt
  <1>7. ASSUME NEW o \in Entries, Upload!Send(o) PROVE Proved!Send(o)
    BY <1>7, Zenon DEF Upload!Send, Proved!Send, Upload!At, Proved!At, Upload!Met, Proved!Met,
           Upload!Receipt, Proved!Receipt, Upload!Raised, Proved!Raised
  <1>8. ASSUME NEW o \in Entries, Upload!Close(o) PROVE Proved!Close(o)
    BY <1>8, Zenon DEF Upload!Close, Proved!Close, Upload!At, Proved!At, Upload!Met, Proved!Met,
           Upload!Status, Proved!Status
  <1> QED
    BY <1>1, <1>2, <1>3, <1>4, <1>5, <1>6, <1>7, <1>8 DEF Upload!Step, Proved!Step

LEMMA SameBatch == Upload!UploadSpec => Proved!UploadSpec
  <1>1. Upload!Init => Proved!Init
    BY DEF Upload!Init, Proved!Init
  <1>2. [Upload!Launch \/ Upload!Halt \/ Upload!Step]_(Upload!uploadVars)
          => [Proved!Launch \/ Proved!Halt \/ Proved!Step]_(Proved!uploadVars)
    BY SameStep DEF Upload!Launch, Proved!Launch, Upload!Halt, Proved!Halt, Upload!Working,
           Proved!Working, Upload!uploadVars, Proved!uploadVars, Upload!rows, Proved!rows
  <1> QED
    BY <1>1, <1>2, PTL DEF Upload!UploadSpec, Proved!UploadSpec

\* No upload offers an object for another one that S3 already has, for batches
\* of any size, any number of names, cancellations, and any failing disk.
THEOREM NothingIsReplayed == Spec => []NeverReplayed
  <1>1. Proved!NeverReplayed => NeverReplayed
    BY DEF Proved!NeverReplayed, Proved!Retryable, NeverReplayed, Upload!NeverReplayed,
           Upload!Retryable
  <1> QED
    BY <1>1, UploadRunsAsSpecified, SameBatch, Proved!NothingIsReplayed, PTL
-----------------------------------------------------------------------------
Loop == {"next", "await_cleanup", "attempt", "copying", "drain", "drain_stopped", "unwind"}
Body == {"attempt", "copying", "drain", "drain_stopped"}
Over == {"settle", "settle_write", "done"}
Uploads == {"launch", "uploading", "upload_write"}
Writes == [t: Entries, status: Terminal,
           then: {"next", "false", "stopped", "error", "cancelled", "refused", "unbegun"}]
Unbegun == pc = "write" /\ out.then = "unbegun"

\* Where the worker is tells how far the batch has come.
Counted ==
    /\ kind \in Kinds /\ pc \in Loop \cup Over \cup Uploads \cup {"begin", "write", "release"}
    /\ count \in 0 .. Size /\ now \in 0 .. count /\ next \in 1 .. count + 1
    /\ pc = "begin" => count < Size /\ now = 0
    /\ pc \in Loop => count = Size /\ kind # "upload" /\ (pc = "next" \/ now > 0)
    /\ pc \in Uploads => kind = "upload" /\ count = 1 /\ now = (IF pc = "launch" THEN 0 ELSE 1)
    /\ pc \notin Over => next = 1
    /\ pc \in {"settle", "settle_write"} => kind # "retry"
    /\ pc = "settle_write" => now < next /\ next <= count
    /\ pc = "release" => kind = "retry"

\* The terminal write in progress is that of the current entry, or of one whose
\* registration was cancelled.
Writing ==
    /\ pc \in {"write", "unwind"} => out \in Writes
    /\ Unbegun => out.t = count + 1 /\ count < Size /\ now = 0 /\ out.status = "cancelled"
    /\ pc = "write" /\ ~Unbegun => count = Size /\ kind # "upload" /\ out.t = now
    /\ pc = "unwind" => out.t = now /\ out.then # "unbegun"

\* An entry is owned from its registration until the batch lets go of it.
Kept ==
    /\ owned \subseteq Entries /\ running \subseteq owned /\ events \subseteq owned
    /\ pc \notin Over => 1 .. count \subseteq owned
    /\ pc \in {"settle", "settle_write"} => next .. count \subseteq owned
    /\ pc \in Body \cup {"await_cleanup", "uploading"} \/ (pc = "unwind" /\ out.then = "next")
         => now \in running

\* The other variables.
Typed ==
    /\ pending \in BOOLEAN /\ stops \in 0 .. MaxStops /\ finished \subseteq Entries
    /\ cleanup \in [Entries -> {"none", "queued", "writing", "aborting", "ended"}]
    /\ copy \in [Entries -> Outcomes \cup {"idle", "running", "cancelling"}]
    /\ journal \in [Entries -> {"none", "begun", "attempted", "gone"}]
    /\ saved \in [Entries -> [status: Terminal, attempted: BOOLEAN] \cup {Nil}]
    /\ row \in [Entries -> Terminal \cup {"none", "pending", "running"}]
    /\ published \subseteq Entries /\ early \subseteq Entries /\ alarm \in BOOLEAN
    /\ heard \in BOOLEAN

Placed == Counted /\ Writing /\ Kept /\ Typed
USE DEF Loop, Body, Over, Uploads, Entries, Size

LEMMA SaveTyped ==
    ASSUME Typed, NEW t \in Entries, NEW s \in Terminal, Save(t, s)
    PROVE /\ journal' \in [Entries -> {"none", "begun", "attempted", "gone"}]
          /\ saved' \in [Entries -> [status: Terminal, attempted: BOOLEAN] \cup {Nil}]
          /\ UNCHANGED alarm
  <1> DEFINE r == [status |-> s, attempted |-> journal[t] = "attempted"]
  <1>1. r \in [status: Terminal, attempted: BOOLEAN]
    <2>1. (journal[t] = "attempted") \in BOOLEAN
      BY Zenon
    <2> QED
      BY <2>1
  <1>2. saved' \in {saved, [saved EXCEPT ![t] = r]}
    BY DEF Save
  <1> QED
    BY <1>1, <1>2 DEF Save, Typed

\* What the two kinds of record leave behind.
LEMMA SaveWrites ==
    ASSUME Typed, NEW t \in Entries, NEW s \in Terminal, Save(t, s), NEW p \in Entries
    PROVE /\ journal'[p] = IF p = t THEN "gone" ELSE journal[p]
          /\ kind = "upload" => saved' = saved
          /\ kind # "upload" =>
                saved'[p] = IF p = t THEN [status |-> s, attempted |-> journal[t] = "attempted"]
                            ELSE saved[p]
          /\ journal[t] \in {"begun", "attempted"}
  <1>1. DOMAIN journal = Entries /\ DOMAIN saved = Entries
    BY DEF Typed
  <1> QED
    BY <1>1 DEF Save

LEMMA BeginPlaced == ASSUME Placed, Begin PROVE Placed'
  <1> USE RuntimeAssumption DEF Placed, Begin, Landed, Fails, Leave, Goto, Row, registry, disk,
                                stopping, history, Terminal
  <1>1. Counted'
    BY DEF Counted
  <1>2. Writing'
    BY DEF Counted, Writing, Writes, Unbegun
  <1>3. Kept'
    BY DEF Counted, Kept, Unbegun
  <1>4. Typed'
    <2>1. count + 1 \in Entries
      BY DEF Counted
    <2>2. journal' \in [Entries -> {"none", "begun", "attempted", "gone"}]
      BY <2>1 DEF Typed
    <2>3. row' \in [Entries -> Terminal \cup {"none", "pending", "running"}]
      BY <2>1 DEF Typed
    <2> QED
      BY <2>1, <2>2, <2>3 DEF Typed
  <1> QED
    BY <1>1, <1>2, <1>3, <1>4

LEMMA NextEntryPlaced == ASSUME Placed, NextEntry PROVE Placed'
  <1> USE RuntimeAssumption DEF Placed, NextEntry, Leave, Goto, stopping, disk, history
  <1> USE DEF Enter, Conclude, Row
  <1>1. Counted'
    BY DEF Counted
  <1>2. Writing'
    BY DEF Counted, Writing, Writes, Unbegun, Terminal
  <1>3. Kept'
    <2>1. CASE now = Size
      BY <2>1 DEF Counted, Kept
    <2>2. CASE now # Size
      <3>1. now' = now + 1 /\ now' \in owned /\ now' \in running'
        BY <2>2 DEF Counted, Kept
      <3> QED
        BY <2>2, <3>1 DEF Counted, Kept, Unbegun
    <2> QED
      BY <2>1, <2>2
  <1>4. Typed'
    BY DEF Typed, Terminal
  <1> QED
    BY <1>1, <1>2, <1>3, <1>4

LEMMA AwaitCleanupPlaced == ASSUME Placed, AwaitCleanup PROVE Placed'
  <1> USE RuntimeAssumption DEF Placed, AwaitCleanup, Leave, Goto, registry, disk, history
  <1> USE DEF Enter, Conclude, Row, Terminal
  <1>1. Counted' /\ Writing'
    BY DEF Counted, Writing, Writes, Unbegun
  <1>2. Kept' /\ Typed'
    BY DEF Counted, Kept, Typed
  <1> QED
    BY <1>1, <1>2

LEMMA AttemptPlaced == ASSUME Placed, Attempt PROVE Placed'
  <1> USE RuntimeAssumption DEF Placed, Attempt, Landed, Fails, Goto, registry, disk, history
  <1> USE DEF Conclude, Row, Terminal
  <1>1. Counted' /\ Writing'
    BY DEF Counted, Writing, Writes, Unbegun
  <1>2. Kept'
    BY DEF Counted, Kept
  <1>3. Typed'
    <2>1. row' \in [Entries -> Terminal \cup {"none", "pending", "running"}]
      BY DEF Typed
    <2>2. /\ journal' \in [Entries -> {"none", "begun", "attempted", "gone"}]
          /\ copy' \in [Entries -> Outcomes \cup {"idle", "running", "cancelling"}]
      BY DEF Typed
    <2>3. alarm' \in BOOLEAN /\ pending' \in BOOLEAN
      BY DEF Typed
    <2>4. UNCHANGED <<saved, stops, finished, cleanup, published, early, heard>>
      OBVIOUS
    <2> HIDE DEF Attempt
    <2> QED
      BY <2>1, <2>2, <2>3, <2>4 DEF Typed
  <1> QED
    BY <1>1, <1>2, <1>3

LEMMA CopyingPlaced == ASSUME Placed, Copying PROVE Placed'
  <1> USE RuntimeAssumption DEF Placed, Copying, Goto, registry, disk, history
  <1>1. ASSUME NEW s \in Terminal, NEW then \in {"next", "false", "error", "cancelled"},
               Conclude(now, s, then), UNCHANGED copy
        PROVE Placed'
    <2>1. Counted' /\ Writing'
      BY <1>1 DEF Conclude, Counted, Writing, Writes, Unbegun
    <2>2. Kept' /\ Typed'
      BY <1>1 DEF Conclude, Row, Counted, Kept, Typed, Unbegun
    <2> QED
      BY <2>1, <2>2
  <1>3. CASE /\ out' = [t |-> now, status |-> "completed", then |-> "next"]
             /\ pc' = "unwind" /\ UNCHANGED <<row, copy>>
    <2>1. Counted' /\ Writing'
      BY <1>3 DEF Counted, Writing, Writes, Unbegun, Terminal
    <2>2. Kept' /\ Typed'
      BY <1>3 DEF Counted, Kept, Typed, Unbegun
    <2> QED
      BY <2>1, <2>2
  <1>2. CASE /\ copy' = [copy EXCEPT ![now] = "cancelling"]
             /\ pc' = (IF pending THEN "drain_stopped" ELSE "drain")
             /\ UNCHANGED <<row, out>>
    <2>1. Counted' /\ Writing'
      BY <1>2 DEF Counted, Writing, Unbegun
    <2>2. Kept' /\ Typed'
      BY <1>2 DEF Counted, Kept, Typed, Unbegun
    <2> QED
      BY <2>1, <2>2
  <1> QED
    BY <1>1, <1>2, <1>3 DEF Settled, Outcomes, Terminal

LEMMA WritePlaced == ASSUME Placed, Write PROVE Placed'
  <1> USE RuntimeAssumption DEF Placed, Write, AfterWrite, Proceed, Leave, Goto, history, stopping
  <1> USE DEF Landed, Fails, Release, registry, disk
  <1>1. Counted'
    <2>1. UNCHANGED <<kind, count, now, next>>
      OBVIOUS
    <2>2. pc' \in {"next", "unwind", "release", "settle"}
      OBVIOUS
    <2>3. Unbegun => pc' \in {"release", "settle"}
      BY DEF Unbegun, GoesOn
    <2>4. pc' = "release" => kind = "retry"
      OBVIOUS
    <2>5. pc' = "settle" => kind # "retry"
      OBVIOUS
    <2> QED
      <3>1. pc = "write" /\ (~Unbegun => now > 0)
        BY DEF Writing, Writes, Unbegun
      <3> HIDE DEF Write
      <3> QED
        BY <2>1, <2>2, <2>3, <2>4, <2>5, <3>1 DEF Counted, Writing, Unbegun
  <1>2. Writing'
    BY DEF Counted, Writing, Unbegun
  <1>3. /\ owned' \in {owned, owned \ {out.t}} /\ running' \in {running, running \ {out.t}}
        /\ events' \in {events, events \ {out.t}} /\ finished' \subseteq finished \cup {out.t}
        /\ owned' # owned => Unbegun /\ running' = running \ {out.t} /\ events' = events \ {out.t}
    BY DEF Unbegun
  <1>4. Kept'
    BY <1>3 DEF Counted, Writing, Kept, Unbegun
  <1>5. out.t \in Entries /\ out.status \in Terminal
    BY DEF Writing, Writes
  <1>6. /\ journal' \in [Entries -> {"none", "begun", "attempted", "gone"}]
        /\ saved' \in [Entries -> [status: Terminal, attempted: BOOLEAN] \cup {Nil}]
        /\ alarm' \in BOOLEAN
    BY <1>5, SaveTyped DEF Typed
  <1>7. Typed'
    <2>1. UNCHANGED <<cleanup, copy, row, published, early, heard>>
      OBVIOUS
    <2>2. pending' \in BOOLEAN /\ UNCHANGED stops
      BY DEF Typed
    <2> HIDE DEF Write
    <2> QED
      BY <1>3, <1>5, <1>6, <2>1, <2>2 DEF Typed
  <1> QED
    BY <1>1, <1>2, <1>4, <1>7

LEMMA SettlePlaced == ASSUME Placed, Settle PROVE Placed'
  <1> USE RuntimeAssumption DEF Placed, Settle, Goto, disk, stopping, history
  <1>1. Counted' /\ Writing'
    BY DEF Counted, Writing, Unbegun
  <1>2. Kept'
    <2>1. ASSUME Release(next), next' = next + 1, UNCHANGED pc PROVE Kept'
      <3>1. next .. count \subseteq owned
        BY DEF Kept
      <3>2. next' .. count' \subseteq owned'
        BY <2>1, <3>1 DEF Counted, Release
      <3>3. owned' = owned \ {next} /\ running' = running \ {next} /\ events' = events \ {next}
        BY <2>1 DEF Release
      <3>4. pc' = "settle" /\ pc = "settle"
        BY <2>1
      <3> QED
        BY <3>2, <3>3, <3>4 DEF Kept
    <2>2. ASSUME UNCHANGED registry, pc' \in {"done", "settle_write"}, UNCHANGED next PROVE Kept'
      BY <2>2 DEF Kept, registry
    <2>3. (Release(next) /\ next' = next + 1 /\ UNCHANGED pc)
          \/ (UNCHANGED registry /\ pc' \in {"done", "settle_write"} /\ UNCHANGED next)
      BY DEF registry
    <2> QED
      BY <2>1, <2>2, <2>3
  <1>3. Typed'
    BY DEF Counted, Typed, Release, registry, Row, Terminal
  <1> QED
    BY <1>1, <1>2, <1>3

LEMMA SettleWritePlaced == ASSUME Placed, SettleWrite PROVE Placed'
  <1> USE RuntimeAssumption DEF Placed, SettleWrite, Leave, Goto, stopping, history
  <1>1. Counted' /\ Writing' /\ Kept'
    BY DEF Counted, Writing, Kept, Release, Unbegun
  <1>2. next \in Entries /\ "cancelled" \in Terminal
    BY DEF Counted, Terminal
  <1>3. /\ journal' \in [Entries -> {"none", "begun", "attempted", "gone"}]
        /\ saved' \in [Entries -> [status: Terminal, attempted: BOOLEAN] \cup {Nil}]
        /\ alarm' \in BOOLEAN
    BY <1>2, SaveTyped DEF Typed, Fails
  <1>4. Typed'
    BY <1>2, <1>3 DEF Typed, Row, Release
  <1> QED
    BY <1>1, <1>4

LEMMA UserCancelPlaced == ASSUME Placed, NEW t \in Entries, UserCancel(t) PROVE Placed'
  <1> USE RuntimeAssumption DEF Placed, UserCancel, worker, stopping, disk
  <1>1. Counted' /\ Writing'
    BY DEF Counted, Writing, Unbegun
  <1>2. events \subseteq events' /\ events' \subseteq owned
    BY DEF Kept
  <1>3. Kept'
    BY <1>2 DEF Kept
  <1>4. Typed'
    BY DEF Typed, Row, Terminal
  <1> QED
    BY <1>1, <1>3, <1>4

LEMMA CleanupDonePlaced == ASSUME Placed, NEW t \in Entries, CleanupDone(t) PROVE Placed'
  <1> USE RuntimeAssumption DEF Placed, CleanupDone, worker, stopping, history
  <1>1. Counted' /\ Writing' /\ Kept'
    BY DEF Counted, Writing, Kept, Unbegun
  <1>2. /\ journal' \in [Entries -> {"none", "begun", "attempted", "gone"}]
        /\ saved' \in [Entries -> [status: Terminal, attempted: BOOLEAN] \cup {Nil}]
        /\ alarm' \in BOOLEAN
    BY SaveTyped DEF Typed, Fails, disk, Terminal
  <1>3. Typed'
    BY <1>2 DEF Typed
  <1> QED
    BY <1>1, <1>3

LEMMA UploadWritePlaced == ASSUME Placed, UploadWrite PROVE Placed'
  <1> USE RuntimeAssumption DEF Placed, UploadWrite, Leave, Goto, stopping, history
  <1>1. Counted' /\ Writing' /\ Kept'
    BY DEF Counted, Writing, Kept, Unbegun
  <1>2. 1 \in Entries
    OBVIOUS
  <1>3. Typed'
    BY <1>2 DEF Typed, Fails
  <1> QED
    BY <1>1, <1>3

LEMMA InitPlaced == Init => Placed
  <1> SUFFICES ASSUME Init PROVE Placed
    OBVIOUS
  <1> USE RuntimeAssumption DEF Init
  <1>1. Counted
    BY DEF Counted
  <1>2. Writing /\ Kept
    BY DEF Writing, Kept, Unbegun
  <1>3. Typed
    <2>1. stops \in 0 .. MaxStops /\ copy \in [Entries -> {"idle"}]
      OBVIOUS
    <2> QED
      BY <2>1 DEF Typed
  <1> QED
    BY <1>1, <1>2, <1>3 DEF Placed

LEMMA NextPlaced == Placed /\ [Next]_vars => Placed'
  <1> SUFFICES ASSUME Placed, [Next]_vars PROVE Placed'
    OBVIOUS
  <1> USE RuntimeAssumption DEF Goto
  <1>1. CASE Drain
    BY <1>1 DEF Placed, Counted, Writing, Kept, Typed, Drain, Conclude, Row, Unbegun, Writes,
                Terminal, registry, disk, history
  <1>2. CASE Unwind
    <2>1. Counted' /\ Writing'
      BY <1>2 DEF Placed, Counted, Writing, Unwind, Proceed, Leave, Conclude, Unbegun, Writes
    <2>2. Kept'
      BY <1>2 DEF Placed, Counted, Kept, Unwind, Proceed, Leave, Conclude, registry
    <2>3. row' \in [Entries -> Terminal \cup {"none", "pending", "running"}]
      BY <1>2 DEF Placed, Writing, Writes, Typed, Unwind, Conclude, Row
    <2>4. Typed'
      BY <1>2, <2>3 DEF Placed, Typed, Unwind, registry, disk, history
    <2> QED
      BY <2>1, <2>2, <2>4 DEF Placed
  <1>3. CASE GiveBack
    <2>1. Counted' /\ Writing' /\ Kept'
      BY <1>3 DEF Placed, Counted, Writing, Kept, GiveBack, Release, Unbegun, registry
    <2>2. Typed'
      BY <1>3 DEF Placed, Typed, GiveBack, Release, registry, stopping, disk, history
    <2> QED
      BY <2>1, <2>2 DEF Placed
  <1>4. CASE Launch
    BY <1>4 DEF Placed, Counted, Writing, Kept, Typed, Launch, Unbegun, stopping, disk, history
  <1>5. CASE Uploading
    <2>1. Counted' /\ Writing' /\ Kept'
      BY <1>5 DEF Placed, Counted, Writing, Kept, Uploading, Unbegun, registry
    <2>2. Upload!Reported \in Terminal
      BY DEF Upload!Reported, Upload!Snapshot, Terminal
    <2>3. row' \in [Entries -> Terminal \cup {"none", "pending", "running"}]
      BY <1>5, <2>2 DEF Placed, Typed, Uploading, Row
    <2>4. Typed'
      BY <1>5, <2>3 DEF Placed, Typed, Uploading, registry, disk, history
    <2> QED
      BY <2>1, <2>4 DEF Placed
  <1>6. CASE Stop /\ (UNCHANGED events \/ events' = events \cup owned)
    <2>1. Counted' /\ Writing'
      BY <1>6 DEF Placed, Counted, Writing, Stop, Unbegun, worker
    <2>2. UNCHANGED <<owned, running, pc, out, now, next, count>>
      BY <1>6 DEF Stop, worker
    <2>3. Kept'
      BY <1>6, <2>2 DEF Placed, Kept
    <2>4. Typed'
      BY <1>6 DEF Placed, Typed, Stop, disk
    <2> QED
      BY <2>1, <2>3, <2>4 DEF Placed
  <1>7. ASSUME NEW t \in Entries, CleanupStart(t) PROVE Placed'
    BY <1>7 DEF Placed, Counted, Writing, Kept, Typed, CleanupStart, Unbegun, worker, stopping,
                registry, disk, history
  <1>8. ASSUME NEW t \in Entries, CopyPublishes(t) \/ CopyReports(t) \/ CopyEnds(t)
        PROVE Placed'
    <2>1. Counted' /\ Writing' /\ Kept'
      <3>1. UNCHANGED <<worker, registry>>
        BY <1>8 DEF CopyPublishes, CopyReports, CopyEnds
      <3> QED
        BY <3>1 DEF Placed, Counted, Writing, Kept, Unbegun, worker, registry
    <2>2. CASE CopyPublishes(t) \/ CopyReports(t)
      BY <2>1, <2>2 DEF Placed, Typed, CopyPublishes, CopyReports, Row, stopping, registry, disk,
                        history
    <2>3. CASE CopyEnds(t)
      BY <2>1, <2>3 DEF Placed, Typed, CopyEnds, stopping, registry, disk, history
    <2> QED
      BY <1>8, <2>1, <2>2, <2>3
  <1>9. CASE UNCHANGED batchVars
    BY <1>9 DEF Placed, Counted, Writing, Kept, Typed, Unbegun, batchVars, worker, stopping,
                registry, disk, history
  <1> QED
    BY <1>1, <1>2, <1>3, <1>4, <1>5, <1>6, <1>7, <1>8, <1>9, BeginPlaced, NextEntryPlaced,
       AwaitCleanupPlaced, AttemptPlaced, CopyingPlaced, WritePlaced, SettlePlaced,
       SettleWritePlaced, UploadWritePlaced, UserCancelPlaced, CleanupDonePlaced
    DEF Next, WorkerStep, CleanupStep, Others, UploadCancel, UploadStep, WorkerCancel,
        Shutdown, Ended, vars

LEMMA AlwaysPlaced == Spec => []Placed
  BY InitPlaced, NextPlaced, PTL DEF Spec

\* What a turn of the loop that waits for the copy may do.
LEMMA CopyingCases ==
    ASSUME Placed, Copying
    PROVE /\ pc = "copying" /\ pending' = FALSE /\ now \in Entries
          /\ UNCHANGED <<kind, count, now, next, stops, registry, cleanup, disk, published,
                         history>>
          /\ \/ copy[now] = "cancelled" /\ ~pending /\ Conclude(now, "cancelled", "false")
                /\ UNCHANGED copy
             \/ copy[now] = "cancelled" /\ pending /\ Conclude(now, "cancelled", "cancelled")
                /\ UNCHANGED copy
             \/ copy[now] = "error" /\ Conclude(now, "failed", "error") /\ UNCHANGED copy
             \/ copy[now] = "false" /\ ~pending /\ Conclude(now, "skipped", "false")
                /\ UNCHANGED copy
             \/ copy[now] = "false" /\ pending /\ Conclude(now, "skipped", "cancelled")
                /\ UNCHANGED copy
             \/ copy[now] = "true" /\ pending /\ Conclude(now, "completed", "cancelled")
                /\ UNCHANGED copy
             \/ /\ copy[now] = "true" /\ ~pending
                /\ out' = [t |-> now, status |-> "completed", then |-> "next"]
                /\ pc' = "unwind" /\ UNCHANGED <<row, copy>>
             \/ /\ copy[now] = "running" /\ (pending \/ now \in events)
                /\ copy' = [copy EXCEPT ![now] = "cancelling"]
                /\ pc' = (IF pending THEN "drain_stopped" ELSE "drain")
                /\ UNCHANGED <<row, out>>
  <1>0. pc = "copying" /\ now \in Entries
    BY RuntimeAssumption DEF Copying, Placed, Counted
  <1>1. pending \in BOOLEAN
    BY DEF Placed, Typed
  <1> USE DEF Settled, Copying, Goto
  <1>2. CASE copy[now] = "cancelled"
    BY <1>0, <1>1, <1>2
  <1>3. CASE copy[now] = "error"
    BY <1>0, <1>1, <1>3
  <1>4. CASE copy[now] = "false"
    BY <1>0, <1>1, <1>4
  <1>5. CASE copy[now] = "true"
    BY <1>0, <1>1, <1>5
  <1>6. CASE copy[now] = "running"
    BY <1>0, <1>1, <1>6 DEF Outcomes
  <1> QED
    BY <1>2, <1>3, <1>4, <1>5, <1>6 DEF Outcomes

-----------------------------------------------------------------------------
\* The journal moves on before the copy may start, and the summary is final.
Recorded(t) ==
    /\ pc = "begin" /\ t > count => journal[t] = "none"
    /\ saved[t] # Nil => journal[t] = "gone"
    /\ kind # "upload" /\ copy[t] # "idle" => journal[t] \in {"attempted", "gone"}
    /\ t \in published => copy[t] # "idle" /\ kind # "upload"
    /\ kind # "upload" /\ saved[t] # Nil /\ ~saved[t].attempted => copy[t] = "idle"

\* What is called completed is published, what is called skipped is not.
TrueOf(t, s) == (s = "completed" => t \in published) /\ (s = "skipped" => copy[t] = "false")

\* So the summary and the row tell the truth.
Told(t) ==
    /\ copy[t] = "true" => t \in published
    /\ copy[t] = "false" => t \notin published
    /\ saved[t] # Nil => TrueOf(t, saved[t].status)
    /\ kind = "upload" => saved[t] = Nil
    /\ kind # "upload" => TrueOf(t, row[t])

\* And so will what the worker is about to write.
TellsTrue ==
    /\ pc = "write" => TrueOf(out.t, out.status)
    /\ pc = "unwind" /\ out.then = "next" => out.status = "completed" /\ out.t \in published

Honest == (\A t \in Entries: Recorded(t) /\ Told(t)) /\ TellsTrue

LEMMA NextHonest ==
    Placed /\ Placed' /\ Honest /\ [Next]_vars => Honest'
  <1> SUFFICES ASSUME Placed, Placed', Honest, [Next]_vars
               PROVE Honest'
    OBVIOUS
  <1> USE RuntimeAssumption DEF Honest, Recorded, Told, TellsTrue, TrueOf, Placed, Typed, Counted,
      Writing, Unbegun, Outcomes, Terminal
  <1>1. CASE Begin
    <2>1. ASSUME NEW p \in Entries PROVE Recorded(p)'
      BY <1>1 DEF Begin, Landed, Fails, Leave, Goto, Row, stopping, registry, disk, history
    <2>2. ASSUME NEW p \in Entries PROVE Told(p)'
      BY <1>1 DEF Begin, Landed, Fails, Leave, Goto, Row, stopping, registry, disk, history
    <2>3. TellsTrue'
      BY <1>1 DEF Begin, Landed, Fails, Leave, Goto, Row, stopping, registry, disk, history
    <2> QED
      BY <2>1, <2>2, <2>3
  <1>2. CASE NextEntry
    BY <1>2 DEF NextEntry, Enter, IsSet, Conclude, Leave, Goto, Row, stopping, disk, history
  <1>3. CASE AwaitCleanup
    BY <1>3 DEF AwaitCleanup, Enter, IsSet, Conclude, Leave, Goto, Row, registry, disk, history
  <1>4. CASE Attempt
    <2>1. ASSUME NEW p \in Entries PROVE Recorded(p)'
      BY <1>4 DEF Attempt, Landed, Fails, IsSet, Conclude, Goto, Row, registry, history
    <2>2. ASSUME NEW p \in Entries PROVE Told(p)'
      BY <1>4 DEF Attempt, Landed, Fails, IsSet, Conclude, Goto, Row, registry, history
    <2>3. TellsTrue'
      BY <1>4 DEF Attempt, Landed, Fails, IsSet, Conclude, Goto, Row, registry, history
    <2> QED
      BY <2>1, <2>2, <2>3
  <1>5. CASE Copying
    <2> HIDE DEF Counted, Writing, Outcomes
    <2>1. /\ pc = "copying" /\ pending' = FALSE /\ now \in Entries
          /\ UNCHANGED <<kind, count, now, next, stops, registry, cleanup, disk, published,
                         history>>
      BY <1>5, CopyingCases
    <2>2. ASSUME NEW s \in Terminal, NEW then \in {"false", "error", "cancelled"},
                 TrueOf(now, s), Conclude(now, s, then), UNCHANGED copy
          PROVE Honest'
      BY <2>1, <2>2 DEF Conclude, Row, Goto, registry, disk, history
    <2>3. CASE /\ copy[now] = "true" /\ ~pending
               /\ out' = [t |-> now, status |-> "completed", then |-> "next"]
               /\ pc' = "unwind" /\ UNCHANGED <<row, copy>>
      BY <2>1, <2>3 DEF registry, disk, history
    <2>4. CASE /\ copy[now] = "running" /\ copy' = [copy EXCEPT ![now] = "cancelling"]
               /\ pc' = (IF pending THEN "drain_stopped" ELSE "drain")
               /\ UNCHANGED <<row, out>>
      BY <2>1, <2>4 DEF registry, disk, history
    <2> QED
      BY <1>5, <2>1, <2>2, <2>3, <2>4, CopyingCases DEF Honest, Told, TrueOf, Terminal
  <1>6. CASE Drain
    BY <1>6 DEF Drain, Conclude, Goto, Row, registry, disk, history
  <1>7. CASE Write
    BY <1>7 DEF Write, AfterWrite, Proceed, GoesOn, Landed, Fails, Save, Release, Leave, Goto,
              stopping, disk, registry, history
  <1>8. CASE Unwind
    BY <1>8 DEF Unwind, Conclude, Proceed, GoesOn, Leave, Goto, Row, registry, disk, history
  <1>9. CASE Settle
    BY <1>9 DEF Settle, Release, Goto, Row, stopping, disk, history, registry
  <1>10. CASE SettleWrite
    <2>1. ASSUME NEW p \in Entries PROVE Recorded(p)'
      BY <1>10 DEF SettleWrite, Save, Fails, Release, Leave, Goto, Row, stopping, history
    <2>2. ASSUME NEW p \in Entries PROVE Told(p)'
      BY <1>10 DEF SettleWrite, Save, Fails, Release, Leave, Goto, Row, stopping, history
    <2>3. TellsTrue'
      BY <1>10 DEF SettleWrite, Save, Fails, Release, Leave, Goto, Row, stopping, history
    <2> QED
      BY <2>1, <2>2, <2>3
  <1>11. CASE GiveBack
    BY <1>11 DEF GiveBack, Release, Goto, stopping, disk, history, registry
  <1>12. CASE UploadWrite
    BY <1>12 DEF UploadWrite, Fails, Leave, Goto, stopping, history
  <1>13. CASE Launch
    BY <1>13 DEF Launch, Goto, stopping, disk, history
  <1>14. CASE Uploading
    <2>1. ASSUME NEW p \in Entries PROVE Recorded(p)'
      BY <1>14 DEF Uploading, Goto, Row, registry, disk, history, Upload!Reported, Upload!Snapshot
    <2>2. ASSUME NEW p \in Entries PROVE Told(p)'
      BY <1>14 DEF Uploading, Goto, Row, registry, disk, history, Upload!Reported, Upload!Snapshot
    <2>3. TellsTrue'
      BY <1>14 DEF Uploading, Goto, Row, registry, disk, history, Upload!Reported, Upload!Snapshot
    <2> QED
      BY <2>1, <2>2, <2>3
  <1>15. ASSUME NEW t \in Entries, Yielded, UserCancel(t) PROVE Honest'
    BY <1>15 DEF UserCancel, Row, worker, stopping, disk
  <1>16. ASSUME NEW t \in Entries, Yielded, CleanupStart(t) PROVE Honest'
    BY <1>16 DEF CleanupStart, worker, stopping, registry, disk, history
  <1>17. ASSUME NEW t \in Entries, Yielded, CleanupDone(t) PROVE Honest'
    <2>1. ASSUME NEW p \in Entries PROVE Recorded(p)'
      <3>1. UNCHANGED <<kind, pc, count, copy, published>>
        BY <1>17 DEF CleanupDone, worker
      <3>2. CASE Save(t, "cancelled")
        BY <3>1, <3>2, SaveWrites
      <3>3. CASE UNCHANGED <<journal, saved>>
        BY <3>1, <3>3
      <3> QED
        BY <1>17, <3>2, <3>3 DEF CleanupDone, Fails, disk
    <2>2. ASSUME NEW p \in Entries PROVE Told(p)'
      BY <1>17 DEF CleanupDone, Save, Fails, worker, stopping, disk, history
    <2>3. TellsTrue'
      BY <1>17 DEF CleanupDone, worker
    <2> QED
      BY <2>1, <2>2, <2>3
  <1>18. ASSUME NEW t \in Entries, Yielded, CopyPublishes(t) PROVE Honest'
    <2>1. ASSUME NEW p \in Entries PROVE Recorded(p)'
      BY <1>18 DEF CopyPublishes, InCopy, Running, worker, stopping, registry, disk, history
    <2>2. ASSUME NEW p \in Entries PROVE Told(p)'
      BY <1>18 DEF CopyPublishes, InCopy, Running, worker, stopping, registry, disk, history
    <2>3. TellsTrue'
      BY <1>18 DEF CopyPublishes, InCopy, Running, worker, stopping, registry, disk, history
    <2> QED
      BY <2>1, <2>2, <2>3
  <1>19. ASSUME NEW t \in Entries, Yielded, CopyReports(t) PROVE Honest'
    BY <1>19 DEF CopyReports, Row, worker, stopping, registry, disk, history
  <1>20. ASSUME NEW t \in Entries, Yielded, CopyEnds(t) PROVE Honest'
    <2>1. ASSUME NEW p \in Entries PROVE Recorded(p)'
      BY <1>20 DEF CopyEnds, InCopy, Running, worker, stopping, registry, disk, history
    <2>2. ASSUME NEW p \in Entries PROVE Told(p)'
      BY <1>20 DEF CopyEnds, InCopy, Running, worker, stopping, registry, disk, history
    <2>3. TellsTrue'
      BY <1>20 DEF CopyEnds, InCopy, Running, worker, stopping, registry, disk, history
    <2> QED
      BY <2>1, <2>2, <2>3
  <1>21. CASE Yielded /\ (WorkerCancel \/ Shutdown)
    BY <1>21 DEF WorkerCancel, Stop, worker, disk, Shutdown, history
  <1>22. CASE UNCHANGED batchVars
    BY <1>22 DEF batchVars, worker, stopping, registry, disk, history
  <1> QED
    BY <1>1, <1>2, <1>3, <1>4, <1>5, <1>6, <1>7, <1>8, <1>9, <1>10, <1>11, <1>12, <1>13, <1>14,
       <1>15, <1>16, <1>17, <1>18, <1>19, <1>20, <1>21, <1>22 DEF Next, WorkerStep, CleanupStep,
       Others, UploadCancel, UploadStep, Ended, vars

-----------------------------------------------------------------------------
\* The event of an entry cancelled early stays set as long as it may run.
Heeded(t) ==
    /\ t > count => row[t] = "none"
    /\ t \in early => t <= count /\ copy[t] = "idle"
    /\ t \in early => pc # "launch"
    /\ t \in early /\ pc \in Loop \cup {"begin", "write"} => t \in events

Early == \A t \in Entries: Heeded(t)

LEMMA NextEarly ==
    Placed /\ Placed' /\ Honest /\ Early /\ [Next]_vars => Early'
  <1> SUFFICES ASSUME Placed, Placed', Honest, Early, [Next]_vars
               PROVE Early'
    OBVIOUS
  <1> USE RuntimeAssumption DEF Early, Heeded, Honest, Recorded, Placed, Typed, Counted,
      Writing, Kept, Unbegun, Terminal, Yielded
  <1>1. CASE Begin
    BY <1>1 DEF Begin, Landed, Fails, Leave, Goto, Row, stopping, registry, disk, history
  <1>2. CASE NextEntry
    BY <1>2 DEF NextEntry, Enter, IsSet, Conclude, Leave, Goto, Row, stopping, disk, history
  <1>3. CASE AwaitCleanup
    BY <1>3 DEF AwaitCleanup, Enter, IsSet, Conclude, Leave, Goto, Row, registry, disk, history
  <1>4. CASE Attempt
    BY <1>4 DEF Attempt, Landed, Fails, IsSet, Conclude, Goto, Row, registry, history
  <1>5. CASE Copying
    <2> HIDE DEF Writing, Kept, Recorded
    <2>1. /\ pc = "copying" /\ pending' = FALSE /\ now \in Entries
          /\ UNCHANGED <<kind, count, now, next, stops, registry, cleanup, disk, published,
                         history>>
      BY <1>5, CopyingCases
    <2>2. ASSUME NEW s \in Terminal, NEW then \in {"false", "error", "cancelled"},
                 Conclude(now, s, then), UNCHANGED copy
          PROVE Early'
      BY <2>1, <2>2 DEF Conclude, Row, Goto, registry, disk, history
    <2>3. CASE /\ copy[now] = "true" /\ ~pending
               /\ out' = [t |-> now, status |-> "completed", then |-> "next"]
               /\ pc' = "unwind" /\ UNCHANGED <<row, copy>>
      BY <2>1, <2>3 DEF registry, disk, history
    <2>4. CASE /\ copy[now] = "running" /\ copy' = [copy EXCEPT ![now] = "cancelling"]
               /\ pc' = (IF pending THEN "drain_stopped" ELSE "drain")
               /\ UNCHANGED <<row, out>>
      BY <2>1, <2>4 DEF registry, disk, history
    <2> QED
      BY <1>5, <2>1, <2>2, <2>3, <2>4, CopyingCases DEF Terminal
  <1>6. CASE Drain
    BY <1>6 DEF Drain, Conclude, Goto, Row, registry, disk, history
  <1>7. CASE Write
    BY <1>7 DEF Write, AfterWrite, Proceed, GoesOn, Landed, Fails, Save, Release, Leave, Goto,
              stopping, disk, registry, history
  <1>8. CASE Unwind
    BY <1>8 DEF Unwind, Conclude, Proceed, GoesOn, Leave, Goto, Row, registry, disk, history
  <1>9. CASE Settle
    BY <1>9 DEF Settle, Release, Goto, Row, stopping, disk, history, registry
  <1>10. CASE SettleWrite
    BY <1>10 DEF SettleWrite, Save, Fails, Release, Leave, Goto, Row, stopping, history
  <1>11. CASE GiveBack
    BY <1>11 DEF GiveBack, Release, Goto, stopping, disk, history, registry
  <1>12. CASE UploadWrite
    BY <1>12 DEF UploadWrite, Fails, Leave, Goto, stopping, history
  <1>13. CASE Launch
    BY <1>13 DEF Launch, Goto, stopping, disk, history
  <1>14. CASE Uploading
    BY <1>14 DEF Uploading, Goto, Row, registry, disk, history, Upload!Reported, Upload!Snapshot
  <1>15. ASSUME NEW t \in Entries, Yielded, UserCancel(t) PROVE Early'
    BY <1>15 DEF UserCancel, Row, worker, stopping, disk
  <1>16. ASSUME NEW t \in Entries, Yielded, CleanupStart(t) PROVE Early'
    BY <1>16 DEF CleanupStart, worker, stopping, registry, disk, history
  <1>17. ASSUME NEW t \in Entries, Yielded, CleanupDone(t) PROVE Early'
    BY <1>17 DEF CleanupDone, Save, Fails, worker, stopping, disk, history
  <1>18. ASSUME NEW t \in Entries, Yielded, CopyPublishes(t) PROVE Early'
    BY <1>18 DEF CopyPublishes, worker, stopping, registry, disk, history
  <1>19. ASSUME NEW t \in Entries, Yielded, CopyReports(t) PROVE Early'
    BY <1>19 DEF CopyReports, Row, worker, stopping, registry, disk, history
  <1>20. ASSUME NEW t \in Entries, Yielded, CopyEnds(t) PROVE Early'
    BY <1>20 DEF CopyEnds, InCopy, Running, worker, stopping, registry, disk, history
  <1>21. CASE Yielded /\ (WorkerCancel \/ Shutdown)
    BY <1>21 DEF WorkerCancel, Stop, worker, disk, Shutdown, history
  <1>22. CASE UNCHANGED batchVars
    BY <1>22 DEF batchVars, worker, stopping, registry, disk, history
  <1> QED
    BY <1>1, <1>2, <1>3, <1>4, <1>5, <1>6, <1>7, <1>8, <1>9, <1>10, <1>11, <1>12, <1>13, <1>14,
       <1>15, <1>16, <1>17, <1>18, <1>19, <1>20, <1>21, <1>22 DEF Next, WorkerStep, CleanupStep,
       Others, UploadCancel, UploadStep, Ended, vars

-----------------------------------------------------------------------------
\* A cancellation that the worker has heard takes it out of the batch by the
\* shortest way: nowhere on it is another entry taken up.
Stopping ==
    heard /\ kind = "copy" =>
      \/ pc \in Over \cup {"drain_stopped"}
      \/ pc \in {"write", "unwind"} /\ ~GoesOn(out.then)
      \/ pending /\ pc \in {"begin", "await_cleanup", "attempt", "copying", "drain"}

LEMMA NextStopping ==
    Placed /\ Stopping /\ [Next]_vars => Stopping'
  <1> SUFFICES ASSUME Placed, Stopping, [Next]_vars
               PROVE Stopping'
    OBVIOUS
  <1> USE RuntimeAssumption DEF Stopping, Placed, Counted, Writing, Typed, Unbegun, GoesOn,
      Terminal, Yielded
  <1>1. CASE Begin
    BY <1>1 DEF Begin, Landed, Fails, Leave, Goto, Row, stopping, registry, disk, history
  <1>2. CASE NextEntry
    BY <1>2 DEF NextEntry, Enter, IsSet, Conclude, Leave, Goto, Row, stopping, disk, history
  <1>3. CASE AwaitCleanup
    BY <1>3 DEF AwaitCleanup, Enter, IsSet, Conclude, Leave, Goto, Row, registry, disk, history
  <1>4. CASE Attempt
    BY <1>4 DEF Attempt, Landed, Fails, IsSet, Conclude, Goto, Row, registry, history
  <1>5. CASE Copying
    <2> HIDE DEF Placed, Counted, Writing, Typed
    <2>1. /\ pc = "copying" /\ pending' = FALSE /\ now \in Entries
          /\ UNCHANGED <<kind, count, now, next, stops, registry, cleanup, disk, published,
                         history>>
      BY <1>5, CopyingCases
    <2>2. ASSUME NEW s \in Terminal, NEW then \in {"false", "error", "cancelled"},
                 (pending => then \in {"error", "cancelled"}), Conclude(now, s, then),
                 UNCHANGED copy
          PROVE Stopping'
      BY <2>1, <2>2 DEF Conclude, Goto, history
    <2>3. CASE /\ copy[now] = "true" /\ ~pending
               /\ out' = [t |-> now, status |-> "completed", then |-> "next"]
               /\ pc' = "unwind" /\ UNCHANGED <<row, copy>>
      BY <2>1, <2>3 DEF history
    <2>4. CASE /\ copy[now] = "running" /\ copy' = [copy EXCEPT ![now] = "cancelling"]
               /\ pc' = (IF pending THEN "drain_stopped" ELSE "drain")
               /\ UNCHANGED <<row, out>>
      BY <2>1, <2>4 DEF history, Placed, Typed
    <2> QED
      BY <1>5, <2>1, <2>2, <2>3, <2>4, CopyingCases DEF Terminal
  <1>6. CASE Drain
    BY <1>6 DEF Drain, Conclude, Goto, Row, registry, disk, history
  <1>7. CASE Write
    BY <1>7 DEF Write, AfterWrite, Proceed, Landed, Fails, Save, Release, Leave, Goto, stopping,
              disk, registry, history
  <1>8. CASE Unwind
    BY <1>8 DEF Unwind, Conclude, Proceed, Leave, Goto, Row, registry, disk, history
  <1>9. CASE Settle
    BY <1>9 DEF Settle, Release, Goto, Row, stopping, disk, history, registry
  <1>10. CASE SettleWrite
    BY <1>10 DEF SettleWrite, Save, Fails, Release, Leave, Goto, Row, stopping, history
  <1>11. CASE GiveBack
    BY <1>11 DEF GiveBack, Release, Goto, stopping, disk, history, registry
  <1>12. CASE UploadWrite
    BY <1>12 DEF UploadWrite, Fails, Leave, Goto, stopping, history
  <1>13. CASE Launch
    BY <1>13 DEF Launch, Goto, stopping, disk, history
  <1>14. CASE Uploading
    BY <1>14 DEF Uploading, Goto, Row, registry, disk, history, Upload!Reported, Upload!Snapshot
  <1>15. ASSUME NEW t \in Entries, Yielded, UserCancel(t) PROVE Stopping'
    BY <1>15 DEF UserCancel, Row, worker, stopping, disk
  <1>16. ASSUME NEW t \in Entries, Yielded, CleanupStart(t) PROVE Stopping'
    BY <1>16 DEF CleanupStart, worker, stopping, registry, disk, history
  <1>17. ASSUME NEW t \in Entries, Yielded, CleanupDone(t) PROVE Stopping'
    BY <1>17 DEF CleanupDone, Save, Fails, worker, stopping, disk, history
  <1>18. ASSUME NEW t \in Entries, Yielded, CopyPublishes(t) PROVE Stopping'
    BY <1>18 DEF CopyPublishes, worker, stopping, registry, disk, history
  <1>19. ASSUME NEW t \in Entries, Yielded, CopyReports(t) PROVE Stopping'
    BY <1>19 DEF CopyReports, Row, worker, stopping, registry, disk, history
  <1>20. ASSUME NEW t \in Entries, Yielded, CopyEnds(t) PROVE Stopping'
    BY <1>20 DEF CopyEnds, worker, stopping, registry, disk, history
  <1>21. CASE Yielded /\ (WorkerCancel \/ Shutdown)
    BY <1>21 DEF WorkerCancel, Stop, worker, disk, Shutdown, history
  <1>22. CASE UNCHANGED batchVars
    BY <1>22 DEF batchVars, worker, stopping, registry, disk, history
  <1> QED
    BY <1>1, <1>2, <1>3, <1>4, <1>5, <1>6, <1>7, <1>8, <1>9, <1>10, <1>11, <1>12, <1>13, <1>14,
       <1>15, <1>16, <1>17, <1>18, <1>19, <1>20, <1>21, <1>22 DEF Next, WorkerStep, CleanupStep,
       Others, UploadCancel, UploadStep, Ended, vars

-----------------------------------------------------------------------------
\* What UploadBatchProofs says of the batch, in the variables of the runtime.
BatchTrue ==
    /\ Upload!UploadTypeOK
    /\ \A o \in Entries:
         /\ batch \in {"none", "root"} => at[o] = "pending"
         /\ batch = "over" => at[o] \in Upload!Ended
         /\ receipt[o] = "none" => o \notin stored
         /\ receipt[o] = "published" => o \in stored
         /\ at[o] = "succeeded" => receipt[o] = "published"

LEMMA RestingBatch == ASSUME BatchTrue, batch \in {"none", "over"}, Upload!Step PROVE FALSE
  <1>1. ASSUME NEW o \in Entries PROVE at[o] \notin Upload!Working
    BY <1>1 DEF BatchTrue, Upload!Working, Upload!Ended
  <1> QED
    BY <1>1 DEF BatchTrue, Upload!Step, Upload!InspectRoot, Upload!Finish, Upload!Take,
                Upload!Inspect, Upload!Rename, Upload!Open, Upload!Send, Upload!Close,
                Upload!Working

\* Once launched, the batch is waited for until it is over, and what is then shown
\* is what its receipts say; its row is the worker's, no cleanup is queued for it.
Uploaded ==
    /\ kind # "upload" \/ now = 0 => batch = "none"
    /\ kind = "upload" =>
         /\ \A t \in Entries: cleanup[t] = "none"
         /\ \A t \in Entries: row[t] \in {"pending", "running"} => pc \in {"launch", "uploading"}
         /\ count = 1 => saved[1] = Nil /\ (pc # "launch" => now = 1)
         /\ now = 0 \/ pc = "uploading" => row[1] \in {"none", "pending", "running", "cancelled"}
         /\ now = 1 /\ pc # "uploading" => batch = "over" /\ row[1] = Upload!Snapshot

LEMMA NextUploaded ==
    Placed /\ Placed' /\ Honest /\ Early /\ BatchTrue /\ Uploaded /\ [Next]_vars => Uploaded'
  <1> SUFFICES ASSUME Placed, Placed', Honest, Early, BatchTrue, Uploaded, [Next]_vars
               PROVE Uploaded'
    OBVIOUS
  <1> USE RuntimeAssumption DEF Placed, Typed, Counted, Writing, Kept, Unbegun, Terminal,
      Yielded, Early, Heeded, Uploaded, upload
  <1>a. UNCHANGED upload => Upload!Snapshot' = Upload!Snapshot
    BY DEF Upload!Snapshot
  <1>b. Upload!Snapshot \in Terminal
    BY DEF Upload!Snapshot
  <1> USE <1>a, <1>b
  <1>1. CASE Begin /\ UNCHANGED upload
    BY <1>1 DEF Begin, Landed, Fails, Leave, Goto, Row, stopping, registry, disk, history,
              Honest, Recorded
  <1>2. CASE NextEntry /\ UNCHANGED upload
    BY <1>2 DEF NextEntry, Enter, IsSet, Conclude, Leave, Goto, Row, stopping, disk, history
  <1>3. CASE AwaitCleanup /\ UNCHANGED upload
    BY <1>3 DEF AwaitCleanup, Enter, IsSet, Conclude, Leave, Goto, Row, registry, disk, history
  <1>4. CASE Attempt /\ UNCHANGED upload
    BY <1>4 DEF Attempt, Landed, Fails, IsSet, Conclude, Goto, Row, registry, history
  <1>5. CASE Copying /\ UNCHANGED upload
    BY <1>5, CopyingCases DEF Conclude, Row, Goto, registry, disk, history
  <1>6. CASE Drain /\ UNCHANGED upload
    BY <1>6 DEF Drain, Conclude, Goto, Row, registry, disk, history
  <1>7. CASE Write /\ UNCHANGED upload
    BY <1>7 DEF Write, AfterWrite, Proceed, GoesOn, Landed, Fails, Save, Release, Leave, Goto,
              stopping, disk, registry, history
  <1>8. CASE Unwind /\ UNCHANGED upload
    BY <1>8 DEF Unwind, Conclude, Proceed, GoesOn, Leave, Goto, Row, registry, disk, history
  <1>9. CASE Settle /\ UNCHANGED upload
    BY <1>9 DEF Settle, Release, Goto, Row, stopping, disk, history, registry
  <1>10. CASE SettleWrite /\ UNCHANGED upload
    BY <1>10 DEF SettleWrite, Save, Fails, Release, Leave, Goto, Row, stopping, history
  <1>11. CASE GiveBack /\ UNCHANGED upload
    BY <1>11 DEF GiveBack, Release, Goto, stopping, disk, history, registry
  <1>12. CASE UploadWrite /\ UNCHANGED upload
    BY <1>12 DEF UploadWrite, Fails, Leave, Goto, stopping, history
  <1>13. CASE Launch
    BY <1>13 DEF Launch, Goto, stopping, disk, history
  <1>14. CASE Uploading
    <2>1. CASE UNCHANGED upload /\ row' = [row EXCEPT ![1] = Upload!Snapshot] /\ batch = "over"
      BY <1>14, <2>1 DEF Uploading, Goto, disk
    <2>2. CASE UNCHANGED <<pc, row, batch>>
      BY <1>14, <2>2 DEF Uploading, disk
    <2> QED
      BY <1>14, <2>1, <2>2 DEF Uploading, Row, Upload!Reported, Upload!Halt
  <1>15. ASSUME NEW t \in Entries, Yielded, UserCancel(t), UNCHANGED upload PROVE Uploaded'
    <2> USE DEF UserCancel, Row, worker, disk
    <2>1. CASE kind # "upload"
      BY <1>15, <2>1
    <2>2. CASE kind = "upload"
      <3>1. pc = "uploading" /\ t = 1 /\ 1 \in running
        BY <1>15, <2>2
      <3> QED
        BY <1>15, <2>2, <3>1
    <2> QED
      BY <2>1, <2>2
  <1>16. ASSUME NEW t \in Entries, Yielded, CleanupStart(t), UNCHANGED upload PROVE Uploaded'
    BY <1>16 DEF CleanupStart, worker, stopping, registry, disk, history
  <1>17. ASSUME NEW t \in Entries, Yielded, CleanupDone(t), UNCHANGED upload PROVE Uploaded'
    BY <1>17 DEF CleanupDone, Save, Fails, worker, stopping, disk, history
  <1>18. ASSUME NEW t \in Entries, Yielded, CopyPublishes(t), UNCHANGED upload PROVE Uploaded'
    BY <1>18 DEF CopyPublishes, worker, stopping, registry, disk, history
  <1>19. ASSUME NEW t \in Entries, Yielded, CopyReports(t), UNCHANGED upload PROVE Uploaded'
    BY <1>19 DEF CopyReports, Row, worker, stopping, registry, disk, history
  <1>20. ASSUME NEW t \in Entries, Yielded, CopyEnds(t), UNCHANGED upload PROVE Uploaded'
    BY <1>20 DEF CopyEnds, worker, stopping, registry, disk, history
  <1>21. CASE Yielded /\ (WorkerCancel \/ Shutdown) /\ UNCHANGED upload
    BY <1>21 DEF WorkerCancel, Stop, worker, disk, Shutdown, history
  <1>22. CASE UNCHANGED batchVars /\ (UploadCancel \/ UploadStep)
    <2> USE DEF batchVars, worker, stopping, registry, disk, history
    <2>1. CASE pc = "uploading"
      BY <1>22, <2>1
    <2>2. CASE pc # "uploading" /\ UploadStep
      BY <1>22, <2>2, RestingBatch DEF UploadStep
    <2>3. CASE pc # "uploading" /\ UploadCancel
      <3>1. kind = "upload" /\ now = 0 /\ UNCHANGED batch
        BY <2>3 DEF UploadCancel, Upload!Halt
      <3> QED
        BY <1>22, <2>3, <3>1
    <2> QED
      BY <1>22, <2>1, <2>2, <2>3
  <1>23. CASE UNCHANGED vars
    BY <1>23 DEF vars, batchVars, worker, stopping, registry, disk, history
  <1> QED
    BY <1>1, <1>2, <1>3, <1>4, <1>5, <1>6, <1>7, <1>8, <1>9, <1>10, <1>11, <1>12, <1>13, <1>14,
       <1>15, <1>16, <1>17, <1>18, <1>19, <1>20, <1>21, <1>22, <1>23
    DEF Next, WorkerStep, CleanupStep, Others, UploadCancel, UploadStep, Ended

LEMMA SavedStatus ==
    ASSUME Placed, NEW t \in Entries, saved[t] # Nil PROVE saved[t].status \in Terminal
  BY DEF Placed, Typed

-----------------------------------------------------------------------------
\* The entries run_one has not let through yet, and the one it is at work on.
Ahead(t) == t > now \/ (pc = "await_cleanup" /\ t = now)
AtWork(t) == t = now /\ (pc \in Body \/ (pc = "unwind" /\ out.then = "next"))

\* Whoever writes the summary writes what the row shows: the worker the outcome
\* of the entry it has let through, a queued cleanup that it was cancelled.
Matched(t) ==
    /\ saved[t] # Nil => row[t] \in {"none", saved[t].status}
    /\ AtWork(t) => cleanup[t] = "none" /\ saved[t] = Nil
    /\ cleanup[t] # "none" => row[t] = "cancelled"
    /\ cleanup[t] # "none" /\ pc \in Loop \cup {"begin", "write"} => t \in events
    /\ Ahead(t) /\ saved[t] # Nil => saved[t].status = "cancelled"
    /\ Ahead(t) /\ saved[t] # Nil /\ pc \notin Over \cup {"release"} => cleanup[t] # "none"

Shown == pc = "write" => row[out.t] = IF Unbegun THEN "none" ELSE out.status

Rows == (\A t \in Entries: Matched(t)) /\ Shown

LEMMA NextRows ==
    Placed /\ Placed' /\ Honest /\ Early /\ Uploaded /\ Rows /\ [Next]_vars => Rows'
  <1> SUFFICES ASSUME Placed, Placed', Honest, Early, Uploaded, Rows, [Next]_vars
               PROVE Rows'
    OBVIOUS
  <1> USE RuntimeAssumption DEF Early, Heeded, Honest, Recorded, Told, TellsTrue, TrueOf, Rows,
      Matched, Shown, AtWork, Ahead, Uploaded, Placed, Typed, Counted, Writing, Kept, Unbegun,
      Terminal, Yielded
  <1>1. CASE Begin
    BY <1>1 DEF Begin, Landed, Fails, Leave, Goto, Row, stopping, registry, disk, history
  <1>2. CASE NextEntry
    BY <1>2 DEF NextEntry, Enter, IsSet, Conclude, Leave, Goto, Row, stopping, disk, history
  <1>3. CASE AwaitCleanup
    BY <1>3 DEF AwaitCleanup, Enter, IsSet, Conclude, Leave, Goto, Row, registry, disk, history
  <1>4. CASE Attempt
    BY <1>4 DEF Attempt, Landed, Fails, IsSet, Conclude, Goto, Row, registry, history
  <1>5. CASE Copying
    <2> HIDE DEF Writing, Kept, Recorded, Told, Uploaded, Heeded, TellsTrue
    <2>1. /\ pc = "copying" /\ pending' = FALSE /\ now \in Entries
          /\ UNCHANGED <<kind, count, now, next, stops, registry, cleanup, disk, published,
                         history>>
      BY <1>5, CopyingCases
    <2>2. ASSUME NEW s \in Terminal, NEW then \in {"false", "error", "cancelled"},
                 Conclude(now, s, then), UNCHANGED copy
          PROVE Rows'
      <3>1. ASSUME NEW p \in Entries PROVE Matched(p)'
        BY <2>1, <2>2, <3>1 DEF Conclude, Row, Goto, registry, disk
      <3>2. Shown'
        BY <2>1, <2>2 DEF Conclude, Row, Goto
      <3> QED
        BY <3>1, <3>2
    <2>3. CASE /\ copy[now] = "true" /\ ~pending
               /\ out' = [t |-> now, status |-> "completed", then |-> "next"]
               /\ pc' = "unwind" /\ UNCHANGED <<row, copy>>
      BY <2>1, <2>3 DEF registry, disk, history
    <2>4. CASE /\ copy[now] = "running" /\ copy' = [copy EXCEPT ![now] = "cancelling"]
               /\ pc' = (IF pending THEN "drain_stopped" ELSE "drain")
               /\ UNCHANGED <<row, out>>
      BY <2>1, <2>4 DEF registry, disk, history
    <2> QED
      BY <1>5, <2>1, <2>2, <2>3, <2>4, CopyingCases DEF Terminal
  <1>6. CASE Drain
    BY <1>6 DEF Drain, Conclude, Goto, Row, registry, disk, history
  <1>7. CASE Write
    <2>1. ASSUME NEW p \in Entries PROVE Matched(p)'
      <3>1. CASE kind = "upload"
        BY <1>7, <3>1 DEF Write, AfterWrite, Proceed, GoesOn, Landed, Fails, Save, Release, Leave,
           Goto, stopping, disk, registry, history
      <3>2. CASE kind # "upload"
        BY <1>7, <3>2 DEF Write, AfterWrite, Proceed, GoesOn, Landed, Fails, Save, Release, Leave,
           Goto, stopping, disk, registry, history
      <3> QED
        BY <3>1, <3>2
    <2>2. Shown'
      BY <1>7 DEF Write, AfterWrite, Proceed, GoesOn, Leave, Goto
    <2> QED
      BY <2>1, <2>2
  <1>8. CASE Unwind
    BY <1>8 DEF Unwind, Conclude, Proceed, GoesOn, Leave, Goto, Row, registry, disk, history
  <1>9. CASE Settle
    BY <1>9 DEF Settle, Release, Goto, Row, stopping, disk, history, registry
  <1>10. CASE SettleWrite
    BY <1>10 DEF SettleWrite, Save, Fails, Release, Leave, Goto, Row, stopping, history
  <1>11. CASE GiveBack
    BY <1>11 DEF GiveBack, Release, Goto, stopping, disk, history, registry
  <1>12. CASE UploadWrite
    BY <1>12 DEF UploadWrite, Fails, Leave, Goto, stopping, history
  <1>13. CASE Launch
    BY <1>13 DEF Launch, Goto, stopping, disk, history
  <1>14. CASE Uploading
    BY <1>14 DEF Uploading, Goto, Row, registry, disk, history, Upload!Reported, Upload!Snapshot
  <1>15. ASSUME NEW t \in Entries, Yielded, UserCancel(t) PROVE Rows'
    <2>1. row[t] \in {"pending", "running"} /\ row' = [row EXCEPT ![t] = "cancelled"]
      BY <1>15 DEF UserCancel, Row
    <2>2. UNCHANGED <<pc, now, count, out, saved>>
      BY <1>15 DEF UserCancel, worker, disk
    <2>3. saved[t] = Nil
      <3>1. saved[t] # Nil => row[t] \in {"none", saved[t].status}
        OBVIOUS
      <3>2. saved[t] # Nil => saved[t].status \in Terminal
        BY SavedStatus
      <3> HIDE DEF Early, Heeded, Honest, Recorded, Told, TellsTrue, TrueOf, Rows, Matched, Shown, AtWork,
          Ahead, Uploaded, Placed, Typed, Counted, Writing, Kept, Unbegun, Yielded
      <3> QED
        BY <2>1, <3>1, <3>2
    <2>4. Shown'
      BY <2>1, <2>2 DEF Writes
    <2>5. ASSUME NEW p \in Entries PROVE Matched(p)'
      <3>1. CASE p = t
        <4>1. cleanup'[t] # "none" /\ pc \in Loop \cup {"begin", "write"} => t \in events'
          BY <1>15, <2>1 DEF UserCancel
        <4>2. AtWork(t) => cleanup'[t] = "none"
          BY <1>15, <2>1 DEF UserCancel
        <4> QED
          BY <2>1, <2>2, <2>3, <3>1, <4>1, <4>2
      <3>2. CASE p # t
        <4>1. cleanup'[p] = cleanup[p]
          <5>1. cleanup' = cleanup \/ cleanup' = [cleanup EXCEPT ![t] = "queued"]
            BY <1>15 DEF UserCancel
          <5> QED
            BY <3>2, <5>1
        <4>2. events \subseteq events'
          BY <1>15 DEF UserCancel
        <4>3. row'[p] = row[p]
          BY <2>1, <3>2
        <4> QED
          BY <2>2, <4>1, <4>2, <4>3
      <3> QED
        BY <3>1, <3>2
    <2> QED
      BY <2>4, <2>5
  <1>16. ASSUME NEW t \in Entries, Yielded, CleanupStart(t) PROVE Rows'
    BY <1>16 DEF CleanupStart, worker, stopping, registry, disk, history
  <1>17. ASSUME NEW t \in Entries, Yielded, CleanupDone(t) PROVE Rows'
    BY <1>17 DEF CleanupDone, Save, Fails, worker, stopping, disk, history
  <1>18. ASSUME NEW t \in Entries, Yielded, CopyPublishes(t) PROVE Rows'
    BY <1>18 DEF CopyPublishes, worker, stopping, registry, disk, history
  <1>19. ASSUME NEW t \in Entries, Yielded, CopyReports(t) PROVE Rows'
    <2>1. row[t] = "pending" /\ row' = [row EXCEPT ![t] = "running"]
      BY <1>19 DEF CopyReports, Row
    <2>2. UNCHANGED <<pc, now, count, out, saved, events, cleanup>>
      BY <1>19 DEF CopyReports, worker, registry, disk
    <2>3. saved[t] = Nil
      <3>1. saved[t] # Nil => row[t] \in {"none", saved[t].status}
        OBVIOUS
      <3> QED
        BY <2>1, <3>1, SavedStatus
    <2>4. Shown'
      BY <2>1, <2>2 DEF Writes
    <2>5. ASSUME NEW p \in Entries PROVE Matched(p)'
      <3>1. cleanup[t] = "none"
        BY <2>1
      <3> QED
        BY <2>1, <2>2, <2>3, <3>1
    <2> QED
      BY <2>4, <2>5
  <1>20. ASSUME NEW t \in Entries, Yielded, CopyEnds(t) PROVE Rows'
    BY <1>20 DEF CopyEnds, worker, stopping, registry, disk, history
  <1>21. CASE Yielded /\ (WorkerCancel \/ Shutdown)
    BY <1>21 DEF WorkerCancel, Stop, worker, disk, Shutdown, history
  <1>22. CASE UNCHANGED batchVars
    BY <1>22 DEF batchVars, worker, stopping, registry, disk, history
  <1> QED
    BY <1>1, <1>2, <1>3, <1>4, <1>5, <1>6, <1>7, <1>8, <1>9, <1>10, <1>11, <1>12, <1>13, <1>14,
       <1>15, <1>16, <1>17, <1>18, <1>19, <1>20, <1>21, <1>22 DEF Next, WorkerStep, CleanupStep,
       Others, UploadCancel, UploadStep, Ended, vars

-----------------------------------------------------------------------------
LEMMA BatchIsTrue == Spec => []BatchTrue
  <1>1. Proved!UInv /\ Proved!UploadTypeOK => BatchTrue
    BY DEF Proved!UInv, Proved!Truthful, Proved!NoneIsAbsent, Proved!PublishedIsStored,
           Proved!SucceededIsPublished, Proved!AtRest, Proved!Ended, Upload!Ended,
           Proved!UploadTypeOK, Upload!UploadTypeOK, Proved!Working, Upload!Working, BatchTrue
  <1>2. MaxRenames \in Nat
    BY RuntimeAssumption
  <1>3. Proved!UploadSpec => []Proved!UploadTypeOK
    BY <1>2, Proved!UploadIsTyped
  <1> QED
    BY <1>1, <1>3, UploadRunsAsSpecified, SameBatch, Proved!Invariant, PTL

RInv == Placed /\ Honest /\ Early /\ BatchTrue /\ Uploaded /\ Rows /\ Stopping

\* The parts together, for every batch of copy_across, move_across, delete_in_focused,
\* a retry from history and execute_upload_transfer.
THEOREM RuntimeInvariant == Spec => []RInv
  <1>1. Init => Honest /\ Early /\ Uploaded /\ Rows /\ Stopping
    <2> SUFFICES ASSUME Init PROVE Honest /\ Early /\ Uploaded /\ Rows /\ Stopping
      OBVIOUS
    <2> USE RuntimeAssumption DEF Init
    <2>1. Honest /\ Early
      BY DEF Honest, Recorded, Told, TellsTrue, TrueOf, Early, Heeded
    <2>2. Uploaded
      BY DEF Uploaded, Upload!Init
    <2>3. Rows /\ Stopping
      BY DEF Rows, Matched, Shown, Unbegun, AtWork, Stopping
    <2> QED
      BY <2>1, <2>2, <2>3
  <1>2. RInv /\ Placed' /\ [Next]_vars => Honest' /\ Early' /\ Uploaded' /\ Rows' /\ Stopping'
    BY NextHonest, NextEarly, NextUploaded, NextRows, NextStopping DEF RInv
  <1> QED
    BY <1>1, <1>2, AlwaysPlaced, BatchIsTrue, PTL DEF Spec, RInv

\* Every variable keeps its type; what the runtime counts and owns agrees.
THEOREM TypeCorrect == Spec => []TypeOK
  <1>1. Placed /\ BatchTrue => TypeOK
    BY RuntimeAssumption
    DEF Placed, Counted, Writing, Kept, Typed, Writes, BatchTrue, TypeOK
  <1> QED
    BY <1>1, AlwaysPlaced, BatchIsTrue, PTL

LEMMA ReportIsTrue ==
    ASSUME BatchTrue, batch = "over"
    PROVE /\ Upload!Snapshot = "completed" => stored # {}
          /\ Upload!Snapshot = "skipped" => stored = {}
  <1>1. /\ stored \subseteq Entries
        /\ \A o \in Entries: receipt[o] \in {"none", "published", "uncertain"}
    BY DEF BatchTrue, Upload!UploadTypeOK
  <1>2. Upload!Snapshot = "completed" => \E o \in Entries: receipt[o] = "published"
    BY DEF Upload!Snapshot
  <1>3. Upload!Snapshot = "skipped" => \A o \in Entries: receipt[o] = "none"
    BY <1>1 DEF Upload!Snapshot
  <1> QED
    BY <1>1, <1>2, <1>3 DEF BatchTrue

\* A summary that says completed is of a published entry, one that says skipped or
\* never attempted is of an untouched one, whoever of the worker, a queued cleanup
\* and settle() wrote it and whatever was cancelled; and so with the rows.
THEOREM HistoryTellsTheTruth == Spec => []HistoryIsTrue
  <1>1. RInv => HistoryIsTrue
    <2> SUFFICES ASSUME RInv, NEW t \in Entries
                 PROVE /\ saved[t] # Nil =>
                            /\ saved[t].status = "completed" => t \in published
                            /\ saved[t].status = "skipped" => t \notin published
                            /\ ~saved[t].attempted => t \notin published
                       /\ row[t] = "completed" => Delivered(t)
                       /\ row[t] = "skipped" => ~Delivered(t)
      BY DEF HistoryIsTrue
    <2>1. Recorded(t) /\ Told(t) /\ Heeded(t)
      BY DEF RInv, Honest, Early
    <2>2. saved[t] # Nil => /\ saved[t].status = "completed" => t \in published
                            /\ saved[t].status = "skipped" => t \notin published
                            /\ ~saved[t].attempted => t \notin published
      BY <2>1 DEF Recorded, Told, TrueOf
    <2>3. CASE kind # "upload"
      BY <2>1, <2>2, <2>3 DEF Told, TrueOf, Delivered
    <2>4. CASE kind = "upload" /\ row[t] \in {"completed", "skipped"}
      <3>1. t = 1 /\ count = 1
        BY <2>1, <2>4 DEF RInv, Placed, Counted, Heeded
      <3>2. batch = "over" /\ row[1] = Upload!Snapshot
        BY <2>4, <3>1 DEF RInv, Uploaded, Placed, Counted
      <3> QED
        BY <2>2, <2>4, <3>1, <3>2, ReportIsTrue DEF RInv, Delivered
    <2> QED
      BY <2>2, <2>3, <2>4
  <1> QED
    BY <1>1, RuntimeInvariant, PTL

\* Once the user has cancelled an entry whose copy was not started, it never is:
\* run_one finds the event set at one of the places where it looks.
THEOREM CancelledEarlyStaysOut == Spec => []CancelledEarlyNeverRuns
  <1>1. RInv => CancelledEarlyNeverRuns
    BY DEF RInv, Placed, Typed, Honest, Recorded, Early, Heeded, CancelledEarlyNeverRuns
  <1> QED
    BY <1>1, RuntimeInvariant, PTL

\* The row of a released entry shows the status of its summary, and that of a
\* wholly published upload that it completed.
THEOREM RowsMatchHistory == Spec => []RowMatchesHistory
  <1>1. RInv => RowMatchesHistory
    <2> SUFFICES ASSUME RInv PROVE RowMatchesHistory
      OBVIOUS
    <2>1. ASSUME NEW t \in Entries \ owned, saved[t] # Nil, row[t] # "none"
          PROVE row[t] = saved[t].status
      BY <2>1 DEF RInv, Rows, Matched
    <2>2. ASSUME pc = "done", unclean = {}, \A o \in Entries: at[o] = "succeeded"
          PROVE row[1] = "completed"
      <3>1. 1 \in Entries
        BY RuntimeAssumption
      <3>2. batch # "none"
        BY <2>2, <3>1 DEF RInv, BatchTrue
      <3>3. kind = "upload" /\ now = 1
        BY <3>2 DEF RInv, Uploaded, Placed, Counted
      <3>4. row[1] = Upload!Snapshot
        BY <2>2, <3>3 DEF RInv, Uploaded
      <3>5. \A o \in Entries: receipt[o] = "published"
        BY <2>2 DEF RInv, BatchTrue
      <3> QED
        BY <2>2, <3>1, <3>4, <3>5 DEF Upload!Snapshot
    <2> QED
      BY <2>1, <2>2 DEF RowMatchesHistory
  <1> QED
    BY <1>1, RuntimeInvariant, PTL

\* No copy or move starts a further entry after its worker was cancelled at an await
\* that passes it on, not even when the disk fails on the way out.
THEOREM CancelledCopyStops == Spec => CopyStops
  <1>1. RInv /\ [Next]_vars => (kind = "copy" /\ heard => \A t \in Entries: ~Starts(t))
    <2> SUFFICES ASSUME RInv, [Next]_vars, kind = "copy", heard, NEW t \in Entries, Starts(t)
                 PROVE FALSE
      OBVIOUS
    <2> USE DEF RInv, Placed, Counted, Typed, Starts
    <2>1. CASE Attempt
      <3>1. pending
        BY <2>1 DEF Attempt, Stopping
      <3> QED
        BY <2>1, <3>1 DEF Attempt, Landed
    <2>2. CASE Copying \/ Launch
      BY <2>2 DEF Copying, Launch, Outcomes
    <2>3. ASSUME NEW p \in Entries, CopyEnds(p) PROVE FALSE
      BY <2>3 DEF CopyEnds, InCopy, Running
    <2>4. CASE UNCHANGED copy
      BY <2>4
    <2> QED
      BY <2>1, <2>2, <2>3, <2>4
      DEF Next, WorkerStep, CleanupStep, Others, UploadCancel, UploadStep, Ended, vars, batchVars,
          Begin, NextEntry, AwaitCleanup, Drain, Write, Unwind, Settle, SettleWrite, GiveBack,
          UploadWrite, Uploading, UserCancel, CleanupStart, CleanupDone, CopyPublishes,
          CopyReports, WorkerCancel, Shutdown, Stop
  <1> QED
    BY <1>1, RuntimeInvariant, PTL DEF Spec, CopyStops
=============================================================================
