-------------------------- MODULE UploadBatchProofs --------------------------
(***************************************************************************)
(* No object that S3 has is offered for another upload, for any plan, and  *)
(* what the receipts and statuses say of the objects is true.              *)
(*                                                                         *)
(* NeverReplayed speaks of the end of the batch.  What makes it hold is    *)
(* that a receipt "none" never belongs to a stored object, although Open   *)
(* makes a new receipt for every name tried: an object gets to Open again  *)
(* only from a conflict, and a conflict leaves nothing stored.             *)
(***************************************************************************)
EXTENDS UploadBatch, TLAPS

\* A worker that has not sent its request, or will send it again.
Unsent == {"pending", "inspect", "rename", "open", "send"}

Typed ==
    /\ at \in [Objects -> Unsent \cup Ended \cup {"close"}]
    /\ receipt \in [Objects -> {"none", "published", "uncertain"}]
    /\ raised \in [Objects -> {"nothing", "conflict", "error", "cancelled"}]

UnsentIsAbsent(o) == at[o] \in Unsent => o \notin stored
NoneIsAbsent(o) == receipt[o] = "none" => o \notin stored
ConflictIsNone(o) == at[o] = "close" /\ raised[o] = "conflict" => receipt[o] = "none"
PublishedIsStored(o) == receipt[o] = "published" => o \in stored
SucceededIsPublished(o) == at[o] = "succeeded" => receipt[o] = "published"

\* Nothing moves before the workers start or after they are gone.
AtRest(o) ==
    /\ batch \in {"none", "root"} => at[o] = "pending"
    /\ batch = "over" => at[o] \in Ended

Truthful(o) ==
    /\ UnsentIsAbsent(o) /\ NoneIsAbsent(o) /\ ConflictIsNone(o)
    /\ PublishedIsStored(o) /\ SucceededIsPublished(o) /\ AtRest(o)

UInv == Typed /\ \A o \in Objects: Truthful(o)

USE DEF Truthful, UnsentIsAbsent, NoneIsAbsent, ConflictIsNone, PublishedIsStored,
        SucceededIsPublished, AtRest, Typed, Unsent, Ended
-----------------------------------------------------------------------------

LEMMA InitTruthful == Init => UInv
  BY DEF Init, UInv

\* An object ends with one of three statuses, and succeeded if its receipt says
\* so.
LEMMA StatusEnds ==
    ASSUME NEW o, NEW e
    PROVE /\ Status(o, e) \in {"succeeded", "cancelled", "failed"}
          /\ Status(o, e) = "succeeded" => receipt[o] = "published"
  BY DEF Status

\* A step that only moves a worker before its request, or ends it, keeps the
\* invariant: nothing is stored and no receipt is made.
LEMMA MoveKeeps ==
    ASSUME UInv, NEW o \in Objects, at[o] \in Unsent, batch = "rows" \/ at[o] # "pending",
           NEW s \in (Unsent \ {"pending"}) \cup Ended, at' = [at EXCEPT ![o] = s],
           s = "succeeded" => receipt[o] = "published",
           UNCHANGED <<batch, receipt, raised, stored>>
    PROVE UInv'
  <1>1. Typed'
    BY DEF UInv
  <1>2. ASSUME NEW p \in Objects PROVE Truthful(p)'
    BY DEF UInv
  <1> QED
    BY <1>1, <1>2 DEF UInv

LEMMA InspectRootKeeps == UInv /\ InspectRoot => UInv'
  <1> SUFFICES ASSUME UInv, InspectRoot PROVE UInv'
    OBVIOUS
  <1>1. batch = "root" /\ UNCHANGED <<receipt, raised, stored>>
    BY DEF InspectRoot
  <1>2. CASE batch' = "rows" /\ UNCHANGED at
    BY <1>1, <1>2 DEF UInv
  <1>3. ASSUME NEW s \in {"failed", "dropped"}, batch' = "over", at' = [o \in Objects |-> s]
        PROVE UInv'
    <2>1. Typed'
      BY <1>1, <1>3 DEF UInv
    <2>2. ASSUME NEW p \in Objects PROVE Truthful(p)'
      BY <1>1, <1>3 DEF UInv
    <2> QED
      BY <2>1, <2>2 DEF UInv
  <1> QED
    BY <1>2, <1>3 DEF InspectRoot

LEMMA OpenKeeps == ASSUME UInv, NEW o \in Objects, Open(o) PROVE UInv'
  <1>1. at[o] = "open" /\ UNCHANGED <<batch, raised, stored>>
    BY DEF Open
  <1>2. CASE At(o, "send") /\ Receipt(o, "none")
    <2>1. Typed'
      BY <1>1, <1>2 DEF UInv, At, Receipt
    <2>2. ASSUME NEW p \in Objects PROVE Truthful(p)'
      BY <1>1, <1>2 DEF UInv, At, Receipt
    <2> QED
      BY <2>1, <2>2 DEF UInv
  <1>3. ASSUME NEW e, At(o, Status(o, e)), UNCHANGED receipt PROVE UInv'
    BY <1>1, <1>3, StatusEnds, MoveKeeps DEF At
  <1> QED
    BY <1>2, <1>3 DEF Open

LEMMA SendKeeps == ASSUME UInv, NEW o \in Objects, Send(o) PROVE UInv'
  <1>1. /\ at' = [at EXCEPT ![o] = "close"] /\ UNCHANGED batch
        /\ o \notin stored /\ at[o] = "send"
    BY DEF Send, At, UInv
  <1>2. PICK r \in {"none", "published", "uncertain"},
             e \in {"nothing", "conflict", "error", "cancelled"}:
          /\ receipt' = [receipt EXCEPT ![o] = r] /\ raised' = [raised EXCEPT ![o] = e]
          /\ stored' \in {stored, stored \cup {o}}
          /\ r = "none" => stored' = stored
          /\ r = "published" => o \in stored'
          /\ e = "conflict" => r = "none"
    <2> DEFINE As(e) == IF o \in asked THEN "cancelled" ELSE e
    <2>1. CASE Raised(o, As("error")) /\ UNCHANGED <<receipt, stored>>
      <3>1. receipt' = [receipt EXCEPT ![o] = receipt[o]]
        BY <2>1 DEF UInv
      <3>2. receipt[o] # "published"
        BY <1>1 DEF UInv
      <3> QED
        BY <2>1, <3>1, <3>2 DEF Raised, UInv
    <2>2. CASE stored' = stored \cup {o} /\ Receipt(o, "published") /\ Raised(o, As("nothing"))
      BY <2>2 DEF Raised, Receipt
    <2>3. CASE /\ Receipt(o, IF o \in asked THEN "uncertain" ELSE "none")
               /\ \E e \in {"conflict", "error"}: Raised(o, As(e))
               /\ UNCHANGED stored
      BY <2>3 DEF Raised, Receipt
    <2>4. CASE /\ stored' \in {stored, stored \cup {o}} /\ Receipt(o, "uncertain")
               /\ Raised(o, As("error"))
      BY <2>4 DEF Raised, Receipt
    <2> QED
      BY <2>1, <2>2, <2>3, <2>4 DEF Send
  <1>3. Typed'
    BY <1>1, <1>2 DEF UInv
  <1>4. ASSUME NEW p \in Objects PROVE Truthful(p)'
    <2>1. CASE p = o
      BY <1>1, <1>2, <2>1 DEF UInv
    <2>2. CASE p # o
      BY <1>1, <1>2, <2>2 DEF UInv
    <2> QED
      BY <2>1, <2>2
  <1> QED
    BY <1>3, <1>4 DEF UInv

LEMMA CloseKeeps == ASSUME UInv, NEW o \in Objects, Close(o) PROVE UInv'
  <1>1. at[o] = "close" /\ UNCHANGED <<batch, receipt, raised, stored>>
    BY DEF Close
  <1>2. PICK s \in {"rename"} \cup Ended:
          /\ at' = [at EXCEPT ![o] = s]
          /\ s = "rename" => raised[o] = "conflict"
          /\ s = "succeeded" => receipt[o] = "published"
    BY StatusEnds DEF Close, At
  <1>3. Typed'
    BY <1>1, <1>2 DEF UInv
  <1>4. s = "rename" => o \notin stored
    BY <1>1, <1>2 DEF UInv
  <1>5. ASSUME NEW p \in Objects PROVE Truthful(p)'
    BY <1>1, <1>2, <1>4 DEF UInv
  <1> QED
    BY <1>3, <1>5 DEF UInv

LEMMA FinishKeeps == UInv /\ Finish => UInv'
  <1> SUFFICES ASSUME UInv, Finish PROVE UInv'
    OBVIOUS
  <1>1. /\ at' = [o \in Objects |-> IF at[o] = "pending" THEN "dropped" ELSE at[o]]
        /\ \A o \in Objects: at[o] \notin Working
        /\ batch' = "over" /\ UNCHANGED <<receipt, raised, stored>>
    BY DEF Finish
  <1>2. Typed'
    BY <1>1 DEF UInv
  <1>3. ASSUME NEW p \in Objects PROVE Truthful(p)'
    BY <1>1 DEF UInv, Working
  <1> QED
    BY <1>2, <1>3 DEF UInv

\* One step per action; the others leave what the invariant speaks of alone.
LEMMA NextTruthful == UInv /\ [Launch \/ Halt \/ Step]_uploadVars => UInv'
  <1> SUFFICES ASSUME UInv, [Launch \/ Halt \/ Step]_uploadVars PROVE UInv'
    OBVIOUS
  <1>1. CASE Launch \/ Halt \/ UNCHANGED uploadVars
    <2>1. /\ UNCHANGED <<at, receipt, raised, stored>>
          /\ batch' = batch \/ (batch = "none" /\ batch' \in {"root", "rows"})
      BY <1>1 DEF Launch, Halt, uploadVars, rows
    <2> QED
      BY <2>1 DEF UInv
  <1>2. CASE InspectRoot
    BY <1>2, InspectRootKeeps
  <1>3. ASSUME NEW o \in Objects, Take(o) PROVE UInv'
    BY <1>3, MoveKeeps DEF Take, At
  <1>4. ASSUME NEW o \in Objects, Inspect(o) PROVE UInv'
    BY <1>4, MoveKeeps, StatusEnds DEF Inspect, At
  <1>5. ASSUME NEW o \in Objects, Rename(o) PROVE UInv'
    BY <1>5, MoveKeeps, StatusEnds DEF Rename, At
  <1>6. ASSUME NEW o \in Objects, Open(o) PROVE UInv'
    BY <1>6, OpenKeeps
  <1>7. ASSUME NEW o \in Objects, Send(o) PROVE UInv'
    BY <1>7, SendKeeps
  <1>8. ASSUME NEW o \in Objects, Close(o) PROVE UInv'
    BY <1>8, CloseKeeps
  <1>9. CASE Finish
    BY <1>9, FinishKeeps
  <1> QED
    BY <1>1, <1>2, <1>3, <1>4, <1>5, <1>6, <1>7, <1>8, <1>9 DEF Step

LEMMA TruthfulIsEnough == UInv => NeverReplayed
  BY DEF UInv, NeverReplayed, Retryable

\* A receipt "none" is never that of a stored object, and before its request an
\* object is not stored: UploadOutcome.retryable may trust the receipt.
THEOREM Invariant == UploadSpec => []UInv
  BY InitTruthful, NextTruthful, PTL DEF UploadSpec

\* replan_failed offers no object that S3 has, for any number of objects and
\* names, whatever answers were lost and whenever the batch was stopped.
THEOREM NothingIsReplayed == UploadSpec => []NeverReplayed
  BY Invariant, TruthfulIsEnough, PTL
-----------------------------------------------------------------------------
\* One step of one worker: it leaves its await, has met its cancellation, and
\* may try another name.
WorkerMoves(o) ==
    /\ \E s \in Working \cup Ended: At(o, s)
    /\ receipt' \in [Objects -> {"none", "published", "uncertain"}]
    /\ raised' \in [Objects -> {"nothing", "conflict", "error", "cancelled"}]
    /\ unclean' \subseteq Objects /\ stored' \subseteq Objects
    /\ tries' \in [Objects -> 0 .. MaxRenames]
    /\ UNCHANGED <<batch, halted>>
    /\ asked' = asked \ {o} \/ (at[o] = "pending" /\ asked' = asked)

LEMMA MovingIsTyped ==
    ASSUME UploadTypeOK, NEW o \in Objects, WorkerMoves(o)
    PROVE UploadTypeOK'
  <1>1. at' \in [Objects -> Working \cup Ended \cup {"pending"}]
    BY DEF UploadTypeOK, WorkerMoves, At
  <1>2. asked' \subseteq {p \in Objects: at'[p] \in Working}
    <2>1. o \notin asked'
      BY DEF UploadTypeOK, WorkerMoves, Working
    <2>2. ASSUME NEW p \in asked' PROVE p \in Objects /\ at'[p] \in Working
      <3>1. p \in asked /\ p # o
        BY <2>1, <2>2 DEF WorkerMoves
      <3> QED
        BY <3>1 DEF UploadTypeOK, WorkerMoves, At
    <2> QED
      BY <2>2
  <1> QED
    BY <1>1, <1>2 DEF UploadTypeOK, WorkerMoves

LEMMA WorkersMove ==
    ASSUME UploadTypeOK, MaxRenames \in Nat, NEW o \in Objects,
           Take(o) \/ Inspect(o) \/ Rename(o) \/ Open(o) \/ Send(o) \/ Close(o)
    PROVE WorkerMoves(o)
  <1> USE DEF WorkerMoves, UploadTypeOK, At, Met, Working
  <1>1. CASE Take(o)
    BY <1>1 DEF Take
  <1>2. CASE Inspect(o)
    BY <1>2, StatusEnds DEF Inspect
  <1>3. CASE Rename(o)
    <2>1. tries' \in [Objects -> 0 .. MaxRenames]
      BY <1>3 DEF Rename
    <2> QED
      BY <1>3, <2>1, StatusEnds DEF Rename
  <1>4. CASE Open(o)
    BY <1>4, StatusEnds DEF Open, Receipt
  <1>5. CASE Send(o)
    BY <1>5 DEF Send, Receipt, Raised
  <1>6. CASE Close(o)
    BY <1>6, StatusEnds DEF Close
  <1> QED
    BY <1>1, <1>2, <1>3, <1>4, <1>5, <1>6

LEMMA NextTyped ==
    ASSUME MaxRenames \in Nat, UInv, UploadTypeOK, [Launch \/ Halt \/ Step]_uploadVars
    PROVE UploadTypeOK'
  <1>1. CASE Launch \/ Halt
    BY <1>1 DEF Launch, Halt, rows, UploadTypeOK
  <1>2. CASE InspectRoot
    <2>1. asked = {}
      BY <1>2 DEF InspectRoot, UInv, UploadTypeOK, Working
    <2> QED
      BY <1>2, <2>1 DEF InspectRoot, UploadTypeOK
  <1>3. CASE Finish
    BY <1>3 DEF Finish, UploadTypeOK, Working
  <1>4. ASSUME NEW o \in Objects,
               Take(o) \/ Inspect(o) \/ Rename(o) \/ Open(o) \/ Send(o) \/ Close(o)
        PROVE UploadTypeOK'
    BY <1>4, WorkersMove, MovingIsTyped
  <1>5. CASE UNCHANGED uploadVars
    BY <1>5 DEF uploadVars, rows, UploadTypeOK
  <1> QED
    BY <1>1, <1>2, <1>3, <1>4, <1>5 DEF Step

\* Every variable of the batch keeps its type: a cancellation is pending only for
\* a worker that is at an await, which is where it will meet it.
THEOREM UploadIsTyped == MaxRenames \in Nat => (UploadSpec => []UploadTypeOK)
  <1> SUFFICES ASSUME MaxRenames \in Nat PROVE UploadSpec => []UploadTypeOK
    OBVIOUS
  <1>1. Init => UploadTypeOK
    <2> SUFFICES ASSUME Init PROVE UploadTypeOK
      OBVIOUS
    <2>1. 0 \in 0 .. MaxRenames
      OBVIOUS
    <2>2. tries \in [Objects -> 0 .. MaxRenames]
      BY <2>1 DEF Init
    <2> QED
      BY <2>2 DEF Init, UploadTypeOK
  <1>2. UInv /\ UploadTypeOK /\ [Launch \/ Halt \/ Step]_uploadVars => UploadTypeOK'
    BY NextTyped
  <1> QED
    BY <1>1, <1>2, Invariant, PTL DEF UploadSpec
=============================================================================
