----------------------------- MODULE UploadBatch -----------------------------
(***************************************************************************)
(* UploadBatch of domain/upload_batch.py on S3FS.write_upload_stream: the  *)
(* reviewed objects of a recursive upload, each written by a worker of its *)
(* own (the code has four).  S3 may refuse a write, or execute it and lose *)
(* the answer; the batch may be told to stop at any time.  What becomes of *)
(* an object is decided by its receipt, and only an object that was not    *)
(* and cannot have been written is offered for another upload.             *)
(***************************************************************************)
EXTENDS Naturals

CONSTANTS Objects,   \* the plan
          MaxRenames \* bound: names tried for one object (1000 in the code)

VARIABLES
    batch,    \* "none", "root" (inspecting it), "rows" or "over"
    halted,   \* _cancel_requested
    asked,    \* objects whose worker has a cancellation it has not met yet
    at,       \* the await an object's worker is at, then the object's status
    receipt,  \* its UploadPublication: "none", "published" or "uncertain"
    raised,   \* the exception held while the source is closed
    unclean,  \* objects with a cleanup_error or close_error
    tries,    \* names tried
    stored    \* objects that S3 has

rows == <<asked, at, receipt, raised, unclean, tries>>
uploadVars == <<batch, halted, rows, stored>>

Working == {"inspect", "rename", "open", "send", "close"}
Ended == {"succeeded", "skipped", "failed", "cancelled", "dropped"}

Init ==
    /\ batch = "none" /\ halted = FALSE
    /\ asked = {} /\ at = [o \in Objects |-> "pending"]
    /\ receipt = [o \in Objects |-> "none"] /\ raised = [o \in Objects |-> "nothing"]
    /\ unclean = {} /\ tries = [o \in Objects |-> 0] /\ stored = {}

At(o, s) == at' = [at EXCEPT ![o] = s]
Receipt(o, r) == receipt' = [receipt EXCEPT ![o] = r]
Raised(o, e) == raised' = [raised EXCEPT ![o] = e]

\* run() is called; it starts no worker when it was told to stop before.
Launch ==
    /\ batch = "none" /\ batch' = IF halted THEN "rows" ELSE "root"
    /\ UNCHANGED <<halted, rows, stored>>

\* cancel(), from a row of the overlay, the upload's page, or a cancelled run():
\* every worker is cancelled once.
Halt ==
    /\ halted' = TRUE
    /\ asked' = IF halted THEN asked ELSE {o \in Objects: at[o] \in Working}
    /\ UNCHANGED <<batch, at, receipt, raised, unclean, tries, stored>>

\* The root is inspected again before the workers start; one that changed
\* fails every object.
InspectRoot ==
    /\ batch = "root"
    /\ \/ batch' = "rows" /\ UNCHANGED at
       \/ batch' = "over" /\ at' = [o \in Objects |-> "failed"]
       \/ halted /\ batch' = "over" /\ at' = [o \in Objects |-> "dropped"]
    /\ UNCHANGED <<halted, asked, receipt, raised, unclean, tries, stored>>

Take(o) ==
    /\ batch = "rows" /\ at[o] = "pending" /\ ~halted
    /\ At(o, "inspect")
    /\ UNCHANGED <<batch, halted, asked, receipt, raised, unclean, tries, stored>>

\* The end of _worker's loop body.
Status(o, e) ==
    CASE receipt[o] = "published" -> "succeeded"
      [] e = "cancelled" /\ receipt[o] # "uncertain" -> "cancelled"
      [] OTHER -> "failed"

Met(o) == asked' = asked \ {o}

\* Both inspections, of the source and of the destination.
Inspect(o) ==
    /\ at[o] = "inspect"
    /\ IF halted THEN At(o, Status(o, "cancelled"))
       ELSE \E s \in {"open", "rename", "skipped", Status(o, "error")}: At(o, s)
    /\ Met(o)
    /\ UNCHANGED <<batch, halted, receipt, raised, unclean, tries, stored>>

\* _rename: the next name that nobody has.
Rename(o) ==
    /\ at[o] = "rename"
    /\ \/ halted /\ At(o, Status(o, "cancelled")) /\ UNCHANGED tries
       \/ /\ ~halted /\ tries[o] < MaxRenames
          /\ At(o, "open") /\ tries' = [tries EXCEPT ![o] = @ + 1]
       \/ ~halted /\ At(o, Status(o, "error")) /\ UNCHANGED tries
    /\ Met(o)
    /\ UNCHANGED <<batch, halted, receipt, raised, unclean, stored>>

\* The source is opened, and a new receipt made for this attempt.
Open(o) ==
    /\ at[o] = "open"
    /\ \/ halted /\ At(o, Status(o, "cancelled")) /\ UNCHANGED receipt
       \/ ~halted /\ At(o, "send") /\ Receipt(o, "none")
       \/ ~halted /\ At(o, Status(o, "error")) /\ UNCHANGED receipt
    /\ Met(o)
    /\ UNCHANGED <<batch, halted, raised, unclean, tries, stored>>
\* write_upload_stream.  Once the request is out it is drained, and the receipt
\* says what is known of it; a refusal that meets a cancellation is not trusted.
Send(o) ==
    LET stopped == o \in asked
        As(e) == IF stopped THEN "cancelled" ELSE e
    IN
    /\ at[o] = "send" /\ At(o, "close") /\ Met(o)
    /\ \/ \* a part or the source fails before the request
          /\ Raised(o, As("error")) /\ unclean' \in {unclean, unclean \cup {o}}
          /\ UNCHANGED <<receipt, stored>>
       \/ /\ stored' = stored \cup {o} /\ Receipt(o, "published")
          /\ Raised(o, As("nothing")) /\ UNCHANGED unclean
       \/ \* refused; a failing abort is raised in place of the conflict
          /\ Receipt(o, IF stopped THEN "uncertain" ELSE "none")
          /\ \/ (\E e \in {"conflict", "error"}: Raised(o, As(e))) /\ UNCHANGED unclean
             \/ Raised(o, As("error")) /\ unclean' = unclean \cup {o}
          /\ UNCHANGED stored
       \/ \* no answer, or none that names the object
          /\ stored' \in {stored, stored \cup {o}} /\ Receipt(o, "uncertain")
          /\ Raised(o, As("error")) /\ unclean' \in {unclean, unclean \cup {o}}
    /\ UNCHANGED <<batch, halted, tries>>

\* The source is closed, drained; then the loop is left or another name tried.
Close(o) ==
    /\ at[o] = "close" /\ Met(o)
    /\ \/ At(o, Status(o, "error")) /\ unclean' = unclean \cup {o}
       \/ /\ UNCHANGED unclean
          /\ IF o \in asked THEN At(o, Status(o, "cancelled"))
             ELSE IF raised[o] = "conflict"
             THEN \E s \in {"skipped", "rename", Status(o, "error")}: At(o, s)
             ELSE At(o, Status(o, raised[o]))
    /\ UNCHANGED <<batch, halted, receipt, raised, tries, stored>>

\* The workers are gone: what was not started is cancelled.
Finish ==
    /\ batch = "rows" /\ \A o \in Objects: at[o] \notin Working
    /\ halted \/ \A o \in Objects: at[o] # "pending"
    /\ batch' = "over"
    /\ at' = [o \in Objects |-> IF at[o] = "pending" THEN "dropped" ELSE at[o]]
    /\ UNCHANGED <<halted, asked, receipt, raised, unclean, tries, stored>>

Step ==
    \/ InspectRoot \/ Finish
    \/ \E o \in Objects: Take(o) \/ Inspect(o) \/ Rename(o) \/ Open(o) \/ Send(o) \/ Close(o)

\* The batch by itself: what its owner and its workers may do with it.
UploadSpec == Init /\ [][Launch \/ Halt \/ Step]_uploadVars
-----------------------------------------------------------------------------
\* snapshot.status, as execute_upload_transfer reports it.
Snapshot ==
    IF \E o \in Objects: at[o] = "failed" \/ receipt[o] = "uncertain" \/ o \in unclean
    THEN "failed"
    ELSE IF \E o \in Objects: at[o] \in {"cancelled", "dropped"} THEN "cancelled"
    ELSE IF \E o \in Objects: receipt[o] = "published" THEN "completed" ELSE "skipped"

\* A bug: a cancellation, however late, decides what is reported.
ReportedWhenHalted == IF halted THEN "cancelled" ELSE Snapshot
Reported == Snapshot

\* A bug: every failed object may be retried.
RetryableFailed(o) == at[o] \in {"failed", "dropped"}

\* UploadOutcome.retryable.
Retryable(o) == at[o] \in {"failed", "dropped"} /\ receipt[o] = "none"

UploadTypeOK ==
    /\ batch \in {"none", "root", "rows", "over"} /\ halted \in BOOLEAN
    /\ asked \subseteq {o \in Objects: at[o] \in Working}
    /\ at \in [Objects -> Working \cup Ended \cup {"pending"}]
    /\ receipt \in [Objects -> {"none", "published", "uncertain"}]
    /\ raised \in [Objects -> {"nothing", "conflict", "error", "cancelled"}]
    /\ unclean \subseteq Objects /\ stored \subseteq Objects
    /\ tries \in [Objects -> 0 .. MaxRenames]

\* replan_failed: "committed/unknown objects are never replayed".
NeverReplayed == batch = "over" => \A o \in Objects: Retryable(o) => o \notin stored
=============================================================================
