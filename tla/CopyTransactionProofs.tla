----------------------- MODULE CopyTransactionProofs -----------------------
(***************************************************************************)
(* What the runs check of one copy or move, for any number of foreign      *)
(* files, attempts and edits of the source, and that every copy keeps the  *)
(* contract of CopyContract.                                               *)
(*                                                                         *)
(* The invariant is a conjunction of layers: who may be at which step with *)
(* what claimed (Control); what is published from where to where           *)
(* (Publication); how a failure or a cancellation travels to the verdict   *)
(* (Clean); where the original is during an overwrite (BackedUpSafely);    *)
(* what the private names hold (Privately); how often a file was renamed   *)
(* (Unmoved, Fresh, MovedOnce); what was looked at before it was moved     *)
(* (Observed); when the payload appears, and under which name              *)
(* (Unpublished, Appeared, Named); and which version of the source it      *)
(* holds (Carried).                                                        *)
(***************************************************************************)
EXTENDS CopyTransaction, TLAPS

\* The steps of a copy, by what they are about.
Naming == {"start", "resolve", "probe", "exists", "intend"}
Staging == {"claim", "verify", "open", "fill", "capture"}
Publishing == {"pub_check", "pub_rename", "pub_stat"}
Published == {"published", "ovw_fresh", "backed", "committed", "restored"}
Sweeping == {"drop_payload", "drop_container"}
Writing == {"read", "create", "parts", "send", "abort", "rollback", "written"}
Labels ==
    Naming \cup Staging \cup Publishing \cup Published \cup Sweeping \cup Writing
    \cup {"announce", "ovw_stat", "owned", "drop_backup", "close", "delete_source", "end"}

\* A stage belongs to a provider that publishes, an upload to S3; and each step
\* knows what has been claimed.
Control ==
    /\ pc \in Labels /\ (pc = "end" <=> verdict # Nil)
    /\ Direct => /\ pc \in (Naming \ {"exists"}) \cup Writing \cup {"delete_source", "end"}
                 /\ claim \in {"none", "upload", "gone"}
    /\ ~Direct => pc \notin Writing /\ claim \in {"none", "identity", "full"}
    /\ pc \in {"start", "exists", "intend", "claim", "verify", "open", "read", "create"} =>
          claim = "none"
    /\ pc \in {"resolve", "probe"} => claim = "none" \/ (staged /\ policy = "RENAME")
    /\ pc = "fill" => claim = "identity"
    /\ pc = "delete_source" => claim # "upload"
    /\ pc = "capture" /\ fail = "none" => staged
    /\ pc = "rollback" \/ (pc = "written" /\ fail \in {"none", "conflict"}) => claim = "none"
    /\ pc \in Sweeping => sweeps \in 1 .. 2
    /\ pc \in {"announce", "ovw_stat", "owned", "drop_backup", "close"}
              \cup Publishing \cup Published => staged

\* What is being published, and from where to where.
Publication ==
    /\ pc \in Publishing \cup Published \cup {"owned"} =>
          \/ /\ op.then \in {"published", "ovw_fresh", "committed"}
             /\ op.from = Payload /\ op.to = cur /\ op.revision = New("ours")
          \/ /\ op.then = "backed"
             /\ op.from = cur /\ op.to = Backup /\ op.revision \in Objects
          \/ /\ op.then = "restored"
             /\ op.from = Backup /\ op.to = cur
    /\ pc \in Published => op.then = pc
    /\ pc = "owned" => op.then \in {"published", "ovw_fresh"}
    /\ pc \in Publishing \cup {"owned"} /\ op.then # "published" => policy = "OVERWRITE"
    /\ pc \in {"ovw_stat", "drop_backup"} \cup (Published \ {"published"}) => policy = "OVERWRITE"
    /\ pc \in Publishing \cup Published \cup {"owned"} =>
          /\ op.then = "published" => tries <= Attempts
          /\ op.then \in {"ovw_fresh", "backed"} => rounds <= Attempts

\* A copy goes on only as long as nothing failed.
Unspoiled ==
    pc \in Naming \cup (Staging \ {"capture"})
        \cup {"announce", "ovw_stat", "owned", "delete_source", "read", "create", "parts", "send"}
      => fail = "none"

\* It undoes what it did only if something failed.
Undoing ==
    /\ pc \in Publishing => (fail = "none" <=> op.then # "restored")
    /\ pc \in {"abort", "restored"} => fail # "none"
    /\ pc = "rollback" => fail \in {"error", "cancelled"}

\* A cancellation that reached it is a failure that nothing mends or hides, and
\* none is left unheard; only the failure of create_multipart_upload replaces it.
Absorbed ==
    /\ cancel = "absorbed" => fail = "cancelled"
    /\ cancel = "replaced" => fail = "error" /\ pc \in {"written", "end"}
    /\ pc = "end" => cancel # "pending"

\* It returns only if nothing failed.
Returned == verdict \in {"copied", "skipped"} => fail = "none"

Clean == Unspoiled /\ Undoing /\ Absorbed /\ Returned

\* The original that an overwrite moved aside is at the backup name, and nothing
\* else ever is.
Aside == fs[Backup] = saved /\ saved # Nil
BackedUpSafely ==
    /\ (\/ pc \in Naming \cup Staging \cup {"announce", "ovw_stat", "owned"}
        \/ pc \in {"published", "ovw_fresh"}
        \/ pc \in Publishing /\ op.then \in {"published", "ovw_fresh"}
        \/ pc \in {"pub_check", "pub_rename"} /\ op.then = "backed"
        \/ pc = "backed" /\ res \in {"conflict", "notfound"}) => fs[Backup] = Nil /\ (Direct \/ saved = Nil)
    /\ pc = "pub_stat" /\ op.then = "backed" => fs[Backup] # Nil /\ saved = Nil
    /\ (\/ pc \in {"committed", "drop_backup"}
        \/ pc = "backed" /\ res = "ok"
        \/ pc \in Publishing /\ op.then = "committed") => Aside
    /\ pc \in {"pub_check", "pub_rename"} /\ op.then = "restored" => Aside /\ op.revision = saved
    /\ pc \in Sweeping \cup {"close", "delete_source"} /\ fail = "none" => fs[Backup] = Nil

\* The private names hold nothing before they are claimed, and nothing when a move
\* deletes its source.
Bare == fs[Payload] = Nil /\ fs[Container] = Nil /\ fs[Backup] = Nil
Privately ==
    /\ fs[Container] \in {Nil, New("box")}
    /\ pc \in {"verify", "open"} \/ fs[Payload] # Nil => fs[Container] # Nil
    /\ (\/ Direct \/ pc \in {"start", "exists", "intend", "claim", "delete_source"}
        \/ pc \in {"resolve", "probe"} /\ ~staged) => Bare
    /\ verdict \in {"copied", "skipped"} => Bare /\ claim # "upload"

\* What is renamed was renamed at most once before: the payload never, the original
\* only to the backup name.
Unmoved == fs[Payload] # Nil => fs[Payload].moves = 0
Fresh == ~Direct /\ target = Nil /\ saved = Nil =>
    \A n \in Public: fs[n] # Nil => fs[n].id \in Foreign /\ fs[n].moves = 0
MovedOnce == fs[Backup] # Nil => fs[Backup].moves <= 1
Observed ==
    kind = "ideal" =>
        /\ pc \notin {"pub_rename", "pub_stat"}
        /\ saved # Nil => saved.id \in seen
        /\ pc = "pub_check" /\ op.then = "backed" => op.revision.id \in seen

\* The payload appears once; but for a write to S3 whose answer was lost.
Unwritten == target = Nil \/ lost
Unpublished ==
    /\ lost => Direct
    /\ (\/ pc \in Naming \cup Staging \cup {"announce", "ovw_stat", "owned", "backed"}
        \/ pc \in {"read", "create", "parts", "send"}
        \/ pc \in {"pub_check", "pub_rename"} /\ op.then # "restored"
        \/ pc = "pub_stat" /\ op.then = "backed"
        \/ pc \in {"published", "ovw_fresh"} /\ res = "conflict"
        \/ pc \in Sweeping /\ fail = "none"
        \/ pc \in {"abort", "written"} /\ fail = "conflict"
        \/ verdict = "skipped") => Unwritten

Appeared ==
    (\/ pc = "pub_stat" /\ op.from = Payload
     \/ pc \in {"published", "ovw_fresh", "committed"} /\ res = "ok"
     \/ pc \in {"drop_backup", "close", "delete_source"}
     \/ pc = "written" /\ fail = "none"
     \/ verdict = "copied") => target # Nil

\* Nothing is published under a name that was not announced.
Named ==
    pc \in Publishing \cup Published \cup Writing \cup {"ovw_stat", "owned"} => cur \in announced

\* The version of the source that the payload holds is none before the one that the
\* move has observed; and the source is there until the move is over.
Versions ==
    /\ moving => pc \in {"start", "end"} \/ srcSeen # Nil
    /\ moving \/ srcSeen = Nil
    /\ pc = "start" => srcSeen = Nil /\ carried = Nil
    /\ src # Nil =>
         /\ srcSeen # Nil => srcSeen <= src
         /\ carried # Nil => carried <= src
         /\ srcSeen # Nil /\ carried # Nil => srcSeen <= carried
Holds ==
    /\ src = Nil => pc = "end"
    /\ staged \/ pc \in {"send", "delete_source", "rollback"} => carried # Nil
    /\ pc = "written" /\ fail = "none" => carried # Nil
    /\ pc = "delete_source" => moving

Carried == Versions /\ Holds /\ MoveKeepsData

CopyInv ==
    /\ TypeOK /\ Control /\ Publication /\ Clean
    /\ BackedUpSafely /\ Privately /\ Unmoved /\ Fresh /\ MovedOnce /\ Observed
    /\ Unpublished /\ Appeared /\ Named /\ Carried /\ NoLoss

\* TypeOK by groups of variables that change together.
ConfigOK == policy \in Policies /\ kind \in Kinds /\ moving \in BOOLEAN /\ exists \in BOOLEAN
LoopOK ==
    /\ cur \in Public /\ tries \in 1 .. Attempts + 1 /\ rounds \in 1 .. Attempts + 1
    /\ sweeps \in 0 .. 2
ObjectsOK == fs \in [Public \cup Private -> Objects \cup {Nil}] /\ saved \in Objects \cup {Nil}
SourceOK ==
    /\ src \in 0 .. Edits \cup {Nil} /\ srcSeen \in 0 .. Edits \cup {Nil}
    /\ carried \in 0 .. Edits \cup {Nil}
OutcomeOK ==
    /\ claim \in {"none", "identity", "full", "upload", "gone"} /\ res \in Results
    /\ cancel \in {"no", "pending", "absorbed", "replaced"} /\ fail \in Failures
    /\ verdict \in {Nil, "copied", "skipped", "raised"}
ContractOK == announced \subseteq Public /\ target \in Public \cup {Nil} /\ lost \in BOOLEAN
HistoryOK == unborn \subseteq Foreign /\ alive \subseteq Foreign \ unborn /\ seen \subseteq Foreign
-----------------------------------------------------------------------------
\* The private names are three, and none of them is a public one.
LEMMA NamesAre ==
  /\ Requested \in Public /\ 1 \in Public
  /\ Payload \notin Public /\ Container \notin Public /\ Backup \notin Public
  /\ Payload # Container /\ Payload # Backup /\ Container # Backup
  /\ Private = {Payload, Container, Backup}
  /\ Nil \notin Public
  BY CopyAssumption, NilAssumption DEF Requested, Public, Payload, Container, Backup, Private

\* An object that was never renamed.
LEMMA NewIs ==
  ASSUME NEW i \in Foreign \cup {"ours", "box"}
  PROVE  New(i) \in Objects /\ New(i).id = i /\ New(i).moves = 0 /\ New(i) # Nil
  BY NilAssumption DEF New, Objects

\* The payload and the container are objects that nobody else owns.
LEMMA OursIs ==
  /\ New("ours") \in Objects /\ New("ours").id = "ours" /\ New("ours").moves = 0
  /\ New("box") \in Objects /\ New("box").id = "box" /\ New("box").moves = 0
  /\ New("ours") # Nil /\ New("box") # Nil
  /\ "ours" \notin Foreign /\ "box" \notin Foreign /\ New("ours") # New("box")
  <1>1. "ours" # "box" /\ "ours" \notin Foreign /\ "box" \notin Foreign
    BY CopyAssumption
  <1> QED
    BY <1>1, NewIs

\* A rename keeps the identity and counts.
LEMMA MovedIs ==
  ASSUME fs[op.from] \in Objects, fs[op.from].moves <= 1
  PROVE  /\ Moved \in Objects /\ Moved # Nil /\ Moved.id = fs[op.from].id
         /\ Moved.moves = fs[op.from].moves + 1
  BY NilAssumption DEF Moved, Objects
-----------------------------------------------------------------------------
\* What a drained step makes of the failure so far, whether it fails itself or not.
LEMMA Drains ==
  ASSUME TypeOK
  PROVE  /\ Composed("none") \in {"none", "conflict", "error", "cancelled"}
         /\ Composed("error") \in {"error", "cancelled"}
         /\ Composed("conflict") \in {"conflict", "error", "cancelled"}
         /\ Composed("none") = "none" <=> fail = "none" /\ cancel # "pending"
         /\ Composed("none") = "conflict" <=> fail = "conflict" /\ cancel # "pending"
         /\ fail = "none" /\ cancel # "pending" => Composed("conflict") = "conflict"
         /\ Composed("conflict") = "conflict" => fail \in {"none", "conflict"} /\ cancel # "pending"
         /\ fail \in {"error", "cancelled"} \/ cancel = "pending" =>
               /\ Composed("none") \in {"error", "cancelled"}
               /\ Composed("conflict") \in {"error", "cancelled"}
         /\ fail = "cancelled" \/ cancel = "pending" =>
               /\ Composed("none") = "cancelled" /\ Composed("error") = "cancelled"
               /\ Composed("conflict") = "cancelled"
         /\ cancel # "pending" =>
               /\ fail = "error" => Composed("none") = "error" /\ Composed("error") = "error"
               /\ fail = "none" => Composed("error") = "error"
  BY DEF Composed, Worse, Failures, TypeOK

\* What a failed publish makes of it.
LEMMA Worsens ==
  ASSUME TypeOK
  PROVE  /\ Worse(fail, AsFailure(res)) \in {"none", "conflict", "error", "cancelled"}
         /\ Worse(fail, AsFailure(res)) = "none" <=> fail = "none" /\ res = "ok"
         /\ Worse(fail, "error") \in {"error", "cancelled"}
         /\ fail \in {"error", "cancelled"} =>
               Worse(fail, AsFailure(res)) \in {"error", "cancelled"}
         /\ fail = "cancelled" =>
               Worse(fail, AsFailure(res)) = "cancelled" /\ Worse(fail, "error") = "cancelled"
  BY DEF Worse, AsFailure, Failures, Results, TypeOK

\* The four ways on from a lost race.
LEMMA Attempted ==
  ASSUME NextAttempt, op.then \in {"published", "ovw_fresh"}
  PROVE  \/ /\ op.then = "ovw_fresh" /\ pc' = "ovw_stat" /\ rounds' = rounds + 1
            /\ UNCHANGED <<exists, tries, sweeps>>
         \/ /\ op.then = "published" /\ policy = "RENAME" /\ pc' = "resolve" /\ tries' = tries + 1
            /\ UNCHANGED <<exists, rounds, sweeps>>
         \/ /\ op.then = "published" /\ policy = "OVERWRITE" /\ pc' = "announce"
            /\ tries' = tries + 1 /\ exists' = TRUE /\ UNCHANGED <<rounds, sweeps>>
         \/ /\ op.then = "published" /\ policy \notin {"RENAME", "OVERWRITE"}
            /\ pc' = "drop_payload" /\ sweeps' = 2 /\ UNCHANGED <<exists, tries, rounds>>
  BY DEF NextAttempt, Sweep
-----------------------------------------------------------------------------

\* A publication answers to the step that asked for it.
LEMMA Whither ==
  ASSUME Publication
  PROVE  /\ pc \in {"pub_check", "pub_rename", "pub_stat"} =>
               op.then \in {"published", "ovw_fresh", "committed", "backed", "restored"}
         /\ pc = "owned" => op.then \in {"published", "ovw_fresh"}
         /\ pc \in {"published", "ovw_fresh", "committed", "backed", "restored"} => op.then = pc
  BY DEF Publication, Publishing, Published

\* Until its end a copy has no verdict.
LEMMA Running ==
  ASSUME Control
  PROVE  pc # "end" => verdict = Nil /\ verdict \notin {"copied", "skipped", "raised"}
  BY NilAssumption DEF Control

\* What _stage_is_owned and the policy make of a lost race.
LEMMA Owning ==
  ASSUME TypeOK, Publication, Clean, StageOwned
  PROVE  /\ pc = "owned" /\ fail = "none"
         /\ \/ /\ pc' = "ovw_stat" /\ op.then = "ovw_fresh" /\ policy = "OVERWRITE"
               /\ rounds' = rounds + 1 /\ UNCHANGED <<fail, cancel, exists, tries, sweeps>>
            \/ /\ pc' = "resolve" /\ op.then = "published" /\ policy = "RENAME"
               /\ tries' = tries + 1 /\ UNCHANGED <<fail, cancel, exists, rounds, sweeps>>
            \/ /\ pc' = "announce" /\ op.then = "published" /\ policy = "OVERWRITE"
               /\ exists' = TRUE
               /\ tries' = tries + 1 /\ UNCHANGED <<fail, cancel, rounds, sweeps>>
            \/ /\ pc' = "drop_payload" /\ sweeps' \in 1 .. 2 /\ UNCHANGED <<exists, tries, rounds>>
               /\ \/ fail' = "none" /\ policy = "SKIP" /\ UNCHANGED cancel
                  \/ fail' \in {"conflict", "error"} /\ UNCHANGED cancel
                  \/ cancel' = "absorbed" /\ fail' = "cancelled"
         /\ UNCHANGED <<fs, src, config, lost, cur, stage, publish, srcSeen, contract, history>>
  <1>1. pc = "owned" /\ fail = "none"
    BY DEF StageOwned, Clean, Unspoiled
  <1>2. op.then \in {"published", "ovw_fresh"} /\ (op.then = "ovw_fresh" => policy = "OVERWRITE")
    BY <1>1 DEF Publication
  <1>3. /\ policy \in {"ERROR", "OVERWRITE", "SKIP", "RENAME"}
        /\ cancel \in {"no", "pending"}
    BY <1>1, CopyAssumption DEF TypeOK, Clean, Absorbed
  <1>4. UNCHANGED <<fs, src, config, lost, cur, stage, publish, srcSeen, contract, history>>
    BY DEF StageOwned
  <1> DEFINE Again == /\ NextAttempt /\ UNCHANGED cancel
                      /\ fail' = IF policy = "ERROR" THEN "conflict" ELSE fail
  <1>5. CASE Again
    <2>1. NextAttempt /\ UNCHANGED cancel /\ fail' = IF policy = "ERROR" THEN "conflict" ELSE fail
      BY <1>5
    <2>2. fail' = IF policy = "ERROR" THEN "conflict" ELSE "none"
      BY <1>1, <2>1
    <2>3. CASE policy = "ERROR"
      BY <1>1, <1>2, <1>4, <2>1, <2>2, <2>3, Attempted
    <2>4. CASE policy = "OVERWRITE"
      BY <1>1, <1>2, <1>4, <2>1, <2>2, <2>4, Attempted
    <2>5. CASE policy = "SKIP"
      BY <1>1, <1>2, <1>4, <2>1, <2>2, <2>5, Attempted
    <2>6. CASE policy = "RENAME"
      BY <1>1, <1>2, <1>4, <2>1, <2>2, <2>6, Attempted
    <2> QED
      BY <1>3, <2>3, <2>4, <2>5, <2>6
  <1>6. CASE ~Again
    <2>1. pc' = "drop_payload" /\ sweeps' \in 1 .. 2 /\ UNCHANGED <<exists, tries, rounds>>
      BY <1>6 DEF StageOwned, Sweep
    <2>2. \/ fail' = "conflict" /\ UNCHANGED cancel
          \/ Drained("error")
          \/ cancel = "pending" /\ Drained("none")
      BY <1>6 DEF StageOwned
    <2>3. \/ fail' \in {"conflict", "error"} /\ UNCHANGED cancel
          \/ cancel' = "absorbed" /\ fail' = "cancelled"
      BY <1>1, <1>3, <2>2, Drains DEF Drained, Heard
    <2> QED
      BY <1>1, <1>4, <2>1, <2>3
  <1> QED
    BY <1>5, <1>6

\* What a write at one name leaves alone.
LEMMA Written ==
  ASSUME TypeOK, NEW n \in Public \cup Private, NEW o, Put(n, o)
  PROVE  fs'[n] = o /\ \A m \in Public \cup Private: m # n => fs'[m] = fs[m]
  BY DEF TypeOK, Put

\* So for a public name,
LEMMA PublicWritten ==
  ASSUME TypeOK, NEW n \in Public, NEW o, Put(n, o)
  PROVE  /\ fs'[n] = o /\ \A m \in Public: m # n => fs'[m] = fs[m]
         /\ fs'[Payload] = fs[Payload] /\ fs'[Container] = fs[Container]
         /\ fs'[Backup] = fs[Backup]
  BY NamesAre, Written

\* and for each of the private ones.
LEMMA PrivateWritten ==
  ASSUME TypeOK, NEW o
  PROVE  /\ Put(Payload, o) =>
              /\ fs'[Payload] = o /\ fs'[Container] = fs[Container] /\ fs'[Backup] = fs[Backup]
              /\ \A m \in Public: fs'[m] = fs[m]
         /\ Put(Container, o) =>
              /\ fs'[Container] = o /\ fs'[Payload] = fs[Payload] /\ fs'[Backup] = fs[Backup]
              /\ \A m \in Public: fs'[m] = fs[m]
         /\ Put(Backup, o) =>
              /\ fs'[Backup] = o /\ fs'[Payload] = fs[Payload] /\ fs'[Container] = fs[Container]
              /\ \A m \in Public: fs'[m] = fs[m]
  BY NamesAre, Written

\* From where to where a publication moves, and what that does to the directory.
LEMMA Renames ==
  ASSUME TypeOK, Publication, Rename, pc \in {"pub_check", "pub_rename"}
  PROVE  /\ cur \in Public
         /\ \/ /\ op.then \in {"published", "ovw_fresh", "committed"}
               /\ op.from = Payload /\ op.to = cur /\ op.revision = New("ours") /\ target' = cur
               /\ fs'[cur] = Moved /\ \A n \in Public: n # cur => fs'[n] = fs[n]
               /\ fs'[Payload] = Nil /\ fs'[Backup] = fs[Backup]
            \/ /\ op.then = "backed"
               /\ op.from = cur /\ op.to = Backup /\ target' = target
               /\ fs'[cur] = Nil /\ \A n \in Public: n # cur => fs'[n] = fs[n]
               /\ fs'[Payload] = fs[Payload] /\ fs'[Backup] = Moved
            \/ /\ op.then = "restored"
               /\ op.from = Backup /\ op.to = cur /\ target' = target
               /\ fs'[cur] = Moved /\ \A n \in Public: n # cur => fs'[n] = fs[n]
               /\ fs'[Payload] = fs[Payload] /\ fs'[Backup] = Nil
         /\ fs'[Container] = fs[Container]
  <1>1. cur \in Public /\ fs \in [Public \cup Private -> Objects \cup {Nil}]
    BY DEF TypeOK
  <1>2. fs' = [fs EXCEPT ![op.from] = Nil, ![op.to] = Moved]
        /\ target' = IF op.from = Payload /\ op.to \in Public THEN op.to ELSE target
    BY DEF Rename
  <1>3. CASE op.from = Payload /\ op.to = cur /\ op.revision = New("ours")
             /\ op.then \in {"published", "ovw_fresh", "committed"}
    BY <1>1, <1>2, <1>3, NamesAre
  <1>4. CASE op.from = cur /\ op.to = Backup /\ op.then = "backed"
    BY <1>1, <1>2, <1>4, NamesAre
  <1>5. CASE op.from = Backup /\ op.to = cur /\ op.then = "restored"
    BY <1>1, <1>2, <1>5, NamesAre
  <1> QED
    BY <1>3, <1>4, <1>5 DEF Publication, Publishing

\* A stage belongs to a provider that publishes, and an upload to S3.
LEMMA Sides ==
  ASSUME Control
  PROVE  /\ pc \in {"read", "create", "parts", "send", "abort", "rollback", "written"} => Direct
         /\ pc \in {"exists", "claim", "verify", "open", "fill", "capture", "announce", "ovw_stat",
                    "pub_check", "pub_rename", "pub_stat", "published", "ovw_fresh", "backed",
                    "committed", "restored", "owned", "drop_backup", "close", "drop_payload",
                    "drop_container"} => ~Direct
  BY DEF Control, Writing, Naming

\* From where to where a publication under way moves.
LEMMA Aims ==
  ASSUME Publication, pc \in {"pub_check", "pub_rename", "pub_stat"}
  PROVE  \/ /\ op.then \in {"published", "ovw_fresh", "committed"}
            /\ op.from = Payload /\ op.to = cur /\ op.revision = New("ours")
         \/ /\ op.then = "backed" /\ op.from = cur /\ op.to = Backup /\ op.revision \in Objects
         \/ op.then = "restored" /\ op.from = Backup /\ op.to = cur
  BY DEF Publication, Publishing

\* What a publication renames was renamed once at most, and then to the backup name.
LEMMA Renamed ==
  ASSUME TypeOK, Publication, Control, BackedUpSafely, Unmoved, Fresh, MovedOnce, Unpublished,
         pc \in {"pub_check", "pub_rename"},
         fs[op.from] # Nil \/ (pc = "pub_check" /\ Validated)
  PROVE  /\ fs[op.from] # Nil /\ Moved \in Objects /\ Moved # Nil /\ Moved.id = fs[op.from].id
         /\ op.then = "backed" => Moved.moves = 1
  <1>0. fs[op.from] # Nil
    BY Aims, OursIs, NilAssumption DEF Validated, BackedUpSafely, Aside
  <1>1. fs[op.from] \in Objects
    BY <1>0, NamesAre DEF TypeOK, Publication, Publishing
  <1>2. CASE op.then = "backed"
    <2>1. target = Nil /\ saved = Nil /\ ~Direct
      BY <1>2, Sides DEF Unpublished, Unwritten, BackedUpSafely
    <2>2. op.from = cur /\ cur \in Public
      BY <1>2 DEF Publication, Publishing, TypeOK
    <2>3. fs[op.from].moves = 0
      BY <1>0, <2>1, <2>2 DEF Fresh
    <2> QED
      BY <1>0, <1>1, <2>3, MovedIs
  <1>3. CASE op.then # "backed"
    <2>1. op.from \in {Payload, Backup}
      BY <1>3 DEF Publication, Publishing
    <2>2. fs[op.from].moves <= 1
      BY <1>0, <2>1 DEF Unmoved, MovedOnce
    <2> QED
      BY <1>0, <1>1, <1>3, <2>2, MovedIs
  <1> QED
    BY <1>2, <1>3

\* An object survives a write at a name that holds another.
LEMMA Survives ==
  ASSUME TypeOK, NEW n \in Public \cup Private, NEW o, Put(n, o), NEW x,
         Somewhere(x), fs[n] = Nil \/ fs[n].id # x
  PROVE  Somewhere(x)'
  <1>1. PICK m \in Public \cup Private: fs[m] # Nil /\ fs[m].id = x
    BY DEF Somewhere
  <1>2. m # n
    BY <1>1
  <1>3. fs'[m] = fs[m]
    BY <1>2, Written
  <1> QED
    BY <1>1, <1>3 DEF Somewhere

\* And it moves with a rename that overwrites nothing.
LEMMA SurvivesRename ==
  ASSUME TypeOK, Publication, Control, BackedUpSafely, Unmoved, Fresh, MovedOnce, Unpublished,
         pc \in {"pub_check", "pub_rename"},
         fs[op.from] # Nil \/ (pc = "pub_check" /\ Validated), Free, Rename,
         NEW x, Somewhere(x)
  PROVE  Somewhere(x)'
  <1>1. PICK m \in Public \cup Private: fs[m] # Nil /\ fs[m].id = x
    BY DEF Somewhere
  <1>2. /\ Moved # Nil /\ Moved.id = fs[op.from].id
        /\ op.from \in Public \cup Private /\ op.to \in Public \cup Private
        /\ fs' = [fs EXCEPT ![op.from] = Nil, ![op.to] = Moved]
        /\ fs \in [Public \cup Private -> Objects \cup {Nil}] /\ fs[op.to] = Nil
    BY Renamed, Aims, NamesAre DEF TypeOK, Rename, Free
  <1>3. CASE m = op.from
    <2>1. fs'[op.to] = Moved /\ Moved.id = x
      BY <1>1, <1>2, <1>3
    <2> QED
      BY <1>2, <2>1 DEF Somewhere
  <1>4. CASE m # op.from
    <2>1. m # op.to
      BY <1>1, <1>2
    <2>2. fs'[m] = fs[m]
      BY <1>2, <1>4, <2>1
    <2> QED
      BY <1>1, <2>2 DEF Somewhere
  <1> QED
    BY <1>3, <1>4

\* What NoLoss asks for one object.
Spared(x) ==
    \/ Somewhere(x)
    \/ policy = "OVERWRITE" /\ target # Nil /\ (kind = "ideal" => x \in seen)

\* NoLoss, object by object.
LEMMA NoLossIs == NoLoss <=> \A x \in alive: Spared(x)
  BY DEF NoLoss, Spared

\* A write that hits nobody's object loses none.
LEMMA NoneLost ==
  ASSUME TypeOK, NoLoss, NEW n \in Public \cup Private, NEW o, Put(n, o),
         \A x \in alive: fs[n] = Nil \/ fs[n].id # x,
         UNCHANGED <<policy, kind, alive, seen>>, target' # Nil \/ UNCHANGED target
  PROVE  NoLoss'
  <1>1. ASSUME NEW x \in alive PROVE Spared(x)'
    BY <1>1, NoLossIs, Survives DEF Spared
  <1> QED
    BY <1>1 DEF NoLoss, Spared

\* A step that leaves the directory alone loses nothing.
LEMMA NoneMoved ==
  ASSUME NoLoss, UNCHANGED <<fs, policy, kind, alive, target>>, seen \subseteq seen'
  PROVE  NoLoss'
  BY DEF NoLoss, Somewhere

\* The objects of other processes are not the copy's own.
LEMMA Outsiders == TypeOK => \A x \in alive: x \in Foreign /\ x # "ours" /\ x # "box"
  BY OursIs DEF TypeOK

\* The steps of a copy that its caller sees.
LEMMA Finishes ==
  ASSUME verdict = Nil, verdict' \in {"copied", "skipped", "raised"}, cur \in Public,
         Appeared', Unpublished', UNCHANGED <<target, lost>>,
         \/ UNCHANGED announced
         \/ verdict' = "raised" /\ announced' = announced \cup {cur}
  PROVE  Contract!ContractNext
  <1>1. /\ verdict' = "copied" => target # Nil
        /\ verdict' = "skipped" => target = Nil \/ lost
    BY DEF Appeared, Unpublished, Unwritten
  <1>2. Contract!Finish(verdict')
    BY <1>1 DEF Contract!Finish
  <1> QED
    BY <1>2 DEF Contract!ContractNext

\* A name is announced while nothing has appeared.
LEMMA Announces ==
  ASSUME verdict = Nil, Unwritten, cur \in Public, announced' = announced \cup {cur},
         UNCHANGED <<target, verdict, lost>>
  PROVE  Contract!ContractNext
  <1>1. Contract!Announce(cur)
    BY DEF Contract!Announce, Unwritten
  <1> QED
    BY <1>1 DEF Contract!ContractNext

\* The payload appears under a name that was announced.
LEMMA Appearing ==
  ASSUME verdict = Nil, Unwritten, cur \in Public, cur \in announced, target' = cur,
         lost' \in {lost, TRUE}, UNCHANGED <<announced, verdict>>
  PROVE  Contract!ContractNext
  <1>1. Contract!Appear(cur)
    BY DEF Contract!Appear, Unwritten
  <1> QED
    BY <1>1 DEF Contract!ContractNext

\* What a step may show the caller: nothing, a verdict, an announcement, or the
\* payload under an announced name.
Ending ==
    /\ verdict' \in {"copied", "skipped", "raised"} /\ UNCHANGED <<target, lost>>
    /\ \/ UNCHANGED announced
       \/ verdict' = "raised" /\ announced' = announced \cup {cur}
Announcing ==
    Unwritten /\ announced' = announced \cup {cur} /\ UNCHANGED <<target, verdict, lost>>
Publishes ==
    /\ Unwritten /\ cur \in announced /\ target' = cur /\ lost' \in {lost, TRUE}
    /\ UNCHANGED <<announced, verdict>>
Shows ==
    \/ UNCHANGED <<announced, target, verdict, lost>>
    \/ pc # "end" /\ (Ending \/ Announcing \/ Publishes)

\* Each of these is a step of the contract.
LEMMA Agrees ==
  ASSUME TypeOK, Control, Appeared', Unpublished', Shows
  PROVE  [Contract!ContractNext]_(Contract!contractVars)
  <1>1. cur \in Public /\ (pc # "end" => verdict = Nil)
    BY Running DEF TypeOK
  <1>2. CASE UNCHANGED <<announced, target, verdict, lost>>
    BY <1>2 DEF Contract!contractVars
  <1>3. CASE pc # "end" /\ Ending
    BY <1>1, <1>3, Finishes DEF Ending
  <1>4. CASE pc # "end" /\ Announcing
    BY <1>1, <1>4, Announces DEF Announcing
  <1>5. CASE pc # "end" /\ Publishes
    BY <1>1, <1>5, Appearing DEF Publishes
  <1> QED
    BY <1>2, <1>3, <1>4, <1>5 DEF Shows
-----------------------------------------------------------------------------

\* The steps of a stage and those of an S3 write do not mix.
LEMMA NextControl == CopyInv /\ [Next]_vars => Control'
  <1> SUFFICES ASSUME CopyInv, [Next]_vars PROVE Control'
    OBVIOUS
  <1> USE DEF CopyInv, Control, Clean, Unspoiled, Direct, staged, Naming, Staging, Publishing,
      Published, Sweeping, Writing, Labels
  <1>0. sweeps \in 0 .. 2
    BY DEF TypeOK
  <1>1. CASE Start
    BY <1>1, <1>0, NilAssumption, Whither, Drains DEF Start, Awaiting, Raise, config, stage
  <1>2. CASE Resolve
    BY <1>2, <1>0, NilAssumption, Whither, Drains DEF Resolve, Awaiting, Chosen, Raise, config,
       stage
  <1>3. CASE Probe
    BY <1>3, <1>0, NilAssumption, Whither, Drains DEF Probe, Awaiting, Chosen, Raise, config,
       stage
  <1>4. CASE ExistsCheck
    BY <1>4, <1>0, NilAssumption, Whither, Drains DEF ExistsCheck, Awaiting, config, stage,
       contract, Raise, staged
  <1>5. CASE Intend
    BY <1>5, <1>0, NilAssumption, Whither, Drains DEF Intend, Awaiting, Raise, config, stage
  <1>6. CASE ClaimContainer
    BY <1>6, <1>0, NilAssumption, Whither, Drains DEF ClaimContainer, Drained, config, stage
  <1>7. CASE VerifyClaim
    BY <1>7, <1>0, NilAssumption, Whither, Drains DEF VerifyClaim, Drained, config, stage,
       contract
  <1>8. CASE OpenPayload
    BY <1>8, <1>0, NilAssumption, Whither, Drains DEF OpenPayload, Drained, config, contract
  <1>9. CASE FillPayload
    BY <1>9, <1>0, NilAssumption, Whither, Drains DEF FillPayload, Drained, stage, config,
       contract
  <1>10. CASE Capture
    BY <1>10, <1>0, NilAssumption, Whither, Drains DEF Capture, Drained, Sweep, config, stage,
       contract
  <1>11. CASE AnnounceAndPublish
    BY <1>11, <1>0, NilAssumption, Whither, Drains DEF AnnounceAndPublish, Awaiting, MayTry,
       PublishStage, Publish, Sweep, config, stage
  <1>12. CASE Exhausted
    BY <1>12, <1>0, NilAssumption, Whither, Drains DEF Exhausted, MayTry, Sweep, config, stage,
       contract
  <1>13. CASE PublishAtomically
    BY <1>13, <1>0, NilAssumption, Whither, Drains DEF PublishAtomically, Answer, Drained,
       config, stage
  <1>14. CASE PublishCheck
    BY <1>14, <1>0, NilAssumption, Whither, Drains DEF PublishCheck, Answer, Drained, config,
       stage, contract
  <1>15. CASE PublishRename
    BY <1>15, <1>0, NilAssumption, Whither, Drains DEF PublishRename, Answer, Drained, config,
       stage
  <1>16. CASE PublishStat
    BY <1>16, <1>0, NilAssumption, Whither, Drains DEF PublishStat, Answer, Drained, config,
       stage, contract
  <1>17. CASE AfterPublish
    BY <1>17, <1>0, NilAssumption, Whither, Drains DEF AfterPublish, Lost, GiveUp, Sweep,
       config, stage, contract
  <1>18. CASE StageOwned
    BY <1>18, <1>0, NilAssumption, Whither, Drains, Owning DEF config, stage, contract
  <1>19. CASE CloseContainer
    BY <1>19, <1>0, NilAssumption, Whither, Drains DEF CloseContainer, Drained, Sweep, config,
       stage
  <1>20. CASE DeleteSource
    BY <1>20, <1>0, NilAssumption, Whither, Drains DEF DeleteSource, SourceAsSeen, Drained,
       config, stage
  <1>21. CASE ObserveVictim
    BY <1>21, <1>0, NilAssumption, Whither, Drains DEF ObserveVictim, Awaiting, MayTry,
       PublishStage, Publish, config, stage, contract, Sweep, publish, staged
  <1>22. CASE PublishedFresh
    BY <1>22, <1>0, NilAssumption, Whither, Drains DEF PublishedFresh, Lost, GiveUp, Sweep,
       config, stage, contract
  <1>23. CASE BackedUp
    BY <1>23, <1>0, NilAssumption, Whither, Drains DEF BackedUp, GiveUp, Sweep, PublishStage,
       Publish, config, stage, contract
  <1>24. CASE Committed
    BY <1>24, <1>0, NilAssumption, Whither, Drains DEF Committed, Publish, config, stage,
       contract
  <1>25. CASE Restored
    BY <1>25, <1>0, NilAssumption, Whither, Drains DEF Restored, Sweep, config, stage, contract
  <1>26. CASE DropBackup
    BY <1>26, <1>0, NilAssumption, Whither, Drains DEF DropBackup, Drained, config, stage,
       contract
  <1>27. CASE DropPayload
    BY <1>27, <1>0, NilAssumption, Whither, Drains DEF DropPayload, Drained, config, stage,
       contract
  <1>28. CASE DropContainer
    BY <1>28, <1>0, NilAssumption, Whither, Drains DEF DropContainer, Drained, Swept, config,
       stage
  <1>29. CASE CancelledAtAwait
    BY <1>29, <1>0, NilAssumption, Whither, Drains DEF CancelledAtAwait, Sweep, Raise, config,
       stage
  <1>30. CASE FirstChunk
    BY <1>30, <1>0, NilAssumption, Whither, Drains DEF FirstChunk, Awaiting, config, contract
  <1>31. CASE CreateUpload
    BY <1>31, <1>0, NilAssumption, Whither, Drains DEF CreateUpload, Drained, config, contract
  <1>32. CASE UploadParts
    BY <1>32, <1>0, NilAssumption, Whither, Drains DEF UploadParts, Awaiting, config, contract
  <1>33. CASE SendObject
    BY <1>33, <1>0, NilAssumption, Whither, Drains DEF SendObject, Drained, Vacant, config
  <1>34. CASE AbortUpload
    BY <1>34, <1>0, NilAssumption, Whither, Drains DEF AbortUpload, Drained, config, contract
  <1>35. CASE RollBack
    BY <1>35, <1>0, NilAssumption, Whither, Drains DEF RollBack, config, stage, contract
  <1>36. CASE WriteEnds
    BY <1>36, <1>0, NilAssumption, Whither, Drains DEF WriteEnds, MayTry, config, stage
  <1>37. CASE CancelledInWrite
    BY <1>37, <1>0, NilAssumption, Whither, Drains DEF CancelledInWrite, config, stage, contract
  <1>38. CASE Cancel \/ EditSource \/ UNCHANGED vars \/ (\E x \in unborn: Tamper(x)) \/
             (\E x \in unborn: \E n \in Public: ExternalPut(n, x)) \/
             (\E n \in Public: ExternalRemove(n))
    <2>1. UNCHANGED <<policy, kind, pc, claim, fail, sweeps, verdict>>
      BY <1>38 DEF Cancel, config, stage, contract, EditSource, Quiet, vars, Tamper,
         ExternalPut, ExternalRemove
    <2> QED
      BY <2>1, <1>0
  <1> QED
    BY <1>1, <1>2, <1>3, <1>4, <1>5, <1>6, <1>7, <1>8, <1>9, <1>10, <1>11, <1>12, <1>13, <1>14,
       <1>15, <1>16, <1>17, <1>18, <1>19, <1>20, <1>21, <1>22, <1>23, <1>24, <1>25, <1>26,
       <1>27, <1>28, <1>29, <1>30, <1>31, <1>32, <1>33, <1>34, <1>35, <1>36, <1>37, <1>38 DEF
       Next, CopyStep, Environment, Ended

\* Each publish answers the caller that asked for it, with its bounds.
LEMMA NextPublication == CopyInv /\ [Next]_vars => Publication'
  <1> SUFFICES ASSUME CopyInv, [Next]_vars PROVE Publication'
    OBVIOUS
  <1> USE DEF CopyInv, Publication, Clean, Unspoiled, Undoing, Naming, Staging, Publishing,
      Published
  <1>0. fs[cur] # Nil => fs[cur] \in Objects
    BY NamesAre DEF TypeOK
  <1>1. CASE Start
    BY <1>1, Drains, Worsens, Whither DEF Start, Awaiting, Raise, staged, config, loop, publish
  <1>2. CASE Resolve
    BY <1>2, Drains, Worsens, Whither DEF Resolve, Awaiting, Chosen, staged, Direct, Raise,
       config, publish
  <1>3. CASE Probe
    BY <1>3, Drains, Worsens, Whither DEF Probe, Awaiting, Chosen, staged, Direct, Raise,
       config, publish
  <1>4. CASE ExistsCheck
    BY <1>4, Drains, Worsens, Whither DEF ExistsCheck, Awaiting, config, publish, Raise, staged
  <1>5. CASE Intend
    BY <1>5, Drains, Worsens, Whither DEF Intend, Awaiting, Direct, Raise, staged, config, loop,
       publish
  <1>6. CASE ClaimContainer
    BY <1>6, Drains, Worsens, Whither DEF ClaimContainer, Drained, config, loop, publish
  <1>7. CASE VerifyClaim
    BY <1>7, Drains, Worsens, Whither DEF VerifyClaim, Drained, config, loop, publish
  <1>8. CASE OpenPayload
    BY <1>8, Drains, Worsens, Whither DEF OpenPayload, Drained, config, loop, publish
  <1>9. CASE FillPayload
    BY <1>9, Drains, Worsens, Whither DEF FillPayload, Drained, config, loop, publish
  <1>10. CASE Capture
    BY <1>10, Drains, Worsens, Whither DEF Capture, Drained, Sweep, config, publish
  <1>11. CASE AnnounceAndPublish
    BY <1>11, Drains, Worsens, Whither DEF AnnounceAndPublish, Awaiting, MayTry, publish,
       PublishStage, Publish, Sweep, config
  <1>12. CASE Exhausted
    BY <1>12, Drains, Worsens, Whither DEF Exhausted, MayTry, Sweep, config, loop, publish
  <1>13. CASE PublishAtomically
    BY <1>13, Drains, Worsens, Whither DEF PublishAtomically, Answer, Drained, config, loop
  <1>14. CASE PublishCheck
    BY <1>14, Drains, Worsens, Whither DEF PublishCheck, Answer, Drained, config, loop
  <1>15. CASE PublishRename
    BY <1>15, Drains, Worsens, Whither DEF PublishRename, Answer, Drained, config, loop
  <1>16. CASE PublishStat
    BY <1>16, Drains, Worsens, Whither DEF PublishStat, Answer, Drained, config, loop
  <1>17. CASE AfterPublish
    BY <1>17, Drains, Worsens, Whither DEF AfterPublish, Lost, GiveUp, Sweep, config, loop,
       publish
  <1>18. CASE StageOwned
    BY <1>18, Drains, Worsens, Whither, Owning DEF config, publish
  <1>19. CASE CloseContainer
    BY <1>19, Drains, Worsens, Whither DEF CloseContainer, Drained, Sweep, config, loop, publish
  <1>20. CASE DeleteSource
    BY <1>20, Drains, Worsens, Whither DEF DeleteSource, SourceAsSeen, Drained, config, loop,
       publish
  <1>21. CASE ObserveVictim
    BY <1>21, Drains, Worsens, Whither, <1>0 DEF ObserveVictim, Awaiting, MayTry, PublishStage,
       Publish, config, loop, Sweep, publish, staged
  <1>22. CASE PublishedFresh
    BY <1>22, Drains, Worsens, Whither DEF PublishedFresh, Lost, GiveUp, Sweep, config, loop,
       publish
  <1>23. CASE BackedUp
    BY <1>23, Drains, Worsens, Whither DEF BackedUp, publish, GiveUp, Sweep, PublishStage,
       Publish, config
  <1>24. CASE Committed
    BY <1>24, Drains, Worsens, Whither DEF Committed, publish, Publish, config, loop
  <1>25. CASE Restored
    BY <1>25, Drains, Worsens, Whither DEF Restored, Sweep, config, loop, publish
  <1>26. CASE DropBackup
    BY <1>26, Drains, Worsens, Whither DEF DropBackup, Drained, config, loop, publish
  <1>27. CASE DropPayload
    BY <1>27, Drains, Worsens, Whither DEF DropPayload, Drained, config, loop, publish
  <1>28. CASE DropContainer
    BY <1>28, Drains, Worsens, Whither DEF DropContainer, Drained, config, loop, publish
  <1>29. CASE CancelledAtAwait
    BY <1>29, Drains, Worsens, Whither DEF CancelledAtAwait, Sweep, Raise, staged, config, loop,
       publish
  <1>30. CASE FirstChunk
    BY <1>30, Drains, Worsens, Whither DEF FirstChunk, Awaiting, config, loop, publish
  <1>31. CASE CreateUpload
    BY <1>31, Drains, Worsens, Whither DEF CreateUpload, Drained, config, loop, publish
  <1>32. CASE UploadParts
    BY <1>32, Drains, Worsens, Whither DEF UploadParts, Awaiting, config, loop, publish
  <1>33. CASE SendObject
    BY <1>33, Drains, Worsens, Whither DEF SendObject, Appears, Vacant, Drained, config, loop
  <1>34. CASE AbortUpload
    BY <1>34, Drains, Worsens, Whither DEF AbortUpload, Drained, config, loop, publish
  <1>35. CASE RollBack
    BY <1>35, Drains, Worsens, Whither DEF RollBack, config, loop, publish
  <1>36. CASE WriteEnds
    BY <1>36, Drains, Worsens, Whither DEF WriteEnds, MayTry, config, publish
  <1>37. CASE CancelledInWrite
    BY <1>37, Drains, Worsens, Whither DEF CancelledInWrite, config, loop, publish
  <1>38. CASE Cancel \/ EditSource \/ UNCHANGED vars \/ (\E x \in unborn: Tamper(x)) \/
             (\E x \in unborn: \E n \in Public: ExternalPut(n, x)) \/
             (\E n \in Public: ExternalRemove(n))
    <2>1. UNCHANGED <<policy, pc, cur, tries, rounds, op, saved, fail>>
      BY <1>38 DEF Cancel, config, loop, publish, EditSource, Quiet, vars, Tamper, ExternalPut,
         ExternalRemove
    <2> QED
      BY <2>1
  <1> QED
    BY <1>1, <1>2, <1>3, <1>4, <1>5, <1>6, <1>7, <1>8, <1>9, <1>10, <1>11, <1>12, <1>13, <1>14,
       <1>15, <1>16, <1>17, <1>18, <1>19, <1>20, <1>21, <1>22, <1>23, <1>24, <1>25, <1>26,
       <1>27, <1>28, <1>29, <1>30, <1>31, <1>32, <1>33, <1>34, <1>35, <1>36, <1>37, <1>38 DEF
       Next, CopyStep, Environment, Ended

\* After a failure no step goes on with the copy: it undoes or cleans up.
LEMMA NextUnspoiled == CopyInv /\ [Next]_vars => Unspoiled'
  <1> SUFFICES ASSUME CopyInv, [Next]_vars PROVE Unspoiled'
    OBVIOUS
  <1> USE DEF CopyInv, Unspoiled, Clean, Naming, Staging, Publishing, Published
  <1>1. CASE Start
    BY <1>1, Drains, Worsens, Whither DEF Start, Awaiting, Raise, staged
  <1>2. CASE Resolve
    BY <1>2, Drains, Worsens, Whither DEF Resolve, Awaiting, Chosen, staged, Direct, Raise
  <1>3. CASE Probe
    BY <1>3, Drains, Worsens, Whither DEF Probe, Awaiting, Chosen, staged, Direct, Raise
  <1>4. CASE ExistsCheck
    BY <1>4, Drains, Worsens, Whither DEF ExistsCheck, Awaiting, Raise, staged
  <1>5. CASE Intend
    BY <1>5, Drains, Worsens, Whither DEF Intend, Awaiting, Direct, Raise, staged
  <1>6. CASE ClaimContainer
    BY <1>6, Drains, Worsens, Whither DEF ClaimContainer, Drained
  <1>7. CASE VerifyClaim
    BY <1>7, Drains, Worsens, Whither DEF VerifyClaim, Drained
  <1>8. CASE OpenPayload
    BY <1>8, Drains, Worsens, Whither DEF OpenPayload, Drained
  <1>9. CASE FillPayload
    BY <1>9, Drains, Worsens, Whither DEF FillPayload, Drained
  <1>10. CASE Capture
    BY <1>10, Drains, Worsens, Whither DEF Capture, Drained, Sweep
  <1>11. CASE AnnounceAndPublish
    BY <1>11, Drains, Worsens, Whither DEF AnnounceAndPublish, Awaiting, MayTry, PublishStage,
       Publish, Sweep
  <1>12. CASE Exhausted
    BY <1>12, Drains, Worsens, Whither DEF Exhausted, MayTry, Sweep
  <1>13. CASE PublishAtomically
    BY <1>13, Drains, Worsens, Whither DEF PublishAtomically, Answer, Drained
  <1>14. CASE PublishCheck
    BY <1>14, Drains, Worsens, Whither DEF PublishCheck, Answer, Drained
  <1>15. CASE PublishRename
    BY <1>15, Drains, Worsens, Whither DEF PublishRename, Answer, Drained
  <1>16. CASE PublishStat
    BY <1>16, Drains, Worsens, Whither DEF PublishStat, Answer, Drained
  <1>17. CASE AfterPublish
    BY <1>17, Drains, Worsens, Whither DEF AfterPublish, Lost, GiveUp, Sweep
  <1>18. CASE StageOwned
    BY <1>18, Drains, Worsens, Whither, Owning
  <1>19. CASE CloseContainer
    BY <1>19, Drains, Worsens, Whither DEF CloseContainer, Drained, Sweep
  <1>20. CASE DeleteSource
    BY <1>20, Drains, Worsens, Whither DEF DeleteSource, SourceAsSeen, Drained
  <1>21. CASE ObserveVictim
    BY <1>21, Drains, Worsens, Whither DEF ObserveVictim, Awaiting, MayTry, PublishStage, Publish,
       Sweep, publish, staged
  <1>22. CASE PublishedFresh
    BY <1>22, Drains, Worsens, Whither DEF PublishedFresh, Lost, GiveUp, Sweep
  <1>23. CASE BackedUp
    BY <1>23, Drains, Worsens, Whither DEF BackedUp, GiveUp, Sweep, PublishStage, Publish
  <1>24. CASE Committed
    BY <1>24, Drains, Worsens, Whither DEF Committed, Publish
  <1>25. CASE Restored
    BY <1>25, Drains, Worsens, Whither DEF Restored, Sweep
  <1>26. CASE DropBackup
    BY <1>26, Drains, Worsens, Whither DEF DropBackup, Drained
  <1>27. CASE DropPayload
    BY <1>27, Drains, Worsens, Whither DEF DropPayload, Drained
  <1>28. CASE DropContainer
    BY <1>28, Drains, Worsens, Whither DEF DropContainer, Drained
  <1>29. CASE CancelledAtAwait
    BY <1>29, Drains, Worsens, Whither DEF CancelledAtAwait, Sweep, Raise, staged
  <1>30. CASE FirstChunk
    BY <1>30, Drains, Worsens, Whither DEF FirstChunk, Awaiting
  <1>31. CASE CreateUpload
    BY <1>31, Drains, Worsens, Whither DEF CreateUpload, Drained
  <1>32. CASE UploadParts
    BY <1>32, Drains, Worsens, Whither DEF UploadParts, Awaiting
  <1>33. CASE SendObject
    BY <1>33, Drains, Worsens, Whither DEF SendObject, Drained, Vacant
  <1>34. CASE AbortUpload
    BY <1>34, Drains, Worsens, Whither DEF AbortUpload, Drained
  <1>35. CASE RollBack
    BY <1>35, Drains, Worsens, Whither DEF RollBack
  <1>36. CASE WriteEnds
    BY <1>36, Drains, Worsens, Whither DEF WriteEnds, MayTry
  <1>37. CASE CancelledInWrite
    BY <1>37, Drains, Worsens, Whither DEF CancelledInWrite
  <1>38. CASE Cancel \/ EditSource \/ UNCHANGED vars \/ (\E x \in unborn: Tamper(x)) \/
             (\E x \in unborn: \E n \in Public: ExternalPut(n, x)) \/
             (\E n \in Public: ExternalRemove(n))
    <2>1. UNCHANGED <<pc, fail>>
      BY <1>38 DEF Cancel, EditSource, Quiet, vars, Tamper, ExternalPut, ExternalRemove
    <2> QED
      BY <2>1
  <1> QED
    BY <1>1, <1>2, <1>3, <1>4, <1>5, <1>6, <1>7, <1>8, <1>9, <1>10, <1>11, <1>12, <1>13, <1>14,
       <1>15, <1>16, <1>17, <1>18, <1>19, <1>20, <1>21, <1>22, <1>23, <1>24, <1>25, <1>26,
       <1>27, <1>28, <1>29, <1>30, <1>31, <1>32, <1>33, <1>34, <1>35, <1>36, <1>37, <1>38 DEF
       Next, CopyStep, Environment, Ended

\* What is moved back, aborted or rolled back follows a failure.
LEMMA NextUndoing == CopyInv /\ [Next]_vars => Undoing'
  <1> SUFFICES ASSUME CopyInv, [Next]_vars PROVE Undoing'
    OBVIOUS
  <1> USE DEF CopyInv, Undoing, Clean, Unspoiled, Naming, Staging, Publishing, Published
  <1>1. CASE Start
    BY <1>1, Drains, Worsens, Whither DEF Start, Awaiting, Raise, staged, publish
  <1>2. CASE Resolve
    BY <1>2, Drains, Worsens, Whither DEF Resolve, Awaiting, Chosen, staged, Direct, Raise,
       publish
  <1>3. CASE Probe
    BY <1>3, Drains, Worsens, Whither DEF Probe, Awaiting, Chosen, staged, Direct, Raise,
       publish
  <1>4. CASE ExistsCheck
    BY <1>4, Drains, Worsens, Whither DEF ExistsCheck, Awaiting, publish, Raise, staged
  <1>5. CASE Intend
    BY <1>5, Drains, Worsens, Whither DEF Intend, Awaiting, Direct, Raise, staged, publish
  <1>6. CASE ClaimContainer
    BY <1>6, Drains, Worsens, Whither DEF ClaimContainer, Drained, publish
  <1>7. CASE VerifyClaim
    BY <1>7, Drains, Worsens, Whither DEF VerifyClaim, Drained, publish
  <1>8. CASE OpenPayload
    BY <1>8, Drains, Worsens, Whither DEF OpenPayload, Drained, publish
  <1>9. CASE FillPayload
    BY <1>9, Drains, Worsens, Whither DEF FillPayload, Drained, publish
  <1>10. CASE Capture
    BY <1>10, Drains, Worsens, Whither DEF Capture, Drained, Sweep, publish
  <1>11. CASE AnnounceAndPublish
    BY <1>11, Drains, Worsens, Whither DEF AnnounceAndPublish, Awaiting, MayTry, publish,
       PublishStage, Publish, Sweep
  <1>12. CASE Exhausted
    BY <1>12, Drains, Worsens, Whither DEF Exhausted, MayTry, Sweep, publish
  <1>13. CASE PublishAtomically
    BY <1>13, Drains, Worsens, Whither DEF PublishAtomically, Answer, Drained
  <1>14. CASE PublishCheck
    BY <1>14, Drains, Worsens, Whither DEF PublishCheck, Answer, Drained
  <1>15. CASE PublishRename
    BY <1>15, Drains, Worsens, Whither DEF PublishRename, Answer, Drained
  <1>16. CASE PublishStat
    BY <1>16, Drains, Worsens, Whither DEF PublishStat, Answer, Drained
  <1>17. CASE AfterPublish
    BY <1>17, Drains, Worsens, Whither DEF AfterPublish, Lost, GiveUp, Sweep, publish
  <1>18. CASE StageOwned
    BY <1>18, Drains, Worsens, Whither, Owning DEF publish
  <1>19. CASE CloseContainer
    BY <1>19, Drains, Worsens, Whither DEF CloseContainer, Drained, Sweep, publish
  <1>20. CASE DeleteSource
    BY <1>20, Drains, Worsens, Whither DEF DeleteSource, SourceAsSeen, Drained, publish
  <1>21. CASE ObserveVictim
    BY <1>21, Drains, Worsens, Whither DEF ObserveVictim, Awaiting, MayTry, PublishStage, Publish,
       Sweep, publish, staged
  <1>22. CASE PublishedFresh
    BY <1>22, Drains, Worsens, Whither DEF PublishedFresh, Lost, GiveUp, Sweep, publish
  <1>23. CASE BackedUp
    BY <1>23, Drains, Worsens, Whither DEF BackedUp, publish, GiveUp, Sweep, PublishStage,
       Publish
  <1>24. CASE Committed
    BY <1>24, Drains, Worsens, Whither DEF Committed, publish, Publish
  <1>25. CASE Restored
    BY <1>25, Drains, Worsens, Whither DEF Restored, Sweep, publish
  <1>26. CASE DropBackup
    BY <1>26, Drains, Worsens, Whither DEF DropBackup, Drained, publish
  <1>27. CASE DropPayload
    BY <1>27, Drains, Worsens, Whither DEF DropPayload, Drained, publish
  <1>28. CASE DropContainer
    BY <1>28, Drains, Worsens, Whither DEF DropContainer, Drained, publish
  <1>29. CASE CancelledAtAwait
    BY <1>29, Drains, Worsens, Whither DEF CancelledAtAwait, Sweep, Raise, staged, publish
  <1>30. CASE FirstChunk
    BY <1>30, Drains, Worsens, Whither DEF FirstChunk, Awaiting, publish
  <1>31. CASE CreateUpload
    BY <1>31, Drains, Worsens, Whither DEF CreateUpload, Drained, publish
  <1>32. CASE UploadParts
    BY <1>32, Drains, Worsens, Whither DEF UploadParts, Awaiting, publish
  <1>33. CASE SendObject
    BY <1>33, Drains, Worsens, Whither DEF SendObject, Drained, Vacant
  <1>34. CASE AbortUpload
    BY <1>34, Drains, Worsens, Whither DEF AbortUpload, Drained, publish
  <1>35. CASE RollBack
    BY <1>35, Drains, Worsens, Whither DEF RollBack, publish
  <1>36. CASE WriteEnds
    BY <1>36, Drains, Worsens, Whither DEF WriteEnds, MayTry, publish
  <1>37. CASE CancelledInWrite
    BY <1>37, Drains, Worsens, Whither DEF CancelledInWrite, publish
  <1>38. CASE Cancel \/ EditSource \/ UNCHANGED vars \/ (\E x \in unborn: Tamper(x)) \/
             (\E x \in unborn: \E n \in Public: ExternalPut(n, x)) \/
             (\E n \in Public: ExternalRemove(n))
    <2>1. UNCHANGED <<pc, op, fail>>
      BY <1>38 DEF Cancel, publish, EditSource, Quiet, vars, Tamper, ExternalPut, ExternalRemove
    <2> QED
      BY <2>1
  <1> QED
    BY <1>1, <1>2, <1>3, <1>4, <1>5, <1>6, <1>7, <1>8, <1>9, <1>10, <1>11, <1>12, <1>13, <1>14,
       <1>15, <1>16, <1>17, <1>18, <1>19, <1>20, <1>21, <1>22, <1>23, <1>24, <1>25, <1>26,
       <1>27, <1>28, <1>29, <1>30, <1>31, <1>32, <1>33, <1>34, <1>35, <1>36, <1>37, <1>38 DEF
       Next, CopyStep, Environment, Ended

\* _durably_run forgets no cancellation.
LEMMA NextAbsorbed == CopyInv /\ [Next]_vars => Absorbed'
  <1> SUFFICES ASSUME CopyInv, [Next]_vars PROVE Absorbed'
    OBVIOUS
  <1> USE DEF CopyInv, Absorbed, Clean, Unspoiled, Undoing, Naming, Staging, Publishing,
      Sweep, Publish, PublishStage
  <1>1. CASE Start
    BY <1>1, Drains, Worsens, Whither DEF Start, Awaiting, Raise, staged
  <1>2. CASE Resolve
    BY <1>2, Drains, Worsens, Whither DEF Resolve, Awaiting, Chosen, staged, Direct, Raise
  <1>3. CASE Probe
    BY <1>3, Drains, Worsens, Whither DEF Probe, Awaiting, Chosen, staged, Direct, Raise
  <1>4. CASE Intend
    BY <1>4, Drains, Worsens, Whither DEF Intend, Awaiting, Direct, Raise, staged
  <1>5. CASE ClaimContainer
    BY <1>5, Drains, Worsens, Whither DEF ClaimContainer, Drained, Heard
  <1>6. CASE VerifyClaim
    BY <1>6, Drains, Worsens, Whither DEF VerifyClaim, Drained, Heard
  <1>7. CASE OpenPayload
    BY <1>7, Drains, Worsens, Whither DEF OpenPayload, Drained, Heard
  <1>8. CASE FillPayload
    BY <1>8, Drains, Worsens, Whither DEF FillPayload, Drained, Heard
  <1>9. CASE Capture
    BY <1>9, Drains, Worsens, Whither DEF Capture, Drained, Heard
  <1>10. CASE AnnounceAndPublish
    BY <1>10, Drains, Worsens, Whither DEF AnnounceAndPublish, Awaiting, MayTry
  <1>11. CASE Exhausted
    BY <1>11, Drains, Worsens, Whither DEF Exhausted, MayTry
  <1>12. CASE PublishAtomically
    BY <1>12, Drains, Worsens, Whither DEF PublishAtomically, Answer, Drained, Heard
  <1>13. CASE PublishCheck
    BY <1>13, Drains, Worsens, Whither DEF PublishCheck, Answer, Drained, Heard
  <1>14. CASE PublishRename
    BY <1>14, Drains, Worsens, Whither DEF PublishRename, Answer, Drained, Heard
  <1>15. CASE PublishStat
    BY <1>15, Drains, Worsens, Whither DEF PublishStat, Answer, Drained, Heard
  <1>16. CASE AfterPublish
    BY <1>16, Drains, Worsens, Whither DEF AfterPublish, Lost, GiveUp
  <1>17. CASE StageOwned
    BY <1>17, Drains, Worsens, Whither, Owning
  <1>18. CASE CloseContainer
    BY <1>18, Drains, Worsens, Whither DEF CloseContainer, Drained, Heard
  <1>19. CASE DeleteSource
    BY <1>19, Drains, Worsens, Whither DEF DeleteSource, SourceAsSeen, Drained, Heard
  <1>20. CASE PublishedFresh
    BY <1>20, Drains, Worsens, Whither DEF PublishedFresh, Lost, GiveUp
  <1>21. CASE BackedUp
    BY <1>21, Drains, Worsens, Whither DEF BackedUp, GiveUp
  <1>22. CASE Committed
    BY <1>22, Drains, Worsens, Whither DEF Committed
  <1>23. CASE Restored
    BY <1>23, Drains, Worsens, Whither DEF Restored
  <1>24. CASE DropBackup
    BY <1>24, Drains, Worsens, Whither DEF DropBackup, Drained, Heard
  <1>25. CASE DropPayload
    BY <1>25, Drains, Worsens, Whither DEF DropPayload, Drained, Heard
  <1>26. CASE DropContainer
    BY <1>26, Drains, Worsens, Whither DEF DropContainer, Drained, Heard
  <1>27. CASE CancelledAtAwait
    BY <1>27, Drains, Worsens, Whither DEF CancelledAtAwait, Raise, staged
  <1>28. CASE FirstChunk
    BY <1>28, Drains, Worsens, Whither DEF FirstChunk, Awaiting
  <1>29. CASE CreateUpload
    BY <1>29, Drains, Worsens, Whither DEF CreateUpload, Drained, Heard
  <1>30. CASE UploadParts
    BY <1>30, Drains, Worsens, Whither DEF UploadParts, Awaiting
  <1>31. CASE SendObject
    BY <1>31, Drains, Worsens, Whither DEF SendObject, Drained, Heard, Vacant
  <1>32. CASE AbortUpload
    BY <1>32, Drains, Worsens, Whither DEF AbortUpload, Drained, Heard
  <1>33. CASE WriteEnds
    BY <1>33, Drains, Worsens, Whither DEF WriteEnds, Heard, MayTry
  <1>34. CASE CancelledInWrite
    BY <1>34, Drains, Worsens, Whither DEF CancelledInWrite
  <1>35. CASE Cancel
    BY <1>35, Drains, Worsens, Whither DEF Cancel
  <1>36. CASE ExistsCheck
    BY <1>36, Drains, Worsens, Whither DEF ExistsCheck, Awaiting, Raise, staged
  <1>37. CASE ObserveVictim
    BY <1>37, Drains, Worsens, Whither DEF ObserveVictim, Awaiting, MayTry, Sweep, publish, staged
  <1>38. CASE RollBack
    BY <1>38, Drains, Worsens, Whither DEF RollBack
  <1>39. CASE EditSource \/ UNCHANGED vars \/
             (\E x \in unborn: Tamper(x)) \/
             (\E x \in unborn: \E n \in Public: ExternalPut(n, x)) \/
             (\E n \in Public: ExternalRemove(n))
    <2>1. UNCHANGED <<cancel, fail, pc>>
      BY <1>39 DEF EditSource, Quiet, vars, Tamper, ExternalPut, ExternalRemove
    <2> QED
      BY <2>1
  <1> QED
    BY <1>1, <1>2, <1>3, <1>4, <1>5, <1>6, <1>7, <1>8, <1>9, <1>10, <1>11, <1>12, <1>13, <1>14,
       <1>15, <1>16, <1>17, <1>18, <1>19, <1>20, <1>21, <1>22, <1>23, <1>24, <1>25, <1>26,
       <1>27, <1>28, <1>29, <1>30, <1>31, <1>32, <1>33, <1>34, <1>35, <1>39, <1>36, <1>37, <1>38 DEF Next, CopyStep,
       Environment, Ended

\* Each return of the copy has seen no failure.
LEMMA NextReturned == CopyInv /\ [Next]_vars => Returned'
  <1> SUFFICES ASSUME CopyInv, [Next]_vars PROVE Returned'
    OBVIOUS
  <1> USE DEF CopyInv, Returned, Clean, Unspoiled, Naming
  <1>1. CASE Start
    BY <1>1, Drains, Worsens, Running, Whither DEF Start, Awaiting, Raise, staged
  <1>2. CASE Resolve
    BY <1>2, Drains, Worsens, Running, Whither DEF Resolve, Awaiting, Chosen, staged, Direct,
       Raise
  <1>3. CASE Probe
    BY <1>3, Drains, Worsens, Running, Whither DEF Probe, Awaiting, Chosen, staged, Direct,
       Raise
  <1>4. CASE Intend
    BY <1>4, Drains, Worsens, Running, Whither DEF Intend, Awaiting, Direct, Raise, staged
  <1>5. CASE ClaimContainer
    BY <1>5, Drains, Worsens, Running, Whither DEF ClaimContainer, Drained
  <1>6. CASE VerifyClaim
    BY <1>6, Drains, Worsens, Running, Whither DEF VerifyClaim, Drained, contract
  <1>7. CASE OpenPayload
    BY <1>7, Drains, Worsens, Running, Whither DEF OpenPayload, Drained, contract
  <1>8. CASE FillPayload
    BY <1>8, Drains, Worsens, Running, Whither DEF FillPayload, Drained, contract
  <1>9. CASE Capture
    BY <1>9, Drains, Worsens, Running, Whither DEF Capture, Drained, contract
  <1>10. CASE AnnounceAndPublish
    BY <1>10, Drains, Worsens, Running, Whither DEF AnnounceAndPublish, Awaiting, MayTry
  <1>11. CASE Exhausted
    BY <1>11, Drains, Worsens, Running, Whither DEF Exhausted, MayTry, contract
  <1>12. CASE PublishAtomically
    BY <1>12, Drains, Worsens, Running, Whither DEF PublishAtomically, Answer, Drained
  <1>13. CASE PublishCheck
    BY <1>13, Drains, Worsens, Running, Whither DEF PublishCheck, Answer, Drained, contract
  <1>14. CASE PublishRename
    BY <1>14, Drains, Worsens, Running, Whither DEF PublishRename, Answer, Drained
  <1>15. CASE PublishStat
    BY <1>15, Drains, Worsens, Running, Whither DEF PublishStat, Answer, Drained, contract
  <1>16. CASE AfterPublish
    BY <1>16, Drains, Worsens, Running, Whither DEF AfterPublish, Lost, GiveUp, contract
  <1>17. CASE StageOwned
    BY <1>17, Drains, Worsens, Running, Whither, Owning DEF contract
  <1>18. CASE CloseContainer
    BY <1>18, Drains, Worsens, Running, Whither DEF CloseContainer, Drained
  <1>19. CASE DeleteSource
    BY <1>19, Drains, Worsens, Running, Whither DEF DeleteSource, SourceAsSeen, Drained
  <1>20. CASE PublishedFresh
    BY <1>20, Drains, Worsens, Running, Whither DEF PublishedFresh, Lost, GiveUp, contract
  <1>21. CASE BackedUp
    BY <1>21, Drains, Worsens, Running, Whither DEF BackedUp, GiveUp, contract
  <1>22. CASE Committed
    BY <1>22, Drains, Worsens, Running, Whither DEF Committed, contract
  <1>23. CASE Restored
    BY <1>23, Drains, Worsens, Running, Whither DEF Restored, contract
  <1>24. CASE DropBackup
    BY <1>24, Drains, Worsens, Running, Whither DEF DropBackup, Drained, contract
  <1>25. CASE DropPayload
    BY <1>25, Drains, Worsens, Running, Whither DEF DropPayload, Drained, contract
  <1>26. CASE DropContainer
    BY <1>26, Drains, Worsens, Running, Whither DEF DropContainer, Drained
  <1>27. CASE CancelledAtAwait
    BY <1>27, Drains, Worsens, Running, Whither DEF CancelledAtAwait, Raise, staged
  <1>28. CASE FirstChunk
    BY <1>28, Drains, Worsens, Running, Whither DEF FirstChunk, Awaiting, contract
  <1>29. CASE CreateUpload
    BY <1>29, Drains, Worsens, Running, Whither DEF CreateUpload, Drained, contract
  <1>30. CASE UploadParts
    BY <1>30, Drains, Worsens, Running, Whither DEF UploadParts, Awaiting, contract
  <1>31. CASE SendObject
    BY <1>31, Drains, Worsens, Running, Whither DEF SendObject, Drained, Vacant
  <1>32. CASE AbortUpload
    BY <1>32, Drains, Worsens, Running, Whither DEF AbortUpload, Drained, contract
  <1>33. CASE WriteEnds
    BY <1>33, Drains, Worsens, Running, Whither DEF WriteEnds, MayTry
  <1>34. CASE CancelledInWrite
    BY <1>34, Drains, Worsens, Running, Whither DEF CancelledInWrite, contract
  <1>36. CASE ExistsCheck
    BY <1>36, Drains, Worsens, Running, Whither DEF ExistsCheck, Awaiting, Raise, staged
  <1>37. CASE ObserveVictim
    BY <1>37, Drains, Worsens, Running, Whither DEF ObserveVictim, Awaiting, Sweep, contract
  <1>35. CASE RollBack \/ Cancel \/ EditSource \/ UNCHANGED vars \/ (\E x \in unborn: Tamper(x)) \/
             (\E x \in unborn: \E n \in Public: ExternalPut(n, x)) \/
             (\E n \in Public: ExternalRemove(n))
    <2>1. UNCHANGED <<fail, verdict>>
      BY <1>35 DEF contract, RollBack, Cancel, EditSource, Quiet, vars, Tamper, ExternalPut,
         ExternalRemove
    <2> QED
      BY <2>1
  <1> QED
    BY <1>1, <1>2, <1>3, <1>4, <1>5, <1>6, <1>7, <1>8, <1>9, <1>10, <1>11, <1>12, <1>13, <1>14,
       <1>15, <1>16, <1>17, <1>18, <1>19, <1>20, <1>21, <1>22, <1>23, <1>24, <1>25, <1>26,
       <1>27, <1>28, <1>29, <1>30, <1>31, <1>32, <1>33, <1>34, <1>35, <1>36, <1>37 DEF Next,
       CopyStep, Environment, Ended

\* The original leaves the destination for the backup name, and the backup name
\* for the destination or for good.
LEMMA NextBackedUpSafely == CopyInv /\ [Next]_vars => BackedUpSafely'
  <1> SUFFICES ASSUME CopyInv, [Next]_vars PROVE BackedUpSafely'
    OBVIOUS
  <1> USE DEF CopyInv, BackedUpSafely, Aside, Clean, Unspoiled, Undoing, Direct, Naming,
      Staging, Publishing, Published, Sweeping
  <1>0. cur \in Public /\ Nil \notin Objects
    BY NilAssumption DEF TypeOK
  <1>1. Direct => fs[Backup] = Nil
    BY DEF Privately, Bare
  <1>2. CASE Start
    BY <1>2, <1>0, Drains, Worsens, Whither, Sides DEF Start, Awaiting, Raise, staged, config,
       publish
  <1>3. CASE Resolve
    BY <1>3, <1>0, Drains, Worsens, Whither, Sides DEF Resolve, Awaiting, Chosen, staged, Raise,
       config, publish
  <1>4. CASE Probe
    BY <1>4, <1>0, Drains, Worsens, Whither, Sides DEF Probe, Awaiting, Chosen, staged, Raise,
       config, publish
  <1>5. CASE ExistsCheck
    BY <1>5, <1>0, Drains, Worsens, Whither, Sides DEF ExistsCheck, Awaiting, config, publish,
       Raise, staged
  <1>6. CASE Intend
    BY <1>6, <1>0, Drains, Worsens, Whither, Sides DEF Intend, Awaiting, Raise, staged, config,
       publish
  <1>7. CASE ClaimContainer
    BY <1>7, <1>0, Drains, Worsens, Whither, Sides, PrivateWritten DEF ClaimContainer, Drained,
       config, publish
  <1>8. CASE VerifyClaim
    BY <1>8, <1>0, Drains, Worsens, Whither, Sides DEF VerifyClaim, Drained, config, publish
  <1>9. CASE OpenPayload
    BY <1>9, <1>0, Drains, Worsens, Whither, Sides, PrivateWritten DEF OpenPayload, Drained,
       config, publish
  <1>10. CASE FillPayload
    BY <1>10, <1>0, Drains, Worsens, Whither, Sides DEF FillPayload, Drained, config, publish
  <1>11. CASE Capture
    BY <1>11, <1>0, Drains, Worsens, Whither, Sides DEF Capture, Drained, Sweep, config, publish
  <1>12. CASE AnnounceAndPublish
    BY <1>12, <1>0, Drains, Worsens, Whither, Sides DEF AnnounceAndPublish, Awaiting, MayTry,
       publish, PublishStage, Publish, Sweep, config
  <1>13. CASE Exhausted
    BY <1>13, <1>0, Drains, Worsens, Whither, Sides DEF Exhausted, MayTry, Sweep, config,
       publish
  <1>14. CASE PublishAtomically
    <2>1. CASE op.then \in {"published", "ovw_fresh", "committed"}
      BY <1>14, <2>1, <1>0, Drains, Sides, Renames, Renamed, NamesAre DEF PublishAtomically, Answer,
         Drained, Free, config
    <2>2. CASE op.then = "backed"
      BY <1>14, <2>2, <1>0, Drains, Sides, Renames, Renamed, NamesAre DEF PublishAtomically, Answer,
         Drained, Free, config
    <2>3. CASE op.then = "restored"
      BY <1>14, <2>3, <1>0, Drains, Sides, Renames, Renamed, NamesAre DEF PublishAtomically, Answer,
         Drained, Free, config
    <2> QED
      BY <1>14, <2>1, <2>2, <2>3, Aims DEF PublishAtomically
  <1>15. CASE PublishCheck
    BY <1>15, <1>0, Drains, Worsens, Whither, Sides DEF PublishCheck, Answer, Drained, config
  <1>16. CASE PublishRename
    BY <1>16, <1>0, Drains, Worsens, Whither, Sides, Renames, Renamed DEF PublishRename, Answer,
       Drained, config
  <1>17. CASE PublishStat
    <2>1. CASE op.then \in {"published", "ovw_fresh", "committed"}
      BY <1>17, <2>1, <1>0, Drains, Sides, Aims, NamesAre DEF PublishStat, Answer, Drained, config
    <2>2. CASE op.then = "backed"
      BY <1>17, <2>2, <1>0, Drains, Sides, Aims, NamesAre DEF PublishStat, Answer, Drained, config
    <2>3. CASE op.then = "restored"
      BY <1>17, <2>3, <1>0, Drains, Sides, Aims, NamesAre DEF PublishStat, Answer, Drained, config
    <2> QED
      BY <1>17, <2>1, <2>2, <2>3, Aims DEF PublishStat
  <1>18. CASE AfterPublish
    BY <1>18, <1>0, Drains, Worsens, Whither, Sides DEF AfterPublish, Lost, GiveUp, Sweep,
       config, publish
  <1>19. CASE StageOwned
    BY <1>19, <1>0, Drains, Worsens, Whither, Sides, Owning DEF config, publish
  <1>20. CASE CloseContainer
    BY <1>20, <1>0, Drains, Worsens, Whither, Sides, PrivateWritten DEF CloseContainer, Remove,
       Drained, Sweep, config, publish
  <1>21. CASE DeleteSource
    BY <1>21, <1>0, Drains, Worsens, Whither, Sides DEF DeleteSource, SourceAsSeen, Drained,
       config, publish
  <1>22. CASE ObserveVictim
    BY <1>22, <1>0, Drains, Worsens, Whither, Sides DEF ObserveVictim, Awaiting, MayTry,
       PublishStage, Publish, config, Sweep, publish, staged
  <1>23. CASE PublishedFresh
    BY <1>23, <1>0, Drains, Worsens, Whither, Sides DEF PublishedFresh, Lost, GiveUp, Sweep,
       config, publish
  <1>24. CASE BackedUp
    BY <1>24, <1>0, Drains, Worsens, Whither, Sides DEF BackedUp, publish, GiveUp, Sweep,
       PublishStage, Publish, config
  <1>25. CASE Committed
    BY <1>25, <1>0, Drains, Worsens, Whither, Sides DEF Committed, publish, Publish, config
  <1>26. CASE Restored
    BY <1>26, <1>0, Drains, Worsens, Whither, Sides DEF Restored, Sweep, config, publish
  <1>27. CASE DropBackup
    BY <1>27, <1>0, Drains, Worsens, Whither, Sides, PrivateWritten DEF DropBackup, Remove,
       Drained, config, publish
  <1>28. CASE DropPayload
    BY <1>28, <1>0, Drains, Worsens, Whither, Sides, PrivateWritten DEF DropPayload, Remove,
       Drained, config, publish
  <1>29. CASE DropContainer
    BY <1>29, <1>0, Drains, Worsens, Whither, Sides, PrivateWritten DEF DropContainer, Drained,
       Remove, config, publish
  <1>30. CASE CancelledAtAwait
    BY <1>30, <1>0, Drains, Worsens, Whither, Sides DEF CancelledAtAwait, Sweep, Raise, staged,
       config, publish
  <1>31. CASE FirstChunk
    BY <1>31, <1>0, Drains, Worsens, Whither, Sides DEF FirstChunk, Awaiting, config, publish
  <1>32. CASE CreateUpload
    BY <1>32, <1>0, Drains, Worsens, Whither, Sides DEF CreateUpload, Drained, config, publish
  <1>33. CASE UploadParts
    BY <1>33, <1>0, Drains, Worsens, Whither, Sides DEF UploadParts, Awaiting, config, publish
  <1>34. CASE SendObject
    BY <1>34, <1>0, Drains, Worsens, Whither, Sides, PublicWritten DEF SendObject, Appears,
       Vacant, Drained, config
  <1>35. CASE AbortUpload
    BY <1>35, <1>0, Drains, Worsens, Whither, Sides DEF AbortUpload, Drained, config, publish
  <1>36. CASE RollBack
    BY <1>36, <1>0, Drains, Worsens, Whither, Sides, PublicWritten DEF RollBack, config, publish
  <1>37. CASE WriteEnds
    BY <1>37, <1>0, Drains, Worsens, Whither, Sides, <1>1 DEF WriteEnds, MayTry, config, publish
  <1>38. CASE CancelledInWrite
    BY <1>38, <1>0, Drains, Worsens, Whither, Sides DEF CancelledInWrite, config, publish
  <1>39. ASSUME NEW x \in unborn, Tamper(x) PROVE BackedUpSafely'
    BY <1>39, <1>0, Drains, Worsens, Whither, Sides, PrivateWritten DEF Tamper, Quiet, config,
       publish
  <1>40. ASSUME NEW x \in unborn, NEW n \in Public, ExternalPut(n, x) PROVE BackedUpSafely'
    BY <1>40, <1>0, Drains, Worsens, Whither, Sides, PublicWritten, OursIs DEF ExternalPut,
       IdAt, Quiet, config, publish
  <1>41. ASSUME NEW n \in Public, ExternalRemove(n) PROVE BackedUpSafely'
    BY <1>41, <1>0, Drains, Worsens, Whither, Sides, PublicWritten DEF ExternalRemove, Remove,
       IdAt, Quiet, config, publish
  <1>42. CASE Cancel \/ EditSource \/ UNCHANGED vars
    <2>1. UNCHANGED <<fs, policy, kind, pc, op, res, saved, fail>>
      BY <1>42 DEF Cancel, config, publish, EditSource, Quiet, vars
    <2> QED
      BY <2>1, <1>0
  <1> QED
    BY <1>2, <1>3, <1>4, <1>5, <1>6, <1>7, <1>8, <1>9, <1>10, <1>11, <1>12, <1>13, <1>14, <1>15,
       <1>16, <1>17, <1>18, <1>19, <1>20, <1>21, <1>22, <1>23, <1>24, <1>25, <1>26, <1>27,
       <1>28, <1>29, <1>30, <1>31, <1>32, <1>33, <1>34, <1>35, <1>36, <1>37, <1>38, <1>39,
       <1>40, <1>41, <1>42 DEF Next, CopyStep, Environment, Ended

\* Whatever a private name holds is claimed or raised.
LEMMA NextPrivately == CopyInv /\ [Next]_vars => Privately'
  <1> SUFFICES ASSUME CopyInv, [Next]_vars PROVE Privately'
    OBVIOUS
  <1> USE DEF CopyInv, Privately, Bare, Clean, Unspoiled, Direct, staged, Naming, Staging,
      Publishing, Published
  <1>0. cur \in Public /\ Nil \notin Objects
    BY NilAssumption DEF TypeOK
  <1>1. /\ pc \in {"resolve", "probe"} => claim = "none" \/ (staged /\ policy = "RENAME")
        /\ pc \in {"owned", "close"} => staged
        /\ pc = "delete_source" => claim # "upload"
        /\ pc = "written" /\ fail \in {"none", "conflict"} => claim = "none"
        /\ ~Direct => claim \in {"none", "identity", "full"}
    BY DEF Control, Writing
  <1>2. pc \in {"close", "delete_source", "drop_payload", "drop_container"} /\ fail = "none" =>
          fs[Backup] = Nil
    BY DEF BackedUpSafely, Sweeping
  <1>3. CASE Start
    BY <1>3, <1>0, <1>1, <1>2, Drains, Whither, Sides, Running, OursIs DEF Start, Awaiting,
       Raise, config, stage
  <1>4. CASE Resolve
    BY <1>4, <1>0, <1>1, <1>2, Drains, Whither, Sides, Running, OursIs DEF Resolve, Awaiting,
       Chosen, Raise, config, stage
  <1>5. CASE Probe
    BY <1>5, <1>0, <1>1, <1>2, Drains, Whither, Sides, Running, OursIs DEF Probe, Awaiting,
       Chosen, Raise, config, stage
  <1>6. CASE ExistsCheck
    BY <1>6, <1>0, <1>1, <1>2, Drains, Whither, Sides, Running, OursIs DEF ExistsCheck, Awaiting,
       config, stage, contract, Raise, staged
  <1>7. CASE Intend
    BY <1>7, <1>0, <1>1, <1>2, Drains, Whither, Sides, Running, OursIs DEF Intend, Awaiting,
       Raise, config, stage
  <1>8. CASE ClaimContainer
    BY <1>8, <1>0, <1>1, <1>2, Drains, Whither, Sides, Running, OursIs, PrivateWritten DEF
       ClaimContainer, Drained, config, stage
  <1>9. CASE VerifyClaim
    BY <1>9, <1>0, <1>1, <1>2, Drains, Whither, Sides, Running, OursIs DEF VerifyClaim, Drained,
       config, stage, contract
  <1>10. CASE OpenPayload
    BY <1>10, <1>0, <1>1, <1>2, Drains, Whither, Sides, Running, OursIs, PrivateWritten DEF
       OpenPayload, Drained, config, contract
  <1>11. CASE FillPayload
    BY <1>11, <1>0, <1>1, <1>2, Drains, Whither, Sides, Running, OursIs DEF FillPayload,
       Drained, stage, config, contract
  <1>12. CASE Capture
    BY <1>12, <1>0, <1>1, <1>2, Drains, Whither, Sides, Running, OursIs DEF Capture, Drained,
       Sweep, config, stage, contract
  <1>13. CASE AnnounceAndPublish
    BY <1>13, <1>0, <1>1, <1>2, Drains, Whither, Sides, Running, OursIs DEF AnnounceAndPublish,
       Awaiting, MayTry, PublishStage, Publish, Sweep, config, stage
  <1>14. CASE Exhausted
    BY <1>14, <1>0, <1>1, <1>2, Drains, Whither, Sides, Running, OursIs DEF Exhausted, MayTry,
       Sweep, config, stage, contract
  <1>15. CASE PublishAtomically
    BY <1>15, <1>0, <1>1, <1>2, Drains, Whither, Sides, Running, OursIs, Renames DEF
       PublishAtomically, Answer, Drained, config, stage
  <1>16. CASE PublishCheck
    BY <1>16, <1>0, <1>1, <1>2, Drains, Whither, Sides, Running, OursIs DEF PublishCheck,
       Answer, Drained, config, stage, contract
  <1>17. CASE PublishRename
    BY <1>17, <1>0, <1>1, <1>2, Drains, Whither, Sides, Running, OursIs, Renames DEF
       PublishRename, Answer, Drained, config, stage
  <1>18. CASE PublishStat
    BY <1>18, <1>0, <1>1, <1>2, Drains, Whither, Sides, Running, OursIs DEF PublishStat, Answer,
       Drained, config, stage, contract
  <1>19. CASE AfterPublish
    BY <1>19, <1>0, <1>1, <1>2, Drains, Whither, Sides, Running, OursIs DEF AfterPublish, Lost,
       GiveUp, Sweep, config, stage, contract
  <1>20. CASE StageOwned
    BY <1>20, <1>0, <1>1, <1>2, Drains, Whither, Sides, Running, OursIs, Owning DEF config,
       stage, contract
  <1>21. CASE CloseContainer
    BY <1>21, <1>0, <1>1, <1>2, Drains, Whither, Sides, Running, OursIs, PrivateWritten DEF
       CloseContainer, Remove, Drained, Sweep, config, stage
  <1>22. CASE DeleteSource
    BY <1>22, <1>0, <1>1, <1>2, Drains, Whither, Sides, Running, OursIs DEF DeleteSource,
       SourceAsSeen, Drained, config, stage
  <1>23. CASE ObserveVictim
    BY <1>23, <1>0, <1>1, <1>2, Drains, Whither, Sides, Running, OursIs DEF ObserveVictim,
       Awaiting, MayTry, PublishStage, Publish, config, stage, contract, Sweep, publish, staged
  <1>24. CASE PublishedFresh
    BY <1>24, <1>0, <1>1, <1>2, Drains, Whither, Sides, Running, OursIs DEF PublishedFresh,
       Lost, GiveUp, Sweep, config, stage, contract
  <1>25. CASE BackedUp
    BY <1>25, <1>0, <1>1, <1>2, Drains, Whither, Sides, Running, OursIs DEF BackedUp, GiveUp,
       Sweep, PublishStage, Publish, config, stage, contract
  <1>26. CASE Committed
    BY <1>26, <1>0, <1>1, <1>2, Drains, Whither, Sides, Running, OursIs DEF Committed, Publish,
       config, stage, contract
  <1>27. CASE Restored
    BY <1>27, <1>0, <1>1, <1>2, Drains, Whither, Sides, Running, OursIs DEF Restored, Sweep,
       config, stage, contract
  <1>28. CASE DropBackup
    BY <1>28, <1>0, <1>1, <1>2, Drains, Whither, Sides, Running, OursIs, PrivateWritten DEF
       DropBackup, Remove, Drained, config, stage, contract
  <1>29. CASE DropPayload
    BY <1>29, <1>0, <1>1, <1>2, Drains, Whither, Sides, Running, OursIs, PrivateWritten DEF
       DropPayload, Remove, Drained, config, stage, contract
  <1>30. CASE DropContainer
    BY <1>30, <1>0, <1>1, <1>2, Drains, Whither, Sides, Running, OursIs, PrivateWritten DEF
       DropContainer, Drained, Remove, config, stage
  <1>31. CASE CancelledAtAwait
    BY <1>31, <1>0, <1>1, <1>2, Drains, Whither, Sides, Running, OursIs DEF CancelledAtAwait,
       Sweep, Raise, config, stage
  <1>32. CASE FirstChunk
    BY <1>32, <1>0, <1>1, <1>2, Drains, Whither, Sides, Running, OursIs DEF FirstChunk,
       Awaiting, config, contract
  <1>33. CASE CreateUpload
    BY <1>33, <1>0, <1>1, <1>2, Drains, Whither, Sides, Running, OursIs DEF CreateUpload,
       Drained, config, contract
  <1>34. CASE UploadParts
    BY <1>34, <1>0, <1>1, <1>2, Drains, Whither, Sides, Running, OursIs DEF UploadParts,
       Awaiting, config, contract
  <1>35. CASE SendObject
    BY <1>35, <1>0, <1>1, <1>2, Drains, Whither, Sides, Running, OursIs, PublicWritten DEF
       SendObject, Appears, Vacant, Drained, config
  <1>36. CASE AbortUpload
    BY <1>36, <1>0, <1>1, <1>2, Drains, Whither, Sides, Running, OursIs DEF AbortUpload,
       Drained, config, contract
  <1>37. CASE RollBack
    BY <1>37, <1>0, <1>1, <1>2, Drains, Whither, Sides, Running, OursIs, PublicWritten DEF
       RollBack, config, stage, contract
  <1>38. CASE WriteEnds
    BY <1>38, <1>0, <1>1, <1>2, Drains, Whither, Sides, Running, OursIs DEF WriteEnds, MayTry,
       config, stage
  <1>39. CASE CancelledInWrite
    BY <1>39, <1>0, <1>1, <1>2, Drains, Whither, Sides, Running, OursIs DEF CancelledInWrite,
       config, stage, contract
  <1>40. ASSUME NEW x \in unborn, Tamper(x) PROVE Privately'
    BY <1>40, <1>0, <1>1, <1>2, Drains, Whither, Sides, Running, OursIs, PrivateWritten DEF
       Tamper, Quiet, config, stage, contract
  <1>41. ASSUME NEW x \in unborn, NEW n \in Public, ExternalPut(n, x) PROVE Privately'
    BY <1>41, <1>0, <1>1, <1>2, Drains, Whither, Sides, Running, OursIs, PublicWritten DEF
       ExternalPut, IdAt, Quiet, config, stage, contract
  <1>42. ASSUME NEW n \in Public, ExternalRemove(n) PROVE Privately'
    BY <1>42, <1>0, <1>1, <1>2, Drains, Whither, Sides, Running, OursIs, PublicWritten DEF
       ExternalRemove, Remove, IdAt, Quiet, config, stage, contract
  <1>43. CASE Cancel \/ EditSource \/ UNCHANGED vars
    <2>1. UNCHANGED <<fs, kind, pc, claim, fail, verdict>>
      BY <1>43 DEF Cancel, config, stage, contract, EditSource, Quiet, vars
    <2> QED
      BY <2>1, <1>0, <1>1, <1>2
  <1> QED
    BY <1>3, <1>4, <1>5, <1>6, <1>7, <1>8, <1>9, <1>10, <1>11, <1>12, <1>13, <1>14, <1>15,
       <1>16, <1>17, <1>18, <1>19, <1>20, <1>21, <1>22, <1>23, <1>24, <1>25, <1>26, <1>27,
       <1>28, <1>29, <1>30, <1>31, <1>32, <1>33, <1>34, <1>35, <1>36, <1>37, <1>38, <1>39,
       <1>40, <1>41, <1>42, <1>43 DEF Next, CopyStep, Environment, Ended

\* The payload is at its private name as it was written.
LEMMA NextUnmoved == CopyInv /\ [Next]_vars => Unmoved'
  <1> SUFFICES ASSUME CopyInv, [Next]_vars PROVE Unmoved'
    OBVIOUS
  <1> USE DEF CopyInv, Unmoved
  <1>0. cur \in Public /\ Nil \notin Objects
    BY NilAssumption DEF TypeOK
  <1>1. CASE ClaimContainer
    BY <1>1, <1>0, OursIs, PrivateWritten DEF ClaimContainer
  <1>2. CASE OpenPayload
    BY <1>2, <1>0, OursIs, PrivateWritten DEF OpenPayload
  <1>3. CASE PublishAtomically
    BY <1>3, <1>0, OursIs, Renames DEF PublishAtomically
  <1>4. CASE PublishRename
    BY <1>4, <1>0, OursIs, Renames DEF PublishRename
  <1>5. CASE CloseContainer
    BY <1>5, <1>0, OursIs, PrivateWritten DEF CloseContainer, Remove
  <1>6. CASE DropBackup
    BY <1>6, <1>0, OursIs, PrivateWritten DEF DropBackup, Remove
  <1>7. CASE DropPayload
    BY <1>7, <1>0, OursIs, PrivateWritten DEF DropPayload, Remove
  <1>8. CASE DropContainer
    BY <1>8, <1>0, OursIs, PrivateWritten DEF DropContainer, Remove
  <1>9. CASE SendObject
    BY <1>9, <1>0, OursIs, PublicWritten DEF SendObject, Appears, Vacant
  <1>10. CASE RollBack
    BY <1>10, <1>0, OursIs, PublicWritten DEF RollBack
  <1>11. ASSUME NEW x \in unborn, Tamper(x) PROVE Unmoved'
    BY <1>11, <1>0, OursIs, PrivateWritten DEF Tamper, New
  <1>12. ASSUME NEW x \in unborn, NEW n \in Public, ExternalPut(n, x) PROVE Unmoved'
    BY <1>12, <1>0, OursIs, PublicWritten DEF ExternalPut, Direct, IdAt
  <1>13. ASSUME NEW n \in Public, ExternalRemove(n) PROVE Unmoved'
    BY <1>13, <1>0, OursIs, PublicWritten DEF ExternalRemove, Remove, IdAt
  <1>14. CASE Start \/ Resolve \/ Probe \/ ExistsCheck \/ Intend \/ VerifyClaim \/ FillPayload
             \/ Capture \/ AnnounceAndPublish \/ Exhausted \/ PublishCheck \/ PublishStat \/
             AfterPublish \/ StageOwned \/ DeleteSource \/ ObserveVictim \/ PublishedFresh \/
             BackedUp \/ Committed \/ Restored \/ CancelledAtAwait \/ FirstChunk \/ CreateUpload
             \/ UploadParts \/ AbortUpload \/ WriteEnds \/ CancelledInWrite \/ Cancel \/
             EditSource \/ UNCHANGED vars
    <2>1. UNCHANGED fs
      BY <1>14 DEF Start, Resolve, Probe, ExistsCheck, Intend, VerifyClaim, FillPayload,
         Capture, AnnounceAndPublish, Exhausted, PublishCheck, PublishStat, AfterPublish,
         StageOwned, DeleteSource, ObserveVictim, PublishedFresh, BackedUp, Committed, Restored,
         CancelledAtAwait, FirstChunk, CreateUpload, UploadParts, AbortUpload, WriteEnds,
         CancelledInWrite, Cancel, EditSource, Quiet, vars
    <2> QED
      BY <2>1, <1>0
  <1> QED
    BY <1>1, <1>2, <1>3, <1>4, <1>5, <1>6, <1>7, <1>8, <1>9, <1>10, <1>11, <1>12, <1>13, <1>14
       DEF Next, CopyStep, Environment, Ended

\* Before a publication no public name holds what the copy has moved.
LEMMA NextFresh == CopyInv /\ [Next]_vars => Fresh'
  <1> SUFFICES ASSUME CopyInv, [Next]_vars PROVE Fresh'
    OBVIOUS
  <1> USE DEF CopyInv, Fresh, Direct
  <1>0. cur \in Public /\ Nil \notin Objects
    BY NilAssumption DEF TypeOK
  <1>1. pc \in {"pub_check", "pub_rename"} /\ op.then = "restored" => saved # Nil
    BY DEF BackedUpSafely, Aside
  <1>2. unborn \subseteq Foreign
    BY DEF TypeOK
  <1>3. CASE ClaimContainer
    BY <1>3, <1>0, <1>1, Sides, PrivateWritten DEF ClaimContainer, config, publish
  <1>4. CASE OpenPayload
    BY <1>4, <1>0, <1>1, Sides, PrivateWritten DEF OpenPayload, config, publish, contract
  <1>5. CASE PublishAtomically
    BY <1>5, <1>0, <1>1, Sides, Renames, Renamed, NamesAre DEF PublishAtomically, config
  <1>6. CASE PublishRename
    BY <1>6, <1>0, <1>1, Sides, Renames, Renamed, NamesAre DEF PublishRename, config
  <1>7. CASE PublishStat
    BY <1>7, <1>0, <1>1, Sides DEF PublishStat, config, contract
  <1>8. CASE CloseContainer
    BY <1>8, <1>0, <1>1, Sides, PrivateWritten DEF CloseContainer, Remove, config, publish
  <1>9. CASE DropBackup
    BY <1>9, <1>0, <1>1, Sides, PrivateWritten DEF DropBackup, Remove, config, publish, contract
  <1>10. CASE DropPayload
    BY <1>10, <1>0, <1>1, Sides, PrivateWritten DEF DropPayload, Remove, config, publish,
       contract
  <1>11. CASE DropContainer
    BY <1>11, <1>0, <1>1, Sides, PrivateWritten DEF DropContainer, Remove, config, publish
  <1>12. CASE SendObject
    BY <1>12, <1>0, <1>1, Sides, PublicWritten DEF SendObject, Appears, Vacant, config
  <1>13. CASE RollBack
    BY <1>13, <1>0, <1>1, Sides, PublicWritten DEF RollBack, config, publish, contract
  <1>14. ASSUME NEW x \in unborn, Tamper(x) PROVE Fresh'
    BY <1>14, <1>0, <1>1, Sides, PrivateWritten DEF Tamper, Quiet, config, publish, contract
  <1>15. ASSUME NEW x \in unborn, NEW n \in Public, ExternalPut(n, x) PROVE Fresh'
    BY <1>15, <1>0, <1>1, Sides, PublicWritten, <1>2 DEF ExternalPut, IdAt, Quiet, config,
       publish, contract, New
  <1>16. ASSUME NEW n \in Public, ExternalRemove(n) PROVE Fresh'
    BY <1>16, <1>0, <1>1, Sides, PublicWritten DEF ExternalRemove, Remove, IdAt, Quiet, config,
       publish, contract
  <1>17. CASE Start \/ Resolve \/ Probe \/ ExistsCheck \/ Intend \/ VerifyClaim \/ FillPayload
             \/ Capture \/ AnnounceAndPublish \/ Exhausted \/ PublishCheck \/ AfterPublish \/
             StageOwned \/ DeleteSource \/ ObserveVictim \/ PublishedFresh \/ BackedUp \/
             Committed \/ Restored \/ CancelledAtAwait \/ FirstChunk \/ CreateUpload \/
             UploadParts \/ AbortUpload \/ WriteEnds \/ CancelledInWrite \/ Cancel \/ EditSource
             \/ UNCHANGED vars
    <2>1. UNCHANGED <<fs, kind, saved, target>>
      BY <1>17 DEF Start, config, publish, Resolve, Probe, ExistsCheck, contract, Intend,
         VerifyClaim, FillPayload, Capture, AnnounceAndPublish, PublishStage, Publish,
         Exhausted, PublishCheck, AfterPublish, StageOwned, DeleteSource, ObserveVictim,
         PublishedFresh, BackedUp, Committed, Restored, CancelledAtAwait, FirstChunk,
         CreateUpload, UploadParts, AbortUpload, WriteEnds, CancelledInWrite, Cancel,
         EditSource, Quiet, vars
    <2> QED
      BY <2>1, <1>0, <1>1
  <1> QED
    BY <1>3, <1>4, <1>5, <1>6, <1>7, <1>8, <1>9, <1>10, <1>11, <1>12, <1>13, <1>14, <1>15,
       <1>16, <1>17 DEF Next, CopyStep, Environment, Ended

\* The backup was renamed once, if at all.
LEMMA NextMovedOnce == CopyInv /\ [Next]_vars => MovedOnce'
  <1> SUFFICES ASSUME CopyInv, [Next]_vars PROVE MovedOnce'
    OBVIOUS
  <1> USE DEF CopyInv, MovedOnce
  <1>0. cur \in Public /\ Nil \notin Objects
    BY NilAssumption DEF TypeOK
  <1>1. CASE ClaimContainer
    BY <1>1, <1>0, PrivateWritten DEF ClaimContainer
  <1>2. CASE OpenPayload
    BY <1>2, <1>0, PrivateWritten DEF OpenPayload
  <1>3. CASE PublishAtomically
    BY <1>3, <1>0, Renames, Renamed DEF PublishAtomically
  <1>4. CASE PublishRename
    BY <1>4, <1>0, Renames, Renamed DEF PublishRename
  <1>5. CASE CloseContainer
    BY <1>5, <1>0, PrivateWritten DEF CloseContainer, Remove
  <1>6. CASE DropBackup
    BY <1>6, <1>0, PrivateWritten DEF DropBackup, Remove
  <1>7. CASE DropPayload
    BY <1>7, <1>0, PrivateWritten DEF DropPayload, Remove
  <1>8. CASE DropContainer
    BY <1>8, <1>0, PrivateWritten DEF DropContainer, Remove
  <1>9. CASE SendObject
    BY <1>9, <1>0, PublicWritten DEF SendObject, Appears, Vacant
  <1>10. CASE RollBack
    BY <1>10, <1>0, PublicWritten DEF RollBack
  <1>11. ASSUME NEW x \in unborn, Tamper(x) PROVE MovedOnce'
    BY <1>11, <1>0, PrivateWritten DEF Tamper
  <1>12. ASSUME NEW x \in unborn, NEW n \in Public, ExternalPut(n, x) PROVE MovedOnce'
    BY <1>12, <1>0, PublicWritten DEF ExternalPut, Direct, IdAt
  <1>13. ASSUME NEW n \in Public, ExternalRemove(n) PROVE MovedOnce'
    BY <1>13, <1>0, PublicWritten DEF ExternalRemove, Remove, IdAt
  <1>14. CASE Start \/ Resolve \/ Probe \/ ExistsCheck \/ Intend \/ VerifyClaim \/ FillPayload
             \/ Capture \/ AnnounceAndPublish \/ Exhausted \/ PublishCheck \/ PublishStat \/
             AfterPublish \/ StageOwned \/ DeleteSource \/ ObserveVictim \/ PublishedFresh \/
             BackedUp \/ Committed \/ Restored \/ CancelledAtAwait \/ FirstChunk \/ CreateUpload
             \/ UploadParts \/ AbortUpload \/ WriteEnds \/ CancelledInWrite \/ Cancel \/
             EditSource \/ UNCHANGED vars
    <2>1. UNCHANGED fs
      BY <1>14 DEF Start, Resolve, Probe, ExistsCheck, Intend, VerifyClaim, FillPayload,
         Capture, AnnounceAndPublish, Exhausted, PublishCheck, PublishStat, AfterPublish,
         StageOwned, DeleteSource, ObserveVictim, PublishedFresh, BackedUp, Committed, Restored,
         CancelledAtAwait, FirstChunk, CreateUpload, UploadParts, AbortUpload, WriteEnds,
         CancelledInWrite, Cancel, EditSource, Quiet, vars
    <2> QED
      BY <2>1, <1>0
  <1> QED
    BY <1>1, <1>2, <1>3, <1>4, <1>5, <1>6, <1>7, <1>8, <1>9, <1>10, <1>11, <1>12, <1>13, <1>14
       DEF Next, CopyStep, Environment, Ended

\* What an indivisible publish moves aside is what the stat saw.
LEMMA NextObserved == CopyInv /\ [Next]_vars => Observed'
  <1> SUFFICES ASSUME CopyInv, [Next]_vars PROVE Observed'
    OBVIOUS
  <1> USE DEF CopyInv, Observed
  <1>0. cur \in Public /\ Nil \notin Objects
    BY NilAssumption DEF TypeOK
  <1>1. pc \in {"pub_check", "pub_rename"} /\ op.then = "restored" =>
          op.revision = saved /\ saved # Nil
    BY DEF BackedUpSafely, Aside
  <1>2. CASE Start
    BY <1>2, <1>0, <1>1, Whither, Sides DEF Start, Awaiting, Raise, staged, config, publish,
       history
  <1>3. CASE Resolve
    BY <1>3, <1>0, <1>1, Whither, Sides DEF Resolve, Awaiting, Chosen, staged, Direct, Raise,
       config, publish, history
  <1>4. CASE Probe
    BY <1>4, <1>0, <1>1, Whither, Sides DEF Probe, Awaiting, Chosen, staged, Direct, Raise,
       config, publish, history
  <1>5. CASE ExistsCheck
    BY <1>5, <1>0, <1>1, Whither, Sides DEF ExistsCheck, Awaiting, config, publish, history, Raise,
       staged
  <1>6. CASE Intend
    BY <1>6, <1>0, <1>1, Whither, Sides DEF Intend, Awaiting, Direct, Raise, staged, config,
       publish, history
  <1>7. CASE ClaimContainer
    BY <1>7, <1>0, <1>1, Whither, Sides, PrivateWritten DEF ClaimContainer, config, publish,
       history
  <1>8. CASE VerifyClaim
    BY <1>8, <1>0, <1>1, Whither, Sides DEF VerifyClaim, config, publish, history
  <1>9. CASE OpenPayload
    BY <1>9, <1>0, <1>1, Whither, Sides, PrivateWritten DEF OpenPayload, config, publish,
       history
  <1>10. CASE FillPayload
    BY <1>10, <1>0, <1>1, Whither, Sides DEF FillPayload, config, publish, history
  <1>11. CASE Capture
    BY <1>11, <1>0, <1>1, Whither, Sides DEF Capture, Sweep, config, publish, history
  <1>12. CASE AnnounceAndPublish
    BY <1>12, <1>0, <1>1, Whither, Sides DEF AnnounceAndPublish, Awaiting, MayTry, publish,
       PublishStage, Publish, Sweep, config, history
  <1>13. CASE Exhausted
    BY <1>13, <1>0, <1>1, Whither, Sides DEF Exhausted, MayTry, Sweep, config, publish, history
  <1>14. CASE PublishAtomically
    <2>1. CASE op.then \in {"published", "ovw_fresh", "committed"}
      BY <1>14, <2>1, <1>0, <1>1, Aims, Renames, Renamed, NamesAre DEF PublishAtomically, Answer,
         Validated, config, history
    <2>2. CASE op.then = "backed"
      BY <1>14, <2>2, <1>0, <1>1, Aims, Renames, Renamed, NamesAre DEF PublishAtomically, Answer,
         Validated, config, history
    <2>3. CASE op.then = "restored"
      BY <1>14, <2>3, <1>0, <1>1, Aims, Renames, Renamed, NamesAre DEF PublishAtomically, Answer,
         Validated, config, history
    <2> QED
      BY <1>14, <2>1, <2>2, <2>3, Aims DEF PublishAtomically
  <1>15. CASE PublishCheck
    BY <1>15, <1>0, <1>1, Whither, Sides DEF PublishCheck, Answer, config, history
  <1>16. CASE PublishRename
    BY <1>16, <1>0, <1>1, Whither, Sides, Renames DEF PublishRename, Answer, config, history
  <1>17. CASE PublishStat
    BY <1>17, <1>0, <1>1, Whither, Sides DEF PublishStat, Answer, config, history
  <1>18. CASE AfterPublish
    BY <1>18, <1>0, <1>1, Whither, Sides DEF AfterPublish, Lost, GiveUp, Sweep, config, publish,
       history
  <1>19. CASE StageOwned
    <2>1. UNCHANGED <<kind, saved, seen, op>>
      BY <1>19, Owning DEF config, publish, contract, history
    <2>2. pc' \in {"ovw_stat", "resolve", "announce", "drop_payload"}
      BY <1>19, Owning
    <2>3. pc = "owned"
      BY <1>19, Owning
    <2> QED
      BY <2>1, <2>2, <2>3
  <1>20. CASE CloseContainer
    BY <1>20, <1>0, <1>1, Whither, Sides, PrivateWritten DEF CloseContainer, Sweep, config,
       publish, history
  <1>21. CASE DeleteSource
    BY <1>21, <1>0, <1>1, Whither, Sides DEF DeleteSource, SourceAsSeen, config, publish,
       history
  <1>22. CASE ObserveVictim
    BY <1>22, <1>0, <1>1, Whither, Sides DEF ObserveVictim, Awaiting, MayTry, PublishStage,
       Publish, config, Sweep, publish, staged
  <1>23. CASE PublishedFresh
    BY <1>23, <1>0, <1>1, Whither, Sides DEF PublishedFresh, Lost, GiveUp, Sweep, config,
       publish, history
  <1>24. CASE BackedUp
    BY <1>24, <1>0, <1>1, Whither, Sides DEF BackedUp, publish, GiveUp, Sweep, PublishStage,
       Publish, config, history
  <1>25. CASE Committed
    BY <1>25, <1>0, <1>1, Whither, Sides DEF Committed, publish, Publish, config, history
  <1>26. CASE Restored
    BY <1>26, <1>0, <1>1, Whither, Sides DEF Restored, Sweep, config, publish, history
  <1>27. CASE DropBackup
    BY <1>27, <1>0, <1>1, Whither, Sides, PrivateWritten DEF DropBackup, config, publish,
       history
  <1>28. CASE DropPayload
    BY <1>28, <1>0, <1>1, Whither, Sides, PrivateWritten DEF DropPayload, config, publish,
       history
  <1>29. CASE DropContainer
    BY <1>29, <1>0, <1>1, Whither, Sides, PrivateWritten DEF DropContainer, config, publish,
       history
  <1>30. CASE CancelledAtAwait
    BY <1>30, <1>0, <1>1, Whither, Sides DEF CancelledAtAwait, Sweep, Raise, staged, config,
       publish, history
  <1>31. CASE FirstChunk
    BY <1>31, <1>0, <1>1, Whither, Sides DEF FirstChunk, Awaiting, config, publish, history
  <1>32. CASE CreateUpload
    BY <1>32, <1>0, <1>1, Whither, Sides DEF CreateUpload, config, publish, history
  <1>33. CASE UploadParts
    BY <1>33, <1>0, <1>1, Whither, Sides DEF UploadParts, Awaiting, config, publish, history
  <1>34. CASE SendObject
    BY <1>34, <1>0, <1>1, Whither, Sides, PublicWritten DEF SendObject, Appears, Vacant, config,
       history
  <1>35. CASE AbortUpload
    BY <1>35, <1>0, <1>1, Whither, Sides DEF AbortUpload, config, publish, history
  <1>36. CASE RollBack
    BY <1>36, <1>0, <1>1, Whither, Sides, PublicWritten DEF RollBack, config, publish, history
  <1>37. CASE WriteEnds
    BY <1>37, <1>0, <1>1, Whither, Sides DEF WriteEnds, MayTry, config, publish, history
  <1>38. CASE CancelledInWrite
    BY <1>38, <1>0, <1>1, Whither, Sides DEF CancelledInWrite, config, publish, history
  <1>39. CASE Cancel \/ EditSource \/ UNCHANGED vars \/ (\E x \in unborn: Tamper(x)) \/
             (\E x \in unborn: \E n \in Public: ExternalPut(n, x)) \/
             (\E n \in Public: ExternalRemove(n))
    <2>1. UNCHANGED <<kind, pc, op, saved, seen>>
      BY <1>39 DEF Cancel, config, publish, history, EditSource, Quiet, vars, Tamper,
         ExternalPut, ExternalRemove
    <2> QED
      BY <2>1, <1>0, <1>1
  <1> QED
    BY <1>2, <1>3, <1>4, <1>5, <1>6, <1>7, <1>8, <1>9, <1>10, <1>11, <1>12, <1>13, <1>14, <1>15,
       <1>16, <1>17, <1>18, <1>19, <1>20, <1>21, <1>22, <1>23, <1>24, <1>25, <1>26, <1>27,
       <1>28, <1>29, <1>30, <1>31, <1>32, <1>33, <1>34, <1>35, <1>36, <1>37, <1>38, <1>39 DEF
       Next, CopyStep, Environment, Ended

\* Whatever still may publish has not.
LEMMA NextUnpublished == CopyInv /\ [Next]_vars => Unpublished'
  <1> SUFFICES ASSUME CopyInv, [Next]_vars PROVE Unpublished'
    OBVIOUS
  <1> USE DEF CopyInv, Unpublished, Unwritten, Clean, Unspoiled, Undoing, Direct, Naming,
      Staging, Publishing, Published, Sweeping
  <1>0. cur \in Public /\ Nil \notin Objects
    BY NilAssumption DEF TypeOK
  <1>1. CASE Start
    BY <1>1, <1>0, Drains, Worsens, Whither, Sides, Running DEF Start, Awaiting, Raise, staged,
       config, publish
  <1>2. CASE Resolve
    BY <1>2, <1>0, Drains, Worsens, Whither, Sides, Running DEF Resolve, Awaiting, Chosen,
       staged, Raise, config, publish
  <1>3. CASE Probe
    BY <1>3, <1>0, Drains, Worsens, Whither, Sides, Running DEF Probe, Awaiting, Chosen, staged,
       Raise, config, publish
  <1>4. CASE ExistsCheck
    BY <1>4, <1>0, Drains, Worsens, Whither, Sides, Running DEF ExistsCheck, Awaiting, config,
       publish, contract, Raise, staged
  <1>5. CASE Intend
    BY <1>5, <1>0, Drains, Worsens, Whither, Sides, Running DEF Intend, Awaiting, Raise, staged,
       config, publish
  <1>6. CASE ClaimContainer
    BY <1>6, <1>0, Drains, Worsens, Whither, Sides, Running, PrivateWritten DEF ClaimContainer,
       Drained, config, publish
  <1>7. CASE VerifyClaim
    BY <1>7, <1>0, Drains, Worsens, Whither, Sides, Running DEF VerifyClaim, Drained, config,
       publish, contract
  <1>8. CASE OpenPayload
    BY <1>8, <1>0, Drains, Worsens, Whither, Sides, Running, PrivateWritten DEF OpenPayload,
       Drained, config, publish, contract
  <1>9. CASE FillPayload
    BY <1>9, <1>0, Drains, Worsens, Whither, Sides, Running DEF FillPayload, Drained, config,
       publish, contract
  <1>10. CASE Capture
    BY <1>10, <1>0, Drains, Worsens, Whither, Sides, Running DEF Capture, Drained, Sweep,
       config, publish, contract
  <1>11. CASE AnnounceAndPublish
    BY <1>11, <1>0, Drains, Worsens, Whither, Sides, Running DEF AnnounceAndPublish, Awaiting,
       MayTry, publish, PublishStage, Publish, Sweep, config
  <1>12. CASE Exhausted
    BY <1>12, <1>0, Drains, Worsens, Whither, Sides, Running DEF Exhausted, MayTry, Sweep,
       config, publish, contract
  <1>13. CASE PublishAtomically
    <2>1. CASE op.then \in {"published", "ovw_fresh", "committed"}
      BY <1>13, <2>1, <1>0, Drains, Sides, Running, Renames, NamesAre DEF PublishAtomically, Answer,
         Drained, config
    <2>2. CASE op.then = "backed"
      BY <1>13, <2>2, <1>0, Drains, Sides, Running, Renames, NamesAre DEF PublishAtomically, Answer,
         Drained, config
    <2>3. CASE op.then = "restored"
      BY <1>13, <2>3, <1>0, Drains, Sides, Running, Renames, NamesAre DEF PublishAtomically, Answer,
         Drained, config
    <2> QED
      BY <1>13, <2>1, <2>2, <2>3, Aims DEF PublishAtomically
  <1>14. CASE PublishCheck
    BY <1>14, <1>0, Drains, Worsens, Whither, Sides, Running DEF PublishCheck, Answer, Drained,
       config, contract
  <1>15. CASE PublishRename
    <2>1. CASE op.then \in {"published", "ovw_fresh", "committed"}
      BY <1>15, <2>1, <1>0, Drains, Sides, Running, Renames, NamesAre DEF PublishRename, Answer,
         Drained, config
    <2>2. CASE op.then = "backed"
      BY <1>15, <2>2, <1>0, Drains, Sides, Running, Renames, NamesAre DEF PublishRename, Answer,
         Drained, config
    <2>3. CASE op.then = "restored"
      BY <1>15, <2>3, <1>0, Drains, Sides, Running, Renames, NamesAre DEF PublishRename, Answer,
         Drained, config
    <2> QED
      BY <1>15, <2>1, <2>2, <2>3, Aims DEF PublishRename
  <1>16. CASE PublishStat
    BY <1>16, <1>0, Drains, Worsens, Whither, Sides, Running DEF PublishStat, Answer, Drained,
       config, contract
  <1>17. CASE AfterPublish
    BY <1>17, <1>0, Drains, Worsens, Whither, Sides, Running DEF AfterPublish, Lost, GiveUp,
       Sweep, config, publish, contract
  <1>18. CASE StageOwned
    <2>1. UNCHANGED <<target, lost, verdict, kind, res, op>>
      BY <1>18, Owning DEF config, publish, contract, history
    <2>2. pc' \in {"ovw_stat", "resolve", "announce", "drop_payload"}
      BY <1>18, Owning
    <2>3. pc = "owned"
      BY <1>18, Owning
    <2> QED
      BY <2>1, <2>2, <2>3
  <1>19. CASE CloseContainer
    BY <1>19, <1>0, Drains, Worsens, Whither, Sides, Running, PrivateWritten DEF CloseContainer,
       Drained, Sweep, config, publish
  <1>20. CASE DeleteSource
    BY <1>20, <1>0, Drains, Worsens, Whither, Sides, Running DEF DeleteSource, SourceAsSeen,
       Drained, config, publish
  <1>21. CASE ObserveVictim
    BY <1>21, <1>0, Drains, Worsens, Whither, Sides, Running DEF ObserveVictim, Awaiting, MayTry,
       PublishStage, Publish, config, contract, Sweep, publish, staged
  <1>22. CASE PublishedFresh
    BY <1>22, <1>0, Drains, Worsens, Whither, Sides, Running DEF PublishedFresh, Lost, GiveUp,
       Sweep, config, publish, contract
  <1>23. CASE BackedUp
    BY <1>23, <1>0, Drains, Worsens, Whither, Sides, Running DEF BackedUp, publish, GiveUp,
       Sweep, PublishStage, Publish, config, contract
  <1>24. CASE Committed
    BY <1>24, <1>0, Drains, Worsens, Whither, Sides, Running DEF Committed, publish, Publish,
       config, contract
  <1>25. CASE Restored
    BY <1>25, <1>0, Drains, Worsens, Whither, Sides, Running DEF Restored, Sweep, config,
       publish, contract
  <1>26. CASE DropBackup
    BY <1>26, <1>0, Drains, Worsens, Whither, Sides, Running, PrivateWritten DEF DropBackup,
       Drained, config, publish, contract
  <1>27. CASE DropPayload
    BY <1>27, <1>0, Drains, Worsens, Whither, Sides, Running, PrivateWritten DEF DropPayload,
       Drained, config, publish, contract
  <1>28. CASE DropContainer
    BY <1>28, <1>0, Drains, Worsens, Whither, Sides, Running, PrivateWritten DEF DropContainer,
       Drained, config, publish
  <1>29. CASE CancelledAtAwait
    BY <1>29, <1>0, Drains, Worsens, Whither, Sides, Running DEF CancelledAtAwait, Sweep, Raise,
       staged, config, publish
  <1>30. CASE FirstChunk
    BY <1>30, <1>0, Drains, Worsens, Whither, Sides, Running DEF FirstChunk, Awaiting, config,
       publish, contract
  <1>31. CASE CreateUpload
    BY <1>31, <1>0, Drains, Worsens, Whither, Sides, Running DEF CreateUpload, Drained, config,
       publish, contract
  <1>32. CASE UploadParts
    BY <1>32, <1>0, Drains, Worsens, Whither, Sides, Running DEF UploadParts, Awaiting, config,
       publish, contract
  <1>33. CASE SendObject
    BY <1>33, <1>0, Drains, Worsens, Whither, Sides, Running, PublicWritten DEF SendObject,
       Appears, Vacant, Drained, config
  <1>34. CASE AbortUpload
    BY <1>34, <1>0, Drains, Worsens, Whither, Sides, Running DEF AbortUpload, Drained, config,
       publish, contract
  <1>35. CASE RollBack
    BY <1>35, <1>0, Drains, Worsens, Whither, Sides, Running, PublicWritten DEF RollBack,
       config, publish, contract
  <1>36. CASE WriteEnds
    BY <1>36, <1>0, Drains, Worsens, Whither, Sides, Running DEF WriteEnds, MayTry, config,
       publish
  <1>37. CASE CancelledInWrite
    BY <1>37, <1>0, Drains, Worsens, Whither, Sides, Running DEF CancelledInWrite, config,
       publish, contract
  <1>38. CASE Cancel \/ EditSource \/ UNCHANGED vars \/ (\E x \in unborn: Tamper(x)) \/
             (\E x \in unborn: \E n \in Public: ExternalPut(n, x)) \/
             (\E n \in Public: ExternalRemove(n))
    <2>1. UNCHANGED <<kind, pc, op, res, fail, target, verdict, lost>>
      BY <1>38 DEF Cancel, config, publish, contract, EditSource, Quiet, vars, Tamper,
         ExternalPut, ExternalRemove
    <2> QED
      BY <2>1, <1>0
  <1> QED
    BY <1>1, <1>2, <1>3, <1>4, <1>5, <1>6, <1>7, <1>8, <1>9, <1>10, <1>11, <1>12, <1>13, <1>14,
       <1>15, <1>16, <1>17, <1>18, <1>19, <1>20, <1>21, <1>22, <1>23, <1>24, <1>25, <1>26,
       <1>27, <1>28, <1>29, <1>30, <1>31, <1>32, <1>33, <1>34, <1>35, <1>36, <1>37, <1>38 DEF
       Next, CopyStep, Environment, Ended

\* A success says that the payload appeared.
LEMMA NextAppeared == CopyInv /\ [Next]_vars => Appeared'
  <1> SUFFICES ASSUME CopyInv, [Next]_vars PROVE Appeared'
    OBVIOUS
  <1> USE DEF CopyInv, Appeared, Clean, Unspoiled, Undoing, Naming, Staging, Publishing,
      Published
  <1>0. cur \in Public /\ Nil \notin Objects
    BY NilAssumption DEF TypeOK
  <1>1. CASE Start
    BY <1>1, <1>0, NamesAre, Drains, Worsens, Whither, Running DEF Start, Awaiting, Raise,
       staged, publish
  <1>2. CASE Resolve
    BY <1>2, <1>0, NamesAre, Drains, Worsens, Whither, Running DEF Resolve, Awaiting, Chosen,
       staged, Direct, Raise, publish
  <1>3. CASE Probe
    BY <1>3, <1>0, NamesAre, Drains, Worsens, Whither, Running DEF Probe, Awaiting, Chosen,
       staged, Direct, Raise, publish
  <1>4. CASE ExistsCheck
    BY <1>4, <1>0, NamesAre, Drains, Worsens, Whither, Running DEF ExistsCheck, Awaiting, publish,
       contract, Raise, staged
  <1>5. CASE Intend
    BY <1>5, <1>0, NamesAre, Drains, Worsens, Whither, Running DEF Intend, Awaiting, Direct,
       Raise, staged, publish
  <1>6. CASE ClaimContainer
    BY <1>6, <1>0, NamesAre, Drains, Worsens, Whither, Running, PrivateWritten DEF
       ClaimContainer, Drained, publish
  <1>7. CASE VerifyClaim
    BY <1>7, <1>0, NamesAre, Drains, Worsens, Whither, Running DEF VerifyClaim, Drained,
       publish, contract
  <1>8. CASE OpenPayload
    BY <1>8, <1>0, NamesAre, Drains, Worsens, Whither, Running, PrivateWritten DEF OpenPayload,
       Drained, publish, contract
  <1>9. CASE FillPayload
    BY <1>9, <1>0, NamesAre, Drains, Worsens, Whither, Running DEF FillPayload, Drained,
       publish, contract
  <1>10. CASE Capture
    BY <1>10, <1>0, NamesAre, Drains, Worsens, Whither, Running DEF Capture, Drained, Sweep,
       publish, contract
  <1>11. CASE AnnounceAndPublish
    BY <1>11, <1>0, NamesAre, Drains, Worsens, Whither, Running DEF AnnounceAndPublish,
       Awaiting, MayTry, publish, PublishStage, Publish, Sweep
  <1>12. CASE Exhausted
    BY <1>12, <1>0, NamesAre, Drains, Worsens, Whither, Running DEF Exhausted, MayTry, Sweep,
       publish, contract
  <1>13. CASE PublishAtomically
    BY <1>13, <1>0, NamesAre, Drains, Worsens, Whither, Running, Renames DEF PublishAtomically,
       Answer, Drained
  <1>14. CASE PublishCheck
    BY <1>14, <1>0, NamesAre, Drains, Worsens, Whither, Running DEF PublishCheck, Answer,
       Drained, contract
  <1>15. CASE PublishRename
    BY <1>15, <1>0, NamesAre, Drains, Worsens, Whither, Running, Renames DEF PublishRename,
       Answer, Drained
  <1>16. CASE PublishStat
    BY <1>16, <1>0, NamesAre, Drains, Worsens, Whither, Running, Aims DEF PublishStat, Answer,
       Drained, contract
  <1>17. CASE AfterPublish
    BY <1>17, <1>0, NamesAre, Drains, Worsens, Whither, Running DEF AfterPublish, Lost, GiveUp,
       Sweep, publish, contract
  <1>18. CASE StageOwned
    BY <1>18, <1>0, NamesAre, Drains, Worsens, Whither, Running, Owning DEF publish, contract
  <1>19. CASE CloseContainer
    BY <1>19, <1>0, NamesAre, Drains, Worsens, Whither, Running, PrivateWritten DEF
       CloseContainer, Drained, Sweep, publish
  <1>20. CASE DeleteSource
    BY <1>20, <1>0, NamesAre, Drains, Worsens, Whither, Running DEF DeleteSource, SourceAsSeen,
       Drained, publish
  <1>21. CASE ObserveVictim
    BY <1>21, <1>0, NamesAre, Drains, Worsens, Whither, Running DEF ObserveVictim, Awaiting,
       MayTry, PublishStage, Publish, contract, Sweep, publish, staged
  <1>22. CASE PublishedFresh
    BY <1>22, <1>0, NamesAre, Drains, Worsens, Whither, Running DEF PublishedFresh, Lost,
       GiveUp, Sweep, publish, contract
  <1>23. CASE BackedUp
    BY <1>23, <1>0, NamesAre, Drains, Worsens, Whither, Running DEF BackedUp, publish, GiveUp,
       Sweep, PublishStage, Publish, contract
  <1>24. CASE Committed
    BY <1>24, <1>0, NamesAre, Drains, Worsens, Whither, Running DEF Committed, publish, Publish,
       contract
  <1>25. CASE Restored
    BY <1>25, <1>0, NamesAre, Drains, Worsens, Whither, Running DEF Restored, Sweep, publish,
       contract
  <1>26. CASE DropBackup
    BY <1>26, <1>0, NamesAre, Drains, Worsens, Whither, Running, PrivateWritten DEF DropBackup,
       Drained, publish, contract
  <1>27. CASE DropPayload
    BY <1>27, <1>0, NamesAre, Drains, Worsens, Whither, Running, PrivateWritten DEF DropPayload,
       Drained, publish, contract
  <1>28. CASE DropContainer
    BY <1>28, <1>0, NamesAre, Drains, Worsens, Whither, Running, PrivateWritten DEF
       DropContainer, Drained, publish
  <1>29. CASE CancelledAtAwait
    BY <1>29, <1>0, NamesAre, Drains, Worsens, Whither, Running DEF CancelledAtAwait, Sweep,
       Raise, staged, publish
  <1>30. CASE FirstChunk
    BY <1>30, <1>0, NamesAre, Drains, Worsens, Whither, Running DEF FirstChunk, Awaiting,
       publish, contract
  <1>31. CASE CreateUpload
    BY <1>31, <1>0, NamesAre, Drains, Worsens, Whither, Running DEF CreateUpload, Drained,
       publish, contract
  <1>32. CASE UploadParts
    BY <1>32, <1>0, NamesAre, Drains, Worsens, Whither, Running DEF UploadParts, Awaiting,
       publish, contract
  <1>33. CASE SendObject
    BY <1>33, <1>0, NamesAre, Drains, Worsens, Whither, Running, PublicWritten DEF SendObject,
       Appears, Vacant, Drained
  <1>34. CASE AbortUpload
    BY <1>34, <1>0, NamesAre, Drains, Worsens, Whither, Running DEF AbortUpload, Drained,
       publish, contract
  <1>35. CASE RollBack
    BY <1>35, <1>0, NamesAre, Drains, Worsens, Whither, Running, PublicWritten DEF RollBack,
       publish, contract
  <1>36. CASE WriteEnds
    BY <1>36, <1>0, NamesAre, Drains, Worsens, Whither, Running DEF WriteEnds, MayTry, publish
  <1>37. CASE CancelledInWrite
    BY <1>37, <1>0, NamesAre, Drains, Worsens, Whither, Running DEF CancelledInWrite, publish,
       contract
  <1>38. CASE Cancel \/ EditSource \/ UNCHANGED vars \/ (\E x \in unborn: Tamper(x)) \/
             (\E x \in unborn: \E n \in Public: ExternalPut(n, x)) \/
             (\E n \in Public: ExternalRemove(n))
    <2>1. UNCHANGED <<pc, op, res, fail, target, verdict>>
      BY <1>38 DEF Cancel, publish, contract, EditSource, Quiet, vars, Tamper, ExternalPut,
         ExternalRemove
    <2> QED
      BY <2>1, <1>0
  <1> QED
    BY <1>1, <1>2, <1>3, <1>4, <1>5, <1>6, <1>7, <1>8, <1>9, <1>10, <1>11, <1>12, <1>13, <1>14,
       <1>15, <1>16, <1>17, <1>18, <1>19, <1>20, <1>21, <1>22, <1>23, <1>24, <1>25, <1>26,
       <1>27, <1>28, <1>29, <1>30, <1>31, <1>32, <1>33, <1>34, <1>35, <1>36, <1>37, <1>38 DEF
       Next, CopyStep, Environment, Ended

\* A name is recorded before it is used.
LEMMA NextNamed == CopyInv /\ [Next]_vars => Named'
  <1> SUFFICES ASSUME CopyInv, [Next]_vars PROVE Named'
    OBVIOUS
  <1> USE DEF CopyInv, Named, Naming, Staging, Publishing, Published, Writing
  <1>0. cur \in Public /\ Nil \notin Objects
    BY NilAssumption DEF TypeOK
  <1>1. CASE Start
    BY <1>1, <1>0, Whither DEF Start, Awaiting, Raise, staged, loop, publish
  <1>2. CASE Resolve
    BY <1>2, <1>0, Whither DEF Resolve, Awaiting, Chosen, staged, Direct, Raise, publish
  <1>3. CASE Probe
    BY <1>3, <1>0, Whither DEF Probe, Awaiting, Chosen, staged, Direct, Raise, publish
  <1>4. CASE ExistsCheck
    BY <1>4, <1>0, Whither DEF ExistsCheck, Awaiting, publish, contract, Raise, staged
  <1>5. CASE Intend
    BY <1>5, <1>0, Whither DEF Intend, Awaiting, Announced, Direct, Raise, staged, loop, publish
  <1>6. CASE ClaimContainer
    BY <1>6, <1>0, Whither, PrivateWritten DEF ClaimContainer, loop, publish
  <1>7. CASE VerifyClaim
    BY <1>7, <1>0, Whither DEF VerifyClaim, loop, publish, contract
  <1>8. CASE OpenPayload
    BY <1>8, <1>0, Whither, PrivateWritten DEF OpenPayload, loop, publish, contract
  <1>9. CASE FillPayload
    BY <1>9, <1>0, Whither DEF FillPayload, loop, publish, contract
  <1>10. CASE Capture
    BY <1>10, <1>0, Whither DEF Capture, Sweep, publish, contract
  <1>11. CASE AnnounceAndPublish
    BY <1>11, <1>0, Whither DEF AnnounceAndPublish, Awaiting, MayTry, Announced, publish,
       PublishStage, Publish, Sweep
  <1>12. CASE Exhausted
    BY <1>12, <1>0, Whither DEF Exhausted, MayTry, Sweep, loop, publish, contract
  <1>13. CASE PublishAtomically
    BY <1>13, <1>0, Whither, Renames DEF PublishAtomically, Answer, loop
  <1>14. CASE PublishCheck
    BY <1>14, <1>0, Whither DEF PublishCheck, Answer, loop, contract
  <1>15. CASE PublishRename
    BY <1>15, <1>0, Whither, Renames DEF PublishRename, Answer, loop
  <1>16. CASE PublishStat
    BY <1>16, <1>0, Whither DEF PublishStat, Answer, loop, contract
  <1>17. CASE AfterPublish
    BY <1>17, <1>0, Whither DEF AfterPublish, Lost, GiveUp, Sweep, loop, publish, contract
  <1>18. CASE StageOwned
    BY <1>18, <1>0, Whither, Owning DEF publish, contract
  <1>19. CASE CloseContainer
    BY <1>19, <1>0, Whither, PrivateWritten DEF CloseContainer, Sweep, loop, publish
  <1>20. CASE DeleteSource
    BY <1>20, <1>0, Whither DEF DeleteSource, SourceAsSeen, loop, publish
  <1>21. CASE ObserveVictim
    BY <1>21, <1>0, Whither DEF ObserveVictim, Awaiting, MayTry, PublishStage, Publish, loop,
       contract, Sweep, publish, staged
  <1>22. CASE PublishedFresh
    BY <1>22, <1>0, Whither DEF PublishedFresh, Lost, GiveUp, Sweep, loop, publish, contract
  <1>23. CASE BackedUp
    BY <1>23, <1>0, Whither DEF BackedUp, publish, GiveUp, Sweep, PublishStage, Publish,
       contract
  <1>24. CASE Committed
    BY <1>24, <1>0, Whither DEF Committed, publish, Publish, loop, contract
  <1>25. CASE Restored
    BY <1>25, <1>0, Whither DEF Restored, Sweep, loop, publish, contract
  <1>26. CASE DropBackup
    BY <1>26, <1>0, Whither, PrivateWritten DEF DropBackup, loop, publish, contract
  <1>27. CASE DropPayload
    BY <1>27, <1>0, Whither, PrivateWritten DEF DropPayload, loop, publish, contract
  <1>28. CASE DropContainer
    BY <1>28, <1>0, Whither, PrivateWritten DEF DropContainer, loop, publish
  <1>29. CASE CancelledAtAwait
    BY <1>29, <1>0, Whither DEF CancelledAtAwait, Sweep, Raise, staged, loop, publish
  <1>30. CASE FirstChunk
    BY <1>30, <1>0, Whither DEF FirstChunk, Awaiting, loop, publish, contract
  <1>31. CASE CreateUpload
    BY <1>31, <1>0, Whither DEF CreateUpload, loop, publish, contract
  <1>32. CASE UploadParts
    BY <1>32, <1>0, Whither DEF UploadParts, Awaiting, loop, publish, contract
  <1>33. CASE SendObject
    BY <1>33, <1>0, Whither, PublicWritten DEF SendObject, Vacant, loop
  <1>34. CASE AbortUpload
    BY <1>34, <1>0, Whither DEF AbortUpload, loop, publish, contract
  <1>35. CASE RollBack
    BY <1>35, <1>0, Whither, PublicWritten DEF RollBack, loop, publish, contract
  <1>36. CASE WriteEnds
    BY <1>36, <1>0, Whither DEF WriteEnds, MayTry, publish
  <1>37. CASE CancelledInWrite
    BY <1>37, <1>0, Whither DEF CancelledInWrite, loop, publish, contract
  <1>38. CASE Cancel \/ EditSource \/ UNCHANGED vars \/ (\E x \in unborn: Tamper(x)) \/
             (\E x \in unborn: \E n \in Public: ExternalPut(n, x)) \/
             (\E n \in Public: ExternalRemove(n))
    <2>1. UNCHANGED <<pc, cur, op, announced>>
      BY <1>38 DEF Cancel, loop, publish, contract, EditSource, Quiet, vars, Tamper,
         ExternalPut, ExternalRemove
    <2> QED
      BY <2>1, <1>0
  <1> QED
    BY <1>1, <1>2, <1>3, <1>4, <1>5, <1>6, <1>7, <1>8, <1>9, <1>10, <1>11, <1>12, <1>13, <1>14,
       <1>15, <1>16, <1>17, <1>18, <1>19, <1>20, <1>21, <1>22, <1>23, <1>24, <1>25, <1>26,
       <1>27, <1>28, <1>29, <1>30, <1>31, <1>32, <1>33, <1>34, <1>35, <1>36, <1>37, <1>38 DEF
       Next, CopyStep, Environment, Ended

\* Versions of the source only grow.
LEMMA NextVersions == CopyInv /\ [Next]_vars => Versions'
  <1> SUFFICES ASSUME CopyInv, [Next]_vars PROVE Versions'
    OBVIOUS
  <1> USE DEF CopyInv, Versions, Carried, Holds
  <1>0. /\ src # Nil => src \in Nat
        /\ srcSeen # Nil => srcSeen \in Nat
        /\ carried # Nil => carried \in Nat
    BY CopyAssumption DEF TypeOK
  <1>1. CASE Start
    BY <1>1, <1>0, Whither DEF Start, Awaiting, Raise, staged, config, stage
  <1>2. CASE Resolve
    BY <1>2, <1>0, Whither DEF Resolve, Awaiting, Chosen, staged, Direct, Raise, config, stage
  <1>3. CASE Probe
    BY <1>3, <1>0, Whither DEF Probe, Awaiting, Chosen, staged, Direct, Raise, config, stage
  <1>4. CASE ExistsCheck
    BY <1>4, <1>0, Whither DEF ExistsCheck, Awaiting, config, stage, Raise, staged
  <1>5. CASE Intend
    BY <1>5, <1>0, Whither DEF Intend, Awaiting, Direct, Raise, staged, config, stage
  <1>6. CASE ClaimContainer
    BY <1>6, <1>0, Whither DEF ClaimContainer, config, stage
  <1>7. CASE VerifyClaim
    BY <1>7, <1>0, Whither DEF VerifyClaim, config, stage
  <1>8. CASE OpenPayload
    BY <1>8, <1>0, Whither DEF OpenPayload, config
  <1>9. CASE FillPayload
    BY <1>9, <1>0, Whither DEF FillPayload, stage, config
  <1>10. CASE Capture
    BY <1>10, <1>0, Whither DEF Capture, Sweep, config, stage
  <1>11. CASE AnnounceAndPublish
    BY <1>11, <1>0, Whither DEF AnnounceAndPublish, Awaiting, MayTry, PublishStage, Publish,
       Sweep, config, stage
  <1>12. CASE Exhausted
    BY <1>12, <1>0, Whither DEF Exhausted, MayTry, Sweep, config, stage
  <1>13. CASE PublishAtomically
    BY <1>13, <1>0, Whither DEF PublishAtomically, Answer, config, stage
  <1>14. CASE PublishCheck
    BY <1>14, <1>0, Whither DEF PublishCheck, Answer, config, stage
  <1>15. CASE PublishRename
    BY <1>15, <1>0, Whither DEF PublishRename, Answer, config, stage
  <1>16. CASE PublishStat
    BY <1>16, <1>0, Whither DEF PublishStat, Answer, config, stage
  <1>17. CASE AfterPublish
    BY <1>17, <1>0, Whither DEF AfterPublish, Lost, GiveUp, Sweep, config, stage
  <1>18. CASE StageOwned
    <2>1. UNCHANGED <<moving, src, srcSeen, carried>>
      BY <1>18, Owning DEF config, stage
    <2>2. pc' \in {"ovw_stat", "resolve", "announce", "drop_payload"} /\ pc = "owned"
      BY <1>18, Owning
    <2> QED
      BY <2>1, <2>2
  <1>19. CASE CloseContainer
    BY <1>19, <1>0, Whither DEF CloseContainer, Sweep, config, stage
  <1>20. CASE DeleteSource
    BY <1>20, <1>0, Whither DEF DeleteSource, SourceAsSeen, config, stage
  <1>21. CASE ObserveVictim
    BY <1>21, <1>0, Whither DEF ObserveVictim, Awaiting, MayTry, PublishStage, Publish, config,
       stage, Sweep, publish, staged
  <1>22. CASE PublishedFresh
    BY <1>22, <1>0, Whither DEF PublishedFresh, Lost, GiveUp, Sweep, config, stage
  <1>23. CASE BackedUp
    BY <1>23, <1>0, Whither DEF BackedUp, GiveUp, Sweep, PublishStage, Publish, config, stage
  <1>24. CASE Committed
    BY <1>24, <1>0, Whither DEF Committed, Publish, config, stage
  <1>25. CASE Restored
    BY <1>25, <1>0, Whither DEF Restored, Sweep, config, stage
  <1>26. CASE DropBackup
    BY <1>26, <1>0, Whither DEF DropBackup, config, stage
  <1>27. CASE DropPayload
    BY <1>27, <1>0, Whither DEF DropPayload, config, stage
  <1>28. CASE DropContainer
    BY <1>28, <1>0, Whither DEF DropContainer, config, stage
  <1>29. CASE CancelledAtAwait
    BY <1>29, <1>0, Whither DEF CancelledAtAwait, Sweep, Raise, staged, config, stage
  <1>30. CASE FirstChunk
    BY <1>30, <1>0, Whither DEF FirstChunk, Awaiting, config
  <1>31. CASE CreateUpload
    BY <1>31, <1>0, Whither DEF CreateUpload, config
  <1>32. CASE UploadParts
    BY <1>32, <1>0, Whither DEF UploadParts, Awaiting, config
  <1>33. CASE SendObject
    BY <1>33, <1>0, Whither DEF SendObject, Vacant, config
  <1>34. CASE AbortUpload
    BY <1>34, <1>0, Whither DEF AbortUpload, config
  <1>35. CASE RollBack
    BY <1>35, <1>0, Whither DEF RollBack, config, stage
  <1>36. CASE WriteEnds
    BY <1>36, <1>0, Whither DEF WriteEnds, MayTry, config, stage
  <1>37. CASE CancelledInWrite
    BY <1>37, <1>0, Whither DEF CancelledInWrite, config, stage
  <1>38. CASE EditSource
    BY <1>38, <1>0, Whither, CopyAssumption, NilAssumption DEF EditSource, Quiet, config, stage
  <1>39. CASE Cancel \/ UNCHANGED vars \/ (\E x \in unborn: Tamper(x)) \/
             (\E x \in unborn: \E n \in Public: ExternalPut(n, x)) \/
             (\E n \in Public: ExternalRemove(n))
    <2>1. UNCHANGED <<src, moving, pc, carried, srcSeen>>
      BY <1>39 DEF Cancel, config, stage, vars, Tamper, Quiet, ExternalPut, ExternalRemove
    <2> QED
      BY <2>1, <1>0
  <1> QED
    BY <1>1, <1>2, <1>3, <1>4, <1>5, <1>6, <1>7, <1>8, <1>9, <1>10, <1>11, <1>12, <1>13, <1>14,
       <1>15, <1>16, <1>17, <1>18, <1>19, <1>20, <1>21, <1>22, <1>23, <1>24, <1>25, <1>26,
       <1>27, <1>28, <1>29, <1>30, <1>31, <1>32, <1>33, <1>34, <1>35, <1>36, <1>37, <1>38, <1>39
       DEF Next, CopyStep, Environment, Ended

\* A payload that is whole holds a version.
LEMMA NextHolds == CopyInv /\ [Next]_vars => Holds'
  <1> SUFFICES ASSUME CopyInv, [Next]_vars PROVE Holds'
    OBVIOUS
  <1> USE DEF CopyInv, Carried, Holds, staged, Clean, Undoing
  <1>0. moving => pc \in {"start", "end"} \/ srcSeen # Nil
    BY DEF Carried, Versions
  <1>1. pc \in {"close", "owned"} => staged
    BY DEF Control
  <1>2. src # Nil => src + 1 # Nil
    BY CopyAssumption, NilAssumption DEF TypeOK
  <1>3. CASE Start
    BY <1>3, <1>0, <1>1, <1>2, Drains, Whither, NilAssumption DEF Start, Awaiting, Raise,
       config, stage
  <1>4. CASE Resolve
    BY <1>4, <1>0, <1>1, <1>2, Drains, Whither, NilAssumption DEF Resolve, Awaiting, Chosen,
       Direct, Raise, config, stage
  <1>5. CASE Probe
    BY <1>5, <1>0, <1>1, <1>2, Drains, Whither, NilAssumption DEF Probe, Awaiting, Chosen,
       Direct, Raise, config, stage
  <1>6. CASE ExistsCheck
    BY <1>6, <1>0, <1>1, <1>2, Drains, Whither, NilAssumption DEF ExistsCheck, Awaiting, config,
       stage, Raise, staged
  <1>7. CASE Intend
    BY <1>7, <1>0, <1>1, <1>2, Drains, Whither, NilAssumption DEF Intend, Awaiting, Direct,
       Raise, config, stage
  <1>8. CASE ClaimContainer
    BY <1>8, <1>0, <1>1, <1>2, Drains, Whither, NilAssumption DEF ClaimContainer, Drained,
       config, stage
  <1>9. CASE VerifyClaim
    BY <1>9, <1>0, <1>1, <1>2, Drains, Whither, NilAssumption DEF VerifyClaim, Drained, config,
       stage
  <1>10. CASE OpenPayload
    BY <1>10, <1>0, <1>1, <1>2, Drains, Whither, NilAssumption DEF OpenPayload, Drained, config
  <1>11. CASE FillPayload
    BY <1>11, <1>0, <1>1, <1>2, Drains, Whither, NilAssumption DEF FillPayload, Drained, stage,
       config
  <1>12. CASE Capture
    BY <1>12, <1>0, <1>1, <1>2, Drains, Whither, NilAssumption DEF Capture, Drained, Sweep,
       config, stage
  <1>13. CASE AnnounceAndPublish
    BY <1>13, <1>0, <1>1, <1>2, Drains, Whither, NilAssumption DEF AnnounceAndPublish, Awaiting,
       MayTry, PublishStage, Publish, Sweep, config, stage
  <1>14. CASE Exhausted
    BY <1>14, <1>0, <1>1, <1>2, Drains, Whither, NilAssumption DEF Exhausted, MayTry, Sweep,
       config, stage
  <1>15. CASE PublishAtomically
    BY <1>15, <1>0, <1>1, <1>2, Drains, Whither, NilAssumption DEF PublishAtomically, Answer,
       Drained, config, stage
  <1>16. CASE PublishCheck
    BY <1>16, <1>0, <1>1, <1>2, Drains, Whither, NilAssumption DEF PublishCheck, Answer,
       Drained, config, stage
  <1>17. CASE PublishRename
    BY <1>17, <1>0, <1>1, <1>2, Drains, Whither, NilAssumption DEF PublishRename, Answer,
       Drained, config, stage
  <1>18. CASE PublishStat
    BY <1>18, <1>0, <1>1, <1>2, Drains, Whither, NilAssumption DEF PublishStat, Answer, Drained,
       config, stage
  <1>19. CASE AfterPublish
    BY <1>19, <1>0, <1>1, <1>2, Drains, Whither, NilAssumption DEF AfterPublish, Lost, GiveUp,
       Sweep, config, stage
  <1>20. CASE StageOwned
    BY <1>20, <1>0, <1>1, <1>2, Drains, Whither, NilAssumption, Owning DEF config, stage
  <1>21. CASE CloseContainer
    BY <1>21, <1>0, <1>1, <1>2, Drains, Whither, NilAssumption DEF CloseContainer, Drained,
       Sweep, config, stage
  <1>22. CASE DeleteSource
    BY <1>22, <1>0, <1>1, <1>2, Drains, Whither, NilAssumption DEF DeleteSource, SourceAsSeen,
       Drained, config, stage
  <1>23. CASE ObserveVictim
    BY <1>23, <1>0, <1>1, <1>2, Drains, Whither, NilAssumption DEF ObserveVictim, Awaiting, MayTry,
       PublishStage, Publish, config, stage, Sweep, publish, staged
  <1>24. CASE PublishedFresh
    BY <1>24, <1>0, <1>1, <1>2, Drains, Whither, NilAssumption DEF PublishedFresh, Lost, GiveUp,
       Sweep, config, stage
  <1>25. CASE BackedUp
    BY <1>25, <1>0, <1>1, <1>2, Drains, Whither, NilAssumption DEF BackedUp, GiveUp, Sweep,
       PublishStage, Publish, config, stage
  <1>26. CASE Committed
    BY <1>26, <1>0, <1>1, <1>2, Drains, Whither, NilAssumption DEF Committed, Publish, config,
       stage
  <1>27. CASE Restored
    BY <1>27, <1>0, <1>1, <1>2, Drains, Whither, NilAssumption DEF Restored, Sweep, config,
       stage
  <1>28. CASE DropBackup
    BY <1>28, <1>0, <1>1, <1>2, Drains, Whither, NilAssumption DEF DropBackup, Drained, config,
       stage
  <1>29. CASE DropPayload
    BY <1>29, <1>0, <1>1, <1>2, Drains, Whither, NilAssumption DEF DropPayload, Drained, config,
       stage
  <1>30. CASE DropContainer
    BY <1>30, <1>0, <1>1, <1>2, Drains, Whither, NilAssumption DEF DropContainer, Drained,
       config, stage
  <1>31. CASE CancelledAtAwait
    BY <1>31, <1>0, <1>1, <1>2, Drains, Whither, NilAssumption DEF CancelledAtAwait, Sweep,
       Raise, config, stage
  <1>32. CASE FirstChunk
    BY <1>32, <1>0, <1>1, <1>2, Drains, Whither, NilAssumption DEF FirstChunk, Awaiting, config
  <1>33. CASE CreateUpload
    BY <1>33, <1>0, <1>1, <1>2, Drains, Whither, NilAssumption DEF CreateUpload, Drained, config
  <1>34. CASE UploadParts
    BY <1>34, <1>0, <1>1, <1>2, Drains, Whither, NilAssumption DEF UploadParts, Awaiting, config
  <1>35. CASE SendObject
    BY <1>35, <1>0, <1>1, <1>2, Drains, Whither, NilAssumption DEF SendObject, Drained, Vacant,
       config
  <1>36. CASE AbortUpload
    BY <1>36, <1>0, <1>1, <1>2, Drains, Whither, NilAssumption DEF AbortUpload, Drained, config
  <1>37. CASE RollBack
    BY <1>37, <1>0, <1>1, <1>2, Drains, Whither, NilAssumption DEF RollBack, config, stage
  <1>38. CASE WriteEnds
    BY <1>38, <1>0, <1>1, <1>2, Drains, Whither, NilAssumption DEF WriteEnds, MayTry, config,
       stage
  <1>39. CASE CancelledInWrite
    BY <1>39, <1>0, <1>1, <1>2, Drains, Whither, NilAssumption DEF CancelledInWrite, config,
       stage
  <1>40. CASE EditSource
    BY <1>40, <1>0, <1>1, <1>2, Drains, Whither, NilAssumption DEF EditSource, Quiet, config,
       stage
  <1>41. CASE Cancel \/ UNCHANGED vars \/ (\E x \in unborn: Tamper(x)) \/
             (\E x \in unborn: \E n \in Public: ExternalPut(n, x)) \/
             (\E n \in Public: ExternalRemove(n))
    <2>1. UNCHANGED <<src, moving, pc, claim, carried, fail>>
      BY <1>41 DEF Cancel, config, stage, vars, Tamper, Quiet, ExternalPut, ExternalRemove
    <2> QED
      BY <2>1, <1>0, <1>1, <1>2
  <1> QED
    BY <1>3, <1>4, <1>5, <1>6, <1>7, <1>8, <1>9, <1>10, <1>11, <1>12, <1>13, <1>14, <1>15,
       <1>16, <1>17, <1>18, <1>19, <1>20, <1>21, <1>22, <1>23, <1>24, <1>25, <1>26, <1>27,
       <1>28, <1>29, <1>30, <1>31, <1>32, <1>33, <1>34, <1>35, <1>36, <1>37, <1>38, <1>39,
       <1>40, <1>41 DEF Next, CopyStep, Environment, Ended

\* The source goes only at the version that was published.
LEMMA NextMoveKeepsData == CopyInv /\ [Next]_vars => MoveKeepsData'
  <1> SUFFICES ASSUME CopyInv, [Next]_vars PROVE MoveKeepsData'
    OBVIOUS
  <1> USE DEF CopyInv, Carried, MoveKeepsData
  <1>0. /\ src # Nil => src \in Nat
        /\ srcSeen # Nil => srcSeen \in Nat
        /\ carried # Nil => carried \in Nat
    BY CopyAssumption DEF TypeOK
  <1>1. /\ src = Nil => pc = "end"
        /\ pc = "delete_source" => target # Nil /\ srcSeen # Nil /\ carried # Nil /\ src # Nil
        /\ pc = "delete_source" => srcSeen <= carried /\ carried <= src
    BY DEF Carried, Versions, Holds, Appeared
  <1>2. CASE Start
    BY <1>2, <1>0, <1>1 DEF Start, Awaiting, stage
  <1>3. CASE FillPayload
    BY <1>3, <1>0, <1>1 DEF FillPayload, stage, contract
  <1>4. CASE PublishAtomically
    BY <1>4, <1>0, <1>1, Renames, NamesAre DEF PublishAtomically, stage
  <1>5. CASE PublishRename
    BY <1>5, <1>0, <1>1, Renames, NamesAre DEF PublishRename, stage
  <1>6. CASE DeleteSource
    BY <1>6, <1>0, <1>1 DEF DeleteSource, SourceAsSeen, stage
  <1>7. CASE FirstChunk
    BY <1>7, <1>0, <1>1 DEF FirstChunk, Awaiting, contract
  <1>8. CASE UploadParts
    BY <1>8, <1>0, <1>1 DEF UploadParts, Awaiting, contract
  <1>9. CASE SendObject
    BY <1>9, <1>0, <1>1 DEF SendObject, Appears, Vacant
  <1>10. CASE EditSource
    BY <1>10, <1>0, <1>1, NilAssumption DEF EditSource, Quiet, stage, contract
  <1>11. CASE Resolve \/ Probe \/ ExistsCheck \/ Intend \/ ClaimContainer \/ VerifyClaim \/
             OpenPayload \/ Capture \/ AnnounceAndPublish \/ Exhausted \/ PublishCheck \/
             PublishStat \/ AfterPublish \/ StageOwned \/ CloseContainer \/ ObserveVictim \/
             PublishedFresh \/ BackedUp \/ Committed \/ Restored \/ DropBackup \/ DropPayload \/
             DropContainer \/ CancelledAtAwait \/ CreateUpload \/ AbortUpload \/ RollBack \/
             WriteEnds \/ CancelledInWrite \/ Cancel \/ UNCHANGED vars \/
             (\E x \in unborn: Tamper(x)) \/
             (\E x \in unborn: \E n \in Public: ExternalPut(n, x)) \/
             (\E n \in Public: ExternalRemove(n))
    <2>1. UNCHANGED <<src, carried, srcSeen, target>>
      BY <1>11 DEF Resolve, stage, Probe, ExistsCheck, contract, Intend, ClaimContainer,
         VerifyClaim, OpenPayload, Capture, AnnounceAndPublish, Exhausted, PublishCheck,
         PublishStat, AfterPublish, StageOwned, CloseContainer, ObserveVictim, PublishedFresh,
         BackedUp, Committed, Restored, DropBackup, DropPayload, DropContainer,
         CancelledAtAwait, CreateUpload, AbortUpload, RollBack, WriteEnds, CancelledInWrite,
         Cancel, vars, Tamper, Quiet, ExternalPut, ExternalRemove
    <2> QED
      BY <2>1, <1>0, <1>1
  <1> QED
    BY <1>2, <1>3, <1>4, <1>5, <1>6, <1>7, <1>8, <1>9, <1>10, <1>11 DEF Next, CopyStep,
       Environment, Ended

\* Each write and each rename spares what other processes own.
LEMMA NextNoLoss == CopyInv /\ [Next]_vars => NoLoss'
  <1> SUFFICES ASSUME CopyInv, [Next]_vars PROVE NoLoss'
    OBVIOUS
  <1> USE DEF CopyInv
  <1>0. (\A x \in alive: x \in Foreign /\ x # "ours" /\ x # "box") /\ cur \in Public
    BY Outsiders DEF TypeOK
  <1>1. /\ pc = "claim" => fs[Container] = Nil
        /\ fs[Container] \in {Nil, New("box")}
    BY DEF Privately, Bare
  <1>2. CASE ClaimContainer
    <2>1. UNCHANGED <<policy, kind, alive, seen, target>>
      BY <1>2 DEF ClaimContainer, contract, config, history
    <2>2. UNCHANGED fs \/ \E o: Put(Container, o) /\ fs[Container] = Nil
      BY <1>2, <1>1 DEF ClaimContainer
    <2>3. ASSUME NEW o, Put(Container, o), fs[Container] = Nil PROVE NoLoss'
      <3>1. \A x \in alive: fs[Container] = Nil \/ fs[Container].id # x
        BY <2>3, <1>0, OursIs
      <3> QED
        BY <1>0, <2>1, <2>3, <3>1, NamesAre, NoneLost
    <2> QED
      BY <2>1, <2>2, <2>3, NoneMoved
  <1>3. CASE OpenPayload
    <2>1. UNCHANGED <<policy, kind, alive, seen, target>>
      BY <1>3 DEF OpenPayload, contract, config, history
    <2>2. UNCHANGED fs \/ \E o: Put(Payload, o) /\ fs[Payload] = Nil
      BY <1>3, <1>1 DEF OpenPayload
    <2>3. ASSUME NEW o, Put(Payload, o), fs[Payload] = Nil PROVE NoLoss'
      <3>1. \A x \in alive: fs[Payload] = Nil \/ fs[Payload].id # x
        BY <2>3, <1>0, OursIs
      <3> QED
        BY <1>0, <2>1, <2>3, <3>1, NamesAre, NoneLost
    <2> QED
      BY <2>1, <2>2, <2>3, NoneMoved
  <1>4. CASE CloseContainer
    <2>1. UNCHANGED <<policy, kind, alive, seen, target>>
      BY <1>4 DEF CloseContainer, Remove, contract, config, history
    <2>2. UNCHANGED fs \/ \E o: Put(Container, o) /\ fs[Container] \in {Nil, New("box")}
      BY <1>4, <1>1 DEF CloseContainer, Remove
    <2>3. ASSUME NEW o, Put(Container, o), fs[Container] \in {Nil, New("box")} PROVE NoLoss'
      <3>1. \A x \in alive: fs[Container] = Nil \/ fs[Container].id # x
        BY <2>3, <1>0, OursIs
      <3> QED
        BY <1>0, <2>1, <2>3, <3>1, NamesAre, NoneLost
    <2> QED
      BY <2>1, <2>2, <2>3, NoneMoved
  <1>5. CASE DropContainer
    <2>1. UNCHANGED <<policy, kind, alive, seen, target>>
      BY <1>5 DEF DropContainer, Remove, contract, config, history
    <2>2. UNCHANGED fs \/ \E o: Put(Container, o) /\ fs[Container] \in {Nil, New("box")}
      BY <1>5, <1>1 DEF DropContainer, Remove
    <2>3. ASSUME NEW o, Put(Container, o), fs[Container] \in {Nil, New("box")} PROVE NoLoss'
      <3>1. \A x \in alive: fs[Container] = Nil \/ fs[Container].id # x
        BY <2>3, <1>0, OursIs
      <3> QED
        BY <1>0, <2>1, <2>3, <3>1, NamesAre, NoneLost
    <2> QED
      BY <2>1, <2>2, <2>3, NoneMoved
  <1>6. CASE DropPayload
    <2>1. UNCHANGED <<policy, kind, alive, seen, target>>
      BY <1>6 DEF DropPayload, Claimed, Remove, contract, config, history
    <2>2. UNCHANGED fs \/ \E o: Put(Payload, o) /\ fs[Payload].id = "ours"
      BY <1>6, OursIs DEF DropPayload, Claimed, Remove
    <2>3. ASSUME NEW o, Put(Payload, o), fs[Payload].id = "ours" PROVE NoLoss'
      <3>1. \A x \in alive: fs[Payload] = Nil \/ fs[Payload].id # x
        BY <2>3, <1>0, OursIs
      <3> QED
        BY <1>0, <2>1, <2>3, <3>1, NamesAre, NoneLost
    <2> QED
      BY <2>1, <2>2, <2>3, NoneMoved
  <1>7. CASE RollBack
    <2>1. UNCHANGED <<policy, kind, alive, seen, target>>
      BY <1>7 DEF RollBack, contract, config, history
    <2>2. UNCHANGED fs \/ \E o: Put(cur, o) /\ fs[cur] = New("ours")
      BY <1>7, <1>1 DEF RollBack
    <2>3. ASSUME NEW o, Put(cur, o), fs[cur] = New("ours") PROVE NoLoss'
      <3>1. \A x \in alive: fs[cur] = Nil \/ fs[cur].id # x
        BY <2>3, <1>0, OursIs
      <3> QED
        BY <1>0, <2>1, <2>3, <3>1, NamesAre, NoneLost
    <2> QED
      BY <2>1, <2>2, <2>3, NoneMoved
  <1>8. CASE DropBackup
    <2>1. UNCHANGED <<policy, kind, alive, seen, target>>
      BY <1>8 DEF DropBackup, contract, config, history
    <2>2. /\ policy = "OVERWRITE" /\ target # Nil /\ saved # Nil
          /\ kind = "ideal" => saved.id \in seen
      BY <1>8 DEF DropBackup, Publication, Appeared, Observed, BackedUpSafely, Aside
    <2>3. UNCHANGED fs \/ (fs[Backup] = saved /\ Put(Backup, Nil))
      BY <1>8 DEF DropBackup, Remove
    <2>4. ASSUME fs[Backup] = saved, Put(Backup, Nil), NEW x \in alive PROVE Spared(x)'
      <3>1. CASE saved.id = x
        BY <2>1, <2>2, <3>1 DEF Spared
      <3>2. CASE saved.id # x
        BY <2>1, <2>4, <3>2, NoLossIs, NamesAre, Survives DEF Spared
      <3> QED
        BY <3>1, <3>2
    <2> QED
      BY <2>1, <2>3, <2>4, NoneMoved DEF NoLoss, Spared
  <1>9. CASE PublishAtomically
    <2>1. UNCHANGED <<policy, kind, alive, seen>>
      BY <1>9 DEF PublishAtomically, config, history
    <2>2. UNCHANGED <<fs, target>> \/ (Rename /\ Free /\ Validated /\ pc = "pub_check")
      BY <1>9 DEF PublishAtomically
    <2>3. CASE UNCHANGED <<fs, target>>
      BY <2>1, <2>3, NoneMoved
    <2>4. CASE Rename /\ Free /\ Validated /\ pc = "pub_check"
      <3>1. pc \in {"pub_check", "pub_rename"}
        BY <1>9 DEF PublishAtomically
      <3>2. target' # Nil \/ UNCHANGED target
        BY <2>4, <3>1, Renames, NamesAre
      <3>3. ASSUME NEW x \in alive, Somewhere(x) PROVE Somewhere(x)'
        BY <2>4, <3>1, <3>3, SurvivesRename
      <3>4. ASSUME NEW x \in alive PROVE Spared(x)'
        BY <2>1, <3>2, <3>3, <3>4, NoLossIs DEF Spared
      <3> QED
        BY <2>1, <3>4 DEF NoLoss, Spared
    <2> QED
      BY <2>2, <2>3, <2>4
  <1>10. CASE PublishRename
    <2>1. UNCHANGED <<policy, kind, alive, seen>>
      BY <1>10 DEF PublishRename, config, history
    <2>2. UNCHANGED <<fs, target>> \/ (Rename /\ Free /\ fs[op.from] # Nil)
      BY <1>10 DEF PublishRename
    <2>3. CASE UNCHANGED <<fs, target>>
      BY <2>1, <2>3, NoneMoved
    <2>4. CASE Rename /\ Free /\ fs[op.from] # Nil
      <3>1. pc \in {"pub_check", "pub_rename"}
        BY <1>10 DEF PublishRename
      <3>2. target' # Nil \/ UNCHANGED target
        BY <2>4, <3>1, Renames, NamesAre
      <3>3. ASSUME NEW x \in alive, Somewhere(x) PROVE Somewhere(x)'
        BY <2>4, <3>1, <3>3, SurvivesRename
      <3>4. ASSUME NEW x \in alive PROVE Spared(x)'
        BY <2>1, <3>2, <3>3, <3>4, NoLossIs DEF Spared
      <3> QED
        BY <2>1, <3>4 DEF NoLoss, Spared
    <2> QED
      BY <2>2, <2>3, <2>4
  <1>11. CASE SendObject
    <2>1. UNCHANGED <<policy, kind, alive, seen>> /\ kind # "ideal" /\ cur \in Public
      BY <1>11, <1>0, Sides DEF SendObject, config, history, Direct
    <2>2. \/ UNCHANGED <<fs, target>>
          \/ Put(cur, New("ours")) /\ target' = cur /\ (policy = "OVERWRITE" \/ fs[cur] = Nil)
      BY <1>11 DEF SendObject, Appears, Vacant
    <2>3. CASE UNCHANGED <<fs, target>>
      BY <2>1, <2>3, NoneMoved
    <2>4. CASE Put(cur, New("ours")) /\ target' = cur /\ policy = "OVERWRITE"
      BY <2>1, <2>4, NamesAre DEF NoLoss
    <2>5. CASE Put(cur, New("ours")) /\ target' = cur /\ fs[cur] = Nil
      BY <2>1, <2>5, NoneLost, NamesAre
    <2> QED
      BY <2>2, <2>3, <2>4, <2>5
  <1>12. ASSUME NEW x \in unborn, Tamper(x) PROVE NoLoss'
    <2>1. UNCHANGED <<policy, kind, target, seen>>
      BY <1>12 DEF Tamper, Quiet, contract, config
    <2>2. Put(Payload, New(x)) /\ fs[Payload] = New("ours") /\ alive' = alive \cup {x}
      BY <1>12, OursIs DEF Tamper, IdAt
    <2>3. ASSUME NEW y \in alive' PROVE Spared(y)'
      <3>1. fs'[Payload] = New(x) /\ x \in Foreign
        BY <2>2, PrivateWritten DEF TypeOK
      <3>2. CASE y = x
        BY <3>1, <3>2, NewIs, NamesAre DEF Spared, Somewhere
      <3>3. CASE y # x
        BY <1>0, <2>1, <2>2, <2>3, <3>3, NoLossIs, OursIs, NamesAre, Survives DEF Spared
      <3> QED
        BY <3>2, <3>3
    <2> QED
      BY <2>3 DEF NoLoss, Spared
  <1>13. ASSUME NEW x \in unborn, NEW n \in Public, ExternalPut(n, x) PROVE NoLoss'
    <2>1. UNCHANGED <<policy, kind, target, seen>>
      BY <1>13 DEF ExternalPut, Quiet, contract, config
    <2>2. Put(n, New(x)) /\ alive' = (alive \cup {x}) \ IdAt(n)
      BY <1>13, OursIs DEF ExternalPut, Quiet
    <2>3. ASSUME NEW y \in alive' PROVE Spared(y)'
      <3>1. fs'[n] = New(x) /\ x \in Foreign
        BY <2>2, PublicWritten DEF TypeOK
      <3>2. CASE y = x
        BY <3>1, <3>2, NewIs DEF Spared, Somewhere
      <3>3. CASE y # x
        BY <2>1, <2>2, <2>3, <3>3, NoLossIs, Survives DEF Spared, IdAt
      <3> QED
        BY <3>2, <3>3
    <2> QED
      BY <2>3 DEF NoLoss, Spared
  <1>14. ASSUME NEW n \in Public, ExternalRemove(n) PROVE NoLoss'
    <2>1. UNCHANGED <<policy, kind, target, seen>>
      BY <1>14 DEF ExternalRemove, Quiet, contract, config
    <2>2. Put(n, Nil) /\ alive' = alive \ IdAt(n)
      BY <1>14, OursIs DEF ExternalRemove, Remove
    <2>3. ASSUME NEW y \in alive' PROVE Spared(y)'
      BY <2>1, <2>2, <2>3, NoLossIs, Survives DEF Spared, IdAt
    <2> QED
      BY <2>3 DEF NoLoss, Spared
  <1>15. CASE Start \/ Resolve \/ Probe \/ ExistsCheck \/ Intend \/ VerifyClaim \/ FillPayload
             \/ Capture \/ AnnounceAndPublish \/ Exhausted \/ PublishCheck \/ PublishStat \/
             AfterPublish \/ StageOwned \/ DeleteSource \/ ObserveVictim \/ PublishedFresh \/
             BackedUp \/ Committed \/ Restored \/ CancelledAtAwait \/ FirstChunk \/ CreateUpload
             \/ UploadParts \/ AbortUpload \/ WriteEnds \/ CancelledInWrite \/ Cancel \/
             EditSource \/ UNCHANGED vars
    <2>1. UNCHANGED <<fs, policy, kind, alive, target>> /\ seen \subseteq seen'
      BY <1>15 DEF Start, config, history, Resolve, Probe, ExistsCheck, contract, Intend,
         VerifyClaim, FillPayload, Capture, AnnounceAndPublish, Exhausted, PublishCheck,
         PublishStat, AfterPublish, StageOwned, DeleteSource, ObserveVictim, PublishedFresh,
         BackedUp, Committed, Restored, CancelledAtAwait, FirstChunk, CreateUpload, UploadParts,
         AbortUpload, WriteEnds, CancelledInWrite, Cancel, EditSource, Quiet, vars
    <2> QED
      BY <2>1, NoneMoved
  <1> QED
    BY <1>2, <1>3, <1>4, <1>5, <1>6, <1>7, <1>8, <1>9, <1>10, <1>11, <1>12, <1>13, <1>14, <1>15
       DEF Next, CopyStep, Environment, Ended

\* The arguments never change.
LEMMA NextConfigOK == CopyInv /\ [Next]_vars => ConfigOK'
  <1> SUFFICES ASSUME CopyInv, [Next]_vars PROVE ConfigOK'
    OBVIOUS
  <1> USE DEF CopyInv, ConfigOK
  <1>0. /\ ConfigOK /\ LoopOK /\ ObjectsOK /\ SourceOK
        /\ OutcomeOK /\ ContractOK /\ HistoryOK
    BY DEF TypeOK, ConfigOK, LoopOK, ObjectsOK, SourceOK, OutcomeOK, ContractOK, HistoryOK
  <1>1. CASE Resolve
    BY <1>1, <1>0 DEF Resolve, Awaiting, Chosen, staged, Direct, config
  <1>2. CASE Probe
    BY <1>2, <1>0 DEF Probe, Awaiting, Chosen, staged, Direct, config
  <1>3. CASE ExistsCheck
    BY <1>3, <1>0 DEF ExistsCheck, Awaiting, config, Raise, staged
  <1>4. CASE StageOwned
    BY <1>4, <1>0, Owning DEF config
  <1>5. CASE Start \/ Intend \/ ClaimContainer \/ VerifyClaim \/ OpenPayload \/ FillPayload \/
            Capture \/ AnnounceAndPublish \/ Exhausted \/ PublishAtomically \/ PublishCheck \/
            PublishRename \/ PublishStat \/ AfterPublish \/ CloseContainer \/ DeleteSource \/
            ObserveVictim \/ PublishedFresh \/ BackedUp \/ Committed \/ Restored \/ DropBackup
            \/ DropPayload \/ DropContainer \/ CancelledAtAwait \/ FirstChunk \/ CreateUpload \/
            UploadParts \/ SendObject \/ AbortUpload \/ RollBack \/ WriteEnds \/
            CancelledInWrite \/ Cancel \/ EditSource \/ UNCHANGED vars \/
            (\E x \in unborn: Tamper(x)) \/
            (\E x \in unborn: \E n \in Public: ExternalPut(n, x)) \/
            (\E n \in Public: ExternalRemove(n))
    <2>1. UNCHANGED <<policy, kind, moving, exists>>
      BY <1>5 DEF Start, config, loop, Intend, ClaimContainer, VerifyClaim, OpenPayload,
         FillPayload, Capture, AnnounceAndPublish, Exhausted, PublishAtomically, PublishCheck,
         PublishRename, PublishStat, AfterPublish, CloseContainer, DeleteSource, ObserveVictim,
         PublishedFresh, BackedUp, Committed, Restored, DropBackup, DropPayload, DropContainer,
         CancelledAtAwait, FirstChunk, CreateUpload, UploadParts, SendObject, AbortUpload,
         RollBack, WriteEnds, CancelledInWrite, Cancel, EditSource, Quiet, vars, Tamper,
         ExternalPut, ExternalRemove
    <2> QED
      BY <2>1, <1>0
  <1> QED
    BY <1>1, <1>2, <1>3, <1>4, <1>5 DEF Next, CopyStep, Environment, Ended

\* The loops stay in their range.
LEMMA NextLoopOK == CopyInv /\ [Next]_vars => LoopOK'
  <1> SUFFICES ASSUME CopyInv, [Next]_vars PROVE LoopOK'
    OBVIOUS
  <1> USE DEF CopyInv, LoopOK, Public
  <1>0. /\ ConfigOK /\ LoopOK /\ ObjectsOK /\ SourceOK
        /\ OutcomeOK /\ ContractOK /\ HistoryOK
    BY DEF TypeOK, ConfigOK, LoopOK, ObjectsOK, SourceOK, OutcomeOK, ContractOK, HistoryOK
  <1>1. /\ pc \in {"drop_payload", "drop_container"} => sweeps \in 1 .. 2
        /\ pc = "owned" /\ op.then = "published" => tries <= Attempts
        /\ pc = "owned" /\ op.then = "ovw_fresh" => rounds <= Attempts
        /\ pc = "backed" => rounds <= Attempts
    BY DEF Control, Sweeping, Publication, Published
  <1>2. Requested \in Public /\ 1 \in Public /\ Attempts \in Nat \ {0}
    BY CopyAssumption, NamesAre
  <1>3. CASE Start
    BY <1>3, <1>0, <1>1 DEF Start, Awaiting, Raise, staged, loop
  <1>4. CASE Resolve
    BY <1>4, <1>0, <1>1, <1>2 DEF Resolve, Awaiting, Chosen, staged, Direct, Raise
  <1>5. CASE Probe
    BY <1>5, <1>0, <1>1, <1>2 DEF Probe, Awaiting, Chosen, staged, Direct, Raise
  <1>6. CASE Intend
    BY <1>6, <1>0, <1>1 DEF Intend, Awaiting, Direct, Raise, staged, loop
  <1>7. CASE ClaimContainer
    BY <1>7, <1>0, <1>1 DEF ClaimContainer, loop
  <1>8. CASE VerifyClaim
    BY <1>8, <1>0, <1>1 DEF VerifyClaim, loop
  <1>9. CASE Capture
    BY <1>9, <1>0, <1>1, <1>2 DEF Capture, Sweep
  <1>10. CASE AnnounceAndPublish
    BY <1>10, <1>0, <1>1, <1>2 DEF AnnounceAndPublish, Awaiting, MayTry, Sweep
  <1>11. CASE Exhausted
    BY <1>11, <1>0, <1>1 DEF Exhausted, MayTry, Sweep, loop
  <1>12. CASE AfterPublish
    BY <1>12, <1>0, <1>1 DEF AfterPublish, Lost, GiveUp, Sweep, loop
  <1>13. CASE StageOwned
    <2>1. cur' = cur
      BY <1>13, Owning
    <2>2. sweeps' = sweeps \/ sweeps' \in 1 .. 2
      BY <1>13, Owning
    <2>3. sweeps' \in 0 .. 2
      BY <1>0, <2>2 DEF LoopOK
    <2>4. tries' = tries \/ (tries' = tries + 1 /\ tries <= Attempts)
      BY <1>13, <1>1, Owning
    <2>5. rounds' = rounds \/ (rounds' = rounds + 1 /\ rounds <= Attempts)
      BY <1>13, <1>1, Owning
    <2> QED
      BY <1>0, <1>2, <2>1, <2>3, <2>4, <2>5
  <1>14. CASE CloseContainer
    BY <1>14, <1>0, <1>1 DEF CloseContainer, Sweep, loop
  <1>15. CASE PublishedFresh
    BY <1>15, <1>0, <1>1 DEF PublishedFresh, Lost, GiveUp, Sweep, loop
  <1>16. CASE BackedUp
    BY <1>16, <1>0, <1>1, <1>2 DEF BackedUp, GiveUp, Sweep
  <1>17. CASE Restored
    BY <1>17, <1>0, <1>1 DEF Restored, Sweep, loop
  <1>18. CASE DropContainer
    BY <1>18, <1>0, <1>1 DEF DropContainer, Swept, loop
  <1>19. CASE CancelledAtAwait
    BY <1>19, <1>0, <1>1 DEF CancelledAtAwait, Sweep, Raise, staged, loop
  <1>20. CASE WriteEnds
    BY <1>20, <1>0, <1>1, <1>2 DEF WriteEnds, MayTry
  <1>22. CASE ExistsCheck
    BY <1>22, <1>0, <1>1 DEF ExistsCheck, Raise, staged
  <1>23. CASE ObserveVictim
    BY <1>23, <1>0, <1>1 DEF ObserveVictim, PublishStage, Publish, Sweep, loop
  <1>21. CASE OpenPayload \/ FillPayload \/ PublishAtomically \/ PublishCheck \/
             PublishRename \/ PublishStat \/ DeleteSource \/ Committed \/
             DropBackup \/ DropPayload \/ FirstChunk \/ CreateUpload \/ UploadParts \/
             SendObject \/ AbortUpload \/ RollBack \/ CancelledInWrite \/ Cancel \/ EditSource
             \/ UNCHANGED vars \/ (\E x \in unborn: Tamper(x)) \/
             (\E x \in unborn: \E n \in Public: ExternalPut(n, x)) \/
             (\E n \in Public: ExternalRemove(n))
    <2>1. UNCHANGED <<cur, tries, rounds, sweeps>>
      BY <1>21 DEF OpenPayload, loop, FillPayload, PublishAtomically, PublishCheck,
         PublishRename, PublishStat, DeleteSource, Committed, DropBackup,
         DropPayload, FirstChunk, CreateUpload, UploadParts, SendObject, AbortUpload, RollBack,
         CancelledInWrite, Cancel, EditSource, Quiet, vars, Tamper, ExternalPut, ExternalRemove
    <2> QED
      BY <2>1, <1>0
  <1> QED
    BY <1>3, <1>4, <1>5, <1>6, <1>7, <1>8, <1>9, <1>10, <1>11, <1>12, <1>13, <1>14, <1>15,
       <1>16, <1>17, <1>18, <1>19, <1>20, <1>21, <1>22, <1>23 DEF Next, CopyStep, Environment, Ended

\* Each name holds an object that was renamed twice at most, or nothing.
LEMMA NextObjectsOK == CopyInv /\ [Next]_vars => ObjectsOK'
  <1> SUFFICES ASSUME CopyInv, [Next]_vars PROVE ObjectsOK'
    OBVIOUS
  <1> USE DEF CopyInv, ObjectsOK
  <1>0. /\ ConfigOK /\ LoopOK /\ ObjectsOK /\ SourceOK
        /\ OutcomeOK /\ ContractOK /\ HistoryOK
    BY DEF TypeOK, ConfigOK, LoopOK, ObjectsOK, SourceOK, OutcomeOK, ContractOK, HistoryOK
  <1>1. /\ cur \in Public /\ New("ours") \in Objects /\ New("box") \in Objects
        /\ Public \subseteq Public \cup Private /\ Private \subseteq Public \cup Private
        /\ Payload \in Private /\ Container \in Private /\ Backup \in Private
    BY OursIs, NamesAre DEF TypeOK
  <1>2. ASSUME NEW n \in Public \cup Private, NEW o \in Objects \cup {Nil}, Put(n, o)
        PROVE  fs' \in [Public \cup Private -> Objects \cup {Nil}]
    BY <1>0, <1>2 DEF Put, ObjectsOK
  <1>3. ASSUME Rename, fs[op.from] # Nil \/ (pc = "pub_check" /\ Validated),
               pc \in {"pub_check", "pub_rename"}
        PROVE  fs' \in [Public \cup Private -> Objects \cup {Nil}] /\ Moved \in Objects
    <2>1. Moved \in Objects
      BY <1>3, Renamed
    <2>2. op.from \in Public \cup Private /\ op.to \in Public \cup Private
      BY <1>1, <1>3, Aims
    <2> QED
      BY <1>0, <1>3, <2>1, <2>2 DEF Rename, ObjectsOK
  <1>4. pc = "pub_stat" => op.to \in Public \cup Private
    BY <1>1, Aims
  <1>5. \A x \in unborn: New(x) \in Objects
    BY NewIs DEF TypeOK
  <1>6. CASE ClaimContainer
    BY <1>6, <1>0, <1>1, <1>2 DEF ClaimContainer, publish
  <1>7. CASE OpenPayload
    BY <1>7, <1>0, <1>1, <1>2 DEF OpenPayload, publish
  <1>8. CASE PublishAtomically
    BY <1>8, <1>0, <1>1, <1>3 DEF PublishAtomically
  <1>9. CASE PublishRename
    BY <1>9, <1>0, <1>1, <1>3 DEF PublishRename
  <1>10. CASE PublishStat
    BY <1>10, <1>0, <1>1, <1>4 DEF PublishStat
  <1>11. CASE CloseContainer
    BY <1>11, <1>0, <1>1, <1>2 DEF CloseContainer, Remove, publish
  <1>12. CASE DropBackup
    BY <1>12, <1>0, <1>1, <1>2 DEF DropBackup, Remove, publish
  <1>13. CASE DropPayload
    BY <1>13, <1>0, <1>1, <1>2 DEF DropPayload, Remove, publish
  <1>14. CASE DropContainer
    BY <1>14, <1>0, <1>1, <1>2 DEF DropContainer, Remove, publish
  <1>15. CASE SendObject
    BY <1>15, <1>0, <1>1, <1>2 DEF SendObject, Appears, Vacant
  <1>16. CASE RollBack
    BY <1>16, <1>0, <1>1, <1>2 DEF RollBack, publish
  <1>17. ASSUME NEW x \in unborn, Tamper(x) PROVE ObjectsOK'
    BY <1>17, <1>0, <1>1, <1>2, <1>5 DEF Tamper, Quiet, publish
  <1>18. ASSUME NEW x \in unborn, NEW n \in Public, ExternalPut(n, x) PROVE ObjectsOK'
    BY <1>18, <1>0, <1>1, <1>2, <1>5 DEF ExternalPut, Direct, IdAt, Quiet, publish
  <1>19. ASSUME NEW n \in Public, ExternalRemove(n) PROVE ObjectsOK'
    BY <1>19, <1>0, <1>1, <1>2 DEF ExternalRemove, Remove, IdAt, Quiet, publish
  <1>20. CASE Start \/ Resolve \/ Probe \/ ExistsCheck \/ Intend \/ VerifyClaim \/ FillPayload
             \/ Capture \/ AnnounceAndPublish \/ Exhausted \/ PublishCheck \/ AfterPublish \/
             StageOwned \/ DeleteSource \/ ObserveVictim \/ PublishedFresh \/ BackedUp \/
             Committed \/ Restored \/ CancelledAtAwait \/ FirstChunk \/ CreateUpload \/
             UploadParts \/ AbortUpload \/ WriteEnds \/ CancelledInWrite \/ Cancel \/ EditSource
             \/ UNCHANGED vars
    <2>1. UNCHANGED <<fs, saved>>
      BY <1>20 DEF Start, publish, Resolve, Probe, ExistsCheck, Intend, VerifyClaim,
         FillPayload, Capture, AnnounceAndPublish, PublishStage, Publish, Exhausted,
         PublishCheck, AfterPublish, StageOwned, DeleteSource, ObserveVictim, PublishedFresh,
         BackedUp, Committed, Restored, CancelledAtAwait, FirstChunk, CreateUpload, UploadParts,
         AbortUpload, WriteEnds, CancelledInWrite, Cancel, EditSource, Quiet, vars
    <2> QED
      BY <2>1, <1>0
  <1> QED
    BY <1>6, <1>7, <1>8, <1>9, <1>10, <1>11, <1>12, <1>13, <1>14, <1>15, <1>16, <1>17, <1>18,
       <1>19, <1>20 DEF Next, CopyStep, Environment, Ended

\* The source keeps its type.
LEMMA NextSourceOK == CopyInv /\ [Next]_vars => SourceOK'
  <1> SUFFICES ASSUME CopyInv, [Next]_vars PROVE SourceOK'
    OBVIOUS
  <1> USE DEF CopyInv, SourceOK
  <1>0. /\ ConfigOK /\ LoopOK /\ ObjectsOK /\ SourceOK
        /\ OutcomeOK /\ ContractOK /\ HistoryOK
    BY DEF TypeOK, ConfigOK, LoopOK, ObjectsOK, SourceOK, OutcomeOK, ContractOK, HistoryOK
  <1>1. CASE Start
    BY <1>1, <1>0, CopyAssumption DEF Start, Awaiting, stage
  <1>2. CASE FillPayload
    BY <1>2, <1>0, CopyAssumption DEF FillPayload, stage
  <1>3. CASE DeleteSource
    BY <1>3, <1>0, CopyAssumption DEF DeleteSource, SourceAsSeen, stage
  <1>4. CASE FirstChunk
    BY <1>4, <1>0, CopyAssumption DEF FirstChunk, Awaiting
  <1>5. CASE UploadParts
    BY <1>5, <1>0, CopyAssumption DEF UploadParts, Awaiting
  <1>6. CASE EditSource
    BY <1>6, <1>0, CopyAssumption DEF EditSource, Quiet, stage
  <1>7. CASE Resolve \/ Probe \/ ExistsCheck \/ Intend \/ ClaimContainer \/ VerifyClaim \/
            OpenPayload \/ Capture \/ AnnounceAndPublish \/ Exhausted \/ PublishAtomically \/
            PublishCheck \/ PublishRename \/ PublishStat \/ AfterPublish \/ StageOwned \/
            CloseContainer \/ ObserveVictim \/ PublishedFresh \/ BackedUp \/ Committed \/
            Restored \/ DropBackup \/ DropPayload \/ DropContainer \/ CancelledAtAwait \/
            CreateUpload \/ SendObject \/ AbortUpload \/ RollBack \/ WriteEnds \/
            CancelledInWrite \/ Cancel \/ UNCHANGED vars \/ (\E x \in unborn: Tamper(x)) \/
            (\E x \in unborn: \E n \in Public: ExternalPut(n, x)) \/
            (\E n \in Public: ExternalRemove(n))
    <2>1. UNCHANGED <<src, carried, srcSeen>>
      BY <1>7 DEF Resolve, stage, Probe, ExistsCheck, Intend, ClaimContainer, VerifyClaim,
         OpenPayload, Capture, AnnounceAndPublish, Exhausted, PublishAtomically, PublishCheck,
         PublishRename, PublishStat, AfterPublish, StageOwned, CloseContainer, ObserveVictim,
         PublishedFresh, BackedUp, Committed, Restored, DropBackup, DropPayload, DropContainer,
         CancelledAtAwait, CreateUpload, SendObject, AbortUpload, RollBack, WriteEnds,
         CancelledInWrite, Cancel, vars, Tamper, Quiet, ExternalPut, ExternalRemove
    <2> QED
      BY <2>1, <1>0
  <1> QED
    BY <1>1, <1>2, <1>3, <1>4, <1>5, <1>6, <1>7 DEF Next, CopyStep, Environment, Ended

\* So does what the copy knows of its outcome, ...
LEMMA NextOutcomeOK == CopyInv /\ [Next]_vars => OutcomeOK'
  <1> SUFFICES ASSUME CopyInv, [Next]_vars PROVE OutcomeOK'
    OBVIOUS
  <1> USE DEF CopyInv, OutcomeOK, Failures, Results
  <1>0. /\ ConfigOK /\ LoopOK /\ ObjectsOK /\ SourceOK
        /\ OutcomeOK /\ ContractOK /\ HistoryOK
    BY DEF TypeOK, ConfigOK, LoopOK, ObjectsOK, SourceOK, OutcomeOK, ContractOK, HistoryOK
  <1>1. CASE Start
    BY <1>1, <1>0, Drains, Worsens DEF Start, Awaiting, Raise, staged, stage, publish
  <1>2. CASE Resolve
    BY <1>2, <1>0, Drains, Worsens DEF Resolve, Awaiting, Chosen, staged, Direct, Raise, stage,
       publish
  <1>3. CASE Probe
    BY <1>3, <1>0, Drains, Worsens DEF Probe, Awaiting, Chosen, staged, Direct, Raise, stage,
       publish
  <1>4. CASE Intend
    BY <1>4, <1>0, Drains, Worsens DEF Intend, Awaiting, Direct, Raise, staged, stage, publish
  <1>5. CASE ClaimContainer
    BY <1>5, <1>0, Drains, Worsens DEF ClaimContainer, Drained, Heard, stage, publish
  <1>6. CASE VerifyClaim
    BY <1>6, <1>0, Drains, Worsens DEF VerifyClaim, Drained, Heard, stage, publish, contract
  <1>7. CASE OpenPayload
    BY <1>7, <1>0, Drains, Worsens DEF OpenPayload, Drained, Heard, publish, contract
  <1>8. CASE FillPayload
    BY <1>8, <1>0, Drains, Worsens DEF FillPayload, Drained, Heard, stage, publish, contract
  <1>9. CASE Capture
    BY <1>9, <1>0, Drains, Worsens DEF Capture, Drained, Heard, stage, publish, contract
  <1>10. CASE AnnounceAndPublish
    BY <1>10, <1>0, Drains, Worsens DEF AnnounceAndPublish, Awaiting, MayTry, publish,
       PublishStage, Publish, stage
  <1>11. CASE Exhausted
    BY <1>11, <1>0, Drains, Worsens DEF Exhausted, MayTry, stage, publish, contract
  <1>12. CASE PublishAtomically
    BY <1>12, <1>0, Drains, Worsens DEF PublishAtomically, Answer, Drained, Heard, stage
  <1>13. CASE PublishCheck
    BY <1>13, <1>0, Drains, Worsens DEF PublishCheck, Answer, Drained, Heard, stage, contract
  <1>14. CASE PublishRename
    BY <1>14, <1>0, Drains, Worsens DEF PublishRename, Answer, Drained, Heard, stage
  <1>15. CASE PublishStat
    BY <1>15, <1>0, Drains, Worsens DEF PublishStat, Answer, Drained, Heard, stage, contract
  <1>16. CASE AfterPublish
    BY <1>16, <1>0, Drains, Worsens DEF AfterPublish, Lost, GiveUp, stage, publish, contract
  <1>17. CASE StageOwned
    BY <1>17, <1>0, Drains, Worsens, Owning DEF stage, publish, contract
  <1>18. CASE CloseContainer
    BY <1>18, <1>0, Drains, Worsens DEF CloseContainer, Drained, Heard, stage, publish
  <1>19. CASE DeleteSource
    BY <1>19, <1>0, Drains, Worsens DEF DeleteSource, SourceAsSeen, Drained, Heard, stage,
       publish
  <1>20. CASE PublishedFresh
    BY <1>20, <1>0, Drains, Worsens DEF PublishedFresh, Lost, GiveUp, stage, publish, contract
  <1>21. CASE BackedUp
    BY <1>21, <1>0, Drains, Worsens DEF BackedUp, publish, GiveUp, PublishStage, Publish, stage,
       contract
  <1>22. CASE Committed
    BY <1>22, <1>0, Drains, Worsens DEF Committed, publish, Publish, stage, contract
  <1>23. CASE Restored
    BY <1>23, <1>0, Drains, Worsens DEF Restored, stage, publish, contract
  <1>24. CASE DropBackup
    BY <1>24, <1>0, Drains, Worsens DEF DropBackup, Drained, Heard, stage, publish, contract
  <1>25. CASE DropPayload
    BY <1>25, <1>0, Drains, Worsens DEF DropPayload, Drained, Heard, stage, publish, contract
  <1>26. CASE DropContainer
    BY <1>26, <1>0, Drains, Worsens DEF DropContainer, Drained, Heard, stage, publish
  <1>27. CASE CancelledAtAwait
    BY <1>27, <1>0, Drains, Worsens DEF CancelledAtAwait, Raise, staged, stage, publish
  <1>28. CASE FirstChunk
    BY <1>28, <1>0, Drains, Worsens DEF FirstChunk, Awaiting, publish, contract
  <1>29. CASE CreateUpload
    BY <1>29, <1>0, Drains, Worsens DEF CreateUpload, Drained, Heard, publish, contract
  <1>30. CASE UploadParts
    BY <1>30, <1>0, Drains, Worsens DEF UploadParts, Awaiting, publish, contract
  <1>31. CASE SendObject
    BY <1>31, <1>0, Drains, Worsens DEF SendObject, Drained, Heard, Vacant
  <1>32. CASE AbortUpload
    BY <1>32, <1>0, Drains, Worsens DEF AbortUpload, Drained, Heard, publish, contract
  <1>33. CASE WriteEnds
    BY <1>33, <1>0, Drains, Worsens DEF WriteEnds, Heard, MayTry, stage, publish
  <1>34. CASE CancelledInWrite
    BY <1>34, <1>0, Drains, Worsens DEF CancelledInWrite, stage, publish, contract
  <1>35. CASE Cancel
    BY <1>35, <1>0, Drains, Worsens DEF Cancel, stage, publish, contract
  <1>37. CASE ExistsCheck
    BY <1>37, <1>0 DEF ExistsCheck, Awaiting, Raise, staged, stage, publish
  <1>38. CASE ObserveVictim
    <2>1. UNCHANGED <<claim, cancel, verdict>>
      BY <1>38 DEF ObserveVictim, Awaiting, stage, contract
    <2>2. res' = res
      BY <1>38 DEF ObserveVictim, PublishStage, Publish, publish
    <2>3. fail' \in {fail, "error"}
      BY <1>38 DEF ObserveVictim
    <2> QED
      BY <2>1, <2>2, <2>3, <1>0 DEF Failures
  <1>36. CASE RollBack \/ EditSource \/ UNCHANGED vars \/
             (\E x \in unborn: Tamper(x)) \/
             (\E x \in unborn: \E n \in Public: ExternalPut(n, x)) \/
             (\E n \in Public: ExternalRemove(n))
    <2>1. UNCHANGED <<claim, res, cancel, fail, verdict>>
      BY <1>36 DEF stage, publish, contract, RollBack, EditSource, Quiet, vars, Tamper,
         ExternalPut, ExternalRemove
    <2> QED
      BY <2>1, <1>0
  <1> QED
    BY <1>1, <1>2, <1>3, <1>4, <1>5, <1>6, <1>7, <1>8, <1>9, <1>10, <1>11, <1>12, <1>13, <1>14,
       <1>15, <1>16, <1>17, <1>18, <1>19, <1>20, <1>21, <1>22, <1>23, <1>24, <1>25, <1>26,
       <1>27, <1>28, <1>29, <1>30, <1>31, <1>32, <1>33, <1>34, <1>35, <1>36, <1>37, <1>38 DEF Next,
       CopyStep, Environment, Ended

\* ... what its caller sees, ...
LEMMA NextContractOK == CopyInv /\ [Next]_vars => ContractOK'
  <1> SUFFICES ASSUME CopyInv, [Next]_vars PROVE ContractOK'
    OBVIOUS
  <1> USE DEF CopyInv, ContractOK
  <1>0. /\ ConfigOK /\ LoopOK /\ ObjectsOK /\ SourceOK
        /\ OutcomeOK /\ ContractOK /\ HistoryOK
    BY DEF TypeOK, ConfigOK, LoopOK, ObjectsOK, SourceOK, OutcomeOK, ContractOK, HistoryOK
  <1>1. cur \in Public
    BY DEF TypeOK
  <1>2. CASE Intend
    BY <1>2, <1>0, <1>1 DEF Intend, Awaiting, Announced, Direct
  <1>3. CASE AnnounceAndPublish
    BY <1>3, <1>0, <1>1 DEF AnnounceAndPublish, Awaiting, MayTry, Announced
  <1>4. CASE PublishAtomically
    BY <1>4, <1>0, <1>1, Renames DEF PublishAtomically
  <1>5. CASE PublishRename
    BY <1>5, <1>0, <1>1, Renames DEF PublishRename
  <1>6. CASE CancelledAtAwait
    BY <1>6, <1>0, <1>1 DEF CancelledAtAwait
  <1>7. CASE SendObject
    BY <1>7, <1>0, <1>1 DEF SendObject, Appears, Vacant
  <1>8. CASE Start \/ Resolve \/ Probe \/ ExistsCheck \/ ClaimContainer \/ VerifyClaim \/
            OpenPayload \/ FillPayload \/ Capture \/ Exhausted \/ PublishCheck \/ PublishStat \/
            AfterPublish \/ StageOwned \/ CloseContainer \/ DeleteSource \/ ObserveVictim \/
            PublishedFresh \/ BackedUp \/ Committed \/ Restored \/ DropBackup \/ DropPayload \/
            DropContainer \/ FirstChunk \/ CreateUpload \/ UploadParts \/ AbortUpload \/
            RollBack \/ WriteEnds \/ CancelledInWrite \/ Cancel \/ EditSource \/ UNCHANGED vars
            \/ (\E x \in unborn: Tamper(x)) \/
            (\E x \in unborn: \E n \in Public: ExternalPut(n, x)) \/
            (\E n \in Public: ExternalRemove(n))
    <2>1. UNCHANGED <<announced, target, lost>>
      BY <1>8 DEF Start, Resolve, Probe, ExistsCheck, contract, ClaimContainer, VerifyClaim,
         OpenPayload, FillPayload, Capture, Exhausted, PublishCheck, PublishStat, AfterPublish,
         StageOwned, CloseContainer, DeleteSource, ObserveVictim, PublishedFresh, BackedUp,
         Committed, Restored, DropBackup, DropPayload, DropContainer, FirstChunk, CreateUpload,
         UploadParts, AbortUpload, RollBack, WriteEnds, CancelledInWrite, Cancel, EditSource,
         Quiet, vars, Tamper, ExternalPut, ExternalRemove
    <2> QED
      BY <2>1, <1>0
  <1> QED
    BY <1>2, <1>3, <1>4, <1>5, <1>6, <1>7, <1>8 DEF Next, CopyStep, Environment, Ended

\* ... and who exists.
LEMMA NextHistoryOK == CopyInv /\ [Next]_vars => HistoryOK'
  <1> SUFFICES ASSUME CopyInv, [Next]_vars PROVE HistoryOK'
    OBVIOUS
  <1> USE DEF CopyInv, HistoryOK
  <1>0. /\ ConfigOK /\ LoopOK /\ ObjectsOK /\ SourceOK
        /\ OutcomeOK /\ ContractOK /\ HistoryOK
    BY DEF TypeOK, ConfigOK, LoopOK, ObjectsOK, SourceOK, OutcomeOK, ContractOK, HistoryOK
  <1>1. fs[cur] # Nil /\ pc = "ovw_stat" => fs[cur].id \in Foreign
    BY Sides DEF TypeOK, Fresh, BackedUpSafely, Unpublished, Unwritten
  <1>2. CASE ObserveVictim
    BY <1>2, <1>0, <1>1 DEF ObserveVictim, Awaiting, MayTry, Sweep, publish, staged
  <1>3. ASSUME NEW x \in unborn, Tamper(x) PROVE HistoryOK'
    BY <1>3, <1>0, <1>1 DEF Tamper, Quiet
  <1>4. ASSUME NEW x \in unborn, NEW n \in Public, ExternalPut(n, x) PROVE HistoryOK'
    BY <1>4, <1>0, <1>1 DEF ExternalPut, Direct, IdAt, Quiet
  <1>5. ASSUME NEW n \in Public, ExternalRemove(n) PROVE HistoryOK'
    BY <1>5, <1>0, <1>1 DEF ExternalRemove, IdAt, Quiet
  <1>6. CASE Start \/ Resolve \/ Probe \/ ExistsCheck \/ Intend \/ ClaimContainer \/ VerifyClaim
            \/ OpenPayload \/ FillPayload \/ Capture \/ AnnounceAndPublish \/ Exhausted \/
            PublishAtomically \/ PublishCheck \/ PublishRename \/ PublishStat \/ AfterPublish \/
            StageOwned \/ CloseContainer \/ DeleteSource \/ PublishedFresh \/ BackedUp \/
            Committed \/ Restored \/ DropBackup \/ DropPayload \/ DropContainer \/
            CancelledAtAwait \/ FirstChunk \/ CreateUpload \/ UploadParts \/ SendObject \/
            AbortUpload \/ RollBack \/ WriteEnds \/ CancelledInWrite \/ Cancel \/ EditSource \/
            UNCHANGED vars
    <2>1. UNCHANGED <<unborn, alive, seen>>
      BY <1>6 DEF Start, history, Resolve, Probe, ExistsCheck, Intend, ClaimContainer,
         VerifyClaim, OpenPayload, FillPayload, Capture, AnnounceAndPublish, Exhausted,
         PublishAtomically, PublishCheck, PublishRename, PublishStat, AfterPublish, StageOwned,
         CloseContainer, DeleteSource, PublishedFresh, BackedUp, Committed, Restored,
         DropBackup, DropPayload, DropContainer, CancelledAtAwait, FirstChunk, CreateUpload,
         UploadParts, SendObject, AbortUpload, RollBack, WriteEnds, CancelledInWrite, Cancel,
         EditSource, Quiet, vars
    <2> QED
      BY <2>1, <1>0
  <1> QED
    BY <1>2, <1>3, <1>4, <1>5, <1>6 DEF Next, CopyStep, Environment, Ended

\* Every step shows its caller nothing or one thing.
LEMMA NextShows == CopyInv /\ [Next]_vars => Shows
  <1> SUFFICES ASSUME CopyInv, [Next]_vars PROVE Shows
    OBVIOUS
  <1> USE DEF CopyInv, Shows, Unwritten, Ending, Announcing, Publishes
  <1>1. /\ pc \in {"intend", "announce", "send"} => Unwritten
        /\ pc \in {"pub_check", "pub_rename"} /\ op.then # "restored" => Unwritten
    BY DEF Unpublished, Naming
  <1>2. pc \in {"pub_check", "pub_rename", "send"} => cur \in announced
    BY DEF Named, Publishing, Writing
  <1>3. lost \in BOOLEAN /\ (pc = "send" => pc # "end")
    BY DEF TypeOK
  <1>4. CASE Start
    BY <1>4, <1>1, <1>2, <1>3 DEF Start, Awaiting, Raise, staged
  <1>5. CASE Resolve
    BY <1>5, <1>1, <1>2, <1>3 DEF Resolve, Awaiting, Chosen, staged, Direct, Raise
  <1>6. CASE Probe
    BY <1>6, <1>1, <1>2, <1>3 DEF Probe, Awaiting, Chosen, staged, Direct, Raise
  <1>7. CASE Intend
    BY <1>7, <1>1, <1>2, <1>3 DEF Intend, Awaiting, Announced, Direct, Raise, staged
  <1>8. CASE ClaimContainer
    BY <1>8, <1>1, <1>2, <1>3 DEF ClaimContainer
  <1>9. CASE AnnounceAndPublish
    BY <1>9, <1>1, <1>2, <1>3 DEF AnnounceAndPublish, Awaiting, MayTry, Announced
  <1>10. CASE PublishAtomically
    BY <1>10, <1>1, <1>2, <1>3, Renames DEF PublishAtomically
  <1>11. CASE PublishRename
    BY <1>11, <1>1, <1>2, <1>3, Renames DEF PublishRename
  <1>12. CASE CloseContainer
    BY <1>12, <1>1, <1>2, <1>3 DEF CloseContainer
  <1>13. CASE DeleteSource
    BY <1>13, <1>1, <1>2, <1>3 DEF DeleteSource, SourceAsSeen
  <1>14. CASE DropContainer
    BY <1>14, <1>1, <1>2, <1>3 DEF DropContainer
  <1>15. CASE CancelledAtAwait
    BY <1>15, <1>1, <1>2, <1>3 DEF CancelledAtAwait, Raise, staged
  <1>16. CASE SendObject
    BY <1>16, <1>1, <1>2, <1>3 DEF SendObject, Appears, Vacant
  <1>17. CASE WriteEnds
    BY <1>17, <1>1, <1>2, <1>3 DEF WriteEnds, MayTry
  <1>19. CASE ExistsCheck
    BY <1>19, <1>1, <1>2, <1>3 DEF ExistsCheck, Awaiting, Raise, staged
  <1>18. CASE VerifyClaim \/ OpenPayload \/ FillPayload \/ Capture \/ Exhausted
             \/ PublishCheck \/ PublishStat \/ AfterPublish \/ StageOwned \/ ObserveVictim \/
             PublishedFresh \/ BackedUp \/ Committed \/ Restored \/ DropBackup \/ DropPayload \/
             FirstChunk \/ CreateUpload \/ UploadParts \/ AbortUpload \/ RollBack \/
             CancelledInWrite \/ Cancel \/ EditSource \/ UNCHANGED vars \/
             (\E x \in unborn: Tamper(x)) \/
             (\E x \in unborn: \E n \in Public: ExternalPut(n, x)) \/
             (\E n \in Public: ExternalRemove(n))
    <2>1. UNCHANGED <<announced, target, verdict, lost>>
      BY <1>18 DEF contract, VerifyClaim, OpenPayload, FillPayload, Capture,
         Exhausted, PublishCheck, PublishStat, AfterPublish, StageOwned, ObserveVictim,
         PublishedFresh, BackedUp, Committed, Restored, DropBackup, DropPayload, FirstChunk,
         CreateUpload, UploadParts, AbortUpload, RollBack, CancelledInWrite, Cancel, EditSource,
         Quiet, vars, Tamper, ExternalPut, ExternalRemove
    <2> QED
      BY <2>1, <1>1, <1>2, <1>3
  <1> QED
    BY <1>4, <1>5, <1>6, <1>7, <1>8, <1>9, <1>10, <1>11, <1>12, <1>13, <1>14, <1>15, <1>16,
       <1>17, <1>18, <1>19 DEF Next, CopyStep, Environment, Ended
-----------------------------------------------------------------------------
\* A copy begins with nothing announced, nothing claimed and nothing seen.
LEMMA InitHolds == Init => CopyInv
  <1> SUFFICES ASSUME Init PROVE CopyInv
    OBVIOUS
  <1> USE DEF Init
  <1>1. TypeOK
    <2>1. ConfigOK
      BY Zenon DEF ConfigOK
    <2>2. LoopOK
      BY CopyAssumption, NamesAre DEF LoopOK
    <2>3. ObjectsOK
      BY DEF ObjectsOK
    <2>4. SourceOK /\ OutcomeOK
      BY CopyAssumption DEF SourceOK, OutcomeOK, Results, Failures
    <2>5. ContractOK /\ HistoryOK
      BY DEF ContractOK, HistoryOK
    <2> QED
      BY <2>1, <2>2, <2>3, <2>4, <2>5 DEF TypeOK, ConfigOK, LoopOK, ObjectsOK, SourceOK,
         OutcomeOK, ContractOK, HistoryOK
  <1>2. Control /\ Publication
    BY DEF Control, Publication, Labels, Naming, Staging, Publishing, Published, Sweeping, Writing
  <1>3. Clean
    BY NilAssumption DEF Clean, Unspoiled, Undoing, Absorbed, Returned, Publishing
  <1>4. \A n \in Public \cup Private: fs[n] = Nil
    OBVIOUS
  <1>5. BackedUpSafely /\ Privately /\ Unmoved /\ Fresh /\ MovedOnce
    BY <1>4, NamesAre, NilAssumption DEF BackedUpSafely, Privately, Bare, Unmoved, Fresh,
       MovedOnce, Naming, Staging, Publishing, Sweeping
  <1>6. Observed /\ Unpublished /\ Appeared /\ Named
    BY NilAssumption DEF Observed, Unpublished, Unwritten, Appeared, Named, Naming, Staging,
       Publishing, Published, Sweeping, Writing
  <1>7. Carried
    BY NilAssumption DEF Carried, Versions, Holds, MoveKeepsData, staged
  <1>8. NoLoss
    BY DEF NoLoss
  <1> QED
    BY <1>1, <1>2, <1>3, <1>5, <1>6, <1>7, <1>8 DEF CopyInv

\* Every step keeps every variable's type.
LEMMA NextTypeOK == CopyInv /\ [Next]_vars => TypeOK'
  <1> SUFFICES ASSUME CopyInv, [Next]_vars PROVE TypeOK'
    OBVIOUS
  <1> USE DEF CopyInv
  <1>1. ConfigOK' /\ LoopOK' /\ ObjectsOK'
    BY NextConfigOK, NextLoopOK, NextObjectsOK
  <1>2. SourceOK' /\ OutcomeOK' /\ ContractOK' /\ HistoryOK'
    BY NextSourceOK, NextOutcomeOK, NextContractOK, NextHistoryOK
  <1> QED
    BY <1>1, <1>2 DEF TypeOK, ConfigOK, LoopOK, ObjectsOK, SourceOK, OutcomeOK, ContractOK,
       HistoryOK

\* And the invariant as a whole.
LEMMA StepHolds == CopyInv /\ [Next]_vars => CopyInv'
  <1> SUFFICES ASSUME CopyInv, [Next]_vars PROVE CopyInv'
    OBVIOUS
  <1> USE DEF CopyInv
  <1>1. TypeOK'
    BY NextTypeOK
  <1>2. Control' /\ Publication'
    BY NextControl, NextPublication
  <1>3. Clean'
    BY NextUnspoiled, NextUndoing, NextAbsorbed, NextReturned DEF Clean
  <1>4. BackedUpSafely' /\ Privately'
    BY NextBackedUpSafely, NextPrivately
  <1>5. Unmoved' /\ Fresh' /\ MovedOnce' /\ Observed'
    BY NextUnmoved, NextFresh, NextMovedOnce, NextObserved
  <1>6. Unpublished' /\ Appeared' /\ Named'
    BY NextUnpublished, NextAppeared, NextNamed
  <1>7. Carried'
    BY NextVersions, NextHolds, NextMoveKeepsData DEF Carried
  <1>8. NoLoss'
    BY NextNoLoss
  <1> QED
    BY <1>1, <1>2, <1>3, <1>4, <1>5, <1>6, <1>7, <1>8
-----------------------------------------------------------------------------
\* One copy or move, with what other processes do between two of its awaits and a
\* cancellation at any of them: the layers of the invariant hold together.
THEOREM CopyInvariant == Spec => []CopyInv
  <1>1. Init => CopyInv
    BY InitHolds
  <1>2. CopyInv /\ [Next]_vars => CopyInv'
    BY StepHolds
  <1> QED
    BY <1>1, <1>2, PTL DEF Spec

\* Every variable keeps its type; above all, no file is renamed more than twice and
\* no loop of _publish_owned_stage or _commit_overwrite exceeds its range.
THEOREM TypeCorrect == Spec => []TypeOK
  <1>1. CopyInv => TypeOK
    BY DEF CopyInv
  <1> QED
    BY <1>1, CopyInvariant, PTL

\* _publish_owned_stage, _commit_overwrite and write_stream lose no file of another
\* process, unless an OVERWRITE published its payload; and where a publish is
\* indivisible, only what _commit_overwrite had observed.
THEOREM NothingIsLost == Spec => []NoLoss
  <1>1. CopyInv => NoLoss
    BY DEF CopyInv
  <1> QED
    BY <1>1, CopyInvariant, PTL

\* A copy that returns has removed its stage, its container and its backup, and holds
\* no multipart upload: _cleanup_owned_stage and abort_multipart_upload raise what they
\* could not remove.
THEOREM NoResidueIsSilent == Spec => []NoSilentResidue
  <1>1. CopyInv => NoSilentResidue
    BY NamesAre DEF CopyInv, Privately, Bare, NoSilentResidue
  <1> QED
    BY <1>1, CopyInvariant, PTL

\* A copy that was cancelled while _durably_run drained raises, and raises the
\* cancellation, whatever failed afterwards; only a create_multipart_upload that
\* failed while it was drained raises its own error instead.
THEOREM CancellationIsRaised == Spec => []CancelIsRaised
  <1>1. CopyInv => CancelIsRaised
    BY DEF CopyInv, TypeOK, Control, Clean, Absorbed, Returned, CancelIsRaised
  <1> QED
    BY <1>1, CopyInvariant, PTL

\* _delete_observed_source deletes a source only when exactly the version that
\* _move_entry observed was published.
THEOREM MovesKeepData == Spec => []MoveKeepsData
  <1>1. CopyInv => MoveKeepsData
    BY DEF CopyInv, Carried
  <1> QED
    BY <1>1, CopyInvariant, PTL

\* Every copy is a run of CopyContract, by which the transfer runtime keeps its journal:
\* a name is announced before anything appears under it, and the verdict is true.
THEOREM ContractIsKept == Spec => ImplementsContract
  <1>1. Init => Contract!ContractInit
    BY DEF Init, Contract!ContractInit
  <1>2. CopyInv /\ CopyInv' /\ [Next]_vars => [Contract!ContractNext]_(Contract!contractVars)
    BY NextShows, Agrees DEF CopyInv
  <1> QED
    BY <1>1, <1>2, CopyInvariant, PTL DEF Spec, ImplementsContract, Contract!ContractSpec
=============================================================================
